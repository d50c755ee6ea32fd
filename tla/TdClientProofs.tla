--------------------------- MODULE TdClientProofs ---------------------------
(***************************************************************************)
(* Theorems about TdClient, for any number of callers and any bounds.      *)
(***************************************************************************)
EXTENDS TdClient, TLAPS

\* The prompt is for the state the loop is in.
PromptFor == loop = "prompt" => authorization_state \in Prompted

TypeInv == TypeOK /\ PromptFor

-----------------------------------------------------------------------------
(* The inductive invariant.  As long as there is a ClientManager the ids   *)
(* are fresh: what is in flight carries ids given out before, no two       *)
(* things in flight carry the same one, and so an answer finds the entry   *)
(* of the very call that waits for it.                                     *)

InFlight(id) == (\E q \in requests : q.id = id) \/ HasId(inbox, id)

IdsBelow(s, n) == \A i \in 1 .. Len(s) : s[i].id < n

IdsOnce(s) == \A i, j \in 1 .. Len(s) : s[i].id = s[j].id /\ s[i].id # 0 => i = j

IdsGivenOut ==
  /\ current_query_id > 0
  /\ \A q \in requests : q.id < current_query_id
  /\ IdsBelow(inbox, current_query_id)
  /\ \A h \in handlers : h.id < current_query_id /\ h.id # 0
  /\ \A c \in Callers : pc[c] # "idle" => /\ qid[c] < current_query_id
                                          /\ qid[c] # 0

IdsDistinct ==
  /\ \A q1, q2 \in requests : q1.id = q2.id => q1 = q2
  /\ IdsOnce(inbox)
  /\ \A q \in requests : q.id # 0 => ~HasId(inbox, q.id)
  /\ \A g, h \in handlers : g.id = h.id => g = h
  /\ \A c, d \in Callers :
       pc[c] # "idle" /\ pc[d] # "idle" /\ qid[c] = qid[d] => c = d

NotSentYet ==
  \A c \in Callers :
    pc[c] \in {"emplace", "send"} =>
      /\ ~InFlight(qid[c])
      /\ c \notin TimedCallers => ~finished[c]

OwnEntry ==
  \A c \in Callers : \A h \in handlers :
    pc[c] # "idle" /\ h.id = qid[c] =>
      /\ pc[c] # "emplace"
      /\ h.kind = "sync"
      /\ h.caller = c

StillWaits ==
  \A h \in handlers :
    h.kind = "sync" /\ h.caller \notin TimedCallers /\ InFlight(h.id) =>
      /\ pc[h.caller] = "wait"
      /\ qid[h.caller] = h.id
      /\ ~finished[h.caller]

Registered ==
  ~race => \A c \in Callers :
    pc[c] \in {"send", "wait"} =>
      /\ \E h \in handlers : h.id = qid[c]
      /\ pc[c] = "wait" /\ ~finished[c] => InFlight(qid[c])

AboutId(s, id, x) ==
  \A i \in 1 .. Len(s) : s[i].id = id /\ s[i].type = "result" => s[i].of = x

OwnQuestion ==
  \A c \in Callers :
    pc[c] = "wait" =>
      /\ \A q \in requests :
           q.id = qid[c] => q.fn = "call" /\ q.of = <<c, calls[c]>>
      /\ AboutId(inbox, qid[c], <<c, calls[c]>>)

LiveInv == IdsGivenOut /\ IdsDistinct /\ NotSentYet /\ OwnEntry /\ StillWaits
           /\ Registered /\ OwnQuestion

ClosedInv ==
  /\ need_restart \/ manager = "null" => authorization_state = "Closed"
  /\ manager = "null" => ~need_restart /\ requests = {} /\ inbox = <<>>
  /\ crashed => manager = "null"

IInv ==
  /\ TypeInv
  /\ manager = "live" => LiveInv
  /\ ClosedInv
  /\ OwnAnswer

-----------------------------------------------------------------------------
(* Typing.                                                                 *)

\* What a handler and a response carry.
LEMMA RecordsTyped ==
  /\ \A h \in Handler : h.id \in Nat /\ (h.kind = "sync" => h.caller \in Callers)
  /\ \A r \in Response :
       /\ r.id \in Nat
       /\ r.type = "auth" => r.id = 0 /\ r.state \in AuthState
       /\ r.type = "result" => r.of \in Question
  /\ \A q \in Request :
       q.id \in Nat /\ (q.fn = "call" => q.of \in Question)
<1>1. \A h \in Handler : h.id \in Nat
  BY DEF Handler
<1>2. \A h \in Handler : h.kind = "sync" => h.caller \in Callers
  BY DEF Handler
<1>3. \A r \in Response : r.id \in Nat
  BY DEF Response
<1>4. \A r \in Response : r.type = "auth" => r.id = 0 /\ r.state \in AuthState
  BY DEF Response
<1>5. \A r \in Response : r.type = "result" => r.of \in Question
  BY DEF Response
<1>6. \A q \in Request : q.id \in Nat
  BY DEF Request
<1>7. \A q \in Request : q.fn = "call" => q.of \in Question
  BY DEF Request
<1>8. QED  BY <1>1, <1>2, <1>3, <1>4, <1>5, <1>6, <1>7

\* send_query of the event loop keeps the types of what it writes.
LEMMA LoopSendTyped ==
  ASSUME TypeOK, NEW f \in Function \ {"call"}, NEW h \in Handler, LoopSend(f, h)
  PROVE  /\ current_query_id' \in Nat
         /\ handlers' \subseteq Handler
         /\ requests' \subseteq Request
<1>1. handlers' \subseteq Handler
  BY DEF TypeOK, LoopSend, Emplace
<1>2. [id |-> current_query_id, fn |-> f] \in Request
  BY DEF TypeOK, Request
<1>3. QED  BY <1>1, <1>2 DEF TypeOK, LoopSend

\* The two handlers that the event loop registers are handlers.
LEMMA LoopHandlersTyped ==
  ASSUME TypeOK
  PROVE  GetMeHandler \in Handler
         /\ create_authentication_query_handler \in Handler
BY DEF TypeOK, Handler, GetMeHandler, create_authentication_query_handler

\* on_authorization_state_update keeps the types of what it writes, and
\* prompts only in the states that ask the user.
LEMMA StateUpdateTyped ==
  ASSUME TypeOK, NEW s \in AuthState, on_authorization_state_update(s)
  PROVE  /\ is_authorized' \in BOOLEAN
         /\ need_restart' \in BOOLEAN
         /\ loop' \in {"idle", "prompt"}
         /\ phase' \in {"run", "close", "done"}
         /\ current_query_id' \in Nat
         /\ handlers' \subseteq Handler
         /\ requests' \subseteq Request
         /\ loop' = "prompt" => loop = "prompt" \/ s \in Prompted
<1>1. "getMe" \in Function \ {"call"} /\ \A t \in Silent : t \in Function \ {"call"}
  BY DEF Function, Silent
<1>2. CASE as_ready(s)
  BY <1>1, <1>2, LoopSendTyped, LoopHandlersTyped DEF as_ready, EndTurn, TypeOK
<1>3. CASE as_wait_silent(s)
  BY <1>1, <1>3, LoopSendTyped, LoopHandlersTyped
  DEF as_wait_silent, EndTurn, TypeOK
<1>4. CASE as_logging_out(s) \/ as_message_only(s) \/ as_closed(s)
  BY <1>4 DEF as_logging_out, as_message_only, as_closed, EndTurn, TypeOK,
              sendVars
<1>5. CASE as_wait_prompt(s)
  BY <1>5 DEF as_wait_prompt, TypeOK, sendVars
<1>6. QED  BY <1>2, <1>3, <1>4, <1>5 DEF on_authorization_state_update

\* A turn that does nothing but end keeps the types.
LEMMA NoEffectTyped ==
  ASSUME TypeOK, NoEffect
  PROVE  /\ phase' \in {"run", "close", "done"}
         /\ UNCHANGED <<is_authorized, need_restart, loop, sendVars>>
BY DEF TypeOK, NoEffect, EndTurn

\* One turn of receive keeps the types, whatever the response is.
LEMMA ReceiveTyped ==
  ASSUME TypeInv, receive, loop = "idle"
  PROVE  TypeInv'
<1> DEFINE r == Head(inbox)
<1>1. /\ r \in Response
      /\ inbox' \in Seq(Response)
      /\ UNCHANGED <<authentication_query_id, tdVars, manager, crashed>>
  BY DEF receive, TypeInv, TypeOK
<1>2. CASE r.id = 0 /\ process_update(r)
  <2>1. /\ UNCHANGED <<callerVars, user_id>>
        /\ race' \in BOOLEAN
    BY <1>2 DEF process_update, Raced, TypeInv, TypeOK
  <2>2. CASE r.type = "auth"
    <3>1. r.state \in AuthState
      BY <1>1, <2>2, RecordsTyped
    <3>2. /\ authorization_state' = r.state
          /\ on_authorization_state_update(r.state)
      BY <1>2, <2>2 DEF process_update
    <3>3. QED
      BY <1>1, <2>1, <3>1, <3>2, StateUpdateTyped
      DEF TypeInv, TypeOK, PromptFor, tdVars, callerVars
  <2>3. CASE r.type # "auth"
    <3>1. NoEffect /\ authorization_state' = authorization_state
      BY <1>2, <2>3 DEF process_update
    <3>2. QED
      BY <1>1, <2>1, <3>1, NoEffectTyped
      DEF TypeInv, TypeOK, PromptFor, tdVars, callerVars, sendVars
  <2>4. QED  BY <2>2, <2>3
<1>3. CASE r.id # 0 /\ run_handler(r)
  <2>1. race' \in BOOLEAN /\ authorization_state' = authorization_state
    BY <1>3 DEF run_handler, Raced, TypeInv, TypeOK
  <2>2. CASE \E h \in handlers : h.id = r.id /\ check_authentication_error(h, r)
    <3>1. /\ UNCHANGED <<callerVars, user_id>>
          /\ NoEffect \/ on_authorization_state_update(authorization_state)
      BY <2>2 DEF check_authentication_error
    <3>2. CASE NoEffect
      BY <1>1, <2>1, <3>1, <3>2, NoEffectTyped
      DEF TypeInv, TypeOK, PromptFor, tdVars, callerVars, sendVars
    <3>3. CASE on_authorization_state_update(authorization_state)
      BY <1>1, <2>1, <3>1, <3>3, StateUpdateTyped
      DEF TypeInv, TypeOK, PromptFor, tdVars, callerVars
    <3>4. QED  BY <3>1, <3>2, <3>3
  <2>3. CASE \E h \in handlers : h.id = r.id /\ got_me(h, r)
    <3>1. NoEffect /\ UNCHANGED callerVars /\ user_id' \in {0, 1}
      BY <2>3 DEF got_me, TypeInv, TypeOK
    <3>2. QED
      BY <1>1, <2>1, <3>1, NoEffectTyped
      DEF TypeInv, TypeOK, PromptFor, tdVars, callerVars, sendVars
  <2>4. CASE \E h \in handlers : h.id = r.id /\ got_answer(h, r)
    <3>1. PICK h \in handlers : got_answer(h, r)
      BY <2>4
    <3>2. r.id \in Nat /\ h.caller \in Callers
      BY <1>1, <3>1, RecordsTyped DEF got_answer, TypeInv, TypeOK
    <3>3. /\ NoEffect
          /\ UNCHANGED <<pc, qid, calls, user_id>>
          /\ finished' \in [Callers -> BOOLEAN]
          /\ retVal' \in [Callers -> Question \cup {NoAnswer}]
      BY <1>1, <3>1, <3>2, RecordsTyped DEF got_answer, TypeInv, TypeOK
    <3>4. QED
      BY <1>1, <2>1, <3>3, NoEffectTyped
      DEF TypeInv, TypeOK, PromptFor, tdVars, sendVars
  <2>5. CASE NoEffect /\ UNCHANGED <<callerVars, user_id>>
    BY <1>1, <2>1, <2>5, NoEffectTyped
    DEF TypeInv, TypeOK, PromptFor, tdVars, callerVars, sendVars
  <2>6. QED  BY <1>3, <2>2, <2>3, <2>4, <2>5 DEF run_handler
<1>4. QED  BY <1>2, <1>3 DEF receive, process_response

\* What TDLib adds to the inbox.
LEMMA AnswerTyped ==
  ASSUME TypeOK, NEW q \in requests, TdAnswer(q)
  PROVE  /\ inbox' \in Seq(Response)
         /\ tdState' \in AuthState
         /\ rejects' \in 0 .. MaxRejects
         /\ moves' \in 0 .. MaxMoves
         /\ requests' \subseteq Request
<1>1. q \in Request /\ q.id \in Nat /\ (q.fn = "call" => q.of \in Question)
  BY RecordsTyped DEF TypeOK
<1>2. /\ Answer(q, "ok") \in Response /\ Answer(q, "error") \in Response
      /\ Answer(q, "user") \in Response
      /\ q.fn = "call" => Result(q) \in Response
      /\ \A s \in AuthState : Update(s) \in Response
  BY <1>1 DEF Answer, Result, Update, Response
<1>3. requests' \subseteq Request
  BY DEF TdAnswer, TypeOK
<1>a. \A s \in Seq(Response) : \A a \in Response : Append(s, a) \in Seq(Response)
  OBVIOUS
<1>b. inbox \in Seq(Response)
  BY DEF TypeOK
<1>4. CASE TdAccept(q)
  <2>1. PICK s \in Passes : /\ tdState' = s
                            /\ \/ inbox' = Append(Append(inbox, Update(s)),
                                                 Answer(q, "ok"))
                               \/ inbox' = Append(Append(inbox, Answer(q, "ok")),
                                                 Update(s))
                            /\ UNCHANGED <<rejects, moves>>
    BY <1>4 DEF TdAccept
  <2>2. s \in AuthState
    BY PassesAssumption
  <2>3. inbox' \in Seq(Response)
    BY <1>2, <1>a, <1>b, <2>1, <2>2
  <2>4. QED  BY <1>3, <2>1, <2>2, <2>3 DEF TypeOK
<1>5. CASE TdReject(q)
  BY <1>2, <1>3, <1>5, TdClientAssumption DEF TdReject, TypeOK
<1>6. CASE TdReply(q)
  <2>1. \/ \E t \in {"ok", "error", "user"} : inbox' = Append(inbox, Answer(q, t))
        \/ q.fn = "call" /\ inbox' = Append(inbox, Result(q))
    BY <1>6 DEF TdReply
  <2>2. inbox' \in Seq(Response)
    BY <1>2, <1>a, <1>b, <2>1
  <2>3. QED  BY <1>3, <1>6, <2>2 DEF TdReply, TypeOK, tdVars
<1>7. CASE TdClose(q)
  <2>1. "Closing" \in AuthState
    BY DEF AuthState
  <2>2. /\ \/ inbox' = Append(Append(inbox, Answer(q, "ok")),
                              Update("Closing"))
           \/ inbox' = Append(inbox, Answer(q, "ok"))
        /\ tdState' = tdState \/ tdState' = "Closing"
        /\ UNCHANGED <<rejects, moves>>
    BY <1>7 DEF TdClose
  <2>3. inbox' \in Seq(Response)
    BY <1>2, <1>a, <1>b, <2>1, <2>2
  <2>4. QED  BY <1>3, <2>1, <2>2, <2>3 DEF TypeOK
<1>8. QED  BY <1>4, <1>5, <1>6, <1>7 DEF TdAnswer

\* Every step keeps the types.
LEMMA NextTyped == TypeInv /\ [Next]_vars => TypeInv'
<1> SUFFICES ASSUME TypeInv, [Next]_vars PROVE TypeInv'
  OBVIOUS
<1> USE DEF TypeInv, PromptFor
<1>1. CASE Loop
  <2>1. CASE receive
    BY <1>1, <2>1, ReceiveTyped DEF Loop
  <2>2. CASE restart
    <3>1. {} \subseteq Request /\ <<>> \in Seq(Response)
      OBVIOUS
    <3>2. phase' \in {"run", "close", "done"}
      BY <2>2 DEF restart, EndTurn, TypeOK
    <3>3. QED
      BY <2>2, <3>1, <3>2 DEF restart, TypeOK, callerVars, tdVars
  <2>3. CASE receive_timeout
    BY <2>3 DEF receive_timeout, TypeOK, callerVars, tdVars, sendVars
  <2>4. CASE receive_null
    BY <2>4 DEF receive_null, TypeOK, loopVars, callerVars, tdVars, sendVars
  <2>5. QED  BY <1>1, <2>1, <2>2, <2>3, <2>4 DEF Loop
<1>2. CASE UserInput
  <2>1. authorization_state \in Function \ {"call"}
    BY <1>2 DEF UserInput, Function, Prompted
  <2>2. QED
    BY <1>2, <2>1, LoopSendTyped, LoopHandlersTyped
    DEF UserInput, EndTurn, Raced, TypeOK, callerVars, tdVars
<1>3. CASE close
  <2>1. [id |-> current_query_id, fn |-> "close"] \in Request
    BY DEF TypeOK, Request, Function
  <2>2. /\ current_query_id' \in Nat
        /\ requests' \subseteq Request
        /\ handlers' = handlers
        /\ phase' \in {"run", "close", "done"}
        /\ crashed' \in BOOLEAN
    <3>1. CASE LoopSendPlain("close") /\ phase' = "close" /\ UNCHANGED crashed
      BY <2>1, <3>1 DEF LoopSendPlain, TypeOK
    <3>2. CASE crashed' = TRUE /\ UNCHANGED <<sendVars, phase>>
      BY <3>2 DEF TypeOK, sendVars
    <3>3. QED  BY <1>3, <3>1, <3>2 DEF close
  <2>3. UNCHANGED <<is_authorized, need_restart, authorization_state, loop,
                    authentication_query_id, callerVars, tdVars, manager,
                    user_id, inbox, race>>
    BY <1>3 DEF close
  <2>4. QED
    BY <2>2, <2>3 DEF TypeOK, callerVars, tdVars
<1>4. CASE \E c \in Callers : CallStep(c)
  <2>1. PICK c \in Callers : CallStep(c)
    BY <1>4
  <2>2. CASE CallBegin(c)
    BY <2>2, TdClientAssumption DEF CallBegin, Raced, TypeOK, loopVars, tdVars
  <2>3. CASE CallEmplace(c)
    <3>1. [id |-> qid[c], kind |-> "sync", caller |-> c] \in Handler
      BY DEF TypeOK, Handler
    <3>2. handlers' \subseteq Handler
      BY <2>3, <3>1 DEF CallEmplace, Emplace, TypeOK
    <3>3. QED  BY <2>3, <3>2 DEF CallEmplace, TypeOK, loopVars, tdVars
  <2>4. CASE CallSend(c)
    <3>1. [id |-> qid[c], fn |-> "call", of |-> <<c, calls[c]>>] \in Request
      BY DEF TypeOK, Request, Question
    <3>2. requests' \subseteq Request
      BY <2>4, <3>1 DEF CallSend, TypeOK
    <3>3. QED  BY <2>4, <3>2 DEF CallSend, TypeOK, loopVars, tdVars
  <2>5. CASE CallReturn(c)
    BY <2>5 DEF CallReturn, TypeOK, loopVars, tdVars, sendVars
  <2>6. QED  BY <2>1, <2>2, <2>3, <2>4, <2>5 DEF CallStep
<1>5. CASE \E q \in requests : TdAnswer(q)
  <2>1. PICK q \in requests : TdAnswer(q)
    BY <1>5
  <2>2. /\ inbox' \in Seq(Response)
        /\ tdState' \in AuthState
        /\ rejects' \in 0 .. MaxRejects
        /\ moves' \in 0 .. MaxMoves
        /\ requests' \subseteq Request
    BY <2>1, AnswerTyped
  <2>3. UNCHANGED <<loopVars, callerVars, manager, user_id, current_query_id,
                    handlers, race, crashed>>
    BY <2>1 DEF TdAnswer
  <2>4. QED
    BY <2>2, <2>3 DEF TypeOK, loopVars, callerVars
<1>6. CASE TdMove
  <2>1. tdState' \in AuthState
    BY <1>6, PassesAssumption DEF TdMove
  <2>2. Update(tdState') \in Response
    BY <2>1 DEF Update, Response
  <2>3. QED
    BY <1>6, <2>1, <2>2, TdClientAssumption
    DEF TdMove, TypeOK, loopVars, callerVars, sendVars
<1>7. CASE UNCHANGED vars
  BY <1>7 DEF vars, TypeOK, loopVars, callerVars, tdVars, sendVars
<1>8. QED  BY <1>1, <1>2, <1>3, <1>4, <1>5, <1>6, <1>7 DEF Next

\* The initial state has its types.
LEMMA InitTyped == Init => TypeInv
<1> SUFFICES ASSUME Init PROVE TypeInv
  OBVIOUS
<1>1. Update("WaitTdlibParameters") \in Response
  BY DEF Update, Response, AuthState, Silent
<1>2. requests \subseteq Request
  BY DEF Init, Request, Function
<1>3. inbox \in Seq(Response)
  BY <1>1 DEF Init
<1>4. "WaitTdlibParameters" \in AuthState
  BY DEF AuthState, Silent
<1>5. calls \in [Callers -> 0 .. MaxCalls] /\ rejects \in 0 .. MaxRejects
      /\ moves \in 0 .. MaxMoves
  BY TdClientAssumption DEF Init
<1>6. retVal \in [Callers -> Question \cup {NoAnswer}] /\ qid \in [Callers -> Nat]
  BY DEF Init
<1>7. QED
  BY <1>2, <1>3, <1>4, <1>5, <1>6 DEF Init, TypeInv, TypeOK, PromptFor

\* TypeOK, for any number of callers and any bounds: whatever responses TDLib
\* sends in whatever order, class Td keeps to its types and the prompt on
\* stdin is the one of the present authorization state.
THEOREM Typed == Spec => []TypeOK
<1>1. Spec => []TypeInv
  BY InitTyped, NextTyped, PTL DEF Spec
<1>2. TypeInv => TypeOK
  BY DEF TypeInv
<1>3. QED  BY <1>1, <1>2, PTL

-----------------------------------------------------------------------------
(* The ids in a sequence of responses.                                     *)

\* Taking the first response away.
LEMMA TailIds ==
  ASSUME NEW s \in Seq(Response), s # <<>>
  PROVE  /\ \A id : HasId(Tail(s), id) => HasId(s, id)
         /\ \A id : HasId(s, id) /\ id # Head(s).id => HasId(Tail(s), id)
         /\ HasId(s, Head(s).id)
         /\ \A n : IdsBelow(s, n) => IdsBelow(Tail(s), n)
         /\ \A id, x : AboutId(s, id, x) => AboutId(Tail(s), id, x)
         /\ IdsOnce(s) => /\ IdsOnce(Tail(s))
                          /\ Head(s).id # 0 => ~HasId(Tail(s), Head(s).id)
<1>1. /\ Len(s) \in Nat \ {0} /\ Len(Tail(s)) = Len(s) - 1
      /\ Head(s) = s[1]
      /\ \A i \in 1 .. Len(Tail(s)) : Tail(s)[i] = s[i + 1]
  OBVIOUS
<1>2. \A id : HasId(Tail(s), id) => HasId(s, id)
  <2> SUFFICES ASSUME NEW id, NEW i \in 1 .. Len(Tail(s)), Tail(s)[i].id = id
               PROVE  HasId(s, id)
    BY DEF HasId
  <2>1. i + 1 \in 1 .. Len(s) /\ s[i + 1].id = id
    BY <1>1
  <2>2. QED  BY <2>1 DEF HasId
<1>3. \A id : HasId(s, id) /\ id # Head(s).id => HasId(Tail(s), id)
  <2> SUFFICES ASSUME NEW id, NEW i \in 1 .. Len(s), s[i].id = id, id # s[1].id
               PROVE  HasId(Tail(s), id)
    BY <1>1 DEF HasId
  <2>1. i - 1 \in 1 .. Len(Tail(s)) /\ (i - 1) + 1 = i
    BY <1>1
  <2>2. Tail(s)[i - 1].id = id
    BY <1>1, <2>1
  <2>3. QED  BY <2>1, <2>2 DEF HasId
<1>4. HasId(s, Head(s).id)
  BY <1>1 DEF HasId
<1>5. \A n : IdsBelow(s, n) => IdsBelow(Tail(s), n)
  BY <1>1 DEF IdsBelow
<1>6. ASSUME IdsOnce(s)
      PROVE  IdsOnce(Tail(s)) /\ (Head(s).id # 0 => ~HasId(Tail(s), Head(s).id))
  <2>1. \A i \in 1 .. Len(Tail(s)) : i + 1 \in 1 .. Len(s)
    BY <1>1
  <2>2. IdsOnce(Tail(s))
    <3> SUFFICES ASSUME NEW i \in 1 .. Len(Tail(s)), NEW j \in 1 .. Len(Tail(s)),
                        Tail(s)[i].id = Tail(s)[j].id, Tail(s)[i].id # 0
                 PROVE  i = j
      BY DEF IdsOnce
    <3>1. i + 1 = j + 1
      BY <1>1, <1>6, <2>1 DEF IdsOnce
    <3>2. QED  BY <1>1, <3>1
  <2>3. ASSUME Head(s).id # 0, HasId(Tail(s), Head(s).id)
        PROVE  FALSE
    <3>1. PICK i \in 1 .. Len(Tail(s)) : Tail(s)[i].id = s[1].id
      BY <1>1, <2>3 DEF HasId
    <3>2. i + 1 = 1
      BY <1>1, <1>6, <2>1, <2>3, <3>1 DEF IdsOnce
    <3>3. QED  BY <1>1, <3>1, <3>2
  <2>4. QED  BY <2>2, <2>3
<1>7. \A id, x : AboutId(s, id, x) => AboutId(Tail(s), id, x)
  BY <1>1 DEF AboutId
<1>8. QED  BY <1>2, <1>3, <1>4, <1>5, <1>6, <1>7

\* Adding a response at the end.
LEMMA AppendIds ==
  ASSUME NEW s \in Seq(Response), NEW a \in Response
  PROVE  /\ Append(s, a) \in Seq(Response)
         /\ \A id : HasId(Append(s, a), id) <=> HasId(s, id) \/ id = a.id
         /\ \A n : IdsBelow(s, n) /\ a.id < n => IdsBelow(Append(s, a), n)
         /\ IdsOnce(s) /\ (a.id = 0 \/ ~HasId(s, a.id)) => IdsOnce(Append(s, a))
         /\ \A id, x : AboutId(s, id, x) /\ (a.id = id /\ a.type = "result" => a.of = x)
                        => AboutId(Append(s, a), id, x)
<1> DEFINE t == Append(s, a)
<1>1. /\ t \in Seq(Response) /\ Len(s) \in Nat /\ Len(t) = Len(s) + 1
      /\ t[Len(s) + 1] = a
      /\ \A i \in 1 .. Len(s) : t[i] = s[i]
  OBVIOUS
<1>2. 1 .. Len(t) = 1 .. Len(s) \cup {Len(s) + 1}
  BY <1>1
<1> HIDE DEF t
<1>3. \A id : HasId(t, id) <=> HasId(s, id) \/ id = a.id
  BY <1>1, <1>2 DEF HasId
<1>4. \A n : IdsBelow(s, n) /\ a.id < n => IdsBelow(t, n)
  BY <1>1, <1>2 DEF IdsBelow
<1>5. ASSUME IdsOnce(s), a.id = 0 \/ ~HasId(s, a.id)
      PROVE  IdsOnce(t)
  BY <1>1, <1>2, <1>5 DEF IdsOnce, HasId
<1>6. \A id, x : AboutId(s, id, x) /\ (a.id = id /\ a.type = "result" => a.of = x)
                  => AboutId(t, id, x)
  BY <1>1, <1>2 DEF AboutId
<1>7. QED  BY <1>1, <1>3, <1>4, <1>5, <1>6 DEF t

\* Nothing is said of an id that is not there.
LEMMA AboutNothing ==
  ASSUME NEW s, NEW id, NEW x, ~HasId(s, id)
  PROVE  AboutId(s, id, x)
BY DEF HasId, AboutId

\* The bound on the ids, without the positions.
LEMMA BelowIds ==
  ASSUME NEW s \in Seq(Response), NEW n \in Nat
  PROVE  /\ IdsBelow(s, n) => \A id : HasId(s, id) => id < n
         /\ IdsBelow(s, n) => IdsBelow(s, n + 1)
<1>1. \A i \in 1 .. Len(s) : s[i].id \in Nat
  BY RecordsTyped
<1>2. QED  BY <1>1 DEF IdsBelow, HasId

-----------------------------------------------------------------------------
(* The steps of the event loop.                                            *)

\* At most one query of the loop's own, under a fresh id.
QuerySent ==
  \/ UNCHANGED <<current_query_id, requests, handlers>>
  \/ /\ current_query_id' = current_query_id + 1
     /\ \E f \in Function \ {"call"} :
          requests' = requests \cup {[id |-> current_query_id, fn |-> f]}
     /\ \/ handlers' = handlers
        \/ \E h \in Handler : /\ h.id = current_query_id /\ h.kind # "sync"
                              /\ handlers' = handlers \cup {h}

\* The loop may take responses, end calls and send one query of its own.
LoopEffect ==
  /\ UNCHANGED <<pc, qid, calls>>
  /\ race => race'
  /\ IdsBelow(inbox', current_query_id) /\ IdsOnce(inbox')
  /\ \A id : HasId(inbox', id) => HasId(inbox, id)
  /\ \A id, x : AboutId(inbox, id, x) => AboutId(inbox', id, x)
  /\ QuerySent
  /\ \A c \in Callers : finished[c] => finished'[c]
  /\ \A c \in Callers \ TimedCallers :
       finished'[c] # finished[c] =>
         pc[c] = "wait" /\ HasId(inbox, qid[c]) /\ ~HasId(inbox', qid[c])
  /\ ~race' => \A c \in Callers :
       pc[c] = "wait" /\ ~finished'[c] /\ HasId(inbox, qid[c])
         => HasId(inbox', qid[c])

\* What is in flight after such a step was so before, or is the new query.
LEMMA LoopFlight ==
  ASSUME TypeOK, IdsGivenOut, LoopEffect
  PROVE  /\ current_query_id \in Nat
         /\ current_query_id' \in {current_query_id, current_query_id + 1}
         /\ \A q \in requests' : \/ q \in requests
                                 \/ /\ q.id = current_query_id
                                    /\ current_query_id' = current_query_id + 1
         /\ \A q1, q2 \in requests' : q1 \notin requests /\ q2 \notin requests
                                        => q1 = q2
         /\ requests \subseteq requests'
         /\ \A h \in handlers' : \/ h \in handlers
                                 \/ /\ h.id = current_query_id
                                    /\ h.kind # "sync"
                                    /\ current_query_id' = current_query_id + 1
         /\ \A g, h \in handlers' : g \notin handlers /\ h \notin handlers
                                      => g = h
         /\ handlers \subseteq handlers'
         /\ \A id : HasId(inbox, id) => id < current_query_id
BY BelowIds DEF TypeOK, IdsGivenOut, LoopEffect, QuerySent

\* What the loop does to the handlers and the queries keeps the live part.
LEMMA LoopKeeps ==
  ASSUME TypeOK, TypeOK', LiveInv, LoopEffect
  PROVE  LiveInv'
<1> USE DEF LiveInv
<1>0. /\ \A q \in requests' : q.id \in Nat
      /\ \A h \in handlers' : h.id \in Nat
      /\ \A c \in Callers : qid[c] \in Nat /\ pc[c] \in {"idle", "emplace", "send", "wait"}
      /\ UNCHANGED <<pc, qid, calls>>
  BY RecordsTyped DEF TypeOK, Request, LoopEffect
<1>1. IdsGivenOut'
  <2>1. IdsBelow(inbox', current_query_id')
    <3>1. IdsBelow(inbox', current_query_id)
      BY DEF LoopEffect
    <3>2. inbox' \in Seq(Response)
      BY DEF TypeOK
    <3>3. /\ current_query_id \in Nat
          /\ current_query_id' \in {current_query_id, current_query_id + 1}
      BY LoopFlight
    <3> QED  BY ONLY <3>1, <3>2, <3>3, BelowIds
  <2>2. QED
    BY <1>0, <2>1, LoopFlight DEF IdsGivenOut
<1>2. IdsDistinct'
  <2>1. /\ \A q1, q2 \in requests' : q1.id = q2.id => q1 = q2
    BY LoopFlight DEF IdsGivenOut, IdsDistinct
  <2>2. \A q \in requests' : q.id # 0 => ~HasId(inbox', q.id)
    BY <1>0, LoopFlight DEF IdsGivenOut, IdsDistinct, LoopEffect
  <2>3. \A g, h \in handlers' : g.id = h.id => g = h
    BY LoopFlight DEF IdsGivenOut, IdsDistinct
  <2>4. IdsOnce(inbox')
    BY DEF LoopEffect
  <2>5. \A c, d \in Callers :
          pc'[c] # "idle" /\ pc'[d] # "idle" /\ qid'[c] = qid'[d] => c = d
    BY <1>0 DEF IdsDistinct
  <2> QED  BY <2>1, <2>2, <2>3, <2>4, <2>5 DEF IdsDistinct
<1>3. ASSUME NEW id \in Nat, id < current_query_id, InFlight(id)'
      PROVE  InFlight(id)
  BY <1>3, LoopFlight DEF InFlight, LoopEffect
<1>4. NotSentYet'
  <2> SUFFICES ASSUME NEW c \in Callers, pc[c] \in {"emplace", "send"}
               PROVE  ~InFlight(qid[c])' /\ (c \notin TimedCallers => ~finished'[c])
    BY <1>0 DEF NotSentYet, InFlight
  <2>1. ~InFlight(qid[c])' 
    BY <1>0, <1>3 DEF NotSentYet, IdsGivenOut
  <2>2. c \notin TimedCallers => ~finished'[c]
    BY DEF NotSentYet, LoopEffect
  <2>3. QED  BY <2>1, <2>2
<1>5. OwnEntry'
  BY <1>0, LoopFlight DEF OwnEntry, IdsGivenOut
<1>6. StillWaits'
  <2> SUFFICES ASSUME NEW h \in handlers', h.kind = "sync",
                      h.caller \notin TimedCallers, InFlight(h.id)'
               PROVE  /\ pc[h.caller] = "wait"
                      /\ qid[h.caller] = h.id
                      /\ ~finished'[h.caller]
    BY <1>0 DEF StillWaits, InFlight
  <2>1. h \in handlers /\ h.id < current_query_id /\ h.id # 0
    BY LoopFlight DEF IdsGivenOut
  <2>2. InFlight(h.id)
    BY <1>0, <1>3, <2>1
  <2>3. /\ pc[h.caller] = "wait" /\ qid[h.caller] = h.id
        /\ ~finished[h.caller]
    BY <2>1, <2>2 DEF StillWaits
  <2>4. h.caller \in Callers
    BY <2>1, RecordsTyped DEF TypeOK
  <2>5. ~finished'[h.caller]
    <3> SUFFICES ASSUME finished'[h.caller] # finished[h.caller] PROVE FALSE
      BY <2>3
    <3>1. HasId(inbox, h.id) /\ ~HasId(inbox', h.id)
      BY <2>3, <2>4 DEF LoopEffect
    <3>2. \E q \in requests' : q.id = h.id
      BY <3>1 DEF InFlight
    <3>3. \E q \in requests : q.id = h.id
      BY <1>0, <2>1, <3>2, LoopFlight
    <3>4. QED  BY <2>1, <3>1, <3>3 DEF IdsDistinct
  <2>6. QED  BY <2>3, <2>5
<1>7. Registered'
  <2> SUFFICES ASSUME ~race', NEW c \in Callers, pc[c] \in {"send", "wait"}
               PROVE  /\ \E h \in handlers' : h.id = qid[c]
                      /\ pc[c] = "wait" /\ ~finished'[c] => InFlight(qid[c])'
    BY <1>0 DEF Registered, InFlight
  <2>1. ~race
    BY DEF LoopEffect
  <2>2. \E h \in handlers' : h.id = qid[c]
    BY <2>1, LoopFlight DEF Registered
  <2>3. ASSUME pc[c] = "wait", ~finished'[c]
        PROVE  InFlight(qid[c])'
    <3>1. InFlight(qid[c])
      BY <2>1, <2>3 DEF Registered, LoopEffect
    <3>2. HasId(inbox, qid[c]) => HasId(inbox', qid[c])
      BY <2>3 DEF LoopEffect
    <3>3. QED  BY <1>0, <3>1, <3>2, LoopFlight DEF InFlight
  <2>4. QED  BY <2>2, <2>3
<1>8. OwnQuestion'
  <2>1. \A c \in Callers : pc[c] = "wait" =>
          AboutId(inbox', qid[c], <<c, calls[c]>>)
    BY DEF OwnQuestion, LoopEffect
  <2>2. ASSUME NEW c \in Callers, pc[c] = "wait", NEW q \in requests',
               q.id = qid[c]
        PROVE  q.fn = "call" /\ q.of = <<c, calls[c]>>
    <3>1. qid[c] # current_query_id
      BY <1>0, <2>2, LoopFlight DEF IdsGivenOut
    <3>2. q \in requests
      BY <2>2, <3>1, LoopFlight
    <3>3. QED  BY <2>2, <3>2 DEF OwnQuestion
  <2>3. QED  BY <1>0, <2>1, <2>2 DEF OwnQuestion
<1>9. QED  BY <1>1, <1>2, <1>4, <1>5, <1>6, <1>7, <1>8

\* send_query and on_authorization_state_update send at most one query.
LEMMA SendSent ==
  ASSUME TypeOK, NEW f \in Function \ {"call"},
         NEW h \in {GetMeHandler, create_authentication_query_handler},
         LoopSend(f, h)
  PROVE  QuerySent
<1>1. h \in Handler /\ h.id = current_query_id /\ h.kind # "sync"
  BY LoopHandlersTyped DEF GetMeHandler, create_authentication_query_handler
<1>2. handlers' = handlers \/ handlers' = handlers \cup {h}
  BY DEF LoopSend, Emplace
<1>3. QED  BY <1>1, <1>2 DEF LoopSend, QuerySent

\* An update makes the loop send at most one query, with a fresh id.
LEMMA UpdateSent ==
  ASSUME TypeOK, NEW s \in AuthState, on_authorization_state_update(s)
  PROVE  QuerySent
<1>1. "getMe" \in Function \ {"call"} /\ \A t \in Silent : t \in Function \ {"call"}
  BY DEF Function, Silent
<1>2. CASE as_ready(s)
  BY <1>1, <1>2, SendSent DEF as_ready
<1>3. CASE as_wait_silent(s)
  BY <1>1, <1>3, SendSent DEF as_wait_silent
<1>4. CASE as_logging_out(s) \/ as_message_only(s) \/ as_closed(s)
           \/ as_wait_prompt(s)
  BY <1>4 DEF as_logging_out, as_message_only, as_closed, as_wait_prompt,
              sendVars, QuerySent
<1>5. QED  BY <1>2, <1>3, <1>4 DEF on_authorization_state_update

\* A step that leaves the inbox and the callers alone is a loop effect.
LEMMA QuietEffect ==
  ASSUME LiveInv, QuerySent, UNCHANGED <<pc, qid, calls, finished, inbox>>,
         race => race'
  PROVE  LoopEffect
BY DEF LiveInv, IdsGivenOut, IdsDistinct, LoopEffect

\* Handling the response at the head of the inbox ends the call that waits
\* for it, and no other.
LEMMA ReceiveEffect ==
  ASSUME TypeOK, LiveInv, receive
  PROVE  LoopEffect
<1> DEFINE r == Head(inbox)
<1>1. /\ r \in Response /\ r.id \in Nat
      /\ inbox \in Seq(Response) /\ inbox # <<>> /\ inbox' = Tail(inbox)
  BY RecordsTyped DEF receive, TypeOK
<1>2. /\ HasId(inbox, r.id)
      /\ \A id : HasId(inbox', id) => HasId(inbox, id)
      /\ \A id : HasId(inbox, id) /\ id # r.id => HasId(inbox', id)
      /\ IdsBelow(inbox', current_query_id) /\ IdsOnce(inbox')
      /\ \A id, x : AboutId(inbox, id, x) => AboutId(inbox', id, x)
      /\ r.id # 0 => ~HasId(inbox', r.id)
  BY <1>1, TailIds DEF LiveInv, IdsGivenOut, IdsDistinct
<1> HIDE DEF r
<1>3. CASE r.id = 0 /\ process_update(r)
  <2>0. UNCHANGED callerVars /\ (race' = Raced \/ race' = race)
    BY <1>3 DEF process_update
  <2>1. race => race'
    <3>1. race' = Raced => (race => race')
      BY DEF Raced
    <3>2. race' = race => (race => race')
      OBVIOUS
    <3>3. QED  BY <2>0, <3>1, <3>2
  <2>2. QuerySent
    <3>1. CASE r.type = "auth"
      BY <1>1, <1>3, <3>1, UpdateSent, RecordsTyped DEF process_update
    <3>2. CASE r.type # "auth"
      BY <1>3, <3>2 DEF process_update, NoEffect, sendVars, QuerySent
    <3>3. QED  BY <3>1, <3>2
  <2>3. \A c \in Callers : pc[c] = "wait" => qid[c] # r.id
    BY <1>3 DEF LiveInv, IdsGivenOut
  <2>4. QED  BY <1>2, <2>0, <2>1, <2>2, <2>3 DEF LoopEffect, callerVars
<1>4. CASE r.id # 0 /\ run_handler(r)
  <2>0. race' = Raced /\ UNCHANGED <<pc, qid, calls>>
    BY <1>4 DEF run_handler, check_authentication_error, got_me, got_answer,
                callerVars
  <2>1. UNCHANGED <<pc, qid, calls>> /\ race' = Raced /\ (race => race')
    BY <2>0 DEF Raced
  <2>2. QuerySent
    <3>1. CASE NoEffect
      BY <3>1 DEF NoEffect, sendVars, QuerySent
    <3>2. CASE on_authorization_state_update(authorization_state)
      BY <3>2, UpdateSent DEF TypeOK
    <3>3. QED
      BY <1>4, <3>1, <3>2 DEF run_handler, check_authentication_error, got_me,
                              got_answer
  <2>3. \/ UNCHANGED finished
        \/ \E h \in handlers : /\ h.id = r.id /\ h.kind = "sync"
                               /\ finished' = [finished EXCEPT ![h.caller] = TRUE]
    BY <1>4 DEF run_handler, check_authentication_error, got_me, got_answer,
                callerVars
  <2>4. \A h \in handlers : h.kind = "sync" => h.caller \in Callers
    BY RecordsTyped DEF TypeOK
  <2>5. \A c \in Callers : finished[c] => finished'[c]
    BY <2>3 DEF TypeOK
  <2>6. ASSUME NEW c \in Callers \ TimedCallers, finished'[c] # finished[c]
        PROVE  pc[c] = "wait" /\ HasId(inbox, qid[c]) /\ ~HasId(inbox', qid[c])
    <3>1. PICK h \in handlers : h.id = r.id /\ h.kind = "sync" /\ h.caller = c
      BY <2>3, <2>6 DEF TypeOK
    <3>2. InFlight(h.id)
      BY <1>2, <3>1 DEF InFlight
    <3>3. pc[c] = "wait" /\ qid[c] = r.id
      BY <3>1, <3>2 DEF LiveInv, StillWaits
    <3>4. QED  BY <1>2, <1>4, <3>3
  <2>7. ASSUME ~race', NEW c \in Callers, pc[c] = "wait", ~finished'[c],
               HasId(inbox, qid[c])
        PROVE  HasId(inbox', qid[c])
    <3> SUFFICES ASSUME qid[c] = r.id PROVE FALSE
      BY <1>2, <2>7
    <3>1. ~race /\ ~Raced
      BY <2>1, <2>7
    <3>2. PICK g \in handlers : g.id = r.id
      BY <2>7, <3>1 DEF LiveInv, Registered
    <3>3. PICK h \in handlers :
            /\ h.id = r.id
            /\ \/ check_authentication_error(h, r)
               \/ got_me(h, r)
               \/ got_answer(h, r)
      BY <1>4, <3>1, <3>2 DEF run_handler
    <3>4. h.kind = "sync" /\ h.caller = c
      BY <2>7, <3>3 DEF LiveInv, OwnEntry
    <3>5. got_answer(h, r)
      BY <3>3, <3>4 DEF check_authentication_error, got_me
    <3>6. finished'[c]
      BY <2>7, <3>4, <3>5 DEF got_answer, TypeOK
    <3>7. QED  BY <2>7, <3>6
  <2>8. QED  BY <1>2, <2>1, <2>2, <2>5, <2>6, <2>7 DEF LoopEffect
<1>5. QED  BY <1>3, <1>4 DEF receive, process_response, r

\* Every turn of the loop, the prompt and close keep LiveInv while there is a
\* ClientManager.
LEMMA LoopLive ==
  ASSUME TypeInv, TypeOK', LiveInv, manager' = "live",
         Loop \/ UserInput \/ close
  PROVE  LiveInv'
<1>1. TypeOK
  BY DEF TypeInv
<1>2. CASE Loop
  <2>1. CASE receive
    BY <1>1, <2>1, ReceiveEffect, LoopKeeps
  <2>2. CASE restart
    BY <2>2 DEF restart
  <2>3. CASE receive_timeout \/ receive_null
    <3>1. QuerySent /\ UNCHANGED <<pc, qid, calls, finished, inbox, race>>
      BY <2>3 DEF receive_timeout, receive_null, QuerySent, sendVars, callerVars
    <3>2. QED  BY <1>1, <3>1, QuietEffect, LoopKeeps
  <2>4. QED  BY <1>2, <2>1, <2>2, <2>3 DEF Loop
<1>3. CASE UserInput
  <2>1. UNCHANGED <<pc, qid, calls, finished, inbox>> /\ race' = Raced
    BY <1>3 DEF UserInput, callerVars
  <2>2. race => race'
    BY <2>1 DEF Raced
  <2>3. authorization_state \in Function \ {"call"}
    BY <1>3 DEF TypeInv, PromptFor, UserInput, Function, Prompted
  <2>4. QuerySent
    BY <1>1, <1>3, <2>3, SendSent DEF UserInput
  <2>5. QED  BY <1>1, <2>1, <2>2, <2>4, QuietEffect, LoopKeeps
<1>4. CASE close
  <2>1. UNCHANGED <<pc, qid, calls, finished, inbox, race>>
    BY <1>4 DEF close, callerVars
  <2>2. "close" \in Function \ {"call"}
    BY DEF Function
  <2>3. QuerySent
    BY <1>4, <2>2 DEF close, LoopSendPlain, sendVars, QuerySent
  <2>4. QED  BY <1>1, <2>1, <2>3, QuietEffect, LoopKeeps
<1>5. QED  BY <1>2, <1>3, <1>4

-----------------------------------------------------------------------------
(* The steps of TDLib.                                                     *)

\* TDLib puts the answer to q, and perhaps an update, behind what is there.
LEMMA AnswerFlight ==
  ASSUME TypeOK, LiveInv, NEW q \in requests, TdAnswer(q)
  PROVE  /\ UNCHANGED <<current_query_id, handlers, race, callerVars>>
         /\ requests' = requests \ {q}
         /\ IdsBelow(inbox', current_query_id) /\ IdsOnce(inbox')
         /\ \A id : id # 0 => (HasId(inbox', id) <=> HasId(inbox, id) \/ id = q.id)
         /\ \A id, x : id # 0 /\ AboutId(inbox, id, x) /\ (q.id = id => q.of = x)
                         => AboutId(inbox', id, x)
<1>1. /\ q.id \in Nat /\ q.id < current_query_id
      /\ q.id # 0 => ~HasId(inbox, q.id)
      /\ inbox \in Seq(Response) /\ 0 < current_query_id
      /\ IdsBelow(inbox, current_query_id) /\ IdsOnce(inbox)
  BY RecordsTyped DEF TypeOK, LiveInv, IdsGivenOut, IdsDistinct
<1>2. UNCHANGED <<current_query_id, handlers, race, callerVars>>
      /\ requests' = requests \ {q}
  BY DEF TdAnswer
<1>3. /\ \A t \in {"ok", "error", "user"} :
           Answer(q, t) \in Response /\ Answer(q, t).id = q.id
             /\ Answer(q, t).type # "result"
      /\ q.fn = "call" => Result(q) \in Response
      /\ Result(q).id = q.id /\ Result(q).of = q.of
  BY <1>1, RecordsTyped DEF Answer, Result, Response, TypeOK
<1>4. \A s \in AuthState : Update(s) \in Response /\ Update(s).id = 0
  BY DEF Update, Response
<1> DEFINE Good(s) ==
      /\ IdsBelow(s, current_query_id) /\ IdsOnce(s)
      /\ \A id : id # 0 => (HasId(s, id) <=> HasId(inbox, id) \/ id = q.id)
      /\ \A id, x : id # 0 /\ AboutId(inbox, id, x) /\ (q.id = id => q.of = x)
                      => AboutId(s, id, x)
<1>5. ASSUME NEW a \in Response, a.id = q.id, a.type = "result" => a.of = q.of
      PROVE  Good(Append(inbox, a))
  BY <1>1, <1>5, AppendIds
<1>6. ASSUME NEW a \in Response, NEW b \in Response, b.id = 0,
             a.id = q.id, a.type = "result" => a.of = q.of
      PROVE  /\ Good(Append(Append(inbox, a), b))
             /\ Good(Append(Append(inbox, b), a))
  <2>1. Good(Append(Append(inbox, a), b))
    <3>1. Append(inbox, a) \in Seq(Response)
      BY <1>1, AppendIds
    <3>2. QED  BY <1>1, <1>5, <1>6, <3>1, AppendIds
  <2>2. /\ Append(inbox, b) \in Seq(Response)
        /\ IdsBelow(Append(inbox, b), current_query_id)
        /\ IdsOnce(Append(inbox, b))
        /\ \A id : id # 0 => (HasId(Append(inbox, b), id) <=> HasId(inbox, id))
        /\ \A id, x : id # 0 /\ AboutId(inbox, id, x)
                        => AboutId(Append(inbox, b), id, x)
    BY <1>1, <1>6, AppendIds
  <2>3. Good(Append(Append(inbox, b), a))
    BY <1>1, <1>6, <2>2, AppendIds
  <2>4. QED  BY <2>1, <2>3
<1>7. \/ \E t \in {"ok", "error", "user"} :
           inbox' = Append(inbox, Answer(q, t))
      \/ q.fn = "call" /\ inbox' = Append(inbox, Result(q))
      \/ \E s \in AuthState :
           \/ inbox' = Append(Append(inbox, Update(s)), Answer(q, "ok"))
           \/ inbox' = Append(Append(inbox, Answer(q, "ok")), Update(s))
  <2>1. CASE TdAccept(q)
    BY <2>1, PassesAssumption DEF TdAccept
  <2>2. CASE TdReject(q)
    BY <2>2 DEF TdReject
  <2>3. CASE TdReply(q)
    BY <2>3 DEF TdReply
  <2>4. CASE TdClose(q)
    BY <2>4 DEF TdClose, AuthState
  <2>5. QED  BY <2>1, <2>2, <2>3, <2>4 DEF TdAnswer
<1>8. Good(inbox')
  <2> HIDE DEF Good
  <2>1. ASSUME NEW t \in {"ok", "error", "user"} PROVE Good(Append(inbox, Answer(q, t)))
    <3>1. /\ Answer(q, t) \in Response /\ Answer(q, t).id = q.id
          /\ Answer(q, t).type # "result"
      BY <1>3
    <3> QED  BY ONLY <3>1, <1>5
  <2>2. q.fn = "call" => Good(Append(inbox, Result(q)))
    BY ONLY <1>3, <1>5
  <2>3. ASSUME NEW s \in AuthState
        PROVE  /\ Good(Append(Append(inbox, Update(s)), Answer(q, "ok")))
               /\ Good(Append(Append(inbox, Answer(q, "ok")), Update(s)))
    <3>1. /\ Answer(q, "ok") \in Response /\ Answer(q, "ok").id = q.id
          /\ Answer(q, "ok").type # "result"
      BY <1>3
    <3>2. Update(s) \in Response /\ Update(s).id = 0
      BY <1>4
    <3> QED  BY ONLY <3>1, <3>2, <1>6
  <2> QED  BY ONLY <1>7, <2>1, <2>2, <2>3
<1>9. QED  BY <1>2, <1>8

\* TDLib answering a query keeps the live part.
LEMMA AnswerLive ==
  ASSUME TypeOK, LiveInv, NEW q \in requests, TdAnswer(q)
  PROVE  LiveInv'
<1>1. /\ UNCHANGED <<current_query_id, handlers, race, pc, qid, finished, calls>>
      /\ requests' = requests \ {q}
      /\ IdsBelow(inbox', current_query_id) /\ IdsOnce(inbox')
      /\ \A id : id # 0 => (HasId(inbox', id) <=> HasId(inbox, id) \/ id = q.id)
      /\ \A id, x : id # 0 /\ AboutId(inbox, id, x) /\ (q.id = id => q.of = x)
                      => AboutId(inbox', id, x)
  BY AnswerFlight DEF callerVars
<1>2. \A id : id # 0 => (InFlight(id)' <=> InFlight(id))
  BY <1>1 DEF InFlight, LiveInv, IdsDistinct
<1>3. IdsGivenOut' /\ IdsDistinct'
  BY <1>1 DEF LiveInv, IdsGivenOut, IdsDistinct
<1>4. NotSentYet' /\ OwnEntry' /\ StillWaits' /\ Registered'
  BY <1>1, <1>2
  DEF LiveInv, IdsGivenOut, NotSentYet, OwnEntry, StillWaits, Registered
<1>5. OwnQuestion'
  BY <1>1 DEF LiveInv, IdsGivenOut, OwnQuestion
<1>6. QED  BY <1>3, <1>4, <1>5 DEF LiveInv

\* TDLib changing the account's state by itself keeps the live part.
LEMMA MoveLive ==
  ASSUME TypeOK, LiveInv, TdMove
  PROVE  LiveInv'
<1>1. tdState' \in AuthState
  BY PassesAssumption DEF TdMove
<1>2. Update(tdState') \in Response /\ Update(tdState').id = 0
  BY <1>1 DEF Update, Response
<1>3. /\ UNCHANGED <<current_query_id, requests, handlers, race, pc, qid,
                     finished, calls>>
      /\ IdsBelow(inbox', current_query_id) /\ IdsOnce(inbox')
      /\ \A id : id # 0 => (HasId(inbox', id) <=> HasId(inbox, id))
      /\ \A id, x : id # 0 /\ AboutId(inbox, id, x) => AboutId(inbox', id, x)
  BY <1>2, AppendIds
  DEF TdMove, TypeOK, sendVars, callerVars, LiveInv, IdsGivenOut, IdsDistinct
<1>4. \A id : id # 0 => (InFlight(id)' <=> InFlight(id))
  BY <1>3 DEF InFlight
<1>5. IdsGivenOut' /\ IdsDistinct'
  BY <1>3 DEF LiveInv, IdsGivenOut, IdsDistinct
<1>6. NotSentYet' /\ OwnEntry' /\ StillWaits' /\ Registered'
  BY <1>3, <1>4
  DEF LiveInv, IdsGivenOut, NotSentYet, OwnEntry, StillWaits, Registered
<1>7. OwnQuestion'
  BY <1>3 DEF LiveInv, IdsGivenOut, OwnQuestion
<1>8. QED  BY <1>5, <1>6, <1>7 DEF LiveInv

-----------------------------------------------------------------------------
(* The steps of a caller.                                                  *)

\* What is in flight or registered has an id given out before.
LEMMA FreshId ==
  ASSUME TypeOK, LiveInv
  PROVE  /\ ~InFlight(current_query_id)
         /\ \A h \in handlers : h.id # current_query_id
         /\ current_query_id \in Nat \ {0}
BY BelowIds DEF TypeOK, LiveInv, IdsGivenOut, InFlight, Request

\* send_query_sync taking an id keeps the live part.
LEMMA BeginLive ==
  ASSUME TypeOK, LiveInv, NEW c \in Callers, CallBegin(c)
  PROVE  LiveInv'
<1>1. /\ UNCHANGED <<requests, inbox, handlers>>
      /\ current_query_id' = current_query_id + 1
      /\ pc[c] = "idle" /\ pc' = [pc EXCEPT ![c] = "emplace"]
      /\ qid' = [qid EXCEPT ![c] = current_query_id]
      /\ finished' = [finished EXCEPT ![c] = FALSE]
      /\ calls' = [calls EXCEPT ![c] = @ + 1]
      /\ race => race'
  <2>1. race' = Raced
    BY DEF CallBegin
  <2>2. race => race'
    BY <2>1 DEF Raced
  <2>3. QED  BY <2>2 DEF CallBegin
<1>2. \A id : InFlight(id)' <=> InFlight(id)
  BY <1>1 DEF InFlight
<1>3. IdsBelow(inbox, current_query_id + 1)
  BY BelowIds DEF TypeOK, LiveInv, IdsGivenOut
<1>4. /\ \A q \in requests : q.id \in Nat
      /\ \A h \in handlers : h.id \in Nat
      /\ current_query_id \in Nat
      /\ pc \in [Callers -> {"idle", "emplace", "send", "wait"}]
      /\ qid \in [Callers -> Nat] /\ finished \in [Callers -> BOOLEAN]
  BY RecordsTyped DEF TypeOK, Request
<1>5. IdsGivenOut'
  <2>1. \A d \in Callers : pc'[d] # "idle" => /\ qid'[d] < current_query_id + 1
                                              /\ qid'[d] # 0
    BY <1>1, <1>4 DEF LiveInv, IdsGivenOut
  <2>2. QED  BY <1>1, <1>3, <1>4, <2>1 DEF LiveInv, IdsGivenOut
<1>6. IdsDistinct'
  BY <1>1, <1>4 DEF LiveInv, IdsGivenOut, IdsDistinct
<1>7. NotSentYet'
  BY <1>1, <1>2, <1>4, FreshId DEF LiveInv, NotSentYet
<1>8. OwnEntry'
  BY <1>1, <1>4, FreshId DEF LiveInv, OwnEntry
<1>9. StillWaits'
  BY <1>1, <1>2, <1>4 DEF LiveInv, StillWaits
<1>10. Registered'
  BY <1>1, <1>2, <1>4 DEF LiveInv, Registered
<1>11. OwnQuestion'
  <2>1. \A d \in Callers : pc'[d] = "wait" => /\ pc[d] = "wait"
                                              /\ qid'[d] = qid[d]
                                              /\ calls'[d] = calls[d]
    BY <1>1, <1>4 DEF TypeOK
  <2>2. QED  BY <1>1, <2>1 DEF LiveInv, OwnQuestion
<1>12. QED
  BY <1>5, <1>6, <1>7, <1>8, <1>9, <1>10, <1>11 DEF LiveInv

\* send_query_sync registering its handler keeps the live part.
LEMMA EmplaceLive ==
  ASSUME TypeOK, LiveInv, NEW c \in Callers, CallEmplace(c)
  PROVE  LiveInv'
<1> DEFINE e == [id |-> qid[c], kind |-> "sync", caller |-> c]
<1>1. /\ UNCHANGED <<requests, inbox, current_query_id, qid, calls, finished,
                     race>>
      /\ pc[c] = "emplace" /\ pc' = [pc EXCEPT ![c] = "send"]
      /\ handlers' = Emplace(e) \/ (race /\ handlers' = handlers)
  BY DEF CallEmplace
<1>2. \A h \in handlers : h.id # qid[c]
  BY <1>1 DEF LiveInv, OwnEntry
<1>3. handlers' = handlers \cup {e} \/ (race /\ handlers' = handlers)
  BY <1>1, <1>2 DEF Emplace
<1>4. \A id : InFlight(id)' <=> InFlight(id)
  BY <1>1 DEF InFlight
<1>5. /\ pc \in [Callers -> {"idle", "emplace", "send", "wait"}]
      /\ e.id = qid[c] /\ e.kind = "sync" /\ e.caller = c
      /\ ~InFlight(qid[c])
  BY <1>1 DEF TypeOK, LiveInv, NotSentYet
<1> HIDE DEF e
<1>6. IdsGivenOut' /\ IdsDistinct'
  BY <1>1, <1>2, <1>3, <1>5 DEF LiveInv, IdsGivenOut, IdsDistinct
<1>7. NotSentYet'
  BY <1>1, <1>4, <1>5 DEF LiveInv, NotSentYet
<1>8. OwnEntry'
  BY <1>1, <1>3, <1>5 DEF LiveInv, OwnEntry, IdsDistinct
<1>9. StillWaits'
  BY <1>1, <1>3, <1>4, <1>5 DEF LiveInv, StillWaits
<1>10. Registered'
  BY <1>1, <1>3, <1>4, <1>5 DEF LiveInv, Registered
<1>11. OwnQuestion'
  BY <1>1, <1>5 DEF LiveInv, OwnQuestion
<1>12. QED  BY <1>6, <1>7, <1>8, <1>9, <1>10, <1>11 DEF LiveInv

\* send_query_sync sending its question keeps the live part.
LEMMA SendLive ==
  ASSUME TypeOK, LiveInv, NEW c \in Callers, CallSend(c)
  PROVE  LiveInv'
<1>1. CASE UNCHANGED <<requests, pc>>
  BY <1>1 DEF CallSend, LiveInv, IdsGivenOut, IdsDistinct, NotSentYet, OwnEntry,
              StillWaits, Registered, OwnQuestion, InFlight
<1>2. CASE /\ requests' = requests \cup
                 {[id |-> qid[c], fn |-> "call", of |-> <<c, calls[c]>>]}
           /\ pc' = [pc EXCEPT ![c] = "wait"]
  <2>1. /\ UNCHANGED <<handlers, inbox, current_query_id, qid, calls, finished,
                       race>>
        /\ pc[c] = "send"
        /\ pc \in [Callers -> {"idle", "emplace", "send", "wait"}]
    BY DEF CallSend, TypeOK
  <2>2. /\ ~InFlight(qid[c])
        /\ c \notin TimedCallers => ~finished[c]
        /\ qid[c] # 0 /\ qid[c] < current_query_id
    BY <2>1 DEF LiveInv, NotSentYet, IdsGivenOut
  <2>3. \A id : InFlight(id)' <=> InFlight(id) \/ id = qid[c]
    <3> DEFINE n == [id |-> qid[c], fn |-> "call", of |-> <<c, calls[c]>>]
    <3>1. requests' = requests \cup {n} /\ n.id = qid[c]
      BY <1>2
    <3> HIDE DEF n
    <3>2. \A id : (\E q \in requests' : q.id = id)
                  <=> (\E q \in requests : q.id = id) \/ id = qid[c]
      BY <3>1
    <3>3. QED  BY <2>1, <3>2 DEF InFlight
  <2>4. IdsGivenOut' /\ IdsDistinct'
    BY <1>2, <2>1, <2>2 DEF LiveInv, IdsGivenOut, IdsDistinct, InFlight
  <2>5. NotSentYet'
    BY <1>2, <2>1, <2>2, <2>3 DEF LiveInv, NotSentYet, IdsDistinct
  <2>6. OwnEntry'
    BY <1>2, <2>1 DEF LiveInv, OwnEntry
  <2>7. StillWaits'
    <3>1. \A h \in handlers : h.kind = "sync" => h.caller \in Callers
      BY RecordsTyped DEF TypeOK
    <3>2. \A h \in handlers : h.id = qid[c] => h.kind = "sync" /\ h.caller = c
      BY <2>1 DEF LiveInv, OwnEntry
    <3>3. QED
      BY <1>2, <2>1, <2>2, <2>3, <3>1, <3>2 DEF LiveInv, StillWaits
  <2>8. Registered'
    BY <1>2, <2>1, <2>3 DEF LiveInv, Registered
  <2>9. OwnQuestion'
    <3>1. ~HasId(inbox, qid[c]) /\ \A q \in requests : q.id # qid[c]
      BY <2>2 DEF InFlight
    <3>2. AboutId(inbox, qid[c], <<c, calls[c]>>)
      BY <3>1, AboutNothing
    <3>3. \A d \in Callers : pc[d] = "wait" => qid[d] # qid[c]
      BY <2>1 DEF LiveInv, IdsDistinct
    <3>4. QED
      BY <1>2, <2>1, <3>1, <3>2, <3>3 DEF LiveInv, OwnQuestion
  <2>10. QED  BY <2>4, <2>5, <2>6, <2>7, <2>8, <2>9 DEF LiveInv
<1>3. QED  BY <1>1, <1>2 DEF CallSend

\* send_query_sync returning keeps the live part.
LEMMA ReturnLive ==
  ASSUME TypeOK, LiveInv, NEW c \in Callers, CallReturn(c)
  PROVE  LiveInv'
<1>1. /\ UNCHANGED <<requests, handlers, inbox, current_query_id, qid, calls,
                     finished, race>>
      /\ pc' = [pc EXCEPT ![c] = "idle"]
      /\ pc \in [Callers -> {"idle", "emplace", "send", "wait"}]
      /\ finished[c] \/ c \in TimedCallers
  BY DEF CallReturn, TypeOK, sendVars
<1>2. \A id : InFlight(id)' <=> InFlight(id)
  BY <1>1 DEF InFlight
<1>3. IdsGivenOut' /\ IdsDistinct'
  BY <1>1 DEF LiveInv, IdsGivenOut, IdsDistinct
<1>4. NotSentYet' /\ OwnEntry'
  BY <1>1, <1>2 DEF LiveInv, NotSentYet, OwnEntry
<1>5. StillWaits'
  BY <1>1, <1>2 DEF LiveInv, StillWaits
<1>6. Registered'
  BY <1>1, <1>2 DEF LiveInv, Registered
<1>7. OwnQuestion'
  BY <1>1 DEF LiveInv, OwnQuestion
<1>8. QED  BY <1>3, <1>4, <1>5, <1>6, <1>7 DEF LiveInv

-----------------------------------------------------------------------------
(* The invariant and what follows from it.                                 *)

\* LiveInv is kept by every step after which there is a ClientManager.
LEMMA LiveKept ==
  TypeInv /\ TypeOK' /\ manager = "live" /\ manager' = "live" /\ LiveInv
    /\ [Next]_vars => LiveInv'
<1> SUFFICES ASSUME TypeInv, TypeOK', manager' = "live", LiveInv, [Next]_vars
             PROVE  LiveInv'
  OBVIOUS
<1>1. TypeOK
  BY DEF TypeInv
<1>2. CASE Loop \/ UserInput \/ close
  BY <1>2, LoopLive
<1>3. CASE \E c \in Callers : CallStep(c)
  BY <1>1, <1>3, BeginLive, EmplaceLive, SendLive, ReturnLive DEF CallStep
<1>4. CASE \E q \in requests : TdAnswer(q)
  BY <1>1, <1>4, AnswerLive
<1>5. CASE TdMove
  BY <1>1, <1>5, MoveLive
<1>6. CASE UNCHANGED vars
  <2>1. UNCHANGED <<current_query_id, requests, handlers, pc, qid, calls,
                    finished, inbox, race>>
    BY <1>6 DEF vars, sendVars, callerVars
  <2>2. QED
    BY <2>1 DEF LiveInv, IdsGivenOut, IdsDistinct, NotSentYet, OwnEntry,
                StillWaits, Registered, OwnQuestion, InFlight
<1>7. QED  BY <1>2, <1>3, <1>4, <1>5, <1>6 DEF Next

\* A ClientManager is never made again; the step that ends it is restart.
LEMMA ManagerSteps ==
  ASSUME TypeOK, [Next]_vars
  PROVE  manager' = manager \/ restart
BY DEF Next, Loop, receive, receive_timeout, receive_null, UserInput, close,
       CallStep, CallBegin, CallEmplace, CallSend, CallReturn, TdAnswer, TdMove,
       vars

\* Only as_closed asks for a restart.
LEMMA ReceiveClosed ==
  ASSUME TypeOK, ClosedInv, receive
  PROVE  need_restart' => authorization_state' = "Closed"
<1> DEFINE r == Head(inbox)
<1>1. ~need_restart
  BY DEF receive
<1>2. \A s : on_authorization_state_update(s) /\ need_restart' => s = "Closed"
  BY <1>1 DEF on_authorization_state_update, as_ready, as_logging_out,
              as_message_only, as_closed, as_wait_silent, as_wait_prompt
<1>3. NoEffect => ~need_restart'
  BY <1>1 DEF NoEffect
<1>4. CASE process_update(r)
  BY <1>2, <1>3, <1>4 DEF process_update
<1>5. CASE run_handler(r)
  BY <1>2, <1>3, <1>5
  DEF run_handler, check_authentication_error, got_me, got_answer
<1>6. QED  BY <1>4, <1>5 DEF receive, process_response

\* Every step keeps the link between restart and authorizationStateClosed.
LEMMA ClosedKept == TypeInv /\ ClosedInv /\ [Next]_vars => ClosedInv'
<1> SUFFICES ASSUME TypeInv, ClosedInv, [Next]_vars PROVE ClosedInv'
  OBVIOUS
<1>0. TypeOK /\ (loop = "prompt" => authorization_state # "Closed")
  BY DEF TypeInv, PromptFor, Prompted
<1>1. CASE Loop
  <2>1. CASE restart
    BY <2>1 DEF restart, ClosedInv
  <2>2. CASE receive
    <3>1. /\ manager' = "live" /\ UNCHANGED crashed /\ manager = "live"
      BY <2>2 DEF receive
    <3>2. QED  BY <1>0, <2>2, <3>1, ReceiveClosed DEF ClosedInv
  <2>3. CASE receive_timeout
    BY <2>3 DEF receive_timeout, sendVars, ClosedInv
  <2>4. CASE receive_null
    BY <2>4 DEF receive_null, loopVars, sendVars, ClosedInv
  <2>5. QED  BY <1>1, <2>1, <2>2, <2>3, <2>4 DEF Loop
<1>2. CASE UserInput
  <2>1. manager # "null"
    BY <1>0, <1>2 DEF UserInput, ClosedInv
  <2>2. QED  BY <1>2, <2>1 DEF UserInput, ClosedInv
<1>3. CASE close
  BY <1>0, <1>3 DEF close, sendVars, ClosedInv, TypeOK
<1>4. CASE \E c \in Callers : CallStep(c)
  <2>1. PICK c \in Callers : CallStep(c)
    BY <1>4
  <2>2. UNCHANGED <<need_restart, authorization_state, manager, inbox>>
    BY <2>1 DEF CallStep, CallBegin, CallEmplace, CallSend, CallReturn, loopVars
  <2>3. manager = "null" => UNCHANGED requests
    BY <2>1 DEF CallStep, CallBegin, CallEmplace, CallSend, CallReturn, sendVars
  <2>4. crashed' => crashed \/ manager = "null"
    BY <2>1 DEF CallStep, CallBegin, CallEmplace, CallSend, CallReturn
  <2>5. QED  BY <2>2, <2>3, <2>4 DEF ClosedInv
<1>5. CASE \E q \in requests : TdAnswer(q)
  BY <1>5 DEF TdAnswer, loopVars, ClosedInv
<1>6. CASE TdMove
  BY <1>6 DEF TdMove, loopVars, sendVars, ClosedInv
<1>7. CASE UNCHANGED vars
  BY <1>7 DEF vars, loopVars, sendVars, ClosedInv
<1>8. QED  BY <1>1, <1>2, <1>3, <1>4, <1>5, <1>6, <1>7 DEF Next

\* An answer is written for a caller with no timeout only while it waits for
\* that very answer.
LEMMA OwnAnswerKept ==
  TypeOK /\ (manager = "live" => LiveInv) /\ OwnAnswer /\ [Next]_vars
    => OwnAnswer'
<1> SUFFICES ASSUME TypeOK, manager = "live" => LiveInv, OwnAnswer, [Next]_vars
             PROVE  OwnAnswer'
  OBVIOUS
<1>1. CASE receive
  <2> DEFINE r == Head(inbox)
  <2>1. /\ r \in Response /\ HasId(inbox, r.id)
        /\ LiveInv
    BY <1>1, TailIds DEF receive, TypeOK
  <2>2. \/ UNCHANGED <<retVal, calls>>
        \/ \E h \in handlers : /\ h.id = r.id /\ h.kind = "sync"
                               /\ r.type = "result"
                               /\ retVal' = [retVal EXCEPT ![h.caller] = r.of]
                               /\ UNCHANGED calls
    BY <1>1 DEF receive, process_response, process_update, run_handler,
                check_authentication_error, got_me, got_answer, callerVars
  <2>3. CASE UNCHANGED <<retVal, calls>>
    BY <2>3 DEF OwnAnswer
  <2>4. ASSUME NEW h \in handlers, h.id = r.id, h.kind = "sync",
               r.type = "result",
               retVal' = [retVal EXCEPT ![h.caller] = r.of], UNCHANGED calls
        PROVE  OwnAnswer'
    <3>1. ASSUME h.caller \notin TimedCallers
          PROVE  r.of = <<h.caller, calls[h.caller]>>
      <4>1. pc[h.caller] = "wait" /\ qid[h.caller] = r.id
        BY <2>1, <2>4, <3>1 DEF LiveInv, StillWaits, InFlight
      <4>2. h.caller \in Callers
        BY <2>4, RecordsTyped DEF TypeOK
      <4>3. AboutId(inbox, r.id, <<h.caller, calls[h.caller]>>)
        BY <2>1, <4>1, <4>2 DEF LiveInv, OwnQuestion
      <4>4. 1 \in 1 .. Len(inbox) /\ inbox[1] = r
        BY <1>1 DEF receive, TypeOK
      <4>5. QED  BY <2>4, <4>3, <4>4 DEF AboutId
    <3>2. QED  BY <2>4, <3>1 DEF OwnAnswer, TypeOK
  <2>5. QED  BY <2>2, <2>3, <2>4
<1>2. CASE \E c \in Callers : CallBegin(c)
  BY <1>2 DEF CallBegin, OwnAnswer, TypeOK
<1>3. CASE UNCHANGED <<retVal, calls>>
  BY <1>3 DEF OwnAnswer
<1>4. QED
  BY <1>1, <1>2, <1>3
  DEF Next, Loop, restart, receive_timeout, receive_null, UserInput, close,
      CallStep, CallEmplace, CallSend, CallReturn, TdAnswer, TdMove, vars,
      callerVars

\* A new Td object satisfies the whole inductive invariant.
LEMMA InitIInv == Init => IInv
<1> SUFFICES ASSUME Init PROVE IInv
  OBVIOUS
<1>1. TypeInv
  BY InitTyped
<1>2. /\ inbox = <<Update("WaitTdlibParameters")>>
      /\ Update("WaitTdlibParameters").id = 0
  BY DEF Init, Update
<1>3. /\ Len(inbox) = 1 /\ inbox[1].id = 0
  BY <1>2
<1>4. IdsBelow(inbox, 1) /\ IdsOnce(inbox) /\ \A id : HasId(inbox, id) => id = 0
  BY <1>3 DEF IdsBelow, IdsOnce, HasId
<1>5. LiveInv
  BY <1>4 DEF Init, LiveInv, IdsGivenOut, IdsDistinct, NotSentYet, OwnEntry,
              StillWaits, Registered, OwnQuestion
<1>6. ClosedInv /\ OwnAnswer
  BY DEF Init, ClosedInv, OwnAnswer
<1>7. QED  BY <1>1, <1>5, <1>6 DEF IInv

\* Every step of the client keeps the whole inductive invariant.
LEMMA NextIInv == IInv /\ [Next]_vars => IInv'
<1> SUFFICES ASSUME IInv, [Next]_vars PROVE IInv'
  OBVIOUS
<1>1. TypeInv' /\ TypeOK' /\ TypeOK
  BY NextTyped DEF IInv, TypeInv
<1>2. ClosedInv' /\ OwnAnswer'
  BY <1>1, ClosedKept, OwnAnswerKept DEF IInv
<1>3. manager' = "live" => LiveInv'
  <2>1. manager' = "live" => manager = "live"
    BY <1>1, ManagerSteps DEF restart
  <2>2. QED  BY <1>1, <2>1, LiveKept DEF IInv
<1>4. QED  BY <1>1, <1>2, <1>3 DEF IInv

\* The inductive invariant holds in every reachable state.
LEMMA Inductive == Spec => []IInv
BY InitIInv, NextIInv, PTL DEF Spec

\* OwnAnswer, for any number of callers, calls, refusals and unread responses:
\* a thread that waits without a timeout in send_query_sync is handed its own
\* answer, even when handlers_ is raced upon and after a restart.
THEOREM AnswersAreOwn == Spec => []OwnAnswer
<1>1. IInv => OwnAnswer
  BY DEF IInv
<1>2. QED  BY <1>1, Inductive, PTL

\* NoLostCall, for any number of callers: as long as no two threads were in
\* handlers_ at once, a call that waits has its handler and its question or
\* its answer on the way.
THEOREM CallsAreNotLost == Spec => []NoLostCall
<1>1. IInv => NoLostCall
  <2> SUFFICES ASSUME IInv, NEW c \in Callers, pc[c] = "wait", ~finished[c],
                      manager = "live", ~race
               PROVE  /\ \E h \in handlers :
                           h.id = qid[c] /\ h.kind = "sync" /\ h.caller = c
                      /\ qid[c] # 0
                      /\ \/ \E q \in requests : q.id = qid[c] /\ q.fn = "call"
                         \/ HasId(inbox, qid[c])
    BY DEF NoLostCall
  <2>1. PICK h \in handlers : h.id = qid[c]
    BY DEF IInv, LiveInv, Registered
  <2>2. h.kind = "sync" /\ h.caller = c
    BY <2>1 DEF IInv, LiveInv, OwnEntry
  <2>3. qid[c] # 0 /\ InFlight(qid[c])
    BY DEF IInv, LiveInv, Registered, IdsGivenOut
  <2>4. \A q \in requests : q.id = qid[c] => q.fn = "call"
    BY DEF IInv, LiveInv, OwnQuestion
  <2>5. QED  BY <2>1, <2>2, <2>3, <2>4 DEF InFlight
<1>2. QED  BY <1>1, Inductive, PTL

\* CrashOnlyAfterClosed, for any number of callers: an empty client_manager_ is
\* dereferenced only after TDLib has said authorizationStateClosed.
THEOREM CrashComesAfterClosed == Spec => []CrashOnlyAfterClosed
<1>1. IInv => CrashOnlyAfterClosed
  BY DEF IInv, ClosedInv, CrashOnlyAfterClosed
<1>2. QED  BY <1>1, Inductive, PTL

\* EndsByOwnResponse, for any number of callers and calls: only the response to
\* its own query ends a call that has no timeout.
THEOREM CallsEndByOwnResponse == Spec => EndsByOwnResponse
<1>1. ASSUME IInv, [Next]_vars, NEW c \in Callers \ TimedCallers, ~finished[c],
             finished'[c]
      PROVE  pc[c] = "wait" /\ inbox # <<>> /\ Head(inbox).id = qid[c]
  <2>1. TypeOK
    BY <1>1 DEF IInv, TypeInv
  <2>2. finished' # finished
    BY <1>1
  <2>3. ~ \E d \in Callers : CallBegin(d)
    BY <1>1, <2>1 DEF CallBegin, TypeOK
  <2>4. receive
    BY <1>1, <2>2, <2>3
    DEF Next, Loop, restart, receive_timeout, receive_null, UserInput, close,
        CallStep, CallEmplace, CallSend, CallReturn, TdAnswer, TdMove, vars,
        callerVars
  <2> DEFINE r == Head(inbox)
  <2>5. PICK h \in handlers : /\ h.id = r.id /\ h.kind = "sync"
                              /\ finished' = [finished EXCEPT ![h.caller] = TRUE]
    BY <2>2, <2>4 DEF receive, process_response, process_update, run_handler,
                      check_authentication_error, got_me, got_answer, callerVars
  <2>6. h.caller = c
    BY <1>1, <2>1, <2>5 DEF TypeOK
  <2>7. LiveInv /\ HasId(inbox, r.id) /\ inbox # <<>>
    BY <1>1, <2>1, <2>4, TailIds DEF IInv, receive, TypeOK
  <2>8. QED  BY <1>1, <2>5, <2>6, <2>7 DEF LiveInv, StillWaits, InFlight
<1>2. IInv /\ [Next]_vars =>
        [\A c \in Callers \ TimedCallers :
           ~finished[c] /\ finished'[c]
             => pc[c] = "wait" /\ inbox # <<>> /\ Head(inbox).id = qid[c]]_vars
  BY <1>1
<1>3. QED  BY <1>2, Inductive, PTL DEF Spec, EndsByOwnResponse

\* What a turn of the loop does to the frame of a caller without a timeout:
\* nothing, or it hands over the answer to a call that waits.
LEMMA ReceiveDelivers ==
  ASSUME IInv, [Next]_vars, receive, NEW c \in Callers \ TimedCallers
  PROVE  /\ UNCHANGED <<calls, pc>>
         /\ \/ UNCHANGED <<finished[c], retVal[c]>>
            \/ /\ pc[c] = "wait" /\ ~finished[c] /\ finished'[c]
               /\ retVal'[c] \in {NoAnswer, <<c, calls[c]>>}
<1> DEFINE r == Head(inbox)
<1>1. TypeOK /\ OwnAnswer
  BY DEF IInv, TypeInv
<1>2. OwnAnswer'
  BY <1>1, OwnAnswerKept DEF IInv
<1>3. /\ UNCHANGED <<calls, pc>>
      /\ \/ UNCHANGED <<finished, retVal>>
         \/ \E h \in handlers :
              /\ h.id = r.id /\ h.kind = "sync"
              /\ finished' = [finished EXCEPT ![h.caller] = TRUE]
              /\ \/ retVal' = [retVal EXCEPT ![h.caller] = r.of]
                 \/ UNCHANGED retVal
  BY DEF receive, process_response, process_update, run_handler,
         check_authentication_error, got_me, got_answer, callerVars
<1>4. ASSUME NEW h \in handlers, h.id = r.id, h.kind = "sync",
             finished' = [finished EXCEPT ![h.caller] = TRUE],
             \/ retVal' = [retVal EXCEPT ![h.caller] = r.of]
             \/ UNCHANGED retVal,
             h.caller = c
      PROVE  /\ pc[c] = "wait" /\ ~finished[c] /\ finished'[c]
             /\ retVal'[c] \in {NoAnswer, <<c, calls[c]>>}
  <2>1. LiveInv /\ HasId(inbox, r.id)
    BY <1>1, TailIds DEF IInv, receive, TypeOK
  <2>2. pc[c] = "wait" /\ ~finished[c]
    BY <1>4, <2>1 DEF LiveInv, StillWaits, InFlight
  <2>3. QED  BY <1>1, <1>2, <1>3, <1>4, <2>2 DEF TypeOK, OwnAnswer
<1>5. ASSUME NEW h \in handlers, h.caller # c,
             finished' = [finished EXCEPT ![h.caller] = TRUE],
             \/ retVal' = [retVal EXCEPT ![h.caller] = r.of]
             \/ UNCHANGED retVal
      PROVE  UNCHANGED <<finished[c], retVal[c]>>
  BY <1>1, <1>5 DEF TypeOK
<1> QED  BY <1>3, <1>4, <1>5

\* CallsAreFutures, for any number of callers and calls: send_query_sync without
\* a timeout keeps the promise of QueryFuture.
THEOREM CallsKeepPromise == Spec => CallsAreFutures
<1>1. Init => \A c \in Callers \ TimedCallers : Future(c)!Init
  BY DEF Init, Future!Init
<1>2. ASSUME IInv, [Next]_vars, NEW c \in Callers \ TimedCallers
      PROVE  Future(c)!Next \/ UNCHANGED Future(c)!futureVars
  <2> USE DEF Future!futureVars, Future!Next, Future!Ask, Future!Deliver,
              Future!Return, Future!GiveUp
  <2>1. TypeOK
    BY <1>2 DEF IInv, TypeInv
  <2>2. CASE receive
    BY <1>2, <2>2, ReceiveDelivers
  <2>3. ASSUME NEW d \in Callers, CallStep(d), d # c
        PROVE  UNCHANGED Future(c)!futureVars
    BY <2>1, <2>3 DEF CallStep, CallBegin, CallEmplace, CallSend, CallReturn,
       TypeOK
  <2>4. CASE CallBegin(c)
    BY <2>1, <2>4 DEF CallBegin, TypeOK
  <2>5. CASE CallEmplace(c) \/ CallSend(c)
    BY <2>1, <2>5 DEF CallEmplace, CallSend, TypeOK
  <2>6. CASE CallReturn(c)
    BY <2>1, <2>6 DEF CallReturn, TypeOK
  <2>7. CASE UNCHANGED callerVars
    BY <2>7 DEF callerVars
  <2> QED
    BY <1>2, <2>2, <2>3, <2>4, <2>5, <2>6, <2>7
    DEF Next, CallStep, Loop, restart, receive_timeout, receive_null,
        UserInput, close, TdAnswer, TdMove, vars
<1>3. IInv /\ [Next]_vars =>
        [\A c \in Callers \ TimedCallers :
           Future(c)!Next \/ UNCHANGED Future(c)!futureVars]_vars
  BY <1>2
<1>4. QED  BY <1>1, <1>3, Inductive, PTL DEF Spec, CallsAreFutures

=============================================================================
