---------------------------- MODULE TgvisdProofs ----------------------------
(***************************************************************************)
(* Theorems about the whole program.  Every step of it is a step of the    *)
(* client or leaves the client alone, so what holds of the client alone    *)
(* holds of the program; the order of the shutdown is the program's own.   *)
(***************************************************************************)
EXTENDS Tgvisd, TdClientProofs

Stopping == {"join_logger", "join_scraper", "close", "last", "sync", "exit"}
Joined   == {"close", "last", "sync", "exit"}

AppTypes ==
  /\ stopEventLoop \in BOOLEAN
  /\ isReady \in BOOLEAN
  /\ main \in {"spawn_logger", "spawn_scraper", "first", "mark_ready", "check",
               "turn"} \cup Stopping
  /\ logger \in {"none", "running", "ended", "gone"}
  /\ scraper \in {"none", "start", "wait_ready", "connect", "ask", "count",
                  "finish", "ended", "gone"}
  /\ db \in {"none", "open", "closed", "leaked"}
  /\ stale \in BOOLEAN
  /\ died \in BOOLEAN

\* What each place of ~Main has behind it, and what each place of the scraper
\* thread holds.
ShutdownInv ==
  /\ phase # "run" => main \in Joined \ {"close"}
  /\ main \in Joined => scraper = "gone"
  /\ logger = "gone" <=> main \in Stopping \ {"join_logger"}
  /\ main \in Stopping => stopEventLoop
  /\ main \in {"check", "turn"} \cup Stopping => isReady
  /\ pc[Chat] # "idle" => scraper = "ask"
  /\ db = "open" => scraper \in {"ask", "count", "finish"}
  /\ main \in {"spawn_logger", "spawn_scraper"} => scraper = "none"
  /\ scraper \in {"none", "start"} => ~stale

AppInv == AppTypes /\ ShutdownInv

\* The client's part of what the main thread does in a turn, and in close,
\* leaves the callers where they are; phase moves only after close.
LEMMA LoopPhase ==
  /\ Loop \/ IdleTurn => pc' = pc /\ (phase = "run" => phase' = "run")
  /\ close => pc' = pc
<1>1. ASSUME EndTurn PROVE phase = "run" => phase' = "run"
  BY <1>1 DEF EndTurn
<1>2. ASSUME NEW s, on_authorization_state_update(s)
      PROVE  phase = "run" => phase' = "run"
  BY <1>1, <1>2 DEF on_authorization_state_update, as_ready, as_logging_out,
     as_message_only, as_closed, as_wait_silent, as_wait_prompt
<1>3. ASSUME NEW r, process_response(r)
      PROVE  pc' = pc /\ (phase = "run" => phase' = "run")
  BY <1>1, <1>2, <1>3 DEF process_response, process_update, run_handler,
     check_authentication_error, got_me, got_answer, NoEffect, callerVars
<1>4. ASSUME Loop PROVE pc' = pc /\ (phase = "run" => phase' = "run")
  BY <1>1, <1>3, <1>4 DEF Loop, restart, receive, receive_timeout,
     receive_null, callerVars, loopVars
<1>5. ASSUME IdleTurn PROVE pc' = pc /\ (phase = "run" => phase' = "run")
  BY <1>5 DEF IdleTurn, vars, callerVars, loopVars
<1>6. ASSUME close PROVE pc' = pc
  BY <1>6 DEF close, callerVars
<1> QED  BY <1>4, <1>5, <1>6

\* A prompt answered in a turn of Main::run does not close the client either.
LEMMA ClientPhase ==
  ASSUME ClientStep
  PROVE  pc' = pc /\ (phase = "run" => phase' = "run")
BY DEF ClientStep, UserInput, EndTurn, TdAnswer, TdMove, callerVars, loopVars

\* The event loop, the user and TDLib ask nothing in a caller's name.
LEMMA ClientCalls ==
  Loop \/ IdleTurn \/ close \/ ClientStep => pc' = pc /\ calls' = calls
<1>1. ASSUME NEW r, process_response(r) PROVE pc' = pc /\ calls' = calls
  BY <1>1 DEF process_response, process_update, run_handler,
     check_authentication_error, got_me, got_answer, callerVars
<1>2. ASSUME Loop PROVE pc' = pc /\ calls' = calls
  BY <1>1, <1>2 DEF Loop, restart, receive, receive_timeout, receive_null,
     callerVars
<1>3. ASSUME IdleTurn \/ close PROVE pc' = pc /\ calls' = calls
  BY <1>3 DEF IdleTurn, close, vars, callerVars
<1>4. ASSUME ClientStep PROVE pc' = pc /\ calls' = calls
  BY <1>4 DEF ClientStep, UserInput, TdAnswer, TdMove, callerVars
<1> QED  BY <1>2, <1>3, <1>4

\* A step of send_query_sync leaves the phase alone.
LEMMA CallPhase ==
  ASSUME CallStep(Chat) PROVE phase' = phase
BY DEF CallStep, CallBegin, CallEmplace, CallSend, CallReturn, loopVars

\* When Main is constructed the invariant holds.
LEMMA InitAppInv == AppInit => AppInv
<1> SUFFICES ASSUME AppInit PROVE AppInv
  OBVIOUS
<1>1. pc[Chat] = "idle" /\ phase = "run"
  BY TgvisdAssumption DEF AppInit, Init
<1> QED  BY <1>1 DEF AppInit, AppInv, AppTypes, ShutdownInv, Stopping, Joined

\* Every step of the main thread keeps it.
LEMMA MainKeeps == AppInv /\ MainStep => AppInv'
<1> SUFFICES ASSUME AppInv, MainStep PROVE AppInv'
  OBVIOUS
<1> USE DEF AppInv, AppTypes, ShutdownInv, Stopping, Joined
<1>1. CASE SpawnLogger
  BY <1>1 DEF SpawnLogger, vars, callerVars, loopVars
<1>2. CASE SpawnScraper
  BY <1>2 DEF SpawnScraper, vars, callerVars, loopVars
<1>3. CASE Turn("first", "mark_ready")
  BY <1>3, LoopPhase DEF Turn
<1>4. CASE MarkReady
  BY <1>4 DEF MarkReady, vars, callerVars, loopVars
<1>5. CASE CheckStop
  BY <1>5 DEF CheckStop, vars, callerVars, loopVars
<1>6. CASE Turn("turn", "check")
  BY <1>6, LoopPhase DEF Turn
<1>7. CASE JoinLogger
  BY <1>7 DEF JoinLogger, vars, callerVars, loopVars
<1>8. CASE JoinScraper
  BY <1>8 DEF JoinScraper, vars, callerVars, loopVars
<1>9. CASE CloseTd
  BY <1>9, LoopPhase DEF CloseTd
<1>10. CASE Turn("last", "sync")
  BY <1>10, LoopPhase DEF Turn
<1>11. CASE Exit
  BY <1>11 DEF Exit, vars, callerVars, loopVars
<1> QED  BY <1>1, <1>2, <1>3, <1>4, <1>5, <1>6, <1>7, <1>8, <1>9, <1>10, <1>11
         DEF MainStep

\* Every step of the scraper thread keeps it.
LEMMA ScraperKeeps == TypeOK /\ AppInv /\ ScraperStep => AppInv'
<1> SUFFICES ASSUME TypeOK, AppInv, ScraperStep PROVE AppInv'
  OBVIOUS
<1> USE DEF AppInv, AppTypes, ShutdownInv, Stopping, Joined
<1>1. CASE ScraperStart
  <2>1. /\ scraper = "start" /\ scraper' = "wait_ready"
        /\ stale' \in BOOLEAN /\ died' \in {died, TRUE}
        /\ UNCHANGED <<pc, phase, stopEventLoop, isReady, main, logger, db>>
    BY <1>1 DEF ScraperStart, vars, callerVars, loopVars
  <2>2. AppTypes'
    BY <2>1
  <2>3. ShutdownInv'
    BY <2>1
  <2> QED  BY <2>2, <2>3
<1>2. CASE WaitReady
  <2>1. /\ scraper = "wait_ready" /\ scraper' = "connect"
        /\ UNCHANGED <<pc, phase, stopEventLoop, isReady, main, logger, db,
                       stale, died>>
    BY <1>2 DEF WaitReady, vars, callerVars, loopVars
  <2>2. AppTypes'
    BY <2>1
  <2>3. ShutdownInv'
    BY <2>1
  <2> QED  BY <2>2, <2>3
<1>3. CASE Connect
  <2>1. /\ scraper = "connect"
        /\ \/ scraper' = "finish" /\ stopEventLoop' = TRUE
              /\ db' \in {db, "leaked"}
           \/ scraper' = "ask" /\ stopEventLoop' = stopEventLoop
              /\ db' = "open"
    BY <1>3 DEF Connect, EnvMissing, ServerRefuses, Connected, Caught
  <2>2. UNCHANGED <<pc, phase, isReady, main, logger, stale, died>>
    BY <1>3 DEF Connect, vars, callerVars, loopVars
  <2>3. AppTypes'
    BY <2>1, <2>2
  <2>4. ShutdownInv'
    BY <2>1, <2>2
  <2> QED  BY <2>3, <2>4
<1>4. CASE Ask
  <2>1. phase' = phase
    BY <1>4, CallPhase DEF Ask, CallStep
  <2>2. \/ scraper' = "ask"
        \/ scraper' = "count" /\ pc'[Chat] = "idle"
    BY <1>4, TgvisdAssumption DEF Ask, CallReturn, TypeOK
  <2>3. UNCHANGED <<stopEventLoop, isReady, main, logger, db, stale, died>>
        /\ scraper = "ask"
    BY <1>4 DEF Ask
  <2>4. AppTypes'
    BY <2>2, <2>3
  <2>5. ShutdownInv'
    BY <2>1, <2>2, <2>3
  <2> QED  BY <2>4, <2>5
<1>5. CASE CountChats
  <2>1. /\ scraper = "count" /\ scraper' \in {"count", "finish"}
        /\ died' \in BOOLEAN
    BY <1>5 DEF CountChats
  <2>2. UNCHANGED <<pc, phase, stopEventLoop, isReady, main, logger, db, stale>>
    BY <1>5 DEF CountChats, vars, callerVars, loopVars
  <2> QED  BY <2>1, <2>2
<1>6. CASE ScraperEnds
  BY <1>6 DEF ScraperEnds, vars, callerVars, loopVars
<1> QED  BY <1>1, <1>2, <1>3, <1>4, <1>5, <1>6 DEF ScraperStep

\* Every step of the program keeps it.
LEMMA NextAppInv == TypeOK /\ AppInv /\ [AppNext]_allVars => AppInv'
<1> SUFFICES ASSUME TypeOK, AppInv, [AppNext]_allVars PROVE AppInv'
  OBVIOUS
<1> USE DEF AppInv, AppTypes, ShutdownInv, Stopping, Joined
<1>1. CASE LoggerEnds
  BY <1>1 DEF LoggerEnds, vars, callerVars, loopVars
<1>2. CASE Signal
  BY <1>2 DEF Signal, vars, callerVars, loopVars
<1>3. CASE ClientStep
  BY <1>3, ClientPhase DEF ClientStep, appVars
<1>4. CASE UNCHANGED allVars
  BY <1>4 DEF allVars, appVars, vars, callerVars, loopVars
<1> QED  BY <1>1, <1>2, <1>3, <1>4, MainKeeps, ScraperKeeps DEF AppNext

\* The program is the client of TdClient plus threads that use it in a certain
\* order: every behaviour of the program, as far as the class Td and TDLib go,
\* is one of the client with a thread that may call at any time.
THEOREM ProgramRunsClient == AppSpec => Spec
<1>1. AppInit => Init
  BY DEF AppInit
<1>2. ASSUME [AppNext]_allVars PROVE [Next]_vars
  <2>1. CASE ~crashed /\ MainStep
    BY <2>1 DEF MainStep, SpawnLogger, SpawnScraper, Turn, IdleTurn, MarkReady,
       CheckStop, JoinLogger, JoinScraper, CloseTd, Exit, Next
  <2>2. CASE ~crashed /\ ScraperStep
    <3>1. Ask => \E c \in Callers : CallStep(c)
      BY TgvisdAssumption DEF Ask, CallStep
    <3> QED  BY <2>2, <3>1 DEF ScraperStep, ScraperStart, WaitReady, Connect,
             CountChats, ScraperEnds, Next
  <2>3. CASE LoggerEnds \/ Signal
    BY <2>3 DEF LoggerEnds, Signal
  <2>4. CASE ~crashed /\ ClientStep
    BY <2>4 DEF ClientStep, Next
  <2>5. CASE UNCHANGED allVars
    BY <2>5 DEF allVars
  <2> QED  BY <1>2, <2>1, <2>2, <2>3, <2>4, <2>5 DEF AppNext, Running
<1> QED  BY <1>1, <1>2, PTL DEF AppSpec, Spec

\* The invariant holds throughout.
LEMMA AppInductive == AppSpec => []AppInv
<1>1. AppSpec => []TypeOK
  BY ProgramRunsClient, Typed, PTL
<1> QED  BY <1>1, InitAppInv, NextAppInv, PTL DEF AppSpec

-----------------------------------------------------------------------------
(* The one question that the program asks.                                 *)

\* The scraper thread has asked nothing before its call and one question since.
AskedOnce ==
  /\ scraper \in {"none", "start", "wait_ready", "connect"} => calls[Chat] = 0
  /\ scraper = "ask" => calls[Chat] = IF pc[Chat] = "idle" THEN 0 ELSE 1
  /\ scraper = "count" => calls[Chat] = 1

\* Every step of the call keeps it: the call is not begun twice.
LEMMA AskKeeps == TypeOK /\ AskedOnce /\ Ask => AskedOnce'
<1> SUFFICES ASSUME TypeOK, AskedOnce, Ask PROVE AskedOnce'
  OBVIOUS
<1>1. /\ Chat \in DOMAIN pc /\ Chat \in DOMAIN calls /\ scraper = "ask"
      /\ calls[Chat] = IF pc[Chat] = "idle" THEN 0 ELSE 1
  BY TgvisdAssumption DEF TypeOK, Ask, AskedOnce
<1>2. CASE CallBegin(Chat) /\ UNCHANGED scraper
  <2>1. calls'[Chat] = 1 /\ pc'[Chat] = "emplace"
    BY <1>1, <1>2 DEF CallBegin
  <2> QED  BY <1>1, <1>2, <2>1 DEF AskedOnce
<1>3. CASE (CallEmplace(Chat) \/ CallSend(Chat)) /\ UNCHANGED scraper
  <2>1. calls' = calls /\ pc[Chat] # "idle" /\ pc'[Chat] # "idle"
    BY <1>1, <1>3 DEF CallEmplace, CallSend
  <2> QED  BY <1>1, <1>3, <2>1 DEF AskedOnce
<1>4. CASE CallReturn(Chat) /\ scraper' = "count"
  <2>1. calls' = calls /\ pc[Chat] # "idle"
    BY <1>4 DEF CallReturn
  <2> QED  BY <1>1, <1>4, <2>1 DEF AskedOnce
<1> QED  BY <1>2, <1>3, <1>4 DEF Ask

\* So does every other step of the program.
LEMMA AskedOnceKept ==
  TypeOK /\ AppInv /\ AskedOnce /\ [AppNext]_allVars => AskedOnce'
<1> SUFFICES ASSUME TypeOK, AppInv, AskedOnce, [AppNext]_allVars
             PROVE  AskedOnce'
  OBVIOUS
<1>1. ASSUME pc' = pc, calls' = calls,
             scraper' = scraper
             \/ scraper' \notin {"none", "start", "wait_ready", "connect",
                                 "ask", "count"}
      PROVE  AskedOnce'
  BY <1>1 DEF AskedOnce
<1>2. ASSUME pc' = pc, calls' = calls, pc[Chat] = "idle",
             scraper \in {"none", "start", "wait_ready", "connect"}
      PROVE  AskedOnce' \/ scraper' = "count"
  BY <1>2 DEF AskedOnce
<1>3. CASE MainStep
  <2>1. pc' = pc /\ calls' = calls
    BY <1>3, ClientCalls
    DEF MainStep, SpawnLogger, SpawnScraper, Turn, MarkReady, CheckStop,
        JoinLogger, JoinScraper, CloseTd, Exit, vars, callerVars
  <2>2. CASE SpawnScraper
    <3>1. scraper = "none" /\ scraper' = "start"
      BY <2>2 DEF SpawnScraper, AppInv, ShutdownInv
    <3> QED  BY <2>1, <3>1 DEF AskedOnce
  <2>3. CASE ~ SpawnScraper
    <3>1. scraper' = scraper \/ scraper' = "gone"
      BY <1>3, <2>3
      DEF MainStep, SpawnLogger, Turn, MarkReady, CheckStop, JoinLogger,
          JoinScraper, CloseTd, Exit
    <3> QED  BY <1>1, <2>1, <3>1
  <2> QED  BY <2>2, <2>3
<1>4. CASE ScraperStep
  <2>1. CASE Ask
    BY <2>1, AskKeeps
  <2>2. CASE ~ Ask
    <3>1. pc' = pc /\ calls' = calls
      BY <1>4, <2>2
      DEF ScraperStep, ScraperStart, WaitReady, Connect, CountChats,
          ScraperEnds, vars, callerVars
    <3>2. CASE ScraperStart \/ WaitReady \/ Connect
      <4>1. /\ scraper \in {"start", "wait_ready", "connect"}
            /\ scraper' \in {"wait_ready", "connect", "ask", "finish"}
        BY <3>2
        DEF ScraperStart, WaitReady, Connect, EnvMissing, ServerRefuses,
            Connected, Caught
      <4>2. pc[Chat] = "idle"
        BY <4>1 DEF AppInv, ShutdownInv
      <4> QED  BY <1>2, <3>1, <4>1, <4>2
    <3>3. CASE CountChats \/ ScraperEnds
      <4>1. scraper' = scraper \/ scraper' \in {"finish", "ended"}
        BY <3>3 DEF CountChats, ScraperEnds
      <4> QED  BY <1>1, <3>1, <4>1
    <3> QED  BY <1>4, <2>2, <3>2, <3>3 DEF ScraperStep
  <2> QED  BY <2>1, <2>2
<1>5. CASE LoggerEnds \/ Signal \/ ClientStep \/ UNCHANGED allVars
  <2>1. scraper' = scraper
    BY <1>5 DEF LoggerEnds, Signal, ClientStep, allVars, appVars
  <2>2. pc' = pc /\ calls' = calls
    BY <1>5, ClientCalls DEF LoggerEnds, Signal, allVars, vars, callerVars
  <2> QED  BY <1>1, <2>1, <2>2
<1> QED  BY <1>3, <1>4, <1>5 DEF AppNext

\* So it holds throughout.
LEMMA AskedOnceThroughout == AppSpec => []AskedOnce
<1>1. AppInit => AskedOnce
  BY TgvisdAssumption DEF AppInit, Init, AskedOnce
<1> QED  BY <1>1, AskedOnceKept, AppInductive, ProgramRunsClient, Typed, PTL
         DEF AppSpec

\* ChatScraper::run reads through the answer of getChat without asking whose it
\* is. It goes on from there only with the answer to the one question that the
\* program asks.
CountsOwnAnswer ==
  [][scraper = "count" /\ scraper' = "finish" => retVal[Chat] = <<Chat, 1>>]_allVars

\* The count of chats is of the answer to getChat: what a caller of
\* send_query_sync gets, composed with the order of the scraper's steps.
THEOREM CountedIsOwn == AppSpec => CountsOwnAnswer
<1>1. AskedOnce /\ OwnAnswer /\ [AppNext]_allVars
        => [scraper = "count" /\ scraper' = "finish"
              => retVal[Chat] = <<Chat, 1>>]_allVars
  <2> SUFFICES ASSUME AskedOnce, OwnAnswer, AppNext, scraper = "count",
                      scraper' = "finish"
               PROVE  retVal[Chat] = <<Chat, 1>>
    BY DEF allVars
  <2>1. CountChats
    BY ClientCalls
    DEF AppNext, MainStep, SpawnLogger, SpawnScraper, Turn, MarkReady,
        CheckStop, JoinLogger, JoinScraper, CloseTd, Exit, LoggerEnds,
        ScraperStep, ScraperStart, WaitReady, Connect, Ask, ScraperEnds,
        Signal, ClientStep, appVars
  <2>2. retVal[Chat] # NoAnswer
    BY <2>1 DEF CountChats
  <2>3. retVal[Chat] = <<Chat, calls[Chat]>>
    BY <2>2, TgvisdAssumption DEF OwnAnswer
  <2> QED  BY <2>3 DEF AskedOnce
<1> QED  BY <1>1, AskedOnceThroughout, ProgramRunsClient, AnswersAreOwn, PTL
         DEF AppSpec, CountsOwnAnswer

-----------------------------------------------------------------------------
(* The ways of the scraper thread to its end.                              *)

\* It has a session while it asks and counts; it comes to its end with the
\* session and its one question, or with neither of them and the flag raised.
EndsInOrder ==
  /\ scraper \in {"none", "start", "wait_ready", "connect"} => db = "none"
  /\ scraper \in {"ask", "count"} => db = "open"
  /\ scraper = "finish" /\ db = "open" => calls[Chat] = 1
  /\ scraper \in {"ended", "gone"} => db # "open"
  /\ db = "closed" => scraper \in {"ended", "gone"} /\ calls[Chat] = 1
  /\ scraper \in {"finish", "ended", "gone"} /\ db \in {"none", "leaked"} =>
       stopEventLoop /\ calls[Chat] = 0

\* The flag that stops the event loop is never taken back.
LEMMA StopStays == [AppNext]_allVars /\ stopEventLoop => stopEventLoop'
<1> SUFFICES ASSUME [AppNext]_allVars, stopEventLoop PROVE stopEventLoop'
  OBVIOUS
<1>1. MainStep => stopEventLoop'
  BY DEF MainStep, SpawnLogger, SpawnScraper, Turn, MarkReady, CheckStop,
     JoinLogger, JoinScraper, CloseTd, Exit
<1>2. ScraperStep => stopEventLoop'
  BY DEF ScraperStep, ScraperStart, WaitReady, Connect, EnvMissing,
     ServerRefuses, Connected, Caught, Ask, CountChats, ScraperEnds
<1>3. LoggerEnds \/ Signal \/ ClientStep \/ UNCHANGED allVars
        => stopEventLoop'
  BY DEF LoggerEnds, Signal, ClientStep, allVars, appVars
<1> QED  BY <1>1, <1>2, <1>3 DEF AppNext

\* Every step of the program keeps the order.
LEMMA EndsInOrderKept ==
  TypeOK /\ AppInv /\ AskedOnce /\ EndsInOrder /\ [AppNext]_allVars
    => EndsInOrder'
<1> SUFFICES ASSUME TypeOK, AppInv, AskedOnce, EndsInOrder, [AppNext]_allVars
             PROVE  EndsInOrder'
  OBVIOUS
<1>1. ASSUME UNCHANGED <<scraper, db, calls>> PROVE EndsInOrder'
  BY <1>1, StopStays DEF EndsInOrder
<1>2. CASE MainStep
  <2>1. calls' = calls /\ db' = db
    BY <1>2, ClientCalls
    DEF MainStep, SpawnLogger, SpawnScraper, Turn, MarkReady, CheckStop,
        JoinLogger, JoinScraper, CloseTd, Exit, vars, callerVars
  <2>2. CASE SpawnScraper
    <3>1. scraper = "none" /\ scraper' = "start"
      BY <2>2 DEF SpawnScraper, AppInv, ShutdownInv
    <3> QED  BY <2>1, <3>1 DEF EndsInOrder
  <2>3. CASE JoinScraper
    <3>1. scraper = "ended" /\ scraper' = "gone"
      BY <2>3 DEF JoinScraper
    <3> QED  BY <2>1, <3>1, StopStays DEF EndsInOrder
  <2>4. CASE ~ SpawnScraper /\ ~ JoinScraper
    <3>1. scraper' = scraper
      BY <1>2, <2>4
      DEF MainStep, SpawnLogger, Turn, MarkReady, CheckStop, JoinLogger,
          CloseTd, Exit
    <3> QED  BY <1>1, <2>1, <3>1
  <2> QED  BY <2>2, <2>3, <2>4
<1>3. CASE ScraperStart \/ WaitReady
  <2>1. /\ scraper \in {"start", "wait_ready"}
        /\ scraper' \in {"wait_ready", "connect"}
        /\ db' = db /\ calls' = calls
    BY <1>3 DEF ScraperStart, WaitReady, vars, callerVars
  <2> QED  BY <2>1 DEF EndsInOrder
<1>4. CASE Connect
  <2>1. scraper = "connect" /\ calls' = calls /\ calls[Chat] = 0 /\ db = "none"
    BY <1>4 DEF Connect, vars, callerVars, AskedOnce, EndsInOrder
  <2>2. \/ scraper' = "finish" /\ stopEventLoop' /\ db' \in {"none", "leaked"}
        \/ scraper' = "ask" /\ db' = "open"
    BY <1>4, <2>1 DEF Connect, EnvMissing, ServerRefuses, Connected, Caught
  <2> QED  BY <2>1, <2>2 DEF EndsInOrder
<1>5. CASE Ask
  <2>1. scraper = "ask" /\ db' = db /\ scraper' \in {"ask", "count"}
    BY <1>5 DEF Ask
  <2> QED  BY <2>1 DEF EndsInOrder
<1>6. CASE CountChats
  <2>1. scraper = "count" /\ db' = db /\ calls' = calls
        /\ scraper' \in {"count", "finish"} /\ calls[Chat] = 1
    BY <1>6 DEF CountChats, vars, callerVars, AskedOnce
  <2> QED  BY <2>1 DEF EndsInOrder
<1>7. CASE ScraperEnds
  <2>1. /\ scraper = "finish" /\ scraper' = "ended" /\ calls' = calls
        /\ db' = IF db = "open" THEN "closed" ELSE db
    BY <1>7 DEF ScraperEnds, vars, callerVars
  <2> QED  BY <2>1, StopStays DEF EndsInOrder
<1>8. CASE LoggerEnds \/ Signal \/ ClientStep \/ UNCHANGED allVars
  <2>1. UNCHANGED <<scraper, db, calls>>
    BY <1>8, ClientCalls
    DEF LoggerEnds, Signal, ClientStep, allVars, appVars, vars, callerVars
  <2> QED  BY <1>1, <2>1
<1> QED  BY <1>2, <1>3, <1>4, <1>5, <1>6, <1>7, <1>8
         DEF AppNext, ScraperStep

\* The scraper thread ends in one of two ways: with a session, that it had open
\* all along its one question and that is closed, or without, and then the
\* program has been told to stop: the safety side of FailedConnectEndsProgram.
THEOREM ScraperEndsInOrder == AppSpec => []EndsInOrder
<1>1. AppInit => EndsInOrder
  BY DEF AppInit, EndsInOrder
<1>2. AppSpec => [](TypeOK /\ AppInv /\ AskedOnce)
  BY AskedOnceThroughout, AppInductive, ProgramRunsClient, Typed, PTL
<1> QED  BY <1>1, <1>2, EndsInOrderKept, PTL DEF AppSpec

-----------------------------------------------------------------------------
(* The shutdown.                                                           *)

\* The variables of Main, Scraper and DB keep to their values, together with
\* those of the client.
THEOREM AppTyped == AppSpec => []AppTypeOK
<1>1. TypeOK /\ AppInv => AppTypeOK
  BY DEF AppInv, AppTypes, AppTypeOK, Stopping
<1> QED  BY <1>1, AppInductive, ProgramRunsClient, Typed, PTL

\* ~Main closes the client when no other thread is left that could use it.
THEOREM ClosesAlone == AppSpec => []CloseRunsAlone
<1>1. AppInv => CloseRunsAlone
  BY TgvisdAssumption
     DEF AppInv, AppTypes, ShutdownInv, CloseRunsAlone, Joined, Stopping
<1> QED  BY <1>1, AppInductive, PTL

\* The scraper thread asks a deleted thread for its handle only while ~Main
\* waits for it, after a stop.
THEOREM StaleInWindow == AppSpec => StaleOnlyWhileJoining
<1>1. AppInv /\ [AppNext]_allVars
        => [stale' # stale => main = "join_scraper" /\ stopEventLoop /\ isReady]_allVars
  <2> SUFFICES ASSUME AppInv, AppNext, stale' # stale
               PROVE  main = "join_scraper" /\ stopEventLoop /\ isReady
    BY DEF allVars
  <2>1. ScraperStart
    BY DEF AppNext, MainStep, SpawnLogger, SpawnScraper, Turn, MarkReady,
       CheckStop, JoinLogger, JoinScraper, CloseTd, Exit, LoggerEnds,
       ScraperStep, WaitReady, Connect, Ask, CountChats, ScraperEnds, Signal,
       ClientStep, appVars
  <2>2. logger = "gone" /\ scraper = "start"
    BY <2>1 DEF ScraperStart, AppInv, AppTypes, ShutdownInv
  <2> QED  BY <2>2 DEF AppInv, AppTypes, ShutdownInv, Stopping, Joined
<1> QED  BY <1>1, AppInductive, PTL DEF AppSpec, StaleOnlyWhileJoining

=============================================================================
