------------------------------- MODULE Tgvisd -------------------------------
(***************************************************************************)
(* The whole program: class Main, its three threads and the classes        *)
(* Scraper, ChatScraper and DB, composed with the Telegram client of       *)
(* TdClient.                                                               *)
(*                                                                         *)
(* The main thread constructs Main, runs the event loop until the flag     *)
(* stopEventLoop is up, then destructs Main: it joins the logger and the   *)
(* scraper thread and closes the client.  The scraper thread waits for the *)
(* main thread, connects to the database and asks TDLib for the chats      *)
(* (runScrapers starts one more thread for that and joins it at once: the  *)
(* two are one actor here).  SIGINT, SIGHUP and SIGTERM raise the flag.    *)
(***************************************************************************)
EXTENDS TdClient

CONSTANT Chat  \* the thread of ChatScraper::run, the only caller

ASSUME TgvisdAssumption ==
  /\ Callers = {Chat}
  /\ TimedCallers = {}        \* getChat leaves the timeout at its default, -1

VARIABLES
  stopEventLoop,  \* the global stopEventLoop
  isReady,        \* isReady_
  main,           \* where the main thread is
  logger,         \* logger thread; "gone" when joined and its object deleted
  scraper,        \* where the scraper thread is
  db,             \* the DB object and its session
  stale,          \* a deleted std::thread was asked for its native_handle
  died            \* the process died of an invalid pointer of its own

appVars == <<stopEventLoop, isReady, main, logger, scraper, db, stale, died>>
allVars == <<vars, appVars>>

-----------------------------------------------------------------------------
(* Main::Main, once td_ is made and the signal handlers are set.           *)

\* Mutant: the thread object of the logger is not kept.
M_SpawnLogger_lost ==
  /\ main = "spawn_logger"
  /\ main' = "spawn_scraper"
  /\ logger' = "gone"
  /\ UNCHANGED <<vars, stopEventLoop, isReady, scraper, db, stale, died>>

SpawnLogger ==
  /\ main = "spawn_logger"
  /\ main' = "spawn_scraper"
  /\ logger' = "running"
  /\ UNCHANGED <<vars, stopEventLoop, isReady, scraper, db, stale, died>>

SpawnScraper ==
  /\ main = "spawn_scraper"
  /\ main' = "first"
  /\ scraper' = "start"
  /\ UNCHANGED <<vars, stopEventLoop, isReady, logger, db, stale, died>>

-----------------------------------------------------------------------------
(* Main::run.  Td::loop returns when loop is "idle" again: a prompt holds  *)
(* the main thread until the user has answered.                            *)

\* receive times out, nothing happens.
IdleTurn ==
  /\ loop = "idle" /\ phase = "run"
  /\ ~need_restart /\ manager = "live" /\ inbox = <<>>
  /\ UNCHANGED vars

Turn(here, next) ==
  /\ main = here
  /\ main' = next
  /\ Loop \/ IdleTurn
  /\ UNCHANGED <<stopEventLoop, isReady, logger, scraper, db, stale, died>>

MarkReady ==
  /\ main = "mark_ready" /\ loop = "idle"
  /\ main' = "check"
  /\ isReady' = TRUE
  /\ UNCHANGED <<vars, stopEventLoop, logger, scraper, db, stale, died>>

\* Mutant: the flag is looked at once only, before the loop.
M_CheckStop_never ==
  /\ main = "check" /\ loop = "idle"
  /\ main' = "turn"
  /\ UNCHANGED <<vars, stopEventLoop, isReady, logger, scraper, db, stale,
                 died>>

CheckStop ==
  /\ main = "check" /\ loop = "idle"
  /\ main' = IF stopEventLoop THEN "join_logger" ELSE "turn"
  /\ UNCHANGED <<vars, stopEventLoop, isReady, logger, scraper, db, stale,
                 died>>

-----------------------------------------------------------------------------
(* Main::~Main.                                                            *)

JoinLogger ==
  /\ main = "join_logger" /\ logger = "ended"
  /\ main' = "join_scraper"
  /\ logger' = "gone"
  /\ UNCHANGED <<vars, stopEventLoop, isReady, scraper, db, stale, died>>

\* Mutant: the scraper thread is detached instead of joined.
M_JoinScraper_detach ==
  /\ main = "join_scraper"
  /\ main' = "close"
  /\ UNCHANGED <<vars, stopEventLoop, isReady, logger, scraper, db, stale,
                 died>>

JoinScraper ==
  /\ main = "join_scraper" /\ scraper = "ended"
  /\ main' = "close"
  /\ scraper' = "gone"
  /\ UNCHANGED <<vars, stopEventLoop, isReady, logger, db, stale, died>>

\* td_.close() sends and makes one last turn of the loop.
CloseTd ==
  /\ main = "close"
  /\ close
  /\ main' = "last"
  /\ UNCHANGED <<stopEventLoop, isReady, logger, scraper, db, stale, died>>

Exit ==
  /\ main = "sync" /\ loop = "idle"
  /\ main' = "exit"
  /\ UNCHANGED <<vars, stopEventLoop, isReady, logger, scraper, db, stale,
                 died>>

MainStep ==
  \/ SpawnLogger \/ SpawnScraper
  \/ Turn("first", "mark_ready") \/ MarkReady
  \/ CheckStop \/ Turn("turn", "check")
  \/ JoinLogger \/ JoinScraper
  \/ CloseTd \/ Turn("last", "sync") \/ Exit

-----------------------------------------------------------------------------
(* The other threads.                                                      *)

LoggerEnds ==
  /\ logger = "running"
  /\ logger' = "ended"
  /\ UNCHANGED <<vars, stopEventLoop, isReady, main, scraper, db, stale, died>>

\* The constructor of Scraper names the thread it is given, the logger's.  If
\* that object is deleted the program may go on or die.
ScraperStart ==
  /\ scraper = "start"
  /\ scraper' = "wait_ready"
  /\ stale' = (logger = "gone")
  /\ \/ UNCHANGED died
     \/ logger = "gone" /\ died' = TRUE
  /\ UNCHANGED <<vars, stopEventLoop, isReady, main, logger, db>>

\* Scraper::run polls every second.
WaitReady ==
  /\ scraper = "wait_ready"
  /\ isReady \/ stopEventLoop
  /\ scraper' = "connect"
  /\ UNCHANGED <<vars, stopEventLoop, isReady, main, logger, db, stale, died>>

\* Mutant: the exception is caught but the program is not stopped.
M_Caught_nostop ==
  /\ scraper' = "finish"
  /\ UNCHANGED stopEventLoop

\* Scraper::run catches what the constructor of ChatScraper throws.
Caught ==
  /\ scraper' = "finish"
  /\ stopEventLoop' = TRUE

\* A variable of the environment is missing: there is no DB object.
EnvMissing ==
  /\ Caught
  /\ UNCHANGED db

\* The server refuses: the DB object is made and nobody has a pointer to it.
ServerRefuses ==
  /\ Caught
  /\ db' = "leaked"

Connected ==
  /\ scraper' = "ask"
  /\ db' = "open"
  /\ UNCHANGED stopEventLoop

\* The constructor of ChatScraper.
Connect ==
  /\ scraper = "connect"
  /\ EnvMissing \/ ServerRefuses \/ Connected
  /\ UNCHANGED <<vars, isReady, main, logger, stale, died>>

\* ChatScraper::getChat.
Ask ==
  /\ scraper = "ask"
  /\ \/ CallBegin(Chat) /\ UNCHANGED scraper
     \/ CallEmplace(Chat) /\ UNCHANGED scraper
     \/ CallSend(Chat) /\ UNCHANGED scraper
     \/ CallReturn(Chat) /\ scraper' = "count"
  /\ UNCHANGED <<stopEventLoop, isReady, main, logger, db, stale, died>>

\* ChatScraper::run reads total_count_ without asking whether there is one.
CountChats ==
  /\ scraper = "count"
  /\ IF retVal[Chat] = NoAnswer
       THEN died' = TRUE /\ UNCHANGED scraper
       ELSE scraper' = "finish" /\ UNCHANGED died
  /\ UNCHANGED <<vars, stopEventLoop, isReady, main, logger, db, stale>>

\* delete st: the destructors of Scraper, ChatScraper and DB.
ScraperEnds ==
  /\ scraper = "finish"
  /\ scraper' = "ended"
  /\ db' = IF db = "open" THEN "closed" ELSE db
  /\ UNCHANGED <<vars, stopEventLoop, isReady, main, logger, stale, died>>

ScraperStep ==
  ScraperStart \/ WaitReady \/ Connect \/ Ask \/ CountChats \/ ScraperEnds

\* main_sighandler.  In getline the read is restarted (signal, not sigaction
\* without SA_RESTART), so that the flag is all that changes.
Signal ==
  /\ ~stopEventLoop
  /\ stopEventLoop' = TRUE
  /\ UNCHANGED <<vars, isReady, main, logger, scraper, db, stale, died>>

\* What the client's environment does: the user and TDLib.
ClientStep ==
  /\ UserInput \/ (\E q \in requests : TdAnswer(q)) \/ TdMove
  /\ UNCHANGED appVars

-----------------------------------------------------------------------------

AppInit ==
  /\ Init
  /\ stopEventLoop = FALSE
  /\ isReady = FALSE
  /\ main = "spawn_logger"
  /\ logger = "none"
  /\ scraper = "none"
  /\ db = "none"
  /\ stale = FALSE
  /\ died = FALSE

Running == ~crashed /\ ~died /\ main # "exit"

AppNext ==
  /\ Running
  /\ MainStep \/ LoggerEnds \/ ScraperStep \/ Signal \/ ClientStep

AppSpec == AppInit /\ [][AppNext]_allVars

(* The operating system runs every thread and TDLib answers what it was    *)
(* asked.  The user need answer no prompt, and no signal need ever come.   *)
FairAppSpec ==
  /\ AppSpec
  /\ WF_allVars(Running /\ MainStep)
  /\ WF_allVars(Running /\ LoggerEnds)
  /\ WF_allVars(Running /\ ScraperStep)
  /\ WF_allVars(Running /\ (\E q \in requests : TdAnswer(q))
                        /\ UNCHANGED appVars)

-----------------------------------------------------------------------------
(* Properties.                                                             *)

\* The values of the program's own variables.
AppTypeOK ==
  /\ TypeOK
  /\ stopEventLoop \in BOOLEAN
  /\ isReady \in BOOLEAN
  /\ main \in {"spawn_logger", "spawn_scraper", "first", "mark_ready", "check",
               "turn", "join_logger", "join_scraper", "close", "last", "sync",
               "exit"}
  /\ logger \in {"none", "running", "ended", "gone"}
  /\ scraper \in {"none", "start", "wait_ready", "connect", "ask", "count",
                  "finish", "ended", "gone"}
  /\ db \in {"none", "open", "closed", "leaked"}
  /\ stale \in BOOLEAN
  /\ died \in BOOLEAN

\* Td::close and the destructor of td_ run alone: when the first of them has
\* begun no thread is left that could be inside send_query_sync, and the
\* database session is closed.
CloseRunsAlone ==
  phase # "run" =>
    /\ logger = "gone" /\ scraper = "gone"
    /\ \A c \in Callers : pc[c] = "idle"
    /\ db # "open"

\* The scraper thread names the logger thread through a pointer that ~Main
\* deletes.  It finds it deleted only if the whole of Main::run, with a first
\* turn of the loop, and the join of the logger went by before it began.
StaleOnlyWhileJoining ==
  [][stale' # stale => main = "join_scraper" /\ stopEventLoop /\ isReady]_allVars

\* While the scraper is in send_query_sync the main thread is still in Main::run
\* or it waits for the scraper: it never closes the client under a caller.
\* That wait has no one left to end it unless the answer is there already.  The
\* only other place where a stop is not seen is getline, where the signal does
\* not end the read: if the user never answers, neither does the program end.
StopStuckOnlyInCall ==
  stopEventLoop ~>
    \/ main = "exit" \/ crashed \/ died
    \/ main = "join_scraper" /\ \E c \in Callers : pc[c] = "wait"
    \/ Unanswered

\* A scraper that cannot connect takes the whole program down in order: the
\* exception of the DB class becomes a stop of the event loop in Scraper::run,
\* which the loop sees unless it waits at a prompt that is never answered.
FailedConnectEndsProgram ==
  scraper = "finish" /\ db \in {"none", "leaked"}
    ~> (main = "exit" \/ crashed \/ died \/ Unanswered)

\* What the comment on set_interrupt_handler promises: the handler is there to
\* kill the process gracefully.
TerminatesAfterStop ==
  stopEventLoop ~> (main = "exit" \/ crashed \/ died)

\* What Td::close says it does: it waits for authorizationStateClosed.
ClosedBeforeExit ==
  main = "exit" => authorization_state = "Closed"

=============================================================================
