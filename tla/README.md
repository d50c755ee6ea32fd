# A TLA+ model of tgvisd

tgvisd is a Telegram client without a user interface: it logs an account in
through TDLib, keeps an event loop running and has a second thread, the
scraper, that asks TDLib for the account's chats in order to store them in
MySQL. The program's own code is `src/src/tgvisd` (about 1700 lines of C++).
This directory holds a model of it, checked with TLC, and theorems about the
model, checked with TLAPS.

Paths below are relative to `src/src/tgvisd/`.

## Inventory

| component | state | operations | depends on |
|---|---|---|---|
| `Td/Td.{hpp,cpp}`: event loop, login, queries | `client_manager_`, `need_restart_`, `is_authorized_`, `user_id_`, `current_query_id_`, `authentication_query_id_`, `authorization_state_`, `handlers_` | `loop`, `restart`, `close`, `send_query`, `process_response`, `process_update`, the overloads of `on_authorization_state_update`, the login handlers | TDLib (external), the user at the terminal |
| `Td/Td.hpp`: `send_query_sync` | the frame of the call: `finished`, `retVal`, mutex, condition variable, `warnCounter` | called by any thread; its callback is run by the event loop | `send_query`, the event loop |
| `Td/Td.{hpp,cpp}`: caches | `chat_title_`, `users_` | written by updates; nothing reads them but what a callback may look up | `process_update` |
| `Td/Callback.hpp` | five `std::function`s | `execute`; one is set today, to an empty body | `process_update` |
| `Main.{hpp,cpp}` | `stopEventLoop`, `isReady_`, the two threads | constructor, `run`, destructor, signal handler | Td, Scraper |
| `Scraper.{hpp,cpp}`, `Scrapers/ChatScraper.{hpp,cpp}` | `chatScraper_`, `db_` | `run`, `runScrapers`, `getChat` | Main (`isReady`, `getStop`, `doStop`), Td, DB |
| `DB.{hpp,cpp}`, `DBCommon.hpp` | `sess_`, the connection's parameters | `connect`, `close`, `beginTransaction`, `commit`, `rollback`, `prepare` | MySQL Connector/C++ (vendored) |
| `DBFunc/DBStatement.hpp` | `stmt_`, `res_` | `bind`, `execute`, `fetch` | DB, the Connector |
| `print.{c,h}` | two mutexes | `pr_notice` and its kin, `panic` | - |
| `entry.cpp` | - | `main` | Main |
| `src/ext/mysql_cpp` | the session with its statements and results | the X DevAPI for C that `DB` and `DBStatement` call | - (vendored) |
| `old.old/src.old2`: `HistoryScraper.cpp` | `userTgToDb_`, `groupTgToDb_`, `min_ev` | `gatherChatEventLog`, `processChatEventLog`, `processMessage`, the `resolve` functions | TDLib, MySQL, the tables of `database.sql` (archived, not built) |
| the rest of `old.old` | - | earlier programs (archived, not built) | - |
| `database.sql` | tables, keys, one view | - | - |

How the parts interact: the main thread constructs `Main`, which constructs `Td`
and starts a logger thread (its body is empty) and the scraper thread. The main
thread then calls `Td::loop` until `stopEventLoop` is set by a signal or by the
scraper. The scraper polls `isReady_`, connects to the database and calls
`send_query_sync`, whose answer only the event loop can deliver. `~Main` joins
both threads, then closes the client. `handlers_` is shared by the two threads
without a lock. A statement keeps plain pointers into the session that `DB` closes
and replaces; the rows of its result are on that session's one wire.

What is hard about it:

- two threads in one `unordered_map` (`handlers_`), and the order of registering
  a handler and sending its query;
- query ids: 0 means "update", `restart` starts again from 0, handlers are never
  erased;
- a call that timed out leaves a handler that points into its dead stack frame;
- login answers that come late or are refused, while `authentication_query_id_`
  never changes;
- `restart` leaves no `ClientManager` behind;
- prompts that block the event loop;
- the order of the shutdown, a stop at any moment, and who still runs the loop;
- failures half way: the database connection, a refused `getChats`;
- a reconnect in the middle of a transaction or of a result, a COMMIT whose answer
  is lost, two statements on one wire, a null that ends the rows or hides an error;
- a user object that is moved into its cache before the callback runs, and a cache
  with narrower keys than its ids;
- a scraper that may die between any two statements and reads the same events
  again, with caches that run ahead of the commit.

What makes each component correct: a synchronous query gets the answer to its
own question and, as long as the loop runs, gets it at all; the login dialogue
neither stops nor multiplies; `is_authorized_` follows the account; the client is
never used without a manager before TDLib said it is closed; the shutdown closes
the client after its users; a stop ends the program; no session is leaked and no
freed one kept, a transaction is durable as a whole or not at all, all rows of a
query arrive; a cache is a replica of what TDLib knows; an event of the log is stored
once or not at all, and none is left out. `PROJECT.json` lists the hazards line by
line with the property that covers each.

## Modules

`TdClient` - class `Td`, one action per step of the event loop, of
`send_query_sync` and of TDLib.

- The loop thread takes one response per turn (`receive`) and runs everything
  that `process_response` calls before the turn is over: `process_update` with one
  disjunct per overload of `on_authorization_state_update`, or `run_handler` with
  the three kinds of handler (login, getMe, synchronous call). A turn that
  reaches a prompt stops in `loop = "prompt"` until `UserInput`.
- `handlers_` is a set of records with an id; `emplace` keeps an existing entry.
  A caller is "in the map" during `pc = "emplace"`; when the loop thread or
  another caller touches the map then, `race` is set and insertions may be lost
  and lookups may miss from then on. That is the nondeterministic outcome of the
  undefined behaviour. A process that dies of it simply stops.
- A caller goes `idle -> emplace -> send -> wait -> idle`. A timed caller may
  leave `wait` at any time. The late answer then writes nowhere, or into the frame
  of the thread's next call (`got_answer`).
- TDLib answers each request once, in any order, keeps its own authorization state
  (`tdState`), refuses login steps up to `MaxRejects` times, may ask again
  (`MaxMoves` times), and may log out and close. It is external: the table of its
  states is what `on_authorization_state_update` has cases for. `getOption` gets
  the query id 0, so that its answer looks like an update; the model allows TDLib
  both to answer it and not to have done so yet.
- Left out: the text of messages, `on_auth_update_mutex` (one thread takes it,
  never twice), `closed_` (written, never read). The caches and callbacks have a module
  of their own, `UpdateCache`: no other state depends on them.

`Tgvisd` - the program: `EXTENDS TdClient` and adds the main thread as a sequence
of places from the constructor to the exit, the logger and the scraper thread, the
flag `stopEventLoop`, the database session and the signal. `Turn` is one call of
`Td::loop` by the main thread; the steps of `send_query_sync` are taken by the one
caller `Chat` while the scraper is in `getChat`. `CountChats` is the line after it,
which reads through the answer without asking whether it is null.

`QueryFuture` - the abstract specification of a synchronous call: a thread asks one
question at a time, gets at most one answer to each, its own or null, and goes on
when it has it, or gives up if it passed a timeout. Two models implement it:

- `TdClient`, seen by each caller without a timeout (`Future(c)`, property
  `CallsAreFutures`): there the hard part is who else writes into `handlers_` and
  which response ends which call;
- `SyncQuery`, whose refinement mapping (`Future`, property `IsFuture`) takes
  `finished` and `retVal` for the status of the question: there the hard part is
  the order of the callback's statements and the caller's.

`SyncQuery` - `send_query_sync` and its callback, one action per statement that
another thread can see: the frame is made (`Begin`), the query sent, `finished`
tested, `wait_for` entered (`Predicate`), the thread put to sleep (`Block`), woken by
the callback, by the deadline or for no reason, the seconds counted (`Count`), the
frame left (`Return`). The callback stores `retVal`, sets `finished` and notifies,
each a step of its own, as the code takes no lock there. The mutex is local to the
call, nobody but the caller takes it, and so it is not a variable; that the callback
does not take it is the reason why a notification may fall between `Predicate` and
`Block` and be lost. When the frame is gone a store is lost, or lands in the
frame of the same thread's next call, and `touched` records it. The two plain
variables are taken to be seen in program order: x86-64 keeps the order of stores,
and the compiler cannot move `finished` before `retVal` past the call of the old
value's destructor. The warning after 60 seconds is left out.

`PrintLock` - `print.c`: the four print functions are one, `Lock` to `Unlock`, with
`get_time` as its middle part; `panic` takes both mutexes by trylock and aborts. What
is kept of a line is whether it is open and the time at its head. Code that prints
without a lock (the login, `send_query_sync`) is left out: the module is about lines
of the print functions only. A panic may put its message into an open line.

`DBSession` - `DB` and `DBStatement` over the handles of the Connector. One action per
public operation, in any order, as one thread may call them, and per way it may
end: `ConnectOk`/`ConnectFails` (a reconnect closes the old session first), `Close`,
`BeginTransaction`, `Commit`/`CommitLost`, `Rollback`, `Prepare`, `Bind`,
`Execute` (not sent, refused, executed, or executed with the answer lost), `Fetch`,
`Destroy`, and `LoseLink` at any moment.

- A session is a number; `live` are those that are allocated, `sess` the one that
  `sess_` points to. A statement remembers its `home`; when that is not in
  `live` any more, a call goes through a freed pointer: `UseFreed` records the
  statement in `freed` and the model goes no further, as anything may happen then.
- What the Connector does is taken from its source: `mysqlx_session_close` frees
  the statements with the session; a statement that failed keeps its diagnostic and
  is never sent again (`Executable`); `sql_bind` appends to the values bound before;
  `load_cache` reads `Prefetch` rows when the cache is empty; whoever sends a command
  first stores what is left on the wire (`Stored`, for `prepare_for_cmd`).
- A statement's rows are counted: `wire`, `cache`, `got`, of `total`. A write is the
  pair of its statement and the number of the execution; `pending` and `durable` are
  sets of writes.
- A refusal of the server leaves the transaction open: the one error after which
  MySQL rolls back by itself is a deadlock with another client, and tgvisd is the
  only one of its database.
- No statement is executed by the program yet (one use is commented out,
  `Scraper.cpp:47`); the module is about the classes as they may be used.

`Replica` - the abstract specification of a cache: a copy of a source, late by the
changes that are on their way and arrive in order. The way is a queue that other things
share: an entry is a change `<<key, value>>`, or `<<>>` for something else, which the
cache lets pass. `UpdateCache` implements it twice (`CachesAreReplicas`): `chat_title_`
by chat, and `users_` by its 32-bit keys; to each of them the updates of the other are
`<<>>`. `Steps` is the safety half of the specification, `Spec` adds that what is sent
arrives.

`UpdateCache` - `process_update` after the login. TDLib sends an update for each
change of a title or a user and for a message; `loop` receives one. The handlers
`u_new_chat`, `u_chat_title`, `u_user`, `u_new_msg` write the cache and then run the
callback; `told` is what the callback was given and what it would find in the cache.
User ids are numbers, `Narrow` is the conversion to the key (2^32 values). That
TDLib sends `updateNewChat` before anything else about a chat, and in the order of
its changes, is an assumption about TDLib.

`EventLog` - the archived `HistoryScraper`: `run` begins a run, `getChatEventLog` takes
the newest events below `min_ev`, as many as the limit or fewer, and
`processChatEventLog` goes through the page, one action per statement: `Begin`,
`trackEventId`/`NotTracked`, `processMessage` for the old message and, of an edit,
for the new one, `Commit`. `db` is what is committed, `tx` what the
scraper sees. New events are posted at any time. The process may end between any
two statements (`Terminate`, `NoAnswer`: an answer that is null is read through), and the
next run starts with empty caches at the newest event.

- A row of `gw_group_messages` has the number `id >> 20` in `tg_msg_id`, and a
  message is looked up by its id (`HistoryScraper.cpp:895`): `Found` compares the two
  as the code does, and in the instance the number of one message is the id of
  another.
- The INSERT of that table names a column `is_deleted` (`HistoryScraper.cpp:849`)
  that `database.sql:61-85` does not have; with that schema every one of them throws.
  The model takes a database that has the column.
- Left out: text, entities, files and forwards of a message, the flag `has_edited`,
  `setHasEditedToTrue` and `setIsDeletedToTrue`. They write in the same transaction
  and read nothing that another part writes.

`MCTdClient`, `MCTgvisd`, `MCEventLog` - instances for TLC (`SyncQuery`, `PrintLock`,
`DBSession` and `UpdateCache` are run as they stand). `TdClientProofs`, `LoginProofs`,
`SyncQueryProofs`, `PrintLockProofs`, `TgvisdProofs`, `DBSessionProofs`,
`UpdateCacheProofs`, `EventLogProofs` - the theorems.

Definitions whose names begin with `M_` are mutated operations: each stands for a
plausible mistake in the code and breaks the property it is paired with in
`PROJECT.json`.

## Runs

| run | instance | what it shows |
|---|---|---|
| `td_calls` | two callers, one with a timeout, one call each; account logged in | type correctness; a waiting call always has its handler and its query or answer (`NoLostCall`); own answers only (`OwnAnswer`); `is_authorized_` follows the account (`AuthorizedView`); no null manager before authorizationStateClosed (`CrashOnlyAfterClosed`) |
| `td_login` | no caller; the full login with one refusal and one unasked state | login steps do not multiply (`LoginNotMultiplied`) though old errors repeat the present step; where TDLib waits for a step, one is under way (`LoginUnderWay`); the dialogue settles, or rests at one prompt that is never answered (`LoginSettles`) |
| `td_live` | one caller, two calls | each call returns unless the loop is over or at a prompt for ever, the manager gone or the map raced upon (`CallReturns`); only its own response ends a call (`EndsByOwnResponse`); the caller sees `QueryFuture` (`CallsAreFutures`) |
| `sync_patient` | `SyncQuery` without a timeout, three calls | it implements `QueryFuture` (`IsFuture`); of a dead frame only the condition variable is touched, by `notify_one` (`OnlyNotifyOutlives`); a lost wake-up costs the rest of a second and no more (`FinishedReturns`) |
| `sync_timed` | `SyncQuery` with a timeout of two seconds, three calls, late answers | type correctness, with `warnCounter` never above the timeout; the call always returns (`TimedReturns`), though a late answer may set the `finished` of a later call |
| `print_lock` | three threads that print and panic for ever, three seconds | lines are whole (`LinesWhole`) and in the order of their times (`TimesInOrder`: the time is read under `print_lock`, not before); who has `print_lock` ends its line (`HolderFinishes`); a panic ends the process (`PanicAborts`), which plain locks in the place of trylock would not guarantee, as pthread mutexes are not fair |
| `app` | the program, phone login with one refusal | type correctness; the client is closed when its users are gone (`CloseRunsAlone`); the deleted logger thread is touched in one window (`StaleOnlyWhileJoining`); a stop ends the program, finds the scraper in `send_query_sync` or the loop at a prompt that is never answered (`StopStuckOnlyInCall`); a failed connection ends it but for such a prompt (`FailedConnectEndsProgram`) |
| `app_stop` | the program, account logged in | **violated**: `TerminatesAfterStop` |
| `app_closed` | as `app_stop` | **violated**: `ClosedBeforeExit` |
| `db` | an INSERT with placeholders, a SELECT of up to three rows read two at a time, two sessions, two executions each | type correctness; no session leaked, no pointer to a deleted one kept (`SessExact`); freed memory only through a statement that outlived its session (`FreedOnlyWithSession`); no row lost to other commands (`NoRowSkipped`), null is the end (`NullIsEnd`) while the link holds; a commit keeps the work (`CommitKeepsWork`); work is whole wherever a link breaks (`WorkIsWhole`) |
| `update_cache` | two chats, three users of whom two share a key, four updates | type correctness; a callback finds what its update says (`CallbackInformed`); both caches are replicas, that of users by its narrow keys, and catch up (`CachesAreReplicas`) |
| `event_log` | seven kinds of event, three in the log, pages of two, two crashes | type correctness; an event is stored whole, once, or not at all (`EventsAtomic`); cached ids are ids of rows (`CachedIdsExist`); a run that was not cut short leaves no event out (`RunCovers`); every run ends (`RunEnds`) |

`OnlyNotifyOutlives` is as much as the code allows: the caller may see `finished` and
return while the callback has still to call `notify_one` on the condition variable
of that frame. `IsFuture` is not claimed with a timeout, because a late answer is then
written through references into a dead frame.

Some properties admit what the code lets happen, and are not to be read as if it could
not. `NoLostCall` and `CallReturns` exempt a call after two threads were in `handlers_` at
once (`race`): a lost insertion is undefined behaviour, and what is checked through a race
is that no call ends by another's answer (`OwnAnswer`, `EndsByOwnResponse`,
`CallsAreFutures`). `NullIsEnd` exempts a broken link and `CommitKeepsWork` a reconnect since
the begin: they say that rows and work are lost in these cases only. `RunCovers` exempts the
events whose INSERT failed (`missed`), which the scraper takes for stored. The liveness
properties of the client and the program exempt a prompt that is never answered
(`Unanswered`); once an answer comes, however late, the prompt holds nothing up any more.

The two violations are disagreements between the code and what it says of itself:

- `TerminatesAfterStop`. The comment at `Main.cpp:39-41` says the handler is there
  "to kill the process gracefully". In the shortest behaviour TLC finds, the signal
  comes before the scraper has its answer; `~Main` joins the logger, then waits for
  the scraper (`Main.cpp:101`), the scraper waits in `send_query_sync` without a
  timeout, and nobody calls `Td::loop`. `StopStuckOnlyInCall` shows that a stop can
  get stuck in this way and in one other: the loop is in `getline`, which the signal
  does not end, and the user never answers.
- `ClosedBeforeExit`. `Td::close` prints "Waiting for authorizationStateClosed..."
  (`Td/Td.cpp:63`) and makes one turn of the loop, which takes the answer of
  another query, or authorizationStateClosing, or nothing.

Bounds. Two callers are enough for every pair of racing threads; ids are shared by
all, so a third caller adds no new pair. One call per caller in the run with two,
two calls in the run with one: the second call is what meets an old handler.
`MaxInbox` 1 or 2 lets TDLib put up to two (three) responses in a row, which is what
orders an answer before or after an update; `requests` is unbounded and already
delays answers at will. One refusal and one unasked state suffice for an error
that comes too late for its step. In `SyncQuery` three calls put a late answer into
the frame of the next call and of the one after, and a timeout of two is the least
that is not over at the first wait. In `db` two sessions make a reconnect; a writer and a
reader meet on the wire; three rows in caches of two make a
result that is read in two loads; two executions make a result that is replaced, and
two sets of values one too many. Two readers on one wire are not in the run: the
theorems `WireExclusive`, `RowsKept` and `NullEnds` hold for any number. In `update_cache`
four updates let two users of one key, or two titles of one chat, overtake each
other if anything could. In `event_log` a log of three is longer than a page, so that events
are posted between pages, and two crashes make a run that repeats what a repeated run
did. The theorems need none of these bounds.

`CHECK_DEADLOCK FALSE` is set in every run: the program really stops (exit, or a
dereferenced null), and a loop that waits for responses that never come is a
behaviour that stutters.

A comment that the models contradict without a run of its own: "Each new call resets
the binds set by the previous call" (`src/ext/mysql_cpp/xapi/mysqlx.cc:339-340`), while
`sql_bind` appends to them (`crud.cc:113`). It is the library's, and `DBSession` has it
as the code does (`BindValues`).

Fairness. Weak fairness of the loop (`Main::run` calls it again and again), of each
thread (the operating system), of time (`SecondPasses`), and of TDLib answering some request as long as there is
one. No fairness for closing, logging out, confirming on another device or for
signals: nobody has to. Nor for the user at a prompt: `getline` holds the event loop
as long as it takes, and the properties that this can defeat name it (`Unanswered`). In `SyncQuery` TDLib need not answer at all, and nothing wakes a
sleeping caller for no reason. In `PrintLock` a thread that has begun goes on when
it can (weak fairness), which promises no turn at a mutex that others keep taking. In
`UpdateCache` the loop goes on (weak fairness) and TDLib need not send anything. In
`EventLog` the scraper's steps are fair together (`Scrape`): it is one sequential
thread, and each of its queries is answered or times out after 30 seconds. A crash,
an end for want of an answer and a new event are never owed; nor is a new run.

## Proofs

`TdClientProofs` proves, for every set of callers and every bound:
`Typed`, `AnswersAreOwn`, `CallsAreNotLost`, `CrashComesAfterClosed`,
`CallsEndByOwnResponse`, `CallsKeepPromise`. They rest on the assumptions `TdClientAssumption` and
`PassesAssumption` only.

None of the three invariants is inductive. `IInv` adds to them, while there is a
`ClientManager`: all ids in flight (in a request, in the inbox, in a handler, in a
frame) were given out, and are not 0 where a handler waits (`IdsGivenOut`); no id
is in flight twice (`IdsDistinct`); a call that has not sent has nothing in flight
(`NotSentYet`); an entry under a call's id is that call's (`OwnEntry`); a
synchronous handler whose id is in flight belongs to a frame that still waits
(`StillWaits`); without a race, a call that has emplaced has its entry and
something in flight (`Registered`); what is in flight under a call's id is about
its question (`OwnQuestion`). When `restart` throws the manager away, with all
that was in flight, this part is no longer claimed, and what remains
(`ClosedInv`, `OwnAnswer`) is kept because nothing is received any more. The proof
goes step by step: one lemma per action for the live part (`LoopLive`, `AnswerLive`,
`MoveLive`, `BeginLive`, ...), lemmas on sequences of responses (`TailIds`,
`AppendIds`), and `LoopEffect`, which sums up what a turn of the loop may do to the
queries and handlers.

`CallsKeepPromise` is the refinement of `QueryFuture`: a step that changes what a
patient caller sees is the start of a call, the delivery of the response to its own
query (`ReceiveDelivers`) or its return.

`SyncQueryProofs` proves `Typed` for any timeout and, without a timeout,
`FrameOutlived` and `ImplementsFuture`, for any number of calls. The
invariant is `OneAnswer`: the answer to the present call is in one place only (still
to come, in the callback's hands, or in the frame), and the caller cannot be at the
`return` before `finished` is set. `Numbered` adds that a call which still waits has
seconds left, without which the bound on `warnCounter` is not inductive. They
rest on `SyncQueryAssumption`. `NoneGivesUpEarly` holds with a timeout and without: neither
a spurious nor a lost wake-up, nor the answer of an earlier call, brings a call to its
return before `finished` is set or all its seconds are counted (`LeavesForAReason`).

`PrintLockProofs` proves `LinesStayWhole` and `TimesStayInOrder` for any number of
threads. The invariant says who owns `print_lock` (`Owned`) and that the time on its
way from the clock through the two buffers to the line is never before the last
line's (`Ordered`): `TimesInOrder` says nothing of the buffers and could not be
proved from itself. `LocksHeld` adds where the owner of each mutex is. From it follow
`LocksAreReleased` (no thread that is done with a mutex still owns it) and `NestingIsFree`
(who has `print_lock` is kept waiting for `get_time_lock` only by a panic about to abort):
the safety that `HolderFinishes` rests on.

`TgvisdProofs` proves that every behaviour of the program is one of the client
(`ProgramRunsClient`), so that the theorems above hold in it, and from an invariant
on the places of the two threads (`ShutdownInv`): `AppTyped`, `ClosesAlone`,
`StaleInWindow`. `AskedOnce` counts the questions by the place of the scraper; with
`AnswersAreOwn` it gives `CountedIsOwn`: the one line that reads through an answer goes on
only with the answer to `getChats`. `EndsInOrder` relates the scraper's place, its session,
its question and the flag (`ScraperEndsInOrder`): it ends with both session and question,
or with neither and the flag up, and no step takes the flag back (`StopStays`).

`LoginProofs` proves the two statements about the login. `AuthorizedFollows`: of itself
`AuthorizedView` says nothing of what is still to be read, and is not inductive. `ViewInv` adds
that from `Ready` on the account goes one way (`Follows`: logging out, closing, closed),
and that the client's state, the announcements in the inbox in their order, and TDLib's
state follow each other (`Announced`), so that no announcement that is still
unread could put the client back. `StepsDoNotMultiply`: the steps of a login are queries (a
finite set), unread responses that would go on with the login when they are handled
(`LoginResponse`, which depends on `handlers_`), and the prompt. `StepInv` bounds their sum,
with one more for a login that another device has yet to confirm (`Pending`),
by one more than the states TDLib announced unasked. Each step is a lemma that says what
it takes from one count and adds to another (`ReceiveSteps`, `AnswerSteps`, ...); the facts
on cardinalities are those of `FiniteSetTheorems`. `LoginGoesOn` is the other side of that: where
TDLib waits for a step, at least one is under way (`LoginUnderWay`), unless the map was raced
upon. Its invariant (`WayInv`) needs that the last state announced to the client is TDLib's
(`LastWord`), so that a refusal repeats the step that is wanted; that each login query has its
handler (`Guarded`), so that a refusal is not dropped; and that no login handler is an old one
(`NeverOld`). The last is true only because `authentication_query_id_` never moves: what lets an
old refusal repeat a step also keeps a refusal from being ignored.

`DBSessionProofs` proves all the properties of the run `db`, for any number of statements,
sessions, rows and executions and any `Prefetch`. The invariant (`DBInv`) has a part for each
concern: statements whose rows add up (`Sound`); one session, older ones behind it, and
statements of these only (`OneSession`); of the statements of the session only the
registered one has rows on the wire, and nothing is behind a null (`Wire`); the work
since the last begin is pending or durable (`Work`); writes are never repeated (`Fresh`); in a
transaction nothing of it is durable, outside one all of it is, unless the link broke (`Settled`).
`WireExclusive` is the assertion in the Connector's `register_result`.

`UpdateCacheProofs` proves `CacheTypes`, `CachesFollow` and `CallbacksInformed` for any
chats, users and keys. `CachesInStep` (no cache goes back to an older value) is inductive
with the types; a callback of a new message needs `MessageAfterChat` besides: the chat is
cached, or its `updateNewChat` is ahead in the queue. `CachesReplicate` is the refinement of `Replica` step by step: sending an update
is a `Change` of the one cache and a `Share` of the other (`LogsSent`), receiving it an `Apply`
of both (`LogsReceived`). That what is sent arrives, the fairness half of `CachesAreReplicas`,
stays with TLC.

`EventLogProofs` proves `LogTypes`, `EventsStayWhole`, `CachesValid` and `RunsCover` for
any log, page size and number of crashes. `LogInv` says when a transaction is open and what it holds
(`Transaction`, `InMessage`, `InCommit`): all of the events before, the messages of the current
one that were processed and none of the others; that only events of the log are tracked
(`Tracked`); and for the pages which events are behind the scraper (`Covering`). Two action
properties follow with two more parts: `StoredStays` (the transaction holds the stored
events and one more, `InTransaction`, so that a commit adds one event that was not there and
touches no other) and `RunsGoDown` (the lowest event of a page is below the last page,
`LowestLower`), without which a run could read the same events for ever.

The theorems rest on the constants' assumptions of the module they are about
(`DBAssumption`, `CacheAssumption`, `LogAssumption`, ...) and on nothing else. Every invariant
that a passing run checks is a theorem. Only model-checked are the
liveness properties (`CallReturns`, `LoginSettles`, `FinishedReturns`, `TimedReturns`,
`HolderFinishes`, `PanicAborts`, `StopStuckOnlyInCall`, `FailedConnectEndsProgram`, `RunEnds`,
and the fairness in `CachesAreReplicas`), which are out of the prover's reach. Of some the safety
they rest on is proved: `LoginGoesOn`, `NoneGivesUpEarly`, `LocksAreReleased` and `NestingIsFree`,
`ScraperEndsInOrder`, `CachesReplicate`, `RunsGoDown`.

## Plan

All of it is done, in this order: `TdClient`; `Tgvisd`; `QueryFuture` and `SyncQuery`;
`PrintLock`; `DBSession` with the part of the Connector under it; `Replica` and
`UpdateCache`; `EventLog`; and the proofs of each, those of the login last.

## Not modelled

- `entry.cpp`: reads the environment, makes `Main` and runs it; sequential, without
  state.
- The Connector beyond what `DBSession` has of it, protobuf, RapidJSON and the other
  libraries inside it, and `json.hpp` of the archive: third-party code that tgvisd calls
  through the functions of `DB` and `DBStatement`, or not at all.
- The archived worker pool and module table (`old.old/src.old2/tgvisd/Main`): not built, and
  the dispatch of messages to the workers is compiled out (`#if 0`), so that the pool never has
  work.
- The archived first generation (`old.old/src.old`): not built; its client is
  the ancestor of `Td`.
- Of `print.h`, the notice level, which nothing sets; of `database.sql`, the tables and the
  view that nothing writes or reads.

The definitions are mapped to nearly all of tgvisd's own code that has state, and to the parts
of the Connector and the archive named above. Measured against every line of the
repository that is little, and must be: about 98 of 100 lines are vendored
libraries (protobuf alone is two lines of five), whose behaviour tgvisd
does not define.
