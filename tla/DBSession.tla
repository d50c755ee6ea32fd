----------------------------- MODULE DBSession -----------------------------
(***************************************************************************)
(* The classes DB and DBStatement: one session with the MySQL server and   *)
(* the statements prepared on it, over the handles of the X DevAPI for C   *)
(* as the Connector in src/ext/mysql_cpp keeps them.                       *)
(*                                                                         *)
(* A session owns its statements and a statement owns its last result.     *)
(* DB and DBStatement hold plain pointers to them: sess_, stmt_ and res_.  *)
(* All of it is one wire: the rows of the last result are on it until they *)
(* are read, and whoever sends a command first stores what is left there.  *)
(*                                                                         *)
(* One thread uses a DB; it may call any operation at any time.            *)
(***************************************************************************)
EXTENDS Naturals, FiniteSets

CONSTANTS
  Stmts,        \* the DBStatement objects, each made and destroyed once
  Bound,        \* those of them whose query has placeholders
  Writers,      \* those that write; the others are queries for rows
  NoStmt,       \* the null m_current_result
  Prefetch,     \* rows read from the wire at a time (load_cache)
  MaxSessions,  \* bound: sessions opened
  MaxRows,      \* bound: rows in a result
  MaxBinds,     \* bound: sets of values bound and not used
  MaxExecs      \* bound: executions of each statement

ASSUME DBAssumption ==
  /\ Bound \subseteq Stmts
  /\ Writers \subseteq Stmts
  /\ NoStmt \notin Stmts
  /\ Prefetch \in Nat \ {0}
  /\ MaxSessions \in Nat
  /\ MaxRows \in Nat
  /\ MaxBinds \in Nat
  /\ MaxExecs \in Nat

VARIABLES
  sess,      \* sess_: 0, or the number of a session
  live,      \* sessions allocated and not deleted
  opened,    \* sessions opened so far
  linked,    \* the connection of the session sess works
  tx,        \* the server has a transaction open for it
  pending,   \* the writes in that transaction
  durable,   \* the writes that are committed
  since,     \* writes executed since the last beginTransaction
  begunOn,   \* the session that one was called on
  current,   \* m_current_result: the statement with rows on the wire
  st,        \* what is known of each statement
  freed      \* statements that were used after the session freed them

serverVars == <<linked, tx, pending, durable>>
dbVars == <<sess, live, opened, begunOn, since>>
vars == <<serverVars, dbVars, current, st, freed>>

(* obj: the DBStatement; home: the session stmt_ belongs to; failed: the   *)
(* diagnostic of stmt_; params: sets of values bound; res: res_ is not     *)
(* null; owns: stmt_ has a result; the rest are the rows of that result.   *)
Statement ==
  [ obj : {"none", "live", "gone"}, home : 0 .. MaxSessions,
    failed : BOOLEAN, params : 0 .. MaxBinds, execs : 0 .. MaxExecs,
    res : BOOLEAN, owns : BOOLEAN,
    wire : 0 .. MaxRows, cache : 0 .. MaxRows, got : 0 .. MaxRows,
    total : 0 .. MaxRows, last : {"none", "row", "null"} ]

Unmade == [ obj |-> "none", home |-> 0, failed |-> FALSE, params |-> 0,
            execs |-> 0, res |-> FALSE, owns |-> FALSE, wire |-> 0,
            cache |-> 0, got |-> 0, total |-> 0, last |-> "none" ]

(* A write is a statement and the number of its execution.                 *)
Write == Stmts \X (1 .. MaxExecs)

-----------------------------------------------------------------------------
(* The Connector.                                                          *)

\* The statement belongs to a session that was deleted: its memory is gone.
Stale(s) == st[s].home \notin live

\* A call through a freed pointer does anything; the model stops to follow it.
UseFreed(s) ==
  /\ freed' = freed \cup {s}
  /\ UNCHANGED <<serverVars, dbVars, current, st>>

Usable(s) == st[s].obj = "live" /\ freed = {}

\* Mutant: what is on the wire is thrown away.
M_Stored_drop(f) ==
  IF current = NoStmt THEN f ELSE [f EXCEPT ![current].wire = 0]

\* Session_impl::prepare_for_cmd: the registered result is read to its end.
Stored(f) ==
  IF current = NoStmt THEN f
  ELSE [f EXCEPT ![current].cache = @ + f[current].wire,
                 ![current].wire = 0]

\* mysqlx_result_free: the statement deletes its result; what is left of it
\* on the wire is discarded.
NoResult(r) ==
  [r EXCEPT !.owns = FALSE, !.wire = 0, !.cache = 0, !.got = 0,
            !.total = 0, !.last = "none"]

Deregistered(s) == IF current = s THEN NoStmt ELSE current

\* The server loses what it was not told to commit.
LoseLink ==
  /\ sess # 0 /\ linked
  /\ linked' = FALSE
  /\ tx' = FALSE
  /\ pending' = {}
  /\ UNCHANGED <<durable, dbVars, current, st, freed>>

-----------------------------------------------------------------------------
(* DB.                                                                     *)

\* Mutant: the pointer is kept.
M_CloseSession_keep ==
  /\ live' = live \ {sess}
  /\ UNCHANGED sess
  /\ tx' = FALSE
  /\ pending' = {}
  /\ current' = NoStmt

\* mysqlx_session_close frees the session and its statements with it, after
\* a rollback.
CloseSession ==
  /\ live' = live \ {sess}
  /\ sess' = 0
  /\ tx' = FALSE
  /\ pending' = {}
  /\ current' = NoStmt

Close ==
  /\ freed = {}
  /\ sess # 0
  /\ CloseSession
  /\ linked' = FALSE
  /\ UNCHANGED <<durable, opened, begunOn, since, st, freed>>

\* DB::connect when the server accepts.
ConnectOk ==
  /\ opened < MaxSessions
  /\ opened' = opened + 1
  /\ sess' = opened + 1
  /\ live' = (live \ {sess}) \cup {opened + 1}
  /\ tx' = FALSE
  /\ pending' = {}
  /\ current' = NoStmt
  /\ linked' = TRUE

\* It refuses: connect throws, the old session is closed already.
ConnectFails ==
  /\ CloseSession
  /\ linked' = FALSE
  /\ UNCHANGED opened

Connect ==
  /\ freed = {}
  /\ ConnectOk \/ ConnectFails
  /\ UNCHANGED <<durable, begunOn, since, st, freed>>

\* DBChkFail: with a null session, or with a broken link, the call throws.
Answers == sess # 0 /\ linked /\ freed = {}

\* START TRANSACTION commits an open one implicitly.
BeginTransaction ==
  /\ Answers
  /\ tx' = TRUE
  /\ durable' = durable \cup pending
  /\ pending' = {}
  /\ since' = {}
  /\ begunOn' = sess
  /\ st' = Stored(st)
  /\ current' = NoStmt
  /\ UNCHANGED <<linked, sess, live, opened, freed>>

\* Mutant: the two calls of the Connector are swapped.
M_Commit_rollback ==
  /\ Answers
  /\ tx' = FALSE
  /\ pending' = {}
  /\ st' = Stored(st)
  /\ current' = NoStmt
  /\ UNCHANGED <<linked, durable, dbVars, freed>>

Commit ==
  /\ Answers
  /\ tx' = FALSE
  /\ durable' = durable \cup pending
  /\ pending' = {}
  /\ st' = Stored(st)
  /\ current' = NoStmt
  /\ UNCHANGED <<linked, dbVars, freed>>

\* The link breaks after the server has committed: commit throws.
CommitLost ==
  /\ Answers
  /\ linked' = FALSE
  /\ tx' = FALSE
  /\ durable' = durable \cup pending
  /\ pending' = {}
  /\ UNCHANGED <<dbVars, current, st, freed>>

Rollback ==
  /\ Answers
  /\ tx' = FALSE
  /\ pending' = {}
  /\ since' = {}
  /\ st' = Stored(st)
  /\ current' = NoStmt
  /\ UNCHANGED <<linked, durable, sess, live, opened, begunOn, freed>>

-----------------------------------------------------------------------------
(* DBStatement.                                                            *)

\* DB::prepare: with a null session the constructor throws.
Prepare(s) ==
  /\ freed = {}
  /\ st[s].obj = "none"
  /\ sess # 0
  /\ st' = [st EXCEPT ![s].obj = "live", ![s].home = sess]
  /\ UNCHANGED <<serverVars, dbVars, current, freed>>

\* The values are appended to those bound before.
BindValues(s) ==
  /\ s \in Bound
  /\ ~ Stale(s)
  /\ st[s].params < MaxBinds
  /\ st' = [st EXCEPT ![s].params = @ + 1]
  /\ UNCHANGED <<serverVars, dbVars, current, freed>>

\* A type that sql_bind does not know.
BindFails(s) ==
  /\ ~ Stale(s)
  /\ st' = [st EXCEPT ![s].failed = TRUE]
  /\ UNCHANGED <<serverVars, dbVars, current, freed>>

Bind(s) ==
  /\ Usable(s)
  /\ \/ Stale(s) /\ UseFreed(s)
     \/ BindValues(s)
     \/ BindFails(s)

\* Mutant: res_ is not reset.
M_ResultFreed_kept(s) == [st EXCEPT ![s] = IF @.res THEN NoResult(@) ELSE @]

\* The first lines of execute: a result of the last execution is freed.
ResultFreed(s) ==
  [st EXCEPT ![s] = IF @.res THEN [NoResult(@) EXCEPT !.res = FALSE] ELSE @]

\* mysqlx_execute: a statement that failed once is never sent again.
Executable(s) == linked /\ ~ st[s].failed

\* The command is not sent.
NotExecuted(s) ==
  /\ ~ Executable(s)
  /\ st' = [ResultFreed(s) EXCEPT ![s].failed = TRUE]
  /\ current' = Deregistered(s)
  /\ UNCHANGED <<serverVars, dbVars, freed>>

\* Mutant: a failed statement rolls the transaction back.
M_Refused_rollback(s) ==
  /\ Executable(s)
  /\ st' = [Stored(ResultFreed(s)) EXCEPT ![s].failed = TRUE]
  /\ current' = NoStmt
  /\ tx' = FALSE
  /\ pending' = {}
  /\ UNCHANGED <<linked, durable, dbVars, freed>>

\* It is, and the server refuses it. The values stay bound.
Refused(s) ==
  /\ Executable(s)
  /\ st' = [Stored(ResultFreed(s)) EXCEPT ![s].failed = TRUE]
  /\ current' = NoStmt
  /\ UNCHANGED <<serverVars, dbVars, freed>>

\* The values a query needs: one set of them, or none.
Needed(s) == IF s \in Bound THEN 1 ELSE 0

\* Outside a transaction a write is durable at once.
Recorded(s) ==
  LET w == <<s, st[s].execs + 1>>
  IN  IF s \notin Writers THEN UNCHANGED <<pending, durable, since>>
      ELSE /\ since' = since \cup {w}
           /\ pending' = IF tx THEN pending \cup {w} ELSE pending
           /\ durable' = IF tx THEN durable ELSE durable \cup {w}

\* The statement makes a result of n rows, and forgets the values bound.
Result(r, n) ==
  [r EXCEPT !.params = 0, !.execs = @ + 1, !.res = TRUE, !.owns = TRUE,
            !.wire = n, !.cache = 0, !.got = 0, !.total = n, !.last = "none"]

Executed(s) ==
  /\ Executable(s)
  /\ st[s].execs < MaxExecs
  /\ st[s].params = Needed(s)
  /\ \E n \in IF s \in Writers THEN {0} ELSE 0 .. MaxRows :
       /\ st' = [Stored(ResultFreed(s)) EXCEPT ![s] = Result(@, n)]
       /\ current' = IF n = 0 THEN NoStmt ELSE s
  /\ Recorded(s)
  /\ UNCHANGED <<linked, tx, sess, live, opened, begunOn, freed>>

\* The link breaks after the server has executed a write: execute throws.
WriteLost(s) ==
  /\ Executable(s)
  /\ s \in Writers
  /\ st[s].execs < MaxExecs
  /\ st[s].params = Needed(s)
  /\ st' = [Stored(ResultFreed(s)) EXCEPT ![s].failed = TRUE,
                                          ![s].execs = @ + 1]
  /\ current' = NoStmt
  /\ linked' = FALSE
  /\ tx' = FALSE
  /\ pending' = {}
  /\ durable' = IF tx THEN durable ELSE durable \cup {<<s, st[s].execs + 1>>}
  /\ since' = since \cup {<<s, st[s].execs + 1>>}
  /\ UNCHANGED <<sess, live, opened, begunOn, freed>>

Execute(s) ==
  /\ Usable(s)
  /\ \/ Stale(s) /\ UseFreed(s)
     \/ /\ ~ Stale(s)
        /\ NotExecuted(s) \/ Refused(s) \/ Executed(s) \/ WriteLost(s)

\* Mutant: only the first rows are read.
M_Loaded_first(r) ==
  IF r.cache = 0 /\ linked /\ r.last = "none"
  THEN IF r.wire < Prefetch THEN r.wire ELSE Prefetch
  ELSE 0

\* load_cache: rows are read when the cache is empty.
Loaded(r) ==
  IF r.cache = 0 /\ linked
  THEN IF r.wire < Prefetch THEN r.wire ELSE Prefetch
  ELSE 0

\* Mutant: a row is taken from the cache without a look whether it has one.
M_NextRow_pop(r) ==
  LET rows == r.cache + Loaded(r)
  IN  [r EXCEPT !.wire = @ - Loaded(r), !.cache = rows - 1,
                !.got = @ + 1, !.last = "row"]

\* A row, or null at the end of the rows; a broken link gives null as well,
\* and only the diagnostic of the result, which nobody reads, tells.
NextRow(r) ==
  LET rows == r.cache + Loaded(r)
  IN  [r EXCEPT !.wire = @ - Loaded(r),
                !.cache = IF rows = 0 THEN 0 ELSE rows - 1,
                !.got = IF rows = 0 THEN @ ELSE @ + 1,
                !.last = IF rows = 0 THEN "null" ELSE "row"]

FetchRow(s) ==
  /\ ~ Stale(s) /\ st[s].owns
  /\ st' = [st EXCEPT ![s] = NextRow(@)]
  /\ current' = IF st[s].wire = Loaded(st[s]) THEN Deregistered(s)
                 ELSE current
  /\ UNCHANGED <<serverVars, dbVars, freed>>

Fetch(s) ==
  /\ Usable(s)
  /\ st[s].res
  /\ \/ (Stale(s) \/ ~ st[s].owns) /\ UseFreed(s)
     \/ FetchRow(s)

\* ~DBStatement frees nothing.
Destroy(s) ==
  /\ Usable(s)
  /\ st' = [st EXCEPT ![s].obj = "gone"]
  /\ UNCHANGED <<serverVars, dbVars, current, freed>>

-----------------------------------------------------------------------------
Init ==
  /\ sess = 0 /\ live = {} /\ opened = 0 /\ linked = FALSE
  /\ tx = FALSE /\ pending = {} /\ durable = {}
  /\ since = {} /\ begunOn = 0
  /\ current = NoStmt
  /\ st = [s \in Stmts |-> Unmade]
  /\ freed = {}

Next ==
  \/ Connect \/ Close \/ LoseLink
  \/ BeginTransaction \/ Commit \/ CommitLost \/ Rollback
  \/ \E s \in Stmts :
       Prepare(s) \/ Bind(s) \/ Execute(s) \/ Fetch(s) \/ Destroy(s)

Spec == Init /\ [][Next]_vars

-----------------------------------------------------------------------------
(* Properties.                                                             *)

\* Types of the state of DB and DBStatement.
TypeOK ==
  /\ sess \in 0 .. MaxSessions
  /\ live \subseteq 1 .. MaxSessions
  /\ opened \in 0 .. MaxSessions
  /\ linked \in BOOLEAN
  /\ tx \in BOOLEAN
  /\ pending \subseteq Write
  /\ durable \subseteq Write
  /\ since \subseteq Write
  /\ begunOn \in 0 .. MaxSessions
  /\ current \in Stmts \cup {NoStmt}
  /\ st \in [Stmts -> Statement]
  /\ freed \subseteq Stmts

\* However connect, close and their failures follow each other, sess_ is
\* null or the one session that is allocated: DB neither leaks a session nor
\* keeps a pointer to a deleted one, also after a reconnect that failed.
SessExact == live = {sess} \ {0}

\* Memory is used after it was freed only through a DBStatement that outlived
\* its session: execute never leaves a freed result in res_.
FreedOnlyWithSession == \A s \in freed : Stale(s)

\* Statements that are executed between the fetches of another one, a commit
\* or a rollback take no row away from it.
NoRowSkipped ==
  \A s \in Stmts :
    st[s].owns /\ ~ Stale(s)
      => st[s].got + st[s].cache + st[s].wire = st[s].total

\* As long as the link holds, a null of fetch is the end of the rows.
NullIsEnd ==
  \A s \in Stmts :
    st[s].owns /\ ~ Stale(s) /\ linked /\ st[s].last = "null"
      => st[s].got = st[s].total

\* A commit that returns on the session of the last beginTransaction makes
\* all durable that was executed since. (After a reconnect it returns too,
\* and what the first session had not committed is lost.)
CommitKeepsWork ==
  [][Commit /\ begunOn = sess => since \subseteq durable']_vars

\* Wherever a statement is refused and wherever the link breaks, on the way of
\* the answer to COMMIT too, the work since beginTransaction is durable as a
\* whole or not at all as long as the session is the same: after an error the
\* caller may ask for any part of it to know of all.
WorkIsWhole ==
  begunOn = sess => since \subseteq durable \/ since \cap durable = {}
=============================================================================
