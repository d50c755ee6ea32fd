-------------------------- MODULE DBSessionProofs --------------------------
(***************************************************************************)
(* Theorems about DBSession, for any statements and any bounds.            *)
(***************************************************************************)
EXTENDS DBSession, TLAPS

\* A statement whose rows are all accounted for, and whose res_ is null
\* unless it has a result. It holds of the statements of closed sessions too.
Sound == { r \in Statement :
             /\ r.got + r.cache + r.wire = r.total
             /\ r.res = r.owns
             /\ ~ r.owns => r.total = 0
             /\ r.obj = "none" => r.home = 0 /\ r.wire = 0 /\ r.last = "none" }

\* One session, older ones behind it, and statements of these only.
OneSession ==
  /\ live = {sess} \ {0}
  /\ sess <= opened
  /\ begunOn <= opened
  /\ \A s \in Stmts : st[s].home <= opened
  /\ linked => sess # 0
  /\ \A s \in freed : Stale(s)

\* Of all statements of the session at most one has rows on the wire, and it
\* is the registered one: the assertion in Session_impl::register_result
\* holds, and whoever sends the next command finds the rows to store.
OneOnWire ==
  \A s \in Stmts : st[s].wire > 0 /\ ~ Stale(s) => current = s

\* Rows on the wire belong to the registered result; behind a null nothing is
\* left, as long as the link holds.
Wire ==
  /\ OneOnWire
  /\ \A s \in Stmts :
       ~ Stale(s) /\ linked /\ st[s].last = "null"
         => st[s].cache = 0 /\ st[s].wire = 0

\* What the transaction of this session has written is pending or durable.
Work == linked /\ begunOn = sess => since \subseteq pending \cup durable

\* Writes are numbered by the executions of their statement.
Fresh == \A w \in pending \cup durable \cup since : w[2] <= st[w[1]].execs

\* In a transaction, what was done since its begin is pending and nothing of
\* it durable; outside one nothing is pending, and what was done on this link
\* is durable.
Settled ==
  /\ tx => /\ begunOn = sess /\ sess # 0
           /\ since = pending /\ pending \cap durable = {}
  /\ ~ tx => pending = {}
  /\ ~ tx /\ linked /\ begunOn = sess => since \subseteq durable
  /\ begunOn = 0 => since \subseteq durable
  /\ WorkIsWhole

Plain ==
  /\ sess \in 0 .. MaxSessions
  /\ live \subseteq 1 .. MaxSessions
  /\ opened \in 0 .. MaxSessions
  /\ linked \in BOOLEAN
  /\ tx \in BOOLEAN
  /\ pending \subseteq Write
  /\ durable \subseteq Write
  /\ since \subseteq Write
  /\ begunOn \in 0 .. MaxSessions
  /\ current \in Stmts \cup {NoStmt}
  /\ freed \subseteq Stmts

-----------------------------------------------------------------------------
(* One statement.                                                          *)

LEMMA Bounds == /\ Prefetch \in Nat \ {0} /\ MaxSessions \in Nat
                /\ MaxRows \in Nat /\ MaxBinds \in Nat /\ MaxExecs \in Nat
                /\ NoStmt \notin Stmts
BY DBAssumption

\* A statement that was not made yet is sound.
LEMMA UnmadeSound == Unmade \in Sound
<1>1. Unmade \in Statement
  <2>1. FALSE \in BOOLEAN
    OBVIOUS
  <2>2. 0 \in 0 .. MaxSessions /\ 0 \in 0 .. MaxBinds /\ 0 \in 0 .. MaxExecs
        /\ 0 \in 0 .. MaxRows
    BY Bounds
  <2> QED  BY <2>1, <2>2 DEF Unmade, Statement
<1>2. Unmade.got + Unmade.cache + Unmade.wire = Unmade.total
  BY DEF Unmade
<1>3. /\ Unmade.res = Unmade.owns
      /\ Unmade.home = 0 /\ Unmade.wire = 0 /\ Unmade.last = "none"
      /\ Unmade.total = 0
  BY DEF Unmade
<1> QED  BY <1>1, <1>2, <1>3 DEF Sound

\* Reading the rest of the wire into the cache loses no row.
LEMMA StoredRow ==
  ASSUME NEW r \in Sound
  PROVE  [r EXCEPT !.cache = @ + r.wire, !.wire = 0] \in Sound
<1> DEFINE n == r.cache + r.wire
           q == [r EXCEPT !.cache = n, !.wire = 0]
<1>1. r \in Statement /\ r.got + r.cache + r.wire = r.total
  BY DEF Sound
<1>2. /\ r.wire \in 0 .. MaxRows /\ r.cache \in 0 .. MaxRows
      /\ r.got \in 0 .. MaxRows /\ r.total \in 0 .. MaxRows
  BY <1>1 DEF Statement
<1>3. n \in 0 .. MaxRows /\ 0 \in 0 .. MaxRows /\ r.got + n + 0 = r.total
  BY <1>1, <1>2, Bounds
<1> HIDE DEF n
<1>4. q \in Statement
  BY <1>1, <1>3 DEF Statement
<1>5. /\ q.got = r.got /\ q.cache = n /\ q.wire = 0 /\ q.total = r.total
      /\ q.res = r.res /\ q.owns = r.owns
      /\ q.obj = r.obj /\ q.home = r.home /\ q.last = r.last
  BY <1>1 DEF Statement
<1>6. q \in Sound
  BY <1>3, <1>4, <1>5 DEF Sound
<1> QED  BY <1>6 DEF n

\* The diagnostic is independent of the rows.
LEMMA FailedRow ==
  ASSUME NEW r \in Sound
  PROVE  [r EXCEPT !.failed = TRUE] \in Sound
BY Bounds DEF Sound, Statement

\* A freed result leaves nothing.
LEMMA FreedRow ==
  ASSUME NEW r \in Sound
  PROVE  [NoResult(r) EXCEPT !.res = FALSE] \in Sound
<1> DEFINE q == [NoResult(r) EXCEPT !.res = FALSE]
<1>1. r \in Statement /\ (r.obj = "none" => r.home = 0)
  BY DEF Sound
<1>2. 0 \in 0 .. MaxRows
  BY Bounds
<1>3. q \in Statement
  BY <1>1, <1>2 DEF Statement, NoResult
<1>4. /\ q.got = 0 /\ q.cache = 0 /\ q.wire = 0 /\ q.total = 0
      /\ q.res = FALSE /\ q.owns = FALSE
      /\ q.obj = r.obj /\ q.home = r.home /\ q.last = "none"
  BY <1>1 DEF Statement, NoResult
<1>5. q.got + q.cache + q.wire = q.total
  BY <1>4
<1> QED  BY <1>1, <1>3, <1>4, <1>5 DEF Sound

\* Fetching moves rows, it neither makes nor loses them.
LEMMA FetchedRow ==
  ASSUME NEW r \in Sound, r.owns, r.obj # "none", linked \in BOOLEAN
  PROVE  /\ NextRow(r) \in Sound
         /\ NextRow(r).wire = r.wire - Loaded(r)
         /\ NextRow(r).home = r.home
         /\ Loaded(r) \in 0 .. r.wire
         /\ linked /\ NextRow(r).last = "null"
              => NextRow(r).cache = 0 /\ NextRow(r).wire = 0
<1> DEFINE n == Loaded(r)
<1>1. r \in Statement /\ r.got + r.cache + r.wire = r.total /\ r.res = r.owns
  BY DEF Sound
<1>2. /\ r.wire \in 0 .. MaxRows /\ r.cache \in 0 .. MaxRows
      /\ r.got \in 0 .. MaxRows /\ r.total \in 0 .. MaxRows
  BY <1>1 DEF Statement
<1>3. n \in 0 .. r.wire
  BY <1>2, Bounds DEF Loaded
<1>4. linked /\ r.cache + n = 0 => r.wire = 0 /\ r.cache = 0
  BY <1>2, Bounds DEF Loaded
<1> DEFINE q == NextRow(r)
           rows == r.cache + n
<1>5. rows = 0
        => q = [r EXCEPT !.wire = @ - n, !.cache = 0, !.got = @, !.last = "null"]
  BY DEF NextRow
<1>8. rows # 0
        => q = [r EXCEPT !.wire = @ - n, !.cache = rows - 1,
                         !.got = @ + 1, !.last = "row"]
  BY DEF NextRow
<1> HIDE DEF q
<1> HIDE DEF n
<1>6. CASE r.cache + n = 0
  <2>1. q = [r EXCEPT !.wire = @ - n, !.cache = 0, !.got = @, !.last = "null"]
    BY <1>5, <1>6
  <2>2. n = 0 /\ r.cache = 0
    BY <1>6, <1>2, <1>3
  <2>3. r.wire - n = r.wire
    BY <2>2, <1>2
  <2>5. q = [r EXCEPT !.cache = 0, !.last = "null"]
    BY <2>1, <2>3, <1>1 DEF Statement
  <2>6. q \in Statement
    <3>1. 0 \in 0 .. MaxRows
      BY Bounds
    <3> QED  BY <2>5, <3>1, <1>1 DEF Statement
  <2>7. /\ q.got = r.got /\ q.cache = 0 /\ q.wire = r.wire
        /\ q.total = r.total /\ q.home = r.home
        /\ q.obj = r.obj /\ q.res = r.res /\ q.owns = r.owns
    BY <2>5, <1>1 DEF Statement
  <2>8. q \in Sound /\ q.wire = r.wire - n /\ q.home = r.home
    BY <2>2, <2>3, <2>6, <2>7, <1>1 DEF Sound
  <2>4. q.cache = 0 /\ (linked => q.wire = 0)
    BY <2>2, <2>7, <1>4
  <2> QED  BY <2>8, <2>4, <1>3 DEF n, q
<1>7. CASE rows # 0
  <2> DEFINE w == r.wire - n
             c == rows - 1
             g == r.got + 1
  <2>0. r.got + r.cache + r.wire = r.total /\ r.cache + n # 0
    BY <1>1, <1>7
  <2>1. /\ g \in 0 .. MaxRows /\ c \in 0 .. MaxRows /\ w \in 0 .. MaxRows
        /\ g + c + w = r.total
    <3>1. r.cache + n \in 1 .. MaxRows /\ r.got + (r.cache + n) <= r.total
      BY <2>0, <1>2, <1>3, Bounds
    <3> QED  BY ONLY <3>1, <2>0, <1>2, <1>3, Bounds
  <2>2. q = [r EXCEPT !.wire = w, !.cache = c, !.got = g, !.last = "row"]
    BY <1>7, <1>8
  <2> HIDE DEF w, c, g
  <2>3. q \in Statement
    BY <2>1, <2>2, <1>1 DEF Statement
  <2>4. q.got = g /\ q.cache = c /\ q.wire = w
        /\ q.total = r.total /\ q.home = r.home /\ q.last = "row"
        /\ q.obj = r.obj /\ q.res = r.res /\ q.owns = r.owns
    BY <2>2, <1>1 DEF Statement
  <2>5. q \in Sound
    BY <2>1, <2>3, <2>4, <1>1 DEF Sound
  <2> QED  BY <2>4, <2>5, <1>3 DEF n, q, w
<1> QED  BY <1>6, <1>7

-----------------------------------------------------------------------------
(* All of them.                                                            *)

\* Storing the wire keeps every statement sound, and only fills caches.
LEMMA StoredSound ==
  ASSUME NEW f \in [Stmts -> Sound], current \in Stmts \cup {NoStmt}
  PROVE  /\ Stored(f) \in [Stmts -> Sound]
         /\ \A s \in Stmts :
              /\ Stored(f)[s].home = f[s].home
              /\ Stored(f)[s].last = f[s].last
              /\ Stored(f)[s].execs = f[s].execs
              /\ Stored(f)[s].obj = f[s].obj
              /\ f[s].wire = 0 => Stored(f)[s].wire = 0
                                  /\ Stored(f)[s].cache = f[s].cache
              /\ s = current => Stored(f)[s].wire = 0
<1>1. CASE current = NoStmt
  BY <1>1, Bounds DEF Stored
<1>2. CASE current # NoStmt
  <2> DEFINE r == f[current]
             q == [r EXCEPT !.cache = @ + r.wire, !.wire = 0]
  <2>1. current \in Stmts /\ r \in Sound
    BY <1>2
  <2>2. q \in Sound
    BY <2>1, StoredRow
  <2>3. r \in Statement
    BY <2>1 DEF Sound
  <2>4. q.home = r.home /\ q.last = r.last /\ q.execs = r.execs /\ q.wire = 0
        /\ q.obj = r.obj /\ q.cache = r.cache + r.wire
    BY <2>3 DEF Statement
  <2>5. r.wire = 0 => q.cache = r.cache
    BY <2>3, <2>4 DEF Statement
  <2>6. Stored(f) = [f EXCEPT ![current] = q]
    BY <1>2, <2>1, <2>3 DEF Stored, Statement
  <2> HIDE DEF q
  <2>7. Stored(f) \in [Stmts -> Sound]
    BY <2>1, <2>2, <2>6
  <2>8. \A s \in Stmts : Stored(f)[s] = IF s = current THEN q ELSE f[s]
    BY <2>1, <2>6
  <2> QED  BY <2>4, <2>5, <2>7, <2>8
<1> QED  BY <1>1, <1>2

\* Freeing the last result of s keeps every statement sound.
LEMMA ResultFreedSound ==
  ASSUME NEW s \in Stmts, st \in [Stmts -> Sound]
  PROVE  /\ ResultFreed(s) \in [Stmts -> Sound]
         /\ \A x \in Stmts :
              /\ ResultFreed(s)[x].home = st[x].home
              /\ ResultFreed(s)[x].execs = st[x].execs
              /\ ResultFreed(s)[x].obj = st[x].obj
              /\ x # s => ResultFreed(s)[x] = st[x]
         /\ ResultFreed(s)[s].wire = 0
         /\ ResultFreed(s)[s].cache = 0
         /\ ResultFreed(s)[s].failed = st[s].failed
<1> DEFINE r == st[s]
           q == [NoResult(r) EXCEPT !.res = FALSE]
<1>1. r \in Sound /\ r \in Statement
  BY DEF Sound
<1>2. q \in Sound /\ q.home = r.home /\ q.execs = r.execs /\ q.wire = 0
      /\ q.cache = 0 /\ q.obj = r.obj /\ q.failed = r.failed
  BY <1>1, FreedRow DEF NoResult, Statement
<1>3. ResultFreed(s) = [st EXCEPT ![s] = IF r.res THEN q ELSE r]
  BY DEF ResultFreed
<1>4. ~ r.res => r.wire = 0 /\ r.cache = 0
  BY <1>1 DEF Sound, Statement
<1> HIDE DEF q
<1> QED  BY <1>1, <1>2, <1>3, <1>4

\* A new result has all its rows on the wire.
LEMMA ResultRow ==
  ASSUME NEW r \in Sound, NEW n \in 0 .. MaxRows,
         r.execs < MaxExecs, r.obj # "none"
  PROVE  Result(r, n) \in Sound
<1> DEFINE e == r.execs + 1
           q == [r EXCEPT !.params = 0, !.execs = e, !.res = TRUE,
                  !.owns = TRUE, !.wire = n, !.cache = 0, !.got = 0,
                  !.total = n, !.last = "none"]
<1>1. r \in Statement
  BY DEF Sound
<1>2. r.execs \in 0 .. MaxExecs
  BY <1>1 DEF Statement
<1>3. e \in 0 .. MaxExecs /\ 0 \in 0 .. MaxBinds /\ 0 \in 0 .. MaxRows
      /\ 0 + 0 + n = n
  BY <1>2, Bounds
<1> HIDE DEF e
<1>4. q \in Statement
  BY <1>1, <1>3 DEF Statement
<1>5. /\ q.got = 0 /\ q.cache = 0 /\ q.wire = n /\ q.total = n
      /\ q.res = TRUE /\ q.owns = TRUE /\ q.obj = r.obj
  BY <1>1 DEF Statement
<1>6. q \in Sound
  BY <1>3, <1>4, <1>5 DEF Sound
<1> QED  BY <1>6 DEF e, Result

\* Every step keeps the statements sound.
LEMMA SoundKept ==
  ASSUME Plain, st \in [Stmts -> Sound], [Next]_vars
  PROVE  st' \in [Stmts -> Sound]
<1>0. current \in Stmts \cup {NoStmt} /\ linked \in BOOLEAN
      /\ sess \in 0 .. MaxSessions
  BY DEF Plain
<1>1. CASE Connect \/ Close \/ LoseLink \/ CommitLost \/ UNCHANGED vars
  BY <1>1 DEF Connect, Close, LoseLink, CommitLost, vars
<1>2. CASE BeginTransaction \/ Commit \/ Rollback
  <2>1. st' = Stored(st)
    BY <1>2 DEF BeginTransaction, Commit, Rollback
  <2> QED  BY <2>1, <1>0, StoredSound
<1>3. ASSUME NEW s \in Stmts, Prepare(s) PROVE st' \in [Stmts -> Sound]
  <2> DEFINE q == [st[s] EXCEPT !.obj = "live", !.home = sess]
  <2>1. st[s] \in Sound /\ st[s] \in Statement
    BY DEF Sound
  <2>2. st' = [st EXCEPT ![s] = q]
    BY <1>3, <2>1 DEF Prepare, Statement
  <2>3. q \in Statement
    BY <1>0, <2>1 DEF Statement
  <2>4. /\ q.got = st[s].got /\ q.cache = st[s].cache /\ q.wire = st[s].wire
        /\ q.total = st[s].total /\ q.res = st[s].res /\ q.owns = st[s].owns
        /\ q.obj = "live"
    BY <2>1 DEF Statement
  <2>5. q \in Sound
    BY <2>1, <2>3, <2>4 DEF Sound
  <2> QED  BY <2>2, <2>5
<1>4. ASSUME NEW s \in Stmts, Bind(s) PROVE st' \in [Stmts -> Sound]
  <2> DEFINE q == [st[s] EXCEPT !.params = @ + 1]
  <2>1. st[s] \in Sound /\ st[s] \in Statement
    BY DEF Sound
  <2>2. CASE UseFreed(s)
    BY <2>2 DEF UseFreed
  <2>3. CASE BindFails(s)
    BY <2>1, <2>3, FailedRow DEF BindFails
  <2>4. CASE BindValues(s)
    <3>1. st' = [st EXCEPT ![s] = q]
      BY <2>1, <2>4 DEF BindValues, Statement
    <3>2. st[s].params \in 0 .. MaxBinds /\ st[s].params < MaxBinds
      BY <2>1, <2>4 DEF BindValues, Statement
    <3>3. st[s].params + 1 \in 0 .. MaxBinds
      BY <3>2, Bounds
    <3>4. q \in Statement
      BY <2>1, <3>3 DEF Statement
    <3>5. /\ q.got = st[s].got /\ q.cache = st[s].cache
          /\ q.wire = st[s].wire /\ q.total = st[s].total
          /\ q.res = st[s].res /\ q.owns = st[s].owns
          /\ q.obj = st[s].obj /\ q.home = st[s].home
          /\ q.last = st[s].last
      BY <2>1 DEF Statement
    <3>6. q \in Sound
      BY <2>1, <3>4, <3>5 DEF Sound
    <3> QED  BY <3>1, <3>6
  <2> QED  BY <1>4, <2>2, <2>3, <2>4 DEF Bind
<1>5. ASSUME NEW s \in Stmts, Execute(s) PROVE st' \in [Stmts -> Sound]
  <2> DEFINE f == ResultFreed(s)
             g == Stored(f)
  <2>1. f \in [Stmts -> Sound] /\ f[s].obj = st[s].obj
        /\ f[s].execs = st[s].execs
    BY ResultFreedSound
  <2>2. g \in [Stmts -> Sound] /\ g[s].obj = f[s].obj
        /\ g[s].execs = f[s].execs
    BY <2>1, <1>0, StoredSound
  <2> HIDE DEF f, g
  <2>3. CASE UseFreed(s)
    BY <2>3 DEF UseFreed
  <2>4. CASE NotExecuted(s)
    <3>1. st' = [f EXCEPT ![s].failed = TRUE]
      BY <2>4 DEF NotExecuted, f
    <3> QED  BY <2>1, <3>1, FailedRow
  <2>5. CASE Refused(s)
    <3>1. st' = [g EXCEPT ![s].failed = TRUE]
      BY <2>5 DEF Refused, f, g
    <3> QED  BY <2>2, <3>1, FailedRow
  <2>6. st[s].obj # "none"
    BY <1>5 DEF Execute, Usable
  <2>7. CASE Executed(s)
    <3>1. PICK n \in 0 .. MaxRows : st' = [g EXCEPT ![s] = Result(g[s], n)]
      <4>1. \A n \in IF s \in Writers THEN {0} ELSE 0 .. MaxRows :
              n \in 0 .. MaxRows
        BY Bounds
      <4> QED  BY <2>7, <4>1 DEF Executed, f, g
    <3>2. Result(g[s], n) \in Sound
      BY <2>1, <2>2, <2>6, <2>7, ResultRow DEF Executed
    <3> QED  BY <2>2, <3>1, <3>2
  <2>8. CASE WriteLost(s)
    <3> DEFINE e == g[s].execs + 1
               q == [g[s] EXCEPT !.failed = TRUE, !.execs = e]
    <3>1. g[s] \in Sound /\ g[s] \in Statement
      BY <2>2 DEF Sound
    <3>2. g[s].execs \in 0 .. MaxExecs /\ g[s].execs < MaxExecs
      BY <2>1, <2>2, <2>8, <3>1 DEF WriteLost, Statement
    <3>3. e \in 0 .. MaxExecs
      BY <3>2, Bounds
    <3>4. st' = [g EXCEPT ![s] = q]
      BY <2>2, <2>8, <3>1 DEF WriteLost, f, g, Statement
    <3> HIDE DEF e
    <3>5. q \in Statement
      BY <3>1, <3>3 DEF Statement
    <3>6. /\ q.got = g[s].got /\ q.cache = g[s].cache /\ q.wire = g[s].wire
          /\ q.total = g[s].total /\ q.res = g[s].res /\ q.owns = g[s].owns
          /\ q.obj = g[s].obj /\ q.home = g[s].home /\ q.last = g[s].last
      BY <3>1 DEF Statement
    <3>7. q \in Sound
      BY <3>1, <3>5, <3>6 DEF Sound
    <3> QED  BY <2>2, <3>4, <3>7
  <2> QED  BY <1>5, <2>3, <2>4, <2>5, <2>7, <2>8 DEF Execute
<1>6. ASSUME NEW s \in Stmts, Fetch(s) PROVE st' \in [Stmts -> Sound]
  <2>1. CASE UseFreed(s)
    BY <2>1 DEF UseFreed
  <2>2. CASE FetchRow(s)
    <3>1. st[s].owns /\ st[s].obj # "none" /\ st[s] \in Sound
      BY <1>6, <2>2 DEF Fetch, Usable, FetchRow
    <3>2. NextRow(st[s]) \in Sound
      BY <3>1, <1>0, FetchedRow
    <3> QED  BY <2>2, <3>2 DEF FetchRow
  <2> QED  BY <1>6, <2>1, <2>2 DEF Fetch
<1>7. ASSUME NEW s \in Stmts, Destroy(s) PROVE st' \in [Stmts -> Sound]
  <2> DEFINE q == [st[s] EXCEPT !.obj = "gone"]
  <2>1. st[s] \in Sound /\ st[s] \in Statement
    BY DEF Sound
  <2>2. q \in Statement
    BY <2>1 DEF Statement
  <2>3. /\ q.got = st[s].got /\ q.cache = st[s].cache /\ q.wire = st[s].wire
        /\ q.total = st[s].total /\ q.res = st[s].res /\ q.owns = st[s].owns
        /\ q.obj = "gone"
    BY <2>1 DEF Statement
  <2>4. q \in Sound
    BY <2>1, <2>2, <2>3 DEF Sound
  <2> QED  BY <1>7, <2>4 DEF Destroy
<1> QED  BY <1>1, <1>2, <1>3, <1>4, <1>5, <1>6, <1>7 DEF Next

\* Every step keeps the other types.
LEMMA PlainKept ==
  ASSUME Plain, st \in [Stmts -> Sound], [Next]_vars PROVE Plain'
<1> USE DEF Plain, serverVars, dbVars
<1>1. CASE Connect
  <2>1. opened' \in 0 .. MaxSessions /\ sess' \in 0 .. MaxSessions
        /\ live' \subseteq 1 .. MaxSessions
    <3>1. CASE ConnectOk
      BY <3>1, Bounds DEF ConnectOk
    <3>2. CASE ConnectFails
      BY <3>2, Bounds DEF ConnectFails, CloseSession
    <3> QED  BY <1>1, <3>1, <3>2 DEF Connect
  <2>2. /\ tx' \in BOOLEAN /\ linked' \in BOOLEAN /\ pending' \subseteq Write
        /\ current' \in Stmts \cup {NoStmt}
    BY <1>1 DEF Connect, ConnectOk, ConnectFails, CloseSession
  <2>3. /\ durable' \subseteq Write /\ since' \subseteq Write
        /\ freed' \subseteq Stmts /\ begunOn' \in 0 .. MaxSessions
    BY <1>1 DEF Connect
  <2> QED  BY <2>1, <2>2, <2>3
<1>2. CASE Close
  <2>1. sess' \in 0 .. MaxSessions
    BY <1>2, Bounds DEF Close, CloseSession
  <2>2. /\ opened' = opened /\ live' \subseteq live /\ linked' = FALSE
        /\ tx' = FALSE /\ pending' = {} /\ durable' = durable
        /\ since' = since /\ begunOn' = begunOn /\ current' = NoStmt
        /\ freed' = freed
    BY <1>2 DEF Close, CloseSession
  <2> QED  BY <2>1, <2>2
<1>3. CASE LoseLink
  BY <1>3 DEF LoseLink
<1>4. CASE BeginTransaction
  BY <1>4 DEF BeginTransaction
<1>5. CASE Commit \/ CommitLost \/ Rollback
  BY <1>5 DEF Commit, CommitLost, Rollback
<1>6. ASSUME NEW s \in Stmts, Prepare(s) \/ Bind(s) \/ Fetch(s) \/ Destroy(s)
      PROVE  Plain'
  <2>1. UNCHANGED <<serverVars, dbVars>>
    BY <1>6 DEF Prepare, Bind, BindValues, BindFails, UseFreed, Fetch, FetchRow,
       Destroy
  <2>2. current' \in {current, NoStmt} /\ freed' \subseteq freed \cup {s}
    BY <1>6 DEF Prepare, Bind, BindValues, BindFails, UseFreed, Fetch, FetchRow,
       Destroy, Deregistered
  <2> QED  BY <2>1, <2>2
<1>7. ASSUME NEW s \in Stmts, Execute(s) PROVE Plain'
  <2>1. /\ UNCHANGED <<sess, live, opened, begunOn>>
        /\ linked' \in {linked, FALSE} /\ tx' \in {tx, FALSE}
    BY <1>7 DEF Execute, NotExecuted, Refused, Executed, WriteLost, UseFreed
  <2>2. /\ current' \in {current, s, NoStmt} /\ freed' \subseteq freed \cup {s}
    BY <1>7 DEF Execute, NotExecuted, Refused, Executed, WriteLost, UseFreed,
       Deregistered
  <2> DEFINE w == <<s, st[s].execs + 1>>
  <2>3. /\ pending' \subseteq pending \cup {w}
        /\ durable' \subseteq durable \cup {w}
        /\ since' \subseteq since \cup {w}
        /\ w \in Write \/ UNCHANGED <<pending, durable, since>>
           \/ (pending' = {} /\ UNCHANGED <<durable, since>>)
    <3>1. CASE NotExecuted(s) \/ Refused(s) \/ UseFreed(s)
      BY <3>1 DEF NotExecuted, Refused, UseFreed
    <3>2. CASE Executed(s) \/ WriteLost(s)
      <4>1. st[s].execs \in 0 .. MaxExecs /\ st[s].execs < MaxExecs
        BY <3>2 DEF Executed, WriteLost, Sound, Statement
      <4>2. w \in Write
        BY <4>1, Bounds DEF Write
      <4> QED  BY <3>2, <4>2 DEF Executed, WriteLost, Recorded
    <3> QED  BY <1>7, <3>1, <3>2 DEF Execute
  <2> QED  BY <2>1, <2>2, <2>3
<1>8. CASE UNCHANGED vars
  BY <1>8 DEF vars
<1> QED  BY <1>1, <1>2, <1>3, <1>4, <1>5, <1>6, <1>7, <1>8 DEF Next

\* What a step may do to the home and to the executions of a statement.
LEMMA StatementSteps ==
  ASSUME Plain, st \in [Stmts -> Sound], Next, NEW x \in Stmts
  PROVE  /\ st'[x].home = st[x].home
            \/ (Prepare(x) /\ st[x].home = 0 /\ st'[x].home = sess)
         /\ st[x].failed => st'[x].execs = st[x].execs
<1>1. /\ current \in Stmts \cup {NoStmt} /\ linked \in BOOLEAN
      /\ st[x] \in Sound /\ st[x] \in Statement
  BY DEF Plain, Sound
<1>2. CASE Connect \/ Close \/ LoseLink \/ CommitLost
  BY <1>2 DEF Connect, Close, LoseLink, CommitLost
<1>3. CASE BeginTransaction \/ Commit \/ Rollback
  <2>1. st' = Stored(st)
    BY <1>3 DEF BeginTransaction, Commit, Rollback
  <2> QED  BY <2>1, <1>1, StoredSound
<1>4. ASSUME NEW s \in Stmts, Prepare(s)
      PROVE  /\ st'[x].home = st[x].home
                \/ (Prepare(x) /\ st[x].home = 0 /\ st'[x].home = sess)
             /\ st'[x].execs = st[x].execs
  BY <1>1, <1>4 DEF Prepare, Sound, Statement
<1>5. ASSUME NEW s \in Stmts, Bind(s) \/ Destroy(s)
      PROVE  st'[x].home = st[x].home /\ st'[x].execs = st[x].execs
  BY <1>1, <1>5 DEF Bind, BindValues, BindFails, UseFreed, Destroy, Statement
<1>6. ASSUME NEW s \in Stmts, Fetch(s)
      PROVE  st'[x].home = st[x].home /\ st'[x].execs = st[x].execs
  <2>1. NextRow(st[x]).home = st[x].home /\ NextRow(st[x]).execs = st[x].execs
    BY <1>1 DEF NextRow, Statement
  <2> QED  BY <1>1, <1>6, <2>1 DEF Fetch, FetchRow, UseFreed
<1>7. ASSUME NEW s \in Stmts, Execute(s)
      PROVE  /\ st'[x].home = st[x].home
             /\ st[x].failed => st'[x].execs = st[x].execs
  <2> DEFINE f == ResultFreed(s)
             g == Stored(f)
  <2>1. f \in [Stmts -> Sound] /\ f[x].home = st[x].home
        /\ f[x].execs = st[x].execs
    BY ResultFreedSound
  <2>2. g \in [Stmts -> Sound] /\ g[x].home = f[x].home
        /\ g[x].execs = f[x].execs
    BY <2>1, <1>1, StoredSound
  <2>3. f[x] \in Statement /\ g[x] \in Statement
    BY <2>1, <2>2 DEF Sound
  <2> HIDE DEF f, g
  <2>4. CASE UseFreed(s)
    BY <2>4 DEF UseFreed
  <2>5. CASE NotExecuted(s)
    BY <2>1, <2>3, <2>5 DEF NotExecuted, f, Statement
  <2>6. CASE Refused(s)
    BY <2>1, <2>2, <2>3, <2>6 DEF Refused, f, g, Statement
  <2>7. CASE Executed(s)
    <3>1. PICK n : st' = [g EXCEPT ![s] = Result(g[s], n)]
      BY <2>7 DEF Executed, f, g
    <3>2. ~ st[s].failed
      BY <2>7 DEF Executed, Executable
    <3>3. x = s => Result(g[s], n).home = g[x].home
      BY <2>3 DEF Result, Statement
    <3> QED  BY <2>1, <2>2, <3>1, <3>2, <3>3
  <2>8. CASE WriteLost(s)
    <3>1. ~ st[s].failed
      BY <2>8 DEF WriteLost, Executable
    <3> QED  BY <2>1, <2>2, <2>3, <2>8, <3>1 DEF WriteLost, f, g, Statement
  <2> QED  BY <1>7, <2>4, <2>5, <2>6, <2>7, <2>8 DEF Execute
<1> QED  BY <1>2, <1>3, <1>4, <1>5, <1>6, <1>7 DEF Next

\* Opening and closing keep one session; nothing else touches it.
LEMMA OneSessionKept ==
  ASSUME Plain, st \in [Stmts -> Sound], OneSession, [Next]_vars
  PROVE  OneSession'
<1>0. /\ sess \in 0 .. MaxSessions /\ opened \in 0 .. MaxSessions
      /\ begunOn \in 0 .. MaxSessions /\ linked \in BOOLEAN
      /\ \A s \in Stmts : st[s].home \in 0 .. MaxSessions
  BY DEF Plain, Sound, Statement
<1>1. CASE Connect
  <2>1. freed = {} /\ freed' = {} /\ st' = st /\ begunOn' = begunOn
    BY <1>1 DEF Connect
  <2>2. /\ live' = {sess'} \ {0} /\ sess' <= opened' /\ opened <= opened'
        /\ linked' => sess' # 0
    <3>1. CASE ConnectOk
      <4>1. sess' = opened + 1 /\ opened' = opened + 1
            /\ live' = (live \ {sess}) \cup {opened + 1}
        BY <3>1 DEF ConnectOk
      <4>2. live \ {sess} = {}
        BY DEF OneSession
      <4> QED  BY <1>0, <4>1, <4>2, Bounds
    <3>2. CASE ConnectFails
      <4>1. sess' = 0 /\ opened' = opened /\ live' = live \ {sess}
            /\ linked' = FALSE
        BY <3>2 DEF ConnectFails, CloseSession
      <4>2. live \ {sess} = {}
        BY DEF OneSession
      <4> QED  BY <1>0, <4>1, <4>2, Bounds
    <3> QED  BY <1>1, <3>1, <3>2 DEF Connect
  <2>3. begunOn' <= opened' /\ \A s \in Stmts : st'[s].home <= opened'
    <3>1. opened' \in Nat
      BY <1>0, <1>1, Bounds DEF Connect, ConnectOk, ConnectFails
    <3> QED  BY <1>0, <2>1, <2>2, <3>1, Bounds DEF OneSession
  <2> QED  BY <2>1, <2>2, <2>3 DEF OneSession
<1>2. CASE Close
  <2>1. sess' = 0 /\ opened' = opened /\ live' = live \ {sess}
        /\ linked' = FALSE /\ freed' = {} /\ st' = st /\ begunOn' = begunOn
    BY <1>2 DEF Close, CloseSession
  <2> QED  BY <1>0, <2>1, Bounds DEF OneSession
<1>3. CASE LoseLink \/ BeginTransaction \/ Commit \/ CommitLost \/ Rollback
  <2>1. /\ UNCHANGED <<sess, live, opened, freed>> /\ linked' \in {linked, FALSE}
        /\ begunOn' \in {begunOn, sess}
    BY <1>3 DEF LoseLink, BeginTransaction, Commit, CommitLost, Rollback, dbVars
  <2>2. \A s \in Stmts : st'[s].home = st[s].home
    BY <1>3, StatementSteps DEF Next, LoseLink, BeginTransaction, Commit,
       CommitLost, Rollback, Stored, Prepare
  <2>3. begunOn' <= opened'
    BY <1>0, <2>1 DEF OneSession
  <2>4. \A s \in freed' : Stale(s)'
    BY <2>1, <2>2 DEF OneSession, Stale, Plain
  <2>5. /\ live' = {sess'} \ {0} /\ sess' <= opened'
        /\ \A s \in Stmts : st'[s].home <= opened'
    BY <2>1, <2>2 DEF OneSession
  <2>6. linked' => sess' # 0
    BY <2>1 DEF OneSession
  <2> QED  BY <2>3, <2>4, <2>5, <2>6 DEF OneSession
<1>4. ASSUME NEW s \in Stmts,
             Prepare(s) \/ Bind(s) \/ Execute(s) \/ Fetch(s) \/ Destroy(s)
      PROVE  OneSession'
  <2>1. /\ UNCHANGED <<sess, live, opened, begunOn>> /\ linked' \in {linked, FALSE}
    BY <1>4 DEF Prepare, Bind, BindValues, BindFails, UseFreed, Fetch, FetchRow,
       Destroy, Execute, NotExecuted, Refused, Executed, WriteLost, dbVars,
       serverVars
  <2>2. \A x \in Stmts : st'[x].home \in {st[x].home, sess}
    BY <1>4, StatementSteps DEF Next
  <2>3. freed' = freed \/ (UseFreed(s) /\ Stale(s))
    <3>1. Fetch(s) => FetchRow(s) \/ (UseFreed(s) /\ Stale(s))
      <4>1. st[s].res = st[s].owns
        BY DEF Sound
      <4> QED  BY <4>1 DEF Fetch
    <3> QED  BY <1>4, <3>1 DEF Prepare, Bind, BindValues, BindFails, FetchRow,
             Destroy, Execute, NotExecuted, Refused, Executed, WriteLost
  <2>4. \A x \in freed' : Stale(x)'
    <3>1. CASE freed' = freed
      <4>1. CASE freed = {}
        BY <3>1, <4>1
      <4>2. CASE freed # {}
        BY <1>4, <4>2 DEF Prepare, Bind, Execute, Fetch, Destroy, Usable
      <4> QED  BY <4>1, <4>2
    <3>2. CASE UseFreed(s) /\ Stale(s)
      BY <2>1, <3>2 DEF UseFreed, OneSession, Stale
    <3> QED  BY <2>3, <3>1, <3>2
  <2>5. /\ live' = {sess'} \ {0} /\ sess' <= opened' /\ begunOn' <= opened'
    BY <2>1 DEF OneSession
  <2>6. \A x \in Stmts : st'[x].home <= opened'
    BY <2>1, <2>2 DEF OneSession
  <2>7. linked' => sess' # 0
    BY <2>1 DEF OneSession
  <2> QED  BY <2>4, <2>5, <2>6, <2>7 DEF OneSession
<1>5. CASE UNCHANGED vars
  BY <1>5 DEF vars, dbVars, serverVars, OneSession, Stale
<1> QED  BY <1>1, <1>2, <1>3, <1>4, <1>5 DEF Next

\* What Wire says of one function of statements.
WireOf(f, c) ==
  \A s \in Stmts : f[s].home \in live =>
    /\ f[s].wire > 0 => c = s
    /\ linked /\ f[s].last = "null" => f[s].cache = 0 /\ f[s].wire = 0

\* Once the wire is stored it is free, and nulls are still the end.
LEMMA StoredWire ==
  ASSUME NEW f \in [Stmts -> Sound], current \in Stmts \cup {NoStmt},
         WireOf(f, current), NEW x \in Stmts, f[x].home \in live
  PROVE  /\ Stored(f)[x].wire = 0
         /\ linked /\ Stored(f)[x].last = "null" => Stored(f)[x].cache = 0
<1>1. f[x].wire \in Nat
  BY Bounds DEF Sound, Statement
<1>2. f[x].wire > 0 => x = current
  BY DEF WireOf
<1>3. Stored(f)[x].wire = 0
  BY <1>1, <1>2, StoredSound
<1>4. linked /\ f[x].last = "null" => f[x].cache = 0 /\ f[x].wire = 0
  BY DEF WireOf
<1>5. Stored(f)[x].last = f[x].last
      /\ (f[x].wire = 0 => Stored(f)[x].cache = f[x].cache)
  BY StoredSound
<1> QED  BY <1>3, <1>4, <1>5

\* Freeing the result of s frees the wire if it was on it.
LEMMA FreedWire ==
  ASSUME NEW s \in Stmts, st \in [Stmts -> Sound], WireOf(st, current)
  PROVE  /\ WireOf(ResultFreed(s), Deregistered(s))
         /\ WireOf(ResultFreed(s), current)
<1>1. SUFFICES ASSUME NEW x \in Stmts, ResultFreed(s)[x].home \in live
      PROVE /\ ResultFreed(s)[x].wire > 0
                 => current = x /\ Deregistered(s) = x
            /\ linked /\ ResultFreed(s)[x].last = "null"
                 => ResultFreed(s)[x].cache = 0 /\ ResultFreed(s)[x].wire = 0
  BY DEF WireOf
<1>2. CASE x = s
  BY <1>1, <1>2, ResultFreedSound
<1>3. CASE x # s
  <2>1. ResultFreed(s)[x] = st[x]
    BY <1>3, ResultFreedSound
  <2> QED  BY <1>1, <1>3, <2>1 DEF WireOf, Deregistered
<1> QED  BY <1>2, <1>3

\* Whoever sends a command stores the rows that are left; the rows on the wire
\* are those of the registered result.
LEMMA WireKept ==
  ASSUME Plain, st \in [Stmts -> Sound], OneSession, Wire, [Next]_vars
  PROVE  Wire'
<1>0. /\ current \in Stmts \cup {NoStmt} /\ linked \in BOOLEAN
      /\ WireOf(st, current)
  BY DEF Plain, Wire, OneOnWire, WireOf, Stale
<1> SUFFICES WireOf(st, current)'
  BY DEF Wire, OneOnWire, WireOf, Stale
<1>1. CASE Connect \/ Close
  <2>1. st' = st /\ live' \subseteq {opened + 1}
    BY <1>1 DEF Connect, ConnectOk, ConnectFails, Close, CloseSession, OneSession
  <2>2. \A s \in Stmts : st[s].home # opened + 1
    <3>1. \A s \in Stmts : st[s].home \in Nat /\ opened \in Nat
      BY Bounds DEF Plain, Sound, Statement
    <3> QED  BY <3>1 DEF OneSession
  <2> QED  BY <2>1, <2>2 DEF WireOf
<1>2. CASE LoseLink \/ CommitLost \/ UNCHANGED vars
  BY <1>0, <1>2 DEF LoseLink, CommitLost, WireOf, vars, dbVars, serverVars
<1>3. CASE BeginTransaction \/ Commit \/ Rollback
  <2>1. st' = Stored(st) /\ live' = live /\ linked' = linked
    BY <1>3 DEF BeginTransaction, Commit, Rollback, dbVars
  <2>2. \A x \in Stmts : st'[x].home = st[x].home
    BY <2>1, <1>0, StoredSound
  <2> QED  BY <2>1, <2>2, <1>0, StoredWire DEF WireOf
<1>4. ASSUME NEW s \in Stmts, Prepare(s) PROVE WireOf(st, current)'
  <2>1. /\ st[s].wire = 0 /\ st[s].last = "none"
    BY <1>4 DEF Prepare, Sound
  <2>2. /\ st'[s].wire = st[s].wire /\ st'[s].last = st[s].last
        /\ \A x \in Stmts : x # s => st'[x] = st[x]
        /\ live' = live /\ linked' = linked /\ current' = current
    BY <1>4 DEF Prepare, dbVars, serverVars, Sound, Statement
  <2> QED  BY <1>0, <2>1, <2>2 DEF WireOf
<1>5. ASSUME NEW s \in Stmts, Bind(s) \/ Destroy(s) PROVE WireOf(st, current)'
  <2>1. /\ \A x \in Stmts : /\ st'[x].home = st[x].home
                            /\ st'[x].wire = st[x].wire
                            /\ st'[x].cache = st[x].cache
                            /\ st'[x].last = st[x].last
        /\ live' = live /\ linked' = linked /\ current' = current
    BY <1>5 DEF Bind, BindValues, BindFails, UseFreed, Destroy, dbVars,
       serverVars, Sound, Statement
  <2> QED  BY <1>0, <2>1 DEF WireOf
<1>6. ASSUME NEW s \in Stmts, Execute(s) PROVE WireOf(st, current)'
  <2> DEFINE f == ResultFreed(s)
             g == Stored(f)
  <2>1. f \in [Stmts -> Sound] /\ WireOf(f, current)
        /\ WireOf(f, Deregistered(s))
    BY <1>0, ResultFreedSound, FreedWire
  <2>2. g \in [Stmts -> Sound]
        /\ \A x \in Stmts : g[x].home = f[x].home
    BY <2>1, <1>0, StoredSound
  <2>3. \A x \in Stmts : g[x].home \in live =>
          /\ g[x].wire = 0
          /\ linked /\ g[x].last = "null" => g[x].cache = 0
    BY <2>1, <2>2, <1>0, StoredWire
  <2>4. \A x \in Stmts : f[x] \in Statement /\ g[x] \in Statement
    BY <2>1, <2>2 DEF Sound
  <2> HIDE DEF f, g
  <2>5. CASE UseFreed(s)
    BY <1>0, <2>5 DEF UseFreed, dbVars, serverVars, WireOf
  <2>6. CASE NotExecuted(s)
    <3>1. /\ st' = [f EXCEPT ![s].failed = TRUE] /\ current' = Deregistered(s)
          /\ live' = live /\ linked' = linked
      BY <2>6 DEF NotExecuted, dbVars, serverVars, f
    <3>2. \A x \in Stmts : st'[x].home = f[x].home /\ st'[x].wire = f[x].wire
               /\ st'[x].cache = f[x].cache /\ st'[x].last = f[x].last
      BY <2>1, <2>4, <3>1 DEF Statement
    <3> QED  BY <2>1, <3>1, <3>2 DEF WireOf
  <2>7. CASE Refused(s) \/ WriteLost(s)
    <3>1. /\ live' = live /\ (linked' => linked)
      BY <2>7 DEF Refused, WriteLost, dbVars, serverVars
    <3>2. \A x \in Stmts : st'[x].home = g[x].home /\ st'[x].wire = g[x].wire
               /\ st'[x].cache = g[x].cache /\ st'[x].last = g[x].last
      BY <2>2, <2>4, <2>7 DEF Statement, Refused, WriteLost, f, g
    <3>3. \A x \in Stmts : st'[x].home \in live' =>
            /\ st'[x].wire = 0
            /\ linked' /\ st'[x].last = "null" => st'[x].cache = 0
      BY <2>3, <3>1, <3>2
    <3> QED  BY <3>3 DEF WireOf
  <2>8. CASE Executed(s)
    <3>1. PICK n \in IF s \in Writers THEN {0} ELSE 0 .. MaxRows :
            /\ st' = [g EXCEPT ![s] = Result(g[s], n)]
            /\ current' = IF n = 0 THEN NoStmt ELSE s
      BY <2>8 DEF Executed, f, g
    <3>2. live' = live /\ linked' = linked
      BY <2>8 DEF Executed
    <3>3. st'[s].wire = n /\ st'[s].last = "none"
      BY <2>2, <2>4, <3>1 DEF Result, Statement
    <3>4. \A x \in Stmts : x # s => st'[x] = g[x]
      BY <2>2, <3>1
    <3> QED  BY <2>3, <3>1, <3>2, <3>3, <3>4 DEF WireOf
  <2> QED  BY <1>6, <2>5, <2>6, <2>7, <2>8 DEF Execute
<1>7. ASSUME NEW s \in Stmts, Fetch(s) PROVE WireOf(st, current)'
  <2>1. CASE UseFreed(s)
    BY <1>0, <2>1 DEF UseFreed, dbVars, serverVars, WireOf
  <2>2. CASE FetchRow(s)
    <3> DEFINE r == st[s]
               q == NextRow(r)
    <3>1. /\ live' = live /\ linked' = linked
          /\ current' = IF r.wire = Loaded(r) THEN Deregistered(s) ELSE current
      BY <2>2 DEF FetchRow, dbVars, serverVars
    <3>2. r.owns /\ r.obj # "none" /\ r \in Sound /\ r.home \in live
      BY <1>7, <2>2 DEF Fetch, Usable, FetchRow, Stale
    <3>3. /\ q.wire = r.wire - Loaded(r) /\ q.home = r.home
          /\ Loaded(r) \in 0 .. r.wire
          /\ linked /\ q.last = "null" => q.cache = 0 /\ q.wire = 0
      BY <3>2, <1>0, FetchedRow
    <3>4. r.wire \in Nat
      BY <3>2, Bounds DEF Sound, Statement
    <3>5. st'[s] = q /\ \A x \in Stmts : x # s => st'[x] = st[x]
      BY <2>2 DEF FetchRow
    <3> HIDE DEF q
    <3>6. q.wire > 0 => current' = s
      BY <1>0, <3>1, <3>2, <3>3, <3>4 DEF WireOf
    <3>7. \A x \in Stmts : x # s /\ current = x => current' = x
      BY <3>1 DEF Deregistered
    <3> QED  BY <1>0, <3>1, <3>3, <3>5, <3>6, <3>7 DEF WireOf
  <2> QED  BY <1>7, <2>1, <2>2 DEF Fetch
<1> QED  BY <1>1, <1>2, <1>3, <1>4, <1>5, <1>6, <1>7 DEF Next

\* What was executed since beginTransaction stays pending, or is durable.
LEMMA WorkKept ==
  ASSUME Plain, OneSession, Work, [Next]_vars
  PROVE  Work'
<1> USE DEF Work, dbVars, serverVars
<1>1. CASE Connect
  <2>1. CASE ConnectFails
    BY <2>1 DEF ConnectFails, CloseSession
  <2>2. CASE ConnectOk
    <3>1. sess' = opened + 1 /\ begunOn' = begunOn
      BY <1>1, <2>2 DEF Connect, ConnectOk
    <3>2. opened \in Nat /\ begunOn \in Nat /\ begunOn <= opened
      BY Bounds DEF Plain, OneSession
    <3>3. begunOn' # sess'
      BY ONLY <3>1, <3>2
    <3> QED  BY <3>3
  <2> QED  BY <1>1, <2>1, <2>2 DEF Connect
<1>2. CASE Close \/ LoseLink \/ CommitLost
  BY <1>2 DEF Close, LoseLink, CommitLost
<1>3. CASE BeginTransaction \/ Rollback
  BY <1>3 DEF BeginTransaction, Rollback
<1>4. CASE Commit
  BY <1>4 DEF Commit
<1>5. ASSUME NEW s \in Stmts, Prepare(s) \/ Bind(s) \/ Fetch(s) \/ Destroy(s)
      PROVE  Work'
  <2>1. UNCHANGED <<serverVars, dbVars>>
    BY <1>5 DEF Prepare, Bind, BindValues, BindFails, UseFreed, Fetch, FetchRow,
       Destroy
  <2> QED  BY <2>1
<1>6. ASSUME NEW s \in Stmts, Execute(s) PROVE Work'
  <2>1. CASE UseFreed(s) \/ NotExecuted(s) \/ Refused(s)
    BY <2>1 DEF UseFreed, NotExecuted, Refused
  <2>2. CASE Executed(s)
    BY <2>2 DEF Executed, Recorded
  <2>3. CASE WriteLost(s)
    BY <2>3 DEF WriteLost
  <2> QED  BY <1>6, <2>1, <2>2, <2>3 DEF Execute
<1>7. CASE UNCHANGED vars
  BY <1>7 DEF vars
<1> QED  BY <1>1, <1>2, <1>3, <1>4, <1>5, <1>6, <1>7 DEF Next

\* Executions are counted, one at a time.
LEMMA Executions ==
  ASSUME Plain, st \in [Stmts -> Sound], Next, NEW x \in Stmts
  PROVE  /\ st'[x].execs \in Nat /\ st[x].execs \in Nat
         /\ st'[x].execs >= st[x].execs
         /\ Executed(x) \/ WriteLost(x) => st'[x].execs = st[x].execs + 1
<1>1. st[x] \in Statement /\ st[x].execs \in Nat
  BY Bounds DEF Sound, Statement
<1> DEFINE Counted == st'[x].execs \in {st[x].execs, st[x].execs + 1}
<1>2. ASSUME NEW s \in Stmts, Executed(s) \/ WriteLost(s)
      PROVE  st'[x].execs = IF x = s THEN st[x].execs + 1 ELSE st[x].execs
  <2> DEFINE f == ResultFreed(s)
             g == Stored(f)
  <2>1. f \in [Stmts -> Sound] /\ f[x].execs = st[x].execs
    BY ResultFreedSound
  <2>2. g \in [Stmts -> Sound] /\ g[x].execs = f[x].execs
    BY <2>1, StoredSound DEF Plain
  <2>3. g[x] \in Statement
    BY <2>2 DEF Sound
  <2> HIDE DEF f, g
  <2>4. CASE Executed(s)
    <3>1. PICK n : st' = [g EXCEPT ![s] = Result(g[s], n)]
      BY <2>4 DEF Executed, f, g
    <3>2. x = s => Result(g[s], n).execs = g[x].execs + 1
      BY <2>3 DEF Result, Statement
    <3> QED  BY <2>1, <2>2, <3>1, <3>2
  <2>5. CASE WriteLost(s)
    <3>1. st' = [g EXCEPT ![s].failed = TRUE, ![s].execs = g[s].execs + 1]
      BY <2>5 DEF WriteLost, f, g
    <3>2. st'[x].execs = IF x = s THEN g[x].execs + 1 ELSE g[x].execs
      BY <2>2, <2>3, <3>1 DEF Statement
    <3> QED  BY <2>1, <2>2, <3>2
  <2> QED  BY <1>2, <2>4, <2>5
<1>3. ASSUME NEW s \in Stmts, Execute(s) PROVE Counted
  <2> DEFINE f == ResultFreed(s)
             g == Stored(f)
  <2>1. f \in [Stmts -> Sound] /\ f[x].execs = st[x].execs
    BY ResultFreedSound
  <2>2. g \in [Stmts -> Sound] /\ g[x].execs = f[x].execs
    BY <2>1, StoredSound DEF Plain
  <2>3. f[x] \in Statement /\ g[x] \in Statement
    BY <2>1, <2>2 DEF Sound
  <2> HIDE DEF f, g
  <2>4. CASE UseFreed(s)
    BY <2>4 DEF UseFreed
  <2>5. CASE NotExecuted(s)
    BY <2>1, <2>3, <2>5 DEF NotExecuted, f, Statement
  <2>6. CASE Refused(s)
    BY <2>1, <2>2, <2>3, <2>6 DEF Refused, f, g, Statement
  <2>7. CASE Executed(s) \/ WriteLost(s)
    BY <1>2, <2>7
  <2> QED  BY <1>3, <2>4, <2>5, <2>6, <2>7 DEF Execute
<1>4. ASSUME Connect \/ Close \/ LoseLink \/ CommitLost PROVE Counted
  BY <1>4 DEF Connect, Close, LoseLink, CommitLost
<1>5. ASSUME BeginTransaction \/ Commit \/ Rollback PROVE Counted
  <2>1. st' = Stored(st)
    BY <1>5 DEF BeginTransaction, Commit, Rollback
  <2>2. current \in Stmts \cup {NoStmt}
    BY DEF Plain
  <2> QED  BY <2>1, <2>2, StoredSound
<1>6. ASSUME NEW s \in Stmts, Prepare(s) \/ Bind(s) \/ Fetch(s) \/ Destroy(s)
      PROVE  Counted
  <2>1. CASE Prepare(s) \/ Bind(s) \/ Destroy(s)
    BY <1>1, <2>1
    DEF Prepare, Bind, BindValues, BindFails, UseFreed, Destroy, Statement
  <2>2. CASE Fetch(s)
    <3>1. NextRow(st[x]).execs = st[x].execs
      BY <1>1 DEF NextRow, Statement
    <3> QED  BY <1>1, <2>2, <3>1 DEF Fetch, FetchRow, UseFreed
  <2> QED  BY <1>6, <2>1, <2>2
<1>7. Counted
  BY <1>3, <1>4, <1>5, <1>6 DEF Next
<1>8. Executed(x) \/ WriteLost(x) => st'[x].execs = st[x].execs + 1
  BY <1>2
<1> HIDE DEF Counted
<1>9. st'[x].execs \in {st[x].execs, st[x].execs + 1}
  BY <1>7 DEF Counted
<1> QED  BY <1>1, <1>8, <1>9

\* A write that is new has the number of its execution, and is in none of the
\* three sets yet.
LEMMA FreshKept ==
  ASSUME Plain, st \in [Stmts -> Sound], Fresh, [Next]_vars
  PROVE  /\ Fresh'
         /\ \A s \in Stmts :
              <<s, st[s].execs + 1>> \notin pending \cup durable \cup since
<1>1. \A s \in Stmts :
        <<s, st[s].execs + 1>> \notin pending \cup durable \cup since
  <2> SUFFICES ASSUME NEW s \in Stmts,
                      <<s, st[s].execs + 1>> \in pending \cup durable \cup since
               PROVE  FALSE
    OBVIOUS
  <2>1. st[s].execs + 1 <= st[s].execs
    BY DEF Fresh
  <2>2. st[s].execs \in Nat
    BY Bounds DEF Sound, Statement
  <2> QED  BY <2>1, <2>2
<1>2. CASE UNCHANGED vars
  <2>1. /\ pending' = pending /\ durable' = durable /\ since' = since
        /\ st' = st
    BY <1>2 DEF vars, serverVars, dbVars
  <2> QED  BY <1>1, <2>1 DEF Fresh
<1>3. CASE Next
  <2> DEFINE old == pending \cup durable \cup since
             new == pending' \cup durable' \cup since'
  <2>1. \A w \in old : w[1] \in Stmts /\ w[2] \in Nat
    BY DEF Plain, Write
  <2>2. \A w \in old : w[2] <= st'[w[1]].execs
    <3> SUFFICES ASSUME NEW w \in old PROVE w[2] <= st'[w[1]].execs
      OBVIOUS
    <3>1. w[2] <= st[w[1]].execs
      BY DEF Fresh
    <3>2. /\ st'[w[1]].execs \in Nat /\ st[w[1]].execs \in Nat
          /\ st'[w[1]].execs >= st[w[1]].execs
      BY <1>3, <2>1, Executions
    <3>3. w[2] \in Nat
      BY <2>1
    <3> QED  BY ONLY <3>1, <3>2, <3>3
  <2>3. \A w \in new \ old :
          \E s \in Stmts : /\ w = <<s, st[s].execs + 1>>
                          /\ st'[s].execs = st[s].execs + 1
    <3>1. CASE Connect \/ Close \/ LoseLink \/ BeginTransaction \/ Commit
               \/ CommitLost \/ Rollback
      BY <3>1 DEF Connect, ConnectOk, ConnectFails, CloseSession, Close,
         LoseLink, BeginTransaction, Commit, CommitLost, Rollback,
         serverVars, dbVars
    <3>2. ASSUME NEW s \in Stmts,
                 Prepare(s) \/ Bind(s) \/ Fetch(s) \/ Destroy(s)
          PROVE  pending' = pending /\ durable' = durable /\ since' = since
      BY <3>2 DEF Prepare, Bind, BindValues, BindFails, UseFreed, Fetch,
         FetchRow, Destroy, serverVars, dbVars
    <3>3. ASSUME NEW s \in Stmts, Execute(s)
          PROVE  \A w \in new \ old : /\ w = <<s, st[s].execs + 1>>
                                     /\ st'[s].execs = st[s].execs + 1
      <4>1. CASE UseFreed(s) \/ NotExecuted(s) \/ Refused(s)
        BY <4>1 DEF UseFreed, NotExecuted, Refused, serverVars, dbVars
      <4> DEFINE w0 == <<s, st[s].execs + 1>>
      <4>2. CASE Executed(s)
        <5>1. /\ pending' = pending \/ pending' = pending \cup {w0}
              /\ durable' = durable \/ durable' = durable \cup {w0}
              /\ since' = since \/ since' = since \cup {w0}
          BY <4>2 DEF Executed, Recorded
        <5> HIDE DEF w0
        <5>2. \A w \in new : w \in old \/ w = w0
          BY <5>1
        <5>3. st'[s].execs = st[s].execs + 1
          BY <1>3, <4>2, Executions
        <5> QED  BY <5>2, <5>3 DEF w0
      <4>3. CASE WriteLost(s)
        <5>1. /\ pending' = {}
              /\ durable' = durable \/ durable' = durable \cup {w0}
              /\ since' = since \cup {w0}
          BY <4>3 DEF WriteLost
        <5> HIDE DEF w0
        <5>2. \A w \in new : w \in old \/ w = w0
          BY <5>1
        <5>3. st'[s].execs = st[s].execs + 1
          BY <1>3, <4>3, Executions
        <5> QED  BY <5>2, <5>3 DEF w0
      <4> QED  BY <3>3, <4>1, <4>2, <4>3 DEF Execute
    <3> QED  BY <1>3, <3>1, <3>2, <3>3 DEF Next
  <2> HIDE DEF old, new
  <2>4. ASSUME NEW w \in new PROVE w[2] <= st'[w[1]].execs
    <3>1. CASE w \in old
      BY <2>2, <3>1
    <3>2. CASE w \notin old
      <4>1. PICK s \in Stmts : /\ w = <<s, st[s].execs + 1>>
                               /\ st'[s].execs = st[s].execs + 1
        BY <2>3, <3>2
      <4>2. w[1] = s /\ w[2] = st'[s].execs /\ st'[s].execs \in Nat
        BY <1>3, <4>1, Executions
      <4> QED  BY <4>2
    <3> QED  BY <3>1, <3>2
  <2> QED  BY <1>1, <2>4 DEF Fresh, new
<1> QED  BY <1>2, <1>3

LEMMA SettledKept ==
  ASSUME Plain, st \in [Stmts -> Sound], OneSession, Fresh, Settled,
         [Next]_vars
  PROVE  Settled'
<1> USE DEF Settled, WorkIsWhole, dbVars, serverVars
<1>1. CASE Connect
  <2>1. CASE ConnectFails
    BY <1>1, <2>1 DEF Connect, ConnectFails, CloseSession
  <2>2. CASE ConnectOk
    <3>1. /\ sess' = opened + 1 /\ begunOn' = begunOn
          /\ since' = since /\ durable' = durable
          /\ tx' = FALSE /\ pending' = {}
      BY <1>1, <2>2 DEF Connect, ConnectOk
    <3>2. opened \in Nat /\ begunOn \in Nat /\ begunOn <= opened
      BY Bounds DEF Plain, OneSession
    <3>3. begunOn' # sess'
      BY ONLY <3>1, <3>2
    <3> QED  BY <3>1, <3>3
  <2> QED  BY <1>1, <2>1, <2>2 DEF Connect
<1>2. CASE Close
  BY <1>2 DEF Close, CloseSession
<1>3. CASE LoseLink
  BY <1>3 DEF LoseLink
<1>4. CASE CommitLost
  BY <1>4 DEF CommitLost, Answers
<1>5. CASE BeginTransaction
  BY <1>5 DEF BeginTransaction, Answers
<1>6. CASE Rollback
  BY <1>6 DEF Rollback, Answers
<1>7. CASE Commit
  BY <1>7 DEF Commit, Answers
<1>8. ASSUME NEW s \in Stmts, Prepare(s) \/ Bind(s) \/ Fetch(s) \/ Destroy(s)
      PROVE  Settled'
  <2>1. UNCHANGED <<serverVars, dbVars>>
    BY <1>8 DEF Prepare, Bind, BindValues, BindFails, UseFreed, Fetch, FetchRow,
       Destroy
  <2> QED  BY <2>1
<1>9. ASSUME NEW s \in Stmts, Execute(s) PROVE Settled'
  <2>1. <<s, st[s].execs + 1>> \notin pending \cup durable \cup since
    BY FreshKept
  <2>2. CASE UseFreed(s) \/ NotExecuted(s) \/ Refused(s)
    BY <2>2 DEF UseFreed, NotExecuted, Refused
  <2>3. CASE Executed(s)
    BY <2>1, <2>3 DEF Executed, Recorded, Executable
  <2>4. CASE WriteLost(s)
    BY <2>1, <2>4 DEF WriteLost, Executable
  <2> QED  BY <1>9, <2>2, <2>3, <2>4 DEF Execute
<1>10. CASE UNCHANGED vars
  BY <1>10 DEF vars
<1> QED
  BY <1>1, <1>2, <1>3, <1>4, <1>5, <1>6, <1>7, <1>8, <1>9, <1>10 DEF Next

-----------------------------------------------------------------------------
(* The theorems.                                                           *)

DBInv ==
  /\ Plain /\ st \in [Stmts -> Sound] /\ OneSession
  /\ Wire /\ Work /\ Fresh /\ Settled

LEMMA DBInductive == Spec => []DBInv
<1>1. Init => DBInv
  <2> SUFFICES ASSUME Init PROVE DBInv
    OBVIOUS
  <2>1. Plain
    <3>1. 0 \in 0 .. MaxSessions
      BY Bounds
    <3> QED  BY <3>1 DEF Init, Plain
  <2>2. st \in [Stmts -> Sound]
    BY UnmadeSound DEF Init
  <2>3. OneSession
    BY DEF Init, OneSession, Unmade
  <2>4. Wire
    BY DEF Init, Wire, OneOnWire, Stale
  <2>5. Work
    BY DEF Init, Work
  <2>6. Fresh /\ Settled
    BY DEF Init, Fresh, Settled, WorkIsWhole
  <2> QED  BY <2>1, <2>2, <2>3, <2>4, <2>5, <2>6 DEF DBInv
<1>2. DBInv /\ [Next]_vars => DBInv'
  BY SoundKept, PlainKept, OneSessionKept, WireKept, WorkKept,
     FreshKept, SettledKept DEF DBInv
<1> QED  BY <1>1, <1>2, PTL DEF Spec

\* The state of DB and of its statements has the types declared for it.
THEOREM DBTypes == Spec => []TypeOK
<1>1. DBInv => TypeOK
  BY DEF DBInv, Plain, TypeOK, Sound
<1> QED  BY <1>1, DBInductive, PTL

\* sess_ is the one session there is, whatever fails.
THEOREM SessionExact == Spec => []SessExact
<1>1. DBInv => SessExact
  BY DEF DBInv, OneSession, SessExact
<1> QED  BY <1>1, DBInductive, PTL

\* Only a DBStatement that outlived its session uses freed memory.
THEOREM FreedWithSession == Spec => []FreedOnlyWithSession
<1>1. DBInv => FreedOnlyWithSession
  BY DEF DBInv, OneSession, FreedOnlyWithSession
<1> QED  BY <1>1, DBInductive, PTL

\* The assertion of register_result: nobody else's rows are on the wire.
THEOREM WireExclusive == Spec => []OneOnWire
<1>1. DBInv => OneOnWire
  BY DEF DBInv, Wire
<1> QED  BY <1>1, DBInductive, PTL

\* No row of a result is lost to a command of another statement.
THEOREM RowsKept == Spec => []NoRowSkipped
<1>1. DBInv => NoRowSkipped
  BY DEF DBInv, NoRowSkipped, Sound
<1> QED  BY <1>1, DBInductive, PTL

\* A null of fetch is the end, as long as the link holds.
THEOREM NullEnds == Spec => []NullIsEnd
<1>1. ASSUME DBInv, NEW s \in Stmts, ~ Stale(s), linked, st[s].last = "null"
      PROVE  st[s].got = st[s].total
  <2>1. st[s].cache = 0 /\ st[s].wire = 0
    BY <1>1 DEF DBInv, Wire
  <2>2. /\ st[s].got + st[s].cache + st[s].wire = st[s].total
        /\ st[s].got \in 0 .. MaxRows
    BY <1>1 DEF DBInv, Sound, Statement
  <2> QED  BY ONLY <2>1, <2>2, Bounds
<1>2. DBInv => NullIsEnd
  BY <1>1 DEF NullIsEnd
<1> QED  BY <1>2, DBInductive, PTL

\* A commit that returns on the session of beginTransaction loses nothing.
THEOREM CommitDurable == Spec => CommitKeepsWork
<1>1. DBInv /\ [Next]_vars
        => [Commit /\ begunOn = sess => since \subseteq durable']_vars
  BY DEF DBInv, Work, Commit, Answers
<1> QED  BY <1>1, DBInductive, PTL DEF Spec, CommitKeepsWork

\* A transaction is durable as a whole or not at all, wherever the link breaks.
THEOREM WholeOrNothing == Spec => []WorkIsWhole
<1>1. DBInv => WorkIsWhole
  BY DEF DBInv, Settled
<1> QED  BY <1>1, DBInductive, PTL
=============================================================================
