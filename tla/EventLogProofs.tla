--------------------------- MODULE EventLogProofs ---------------------------
(***************************************************************************)
(* Theorems about EventLog, for any events, users, page size, number of    *)
(* crashes and width of the shift.                                         *)
(***************************************************************************)
EXTENDS EventLog, WellFoundedInduction, TLAPS

\* A transaction is open from START TRANSACTION to the end of the event, and
\* until the messages are stored there is nothing in it.
Transaction ==
  /\ open <=> pc \in {"track", "message", "commit"}
  /\ pc \notin {"message", "commit"} => tx = db

\* Only events of the log are tracked, and none is ever lost.
Tracked == db.tracked \subseteq tx.tracked /\ tx.tracked \subseteq 1 .. last

\* In the transaction all events are whole but the current one, of which the
\* messages that are still to come are not stored.
InMessage ==
  /\ pc = "track" =>
       \A e \in EventId : Current(e) => log[e].kind \in {"deleted", "edited"}
  /\ pc = "message" =>
       \A e \in EventId : Current(e) =>
         /\ e \in tx.tracked
         /\ log[e].kind \in {"deleted", "edited"}
         /\ part = "new" => log[e].kind = "edited"
         /\ tx.data[<<e, "new">>] = 0
         /\ part = "old" => tx.data[<<e, "old">>] = 0
         /\ part = "new" => Whole(tx, e, "old")
         /\ \A f \in EventId \ {e}, p \in Part : Whole(tx, f, p)

InCommit ==
  pc = "commit" =>
    /\ \A e \in EventId : Current(e) => e \in tx.tracked
    /\ \A e \in EventId, p \in Part : Whole(tx, e, p)

\* What the scraper has left behind is tracked, or was missed.
Behind(e) == log[e].kind # "other" => e \in db.tracked \cup missed

\* Before a page is asked for: all events down to the one to read on from.
\* While it is processed: those down to its lowest that are not in it.
Covering ==
  /\ pc = "ask" => /\ min_ev \in 0 .. MaxEvents
                   /\ min_ev # 0 =>
                        \A e \in 1 .. since : min_ev <= e => Behind(e)
  /\ pc \in {"event", "track", "message", "commit"} =>
       /\ lowest = -1 \/ lowest \in EventId
       /\ \A e \in 1 .. since :
            e \notin page /\ lowest <= e => Behind(e)

-----------------------------------------------------------------------------
(* The operators.                                                          *)

\* The event ids are numbers, and those in the log are among them.
LEMMA Ids ==
  ASSUME TypeOK
  PROVE  /\ EventId \subseteq Nat
         /\ 1 .. last \subseteq EventId
         /\ page \subseteq EventId
BY LogAssumption DEF TypeOK, EventId

\* A set of numbers has a least one.
LEMMA Least ==
  ASSUME NEW S \in SUBSET Nat, S # {}
  PROVE  \E x \in S : \A y \in S : x <= y
<1>1. PICK x \in S : \A y \in S : ~ (<<y, x>> \in OpToRel(<, Nat))
  BY NatLessThanWellFounded, WFMin, Zenon
<1>2. \A y \in S : ~ (y < x)
  BY <1>1 DEF OpToRel
<1> QED  BY <1>2

\* min_event of a page is its lowest event.
LEMMA LowestIsLeast ==
  ASSUME NEW p \in SUBSET EventId
  PROVE  /\ p = {} => Lowest(p) = -1
         /\ p # {} => Lowest(p) \in p /\ \A f \in p : Lowest(p) <= f
<1>1. p \in SUBSET Nat
  BY LogAssumption DEF EventId
<1>2. CASE p = {}
  BY <1>2 DEF Lowest
<1>3. CASE p # {}
  <2>1. \E x \in p : \A y \in p : x <= y
    BY <1>1, <1>3, Least
  <2> QED  BY <1>3, <2>1 DEF Lowest
<1> QED  BY <1>2, <1>3

\* Resolving a user or the group gives it a row.
LEMMA Resolved ==
  ASSUME NEW d \in Database, tgToDb \subseteq d.known,
         NEW u \in Users \cup {Group}
  PROVE  LET r == resolve(resolve(d, u), Group)
         IN  /\ r \in Database
             /\ r.known = d.known \cup {u, Group}
             /\ r.tracked = d.tracked /\ r.rows = d.rows /\ r.data = d.data
BY DEF resolve, Database

\* Storing a message touches its own data only: one row more, unless it has
\* none to store or was found and is no edit.
LEMMA MessageStored ==
  ASSUME TypeOK, NEW d \in Database, NEW e \in EventId, NEW p \in Part
  PROVE  LET r == resolveMessage(d, e, p)
             content == IF p = "old" THEN log[e].old ELSE log[e].new
         IN  /\ r \in Database
             /\ r.known = d.known /\ r.tracked = d.tracked
             /\ d.rows \subseteq r.rows
             /\ \A x \in EventId \X Part : x # <<e, p>> => r.data[x] = d.data[x]
             /\ r.data[<<e, p>>] =
                  IF content = "data" /\ (p = "new" \/ ~ Found(d, log[e].num))
                  THEN d.data[<<e, p>>] + 1 ELSE d.data[<<e, p>>]
<1> DEFINE content == IF p = "old" THEN log[e].old ELSE log[e].new
           num == log[e].num
           more == IF content = "data" /\ (p = "new" \/ ~ Found(d, num))
                   THEN 1 ELSE 0
           rows == IF Found(d, num) THEN d.rows ELSE d.rows \cup {num}
           data == [d.data EXCEPT ![<<e, p>>] = @ + more]
<1>1. num \in Nat
  BY DEF TypeOK, Event
<1>2. more \in {0, 1}
  OBVIOUS
<1>3. d.data \in [EventId \X Part -> Nat] /\ d.rows \subseteq Nat
  BY DEF Database
<1>4. data \in [EventId \X Part -> Nat] /\ rows \subseteq Nat
  BY <1>1, <1>2, <1>3
<1>5. CASE content = "none"
  <2>1. resolveMessage(d, e, p) = d
    BY <1>5 DEF resolveMessage
  <2> QED  BY <1>5, <2>1
<1>6. CASE content # "none"
  <2> DEFINE r == resolveMessage(d, e, p)
  <2>1. r = [d EXCEPT !.rows = rows, !.data = data]
    BY <1>6 DEF resolveMessage, Database
  <2>2. /\ r.rows = rows /\ r.data = data
        /\ r.known = d.known /\ r.tracked = d.tracked
    BY <2>1 DEF Database
  <2>3. r \in Database
    BY <1>4, <2>1 DEF Database
  <2>4. data[<<e, p>>] = d.data[<<e, p>>] + more
    BY <1>3
  <2>5. d.data[<<e, p>>] \in Nat
    BY <1>3
  <2>6. r.data[<<e, p>>] =
          IF content = "data" /\ (p = "new" \/ ~ Found(d, log[e].num))
          THEN d.data[<<e, p>>] + 1 ELSE d.data[<<e, p>>]
    BY <2>2, <2>4, <2>5
  <2>7. \A x \in EventId \X Part : x # <<e, p>> => r.data[x] = d.data[x]
    BY <1>3, <2>2
  <2> QED  BY <2>2, <2>3, <2>6, <2>7
<1> QED  BY <1>5, <1>6

\* What processing a message does to the tables.
LEMMA Processing ==
  ASSUME TypeOK, CachedIdsExist, NEW e \in EventId, processMessage(e)
  PROVE  /\ log[e].sender \in Users
         /\ tx' \in Database
         /\ tx'.tracked = tx.tracked
         /\ tx'.known = tx.known \cup {log[e].sender, Group}
         /\ tx.rows \subseteq tx'.rows
         /\ \A x \in EventId \X Part :
              x # <<e, part>> => tx'.data[x] = tx.data[x]
         /\ tx'.data[<<e, part>>] =
              LET content == IF part = "old" THEN log[e].old ELSE log[e].new
              IN  IF content = "data"
                       /\ (part = "new" \/ ~ Found(tx, log[e].num))
                  THEN tx.data[<<e, part>>] + 1 ELSE tx.data[<<e, part>>]
         /\ db' = IF open THEN db ELSE tx'
         /\ open' = open
<1> DEFINE d == resolve(resolve(tx, log[e].sender), Group)
<1>1. log[e].sender \in Users /\ part \in Part /\ tx \in Database
  BY DEF processMessage, TypeOK, Event
<1>2. /\ d \in Database
      /\ d.known = tx.known \cup {log[e].sender, Group}
      /\ d.tracked = tx.tracked /\ d.rows = tx.rows /\ d.data = tx.data
  BY <1>1, Resolved DEF CachedIdsExist
<1>3. /\ tx' = resolveMessage(d, e, part)
      /\ db' = IF open THEN db ELSE resolveMessage(d, e, part)
      /\ open' = open
  BY DEF processMessage, Write
<1> HIDE DEF d
<1>4. Found(d, log[e].num) <=> Found(tx, log[e].num)
  BY <1>2 DEF Found
<1>5. /\ tx' \in Database
      /\ tx'.tracked = d.tracked /\ tx'.known = d.known /\ d.rows \subseteq tx'.rows
      /\ \A x \in EventId \X Part : x # <<e, part>> => tx'.data[x] = d.data[x]
      /\ tx'.data[<<e, part>>] =
           LET content == IF part = "old" THEN log[e].old ELSE log[e].new
           IN  IF content = "data"
                    /\ (part = "new" \/ ~ Found(d, log[e].num))
               THEN d.data[<<e, part>>] + 1 ELSE d.data[<<e, part>>]
  BY <1>1, <1>2, <1>3, MessageStored
<1>6. db' = IF open THEN db ELSE tx'
  BY <1>3
<1> QED  BY <1>1, <1>2, <1>3, <1>4, <1>5, <1>6

\* The next part of an event is typed, and then it is a message or the end.
LEMMA Parts ==
  ASSUME part \in Part, NEW e \in EventId, NextPart(e)
  PROVE  /\ part' \in Part
         /\ \/ part = "old" /\ log[e].kind = "edited" /\ part' = "new" /\ pc' = pc
            \/ ~ (part = "old" /\ log[e].kind = "edited") /\ pc' = "commit"
BY DEF NextPart, Part

-----------------------------------------------------------------------------
(* Types.                                                                  *)

LEMMA TypeStep ==
  ASSUME TypeOK, CachedIdsExist, [Next]_vars
  PROVE  TypeOK'
<1> USE DEF TypeOK
<1>1. CASE run
  <2>1. 0 \in -1 .. MaxEvents /\ 0 \in 0 .. last
    BY LogAssumption
  <2> QED  BY <1>1, <2>1 DEF run, chatVars, dbVars
<1>2. CASE getChatEventLog
  <2>1. PICK p \in SUBSET Older : page' = p /\ lowest' = Lowest(p)
    BY <1>2 DEF getChatEventLog
  <2>2. p \subseteq 1 .. last /\ p \in SUBSET EventId
    BY <2>1, Ids DEF Older
  <2>3. lowest' \in -1 .. MaxEvents
    <3>1. CASE p = {}
      BY <2>1, <2>2, <3>1, LowestIsLeast, LogAssumption
    <3>2. CASE p # {}
      <4>1. Lowest(p) \in EventId
        BY <2>2, <3>2, LowestIsLeast
      <4> QED  BY <2>1, <4>1, LogAssumption DEF EventId
    <3> QED  BY <3>1, <3>2
  <2>4. page' \subseteq 1 .. last'
    BY <1>2, <2>1, <2>2 DEF getChatEventLog, chatVars
  <2>5. since' \in 0 .. last'
    BY <1>2 DEF getChatEventLog, chatVars
  <2> QED  BY <1>2, <2>3, <2>4, <2>5 DEF getChatEventLog, chatVars, dbVars
<1>3. CASE PageDone
  BY <1>3 DEF PageDone, chatVars, dbVars, runVars
<1>4. CASE NoPage
  BY <1>4 DEF NoPage, chatVars, dbVars, pageVars
<1>5. CASE Terminate
  <2>1. crashes' \in 0 .. MaxCrashes
    BY <1>5, LogAssumption DEF Terminate
  <2> QED  BY <1>5, <2>1 DEF Terminate, Rollback, chatVars, pageVars, runVars
<1>6. ASSUME NEW e \in EventId, SkipEvent(e) PROVE TypeOK'
  BY <1>6 DEF SkipEvent, chatVars, dbVars, runVars
<1>7. ASSUME NEW e \in EventId, Begin(e) PROVE TypeOK'
  BY <1>7 DEF Begin, chatVars, pageVars, runVars
<1>8. ASSUME NEW e \in EventId, trackEventId(e) PROVE TypeOK'
  <2>1. [tx EXCEPT !.tracked = @ \cup {e}] \in Database
    BY <1>8 DEF Database
  <2> QED  BY <1>8, <2>1 DEF trackEventId, Write, Part, chatVars, pageVars, runVars
<1>9. ASSUME NEW e \in EventId, NotTracked(e) PROVE TypeOK'
  BY <1>9 DEF NotTracked, Rollback, chatVars
<1>10. ASSUME NEW e \in EventId, Commit(e) PROVE TypeOK'
  BY <1>10 DEF Commit, chatVars, runVars
<1>11. ASSUME NEW e \in EventId, SkipMessage(e) PROVE TypeOK'
  BY <1>11, Parts DEF SkipMessage, chatVars, dbVars, pageVars, runVars
<1>12. ASSUME NEW e \in EventId, processMessage(e) PROVE TypeOK'
  <2>1. NextPart(e) /\ tgToDb' = tgToDb \cup {log[e].sender, Group}
    BY <1>12 DEF processMessage
  <2> QED  BY <1>12, <2>1, Parts, Processing
           DEF processMessage, chatVars, pageVars, runVars
<1>13. ASSUME NEW e \in Events, Post(e) PROVE TypeOK'
  BY <1>13, LogAssumption DEF Post, EventId, dbVars, pageVars, runVars
<1>14. CASE UNCHANGED vars
  BY <1>14 DEF vars, chatVars, dbVars, pageVars, runVars
<1> QED
  BY <1>1, <1>2, <1>3, <1>4, <1>5, <1>6, <1>7, <1>8, <1>9, <1>10, <1>11,
     <1>12, <1>13, <1>14 DEF Next, Scrape, NoAnswer

-----------------------------------------------------------------------------
(* The transaction.                                                        *)

LEMMA TransactionStep ==
  ASSUME TypeOK, CachedIdsExist, Transaction, Tracked, [Next]_vars
  PROVE  Transaction' /\ Tracked'
<1> USE DEF Transaction, Tracked
<1>1. CASE run \/ NoPage \/ PageDone \/ getChatEventLog
  BY <1>1 DEF run, NoPage, PageDone, getChatEventLog, chatVars, dbVars
<1>2. CASE Terminate
  BY <1>2 DEF Terminate, Rollback, chatVars
<1>3. ASSUME NEW e \in EventId, SkipEvent(e) PROVE Transaction' /\ Tracked'
  BY <1>3 DEF SkipEvent, chatVars, dbVars
<1>4. ASSUME NEW e \in EventId, Begin(e) PROVE Transaction' /\ Tracked'
  BY <1>4 DEF Begin, chatVars
<1>5. ASSUME NEW e \in EventId, trackEventId(e) PROVE Transaction' /\ Tracked'
  <2>1. tx'.tracked = tx.tracked \cup {e} /\ e \in 1 .. last /\ open
    BY <1>5 DEF trackEventId, Write, TypeOK, Database, Current
  <2>2. db' = db /\ open' = open /\ last' = last /\ pc' = "message"
    BY <1>5, <2>1 DEF trackEventId, Write, chatVars
  <2> QED  BY <2>1, <2>2
<1>6. ASSUME NEW e \in EventId, NotTracked(e) PROVE Transaction' /\ Tracked'
  BY <1>6 DEF NotTracked, Rollback, chatVars
<1>7. ASSUME NEW e \in EventId, Commit(e) PROVE Transaction' /\ Tracked'
  BY <1>7 DEF Commit, chatVars
<1>8. ASSUME NEW e \in EventId, SkipMessage(e) PROVE Transaction' /\ Tracked'
  <2>1. pc' \in {"message", "commit"} /\ pc = "message"
    BY <1>8, Parts DEF SkipMessage, TypeOK
  <2> QED  BY <1>8, <2>1 DEF SkipMessage, chatVars, dbVars
<1>9. ASSUME NEW e \in EventId, processMessage(e)
      PROVE  Transaction' /\ Tracked'
  <2>1. pc = "message" /\ NextPart(e) /\ last' = last
    BY <1>9 DEF processMessage, chatVars
  <2>2. pc' \in {"message", "commit"}
    BY <2>1, Parts DEF TypeOK
  <2> QED  BY <1>9, <2>1, <2>2, Processing
<1>10. ASSUME NEW e \in Events, Post(e) PROVE Transaction' /\ Tracked'
  BY <1>10 DEF Post, dbVars, TypeOK
<1>11. CASE UNCHANGED vars
  BY <1>11 DEF vars, chatVars, dbVars
<1> QED
  BY <1>1, <1>2, <1>3, <1>4, <1>5, <1>6, <1>7, <1>8, <1>9, <1>10, <1>11
  DEF Next, Scrape, NoAnswer

-----------------------------------------------------------------------------
(* The caches.                                                             *)

\* An id enters a cache together with its row, and a transaction in which
\* something is cached is committed or ends with the process.
LEMMA CachedStep ==
  ASSUME TypeOK, CachedIdsExist, Transaction, [Next]_vars
  PROVE  CachedIdsExist'
<1> USE DEF CachedIdsExist
<1>1. CASE run \/ NoPage \/ PageDone \/ getChatEventLog
  BY <1>1 DEF run, NoPage, PageDone, getChatEventLog, dbVars
<1>2. CASE Terminate
  BY <1>2 DEF Terminate
<1>3. ASSUME NEW e \in EventId, SkipEvent(e) PROVE CachedIdsExist'
  BY <1>3 DEF SkipEvent, dbVars
<1>4. ASSUME NEW e \in EventId, Begin(e) PROVE CachedIdsExist'
  BY <1>4 DEF Begin
<1>5. ASSUME NEW e \in EventId, trackEventId(e) PROVE CachedIdsExist'
  BY <1>5 DEF trackEventId, Write, TypeOK, Database
<1>6. ASSUME NEW e \in EventId, NotTracked(e) PROVE CachedIdsExist'
  BY <1>6 DEF NotTracked, Rollback, Transaction
<1>7. ASSUME NEW e \in EventId, Commit(e) PROVE CachedIdsExist'
  BY <1>7 DEF Commit
<1>8. ASSUME NEW e \in EventId, SkipMessage(e) PROVE CachedIdsExist'
  BY <1>8 DEF SkipMessage, dbVars
<1>9. ASSUME NEW e \in EventId, processMessage(e) PROVE CachedIdsExist'
  BY <1>9, Processing DEF processMessage
<1>10. ASSUME NEW e \in Events, Post(e) PROVE CachedIdsExist'
  BY <1>10 DEF Post, dbVars
<1>11. CASE UNCHANGED vars
  BY <1>11 DEF vars, dbVars
<1> QED
  BY <1>1, <1>2, <1>3, <1>4, <1>5, <1>6, <1>7, <1>8, <1>9, <1>10, <1>11
  DEF Next, Scrape, NoAnswer

-----------------------------------------------------------------------------
(* Events are whole.                                                       *)

\* An event stays whole in tables that hold the same of it.
LEMMA WholeKept ==
  ASSUME NEW d, NEW r, NEW e \in EventId, NEW p \in Part,
         Whole(d, e, p),
         r.data[<<e, p>>] = d.data[<<e, p>>],
         d.rows \subseteq r.rows,
         e \in r.tracked <=> e \in d.tracked
  PROVE  Whole(r, e, p)
BY DEF Whole, Found

\* The log of an event does not change once it is tracked.
LEMMA WholePosted ==
  ASSUME TypeOK, NEW f \in Events, Post(f), NEW d,
         d.tracked \subseteq 1 .. last,
         NEW e \in EventId, NEW p \in Part, Whole(d, e, p)
  PROVE  d.data[<<e, p>>] \in
           IF e \in d.tracked /\ HasData(e, p)'
           THEN {1} \cup (IF p = "old" /\ log'[e].num * Shift \in d.rows
                          THEN {0} ELSE {})
           ELSE {0}
<1>1. CASE e \in d.tracked
  <2>1. e # last + 1
    BY <1>1 DEF TypeOK
  <2>2. log'[e] = log[e]
    BY <2>1 DEF Post, TypeOK
  <2> QED  BY <2>2 DEF Whole, HasData, Found
<1>2. CASE e \notin d.tracked
  BY <1>2 DEF Whole
<1> QED  BY <1>1, <1>2

\* A processed message is there once, or was taken for one that is.
LEMMA MessageWhole ==
  ASSUME TypeOK, CachedIdsExist, NEW e \in EventId, processMessage(e),
         e \in tx.tracked, tx.data[<<e, part>>] = 0,
         log[e].kind = "edited" \/ (log[e].kind = "deleted" /\ part = "old")
  PROVE  Whole(tx', e, part)
<1> DEFINE content == IF part = "old" THEN log[e].old ELSE log[e].new
           stored == content = "data" /\ (part = "new" \/ ~ Found(tx, log[e].num))
<1>1. tx'.tracked = tx.tracked /\ tx.rows \subseteq tx'.rows
  BY Processing
<1>2. tx'.data[<<e, part>>] = IF stored THEN 1 ELSE 0
  BY Processing
<1>3. log[e].sender # Channel
  BY DEF processMessage
<1>4. HasData(e, part) <=> content = "data"
  BY <1>3 DEF HasData
<1>5. Found(tx, log[e].num) => Found(tx', log[e].num)
  BY <1>1 DEF Found
<1>6. part = "old" \/ part = "new"
  BY DEF TypeOK, Part
<1> QED  BY <1>1, <1>2, <1>4, <1>5, <1>6 DEF Whole

LEMMA AtomicStep ==
  ASSUME TypeOK, CachedIdsExist, Transaction, Tracked,
         EventsAtomic, InMessage, InCommit, [Next]_vars
  PROVE  EventsAtomic' /\ InMessage' /\ InCommit'
<1> DEFINE Goal == EventsAtomic' /\ InMessage' /\ InCommit'
\* A step that changes neither the log nor what is committed.
<1>0. ASSUME log' = log, db' = db PROVE EventsAtomic'
  BY <1>0 DEF EventsAtomic, Whole, HasData, Found
<1>1. CASE run \/ NoPage \/ PageDone \/ getChatEventLog
  <2>1. log' = log /\ db' = db /\ pc' \notin {"track", "message", "commit"}
    BY <1>1 DEF run, NoPage, PageDone, getChatEventLog, chatVars, dbVars
  <2> QED  BY <1>0, <2>1 DEF InMessage, InCommit
<1>2. CASE Terminate
  <2>1. log' = log /\ db' = db /\ pc' = "off"
    BY <1>2 DEF Terminate, Rollback, chatVars
  <2> QED  BY <1>0, <2>1 DEF InMessage, InCommit
<1>3. ASSUME NEW e \in EventId, SkipEvent(e) PROVE Goal
  <2>1. log' = log /\ db' = db /\ pc' = "event"
    BY <1>3 DEF SkipEvent, chatVars, dbVars
  <2> QED  BY <1>0, <2>1 DEF InMessage, InCommit
<1>4. ASSUME NEW e \in EventId, Begin(e) PROVE Goal
  <2>1. log' = log /\ db' = db /\ pc' = "track" /\ page' = page
    BY <1>4 DEF Begin, chatVars, pageVars
  <2>2. \A f \in EventId : Current(f) => f = e
    BY <1>4, Ids DEF Begin, Current
  <2>3. log[e].kind \in {"deleted", "edited"}
    BY <1>4 DEF Begin, TypeOK, Event
  <2> QED  BY <1>0, <2>1, <2>2, <2>3 DEF InMessage, InCommit, Current
<1>5. ASSUME NEW e \in EventId, trackEventId(e) PROVE Goal
  <2>1. /\ log' = log /\ db' = db /\ page' = page
        /\ pc = "track" /\ pc' = "message" /\ part' = "old"
        /\ Current(e) /\ e \notin tx.tracked
    BY <1>5 DEF trackEventId, Write, Transaction, chatVars, pageVars
  <2>2. /\ tx'.tracked = tx.tracked \cup {e}
        /\ tx'.rows = tx.rows /\ tx'.data = tx.data
    BY <1>5 DEF trackEventId, Write, TypeOK, Database
  <2>3. \A f \in EventId, p \in Part : Whole(tx, f, p)
    BY <2>1 DEF Transaction, EventsAtomic
  <2>4. \A p \in Part : tx.data[<<e, p>>] = 0
    BY <2>1, <2>3 DEF Whole
  <2>5. \A f \in EventId \ {e}, p \in Part : Whole(tx', f, p)
    BY <2>2, <2>3, WholeKept
  <2>6. \A f \in EventId \ {e}, p \in Part : Whole(tx, f, p)'
    BY <2>1, <2>5 DEF Whole, HasData, Found
  <2>7. \A f \in EventId : Current(f)' => f = e
    BY <2>1, Ids DEF Current
  <2>8. log'[e].kind \in {"deleted", "edited"}
    BY <2>1 DEF InMessage
  <2>9. tx'.data[<<e, "old">>] = 0 /\ tx'.data[<<e, "new">>] = 0
    BY <2>2, <2>4 DEF Part
  <2>10. InMessage'
    BY <2>1, <2>2, <2>6, <2>7, <2>8, <2>9 DEF InMessage
  <2> QED  BY <1>0, <2>1, <2>10 DEF InCommit
<1>6. ASSUME NEW e \in EventId, NotTracked(e) PROVE Goal
  <2>1. log' = log /\ db' = db /\ pc' = "event"
    BY <1>6 DEF NotTracked, Rollback, chatVars
  <2> QED  BY <1>0, <2>1 DEF InMessage, InCommit
<1>7. ASSUME NEW e \in EventId, Commit(e) PROVE Goal
  <2>1. log' = log /\ db' = tx /\ pc = "commit" /\ pc' = "event"
    BY <1>7 DEF Commit, chatVars
  <2>2. EventsAtomic'
    BY <2>1 DEF InCommit, EventsAtomic, Whole, HasData, Found
  <2> QED  BY <2>1, <2>2 DEF InMessage, InCommit
<1>8. ASSUME NEW e \in EventId, SkipMessage(e) \/ processMessage(e) PROVE Goal
  <2>1. /\ log' = log /\ page' = page /\ pc = "message"
        /\ Current(e) /\ NextPart(e)
    BY <1>8 DEF SkipMessage, processMessage, chatVars, pageVars
  <2>2. db' = db
    <3>1. open
      BY <2>1 DEF Transaction
    <3> QED  BY <1>8, <3>1, Processing DEF SkipMessage, dbVars
  <2>3. /\ e \in tx.tracked
        /\ log[e].kind \in {"deleted", "edited"}
        /\ part = "new" => log[e].kind = "edited"
        /\ tx.data[<<e, "new">>] = 0
        /\ part = "old" => tx.data[<<e, "old">>] = 0
        /\ part = "new" => Whole(tx, e, "old")
        /\ \A f \in EventId \ {e}, p \in Part : Whole(tx, f, p)
    BY <2>1 DEF InMessage
  <2>4. part \in {"old", "new"} /\ Part = {"old", "new"}
    BY DEF TypeOK, Part
  <2>5. /\ tx'.tracked = tx.tracked /\ tx.rows \subseteq tx'.rows
        /\ \A x \in EventId \X Part :
             x # <<e, part>> => tx'.data[x] = tx.data[x]
    <3>1. CASE SkipMessage(e)
      BY <3>1 DEF SkipMessage, dbVars
    <3>2. CASE processMessage(e)
      BY <3>2, Processing
    <3> QED  BY <1>8, <3>1, <3>2
  <2>6. Whole(tx', e, part)
    <3>1. CASE SkipMessage(e)
      BY <2>3, <2>4, <3>1 DEF SkipMessage, dbVars, Whole, HasData
    <3>2. CASE processMessage(e)
      BY <2>3, <2>4, <3>2, MessageWhole
    <3> QED  BY <1>8, <3>1, <3>2
  <2>7. \A f \in EventId \ {e}, p \in Part : Whole(tx', f, p)
    <3> SUFFICES ASSUME NEW f \in EventId \ {e}, NEW p \in Part
                 PROVE  Whole(tx', f, p)
      OBVIOUS
    <3>1. tx'.data[<<f, p>>] = tx.data[<<f, p>>]
      BY <2>5
    <3> QED  BY <2>3, <2>5, <3>1, WholeKept
  <2>8. \A f \in EventId : Current(f)' => f = e
    BY <2>1, Ids DEF Current
  <2>9. \A f \in EventId, p \in Part : Whole(tx', f, p) => Whole(tx, f, p)'
    BY <2>1 DEF Whole, HasData, Found
  <2>10. CASE pc' = "message"
    <3>1. part = "old" /\ part' = "new" /\ log[e].kind = "edited"
      BY <2>1, <2>4, <2>10, Parts
    <3>2. tx'.data[<<e, "new">>] = 0
      BY <2>3, <2>4, <2>5, <3>1
    <3>3. Whole(tx, e, "old")'
      BY <2>4, <2>6, <2>9, <3>1
    <3>4. \A f \in EventId \ {e}, p \in Part : Whole(tx, f, p)'
      BY <2>7, <2>9
    <3>5. InMessage'
      BY <2>1, <2>3, <2>5, <2>8, <2>10, <3>1, <3>2, <3>3, <3>4 DEF InMessage
    <3> QED  BY <1>0, <2>1, <2>2, <2>10, <3>5 DEF InCommit
  <2>11. CASE pc' = "commit"
    <3>1. ~ (part = "old" /\ log[e].kind = "edited")
      BY <2>1, <2>4, <2>11, Parts
    <3>2. \A p \in Part : Whole(tx', e, p)
      <4>1. CASE part = "old"
        <5>1. log[e].kind = "deleted" /\ tx'.data[<<e, "new">>] = 0
          BY <2>3, <2>4, <2>5, <3>1, <4>1
        <5>2. Whole(tx', e, "new")
          BY <5>1 DEF Whole, HasData
        <5> QED  BY <2>4, <2>6, <4>1, <5>2
      <4>2. CASE part = "new"
        <5>1. tx'.data[<<e, "old">>] = tx.data[<<e, "old">>]
          BY <2>4, <2>5, <4>2
        <5>2. Whole(tx', e, "old")
          BY <2>3, <2>4, <2>5, <4>2, <5>1, WholeKept
        <5> QED  BY <2>4, <2>6, <4>2, <5>2
      <4> QED  BY <2>4, <4>1, <4>2
    <3>3. \A f \in EventId, p \in Part : Whole(tx, f, p)'
      BY <2>7, <2>9, <3>2
    <3>4. InCommit'
      BY <2>3, <2>5, <2>8, <3>3 DEF InCommit
    <3> QED  BY <1>0, <2>1, <2>2, <2>11, <3>4 DEF InMessage
  <2> QED  BY <2>1, <2>4, <2>10, <2>11, Parts
<1>9. ASSUME NEW f \in Events, Post(f) PROVE Goal
  <2>1. /\ db' = db /\ tx' = tx /\ pc' = pc /\ page' = page /\ part' = part
        /\ db.tracked \subseteq 1 .. last /\ tx.tracked \subseteq 1 .. last
    BY <1>9 DEF Post, dbVars, pageVars, Tracked
  <2>2. \A e \in EventId, p \in Part : Whole(db, e, p) => Whole(db, e, p)'
    BY <1>9, <2>1, WholePosted DEF Whole, Found
  <2>3. \A e \in EventId, p \in Part : Whole(tx, e, p) => Whole(tx, e, p)'
    BY <1>9, <2>1, WholePosted DEF Whole, Found
  <2>4. \A e \in EventId : Current(e)' => Current(e) /\ log'[e] = log[e]
    <3> SUFFICES ASSUME NEW e \in EventId, Current(e)'
                 PROVE  Current(e) /\ log'[e] = log[e]
      OBVIOUS
    <3>1. Current(e) /\ e \in 1 .. last
      BY <2>1 DEF Current, TypeOK
    <3>2. e # last + 1
      BY <3>1 DEF TypeOK
    <3> QED  BY <1>9, <3>1, <3>2 DEF Post, TypeOK
  <2>5. EventsAtomic'
    BY <2>2 DEF EventsAtomic
  <2>6. InCommit'
    BY <2>1, <2>3, <2>4 DEF InCommit
  <2>7. InMessage'
    BY <2>1, <2>3, <2>4 DEF InMessage, Part
  <2> QED  BY <2>5, <2>6, <2>7
<1>10. CASE UNCHANGED vars
  <2>1. /\ log' = log /\ db' = db /\ tx' = tx /\ pc' = pc
        /\ page' = page /\ part' = part
    BY <1>10 DEF vars, chatVars, dbVars, pageVars
  <2>2. EventsAtomic'
    BY <1>0, <2>1
  <2>3. \A e : Current(e)' <=> Current(e)
    BY <2>1 DEF Current
  <2>4. \A e, p : Whole(tx, e, p)' <=> Whole(tx, e, p)
    BY <2>1 DEF Whole, HasData, Found
  <2>5. InMessage'
    BY <2>1, <2>3, <2>4 DEF InMessage, Part
  <2>6. InCommit'
    BY <2>1, <2>3, <2>4 DEF InCommit
  <2> QED  BY <2>2, <2>5, <2>6
<1> QED
  BY <1>1, <1>2, <1>3, <1>4, <1>5, <1>6, <1>7, <1>8, <1>9, <1>10
  DEF Next, Scrape, NoAnswer

-----------------------------------------------------------------------------
(* No event is left out.                                                   *)

\* While a page is processed: a step that tracks all that it takes from it.
LEMMA CoverKept ==
  ASSUME TypeOK, Covering,
         pc \in {"event", "track", "message", "commit"},
         pc' \in {"event", "track", "message", "commit"},
         log' = log, lowest' = lowest, since' = since,
         db.tracked \subseteq db'.tracked, missed \subseteq missed',
         \A e \in page \ page' : Behind(e)'
  PROVE  Covering' /\ RunCovers'
<1>1. SUFFICES ASSUME NEW e \in 1 .. since, e \notin page', lowest <= e
               PROVE  Behind(e)'
  BY DEF Covering, RunCovers
<1>2. CASE e \in page
  BY <1>1, <1>2
<1>3. CASE e \notin page
  <2>1. Behind(e)
    BY <1>1, <1>3 DEF Covering
  <2> QED  BY <2>1 DEF Behind
<1> QED  BY <1>2, <1>3

\* A page is the newest of what is older than the events behind.
LEMMA CoverPage ==
  ASSUME TypeOK, Covering, getChatEventLog
  PROVE  Covering' /\ RunCovers'
<1>1. PICK p \in SUBSET Older :
        /\ p = {} => Older = {}
        /\ \A e \in p, f \in Older \ p : f < e
        /\ page' = p /\ lowest' = Lowest(p)
  BY DEF getChatEventLog
<1>2. /\ pc = "ask" /\ pc' = "event"
      /\ log' = log /\ db' = db /\ missed' = missed
      /\ since' = IF min_ev = 0 THEN last ELSE since
  BY DEF getChatEventLog, chatVars, dbVars
<1>3. p \in SUBSET EventId
  BY <1>1, Ids DEF Older
<1>4. lowest' = -1 \/ lowest' \in EventId
  BY <1>1, <1>3, LowestIsLeast
<1>5. ASSUME NEW e \in 1 .. since', e \notin page', lowest' <= e
      PROVE  Behind(e)'
  <2>1. e \in 1 .. last
    BY <1>2, <1>5 DEF TypeOK
  <2>2. e \notin Older
    <3>1. SUFFICES ASSUME e \in Older PROVE FALSE
      OBVIOUS
    <3>2. p # {}
      BY <1>1, <3>1
    <3>3. lowest' \in p
      BY <1>1, <1>3, <3>2, LowestIsLeast
    <3>4. e < lowest'
      BY <1>1, <1>5, <3>1, <3>3
    <3>5. lowest' \in Nat /\ e \in Nat
      BY <1>3, <2>1, <3>3, Ids
    <3> QED  BY <1>5, <3>4, <3>5
  <2>3. min_ev # 0 /\ ~ (e < min_ev)
    BY <2>1, <2>2 DEF Older
  <2>4. e \in 1 .. since /\ min_ev <= e
    BY <1>2, <1>5, <2>1, <2>3 DEF TypeOK
  <2>5. Behind(e)
    BY <1>2, <2>3, <2>4 DEF Covering
  <2> QED  BY <1>2, <2>5 DEF Behind
<1> QED  BY <1>2, <1>4, <1>5 DEF Covering, RunCovers

LEMMA CoverStep ==
  ASSUME TypeOK, CachedIdsExist, Transaction, Tracked, InCommit,
         Covering, RunCovers, [Next]_vars
  PROVE  Covering' /\ RunCovers'
<1> DEFINE Goal == Covering' /\ RunCovers'
<1>1. CASE run
  <2>1. pc' = "ask" /\ min_ev' = 0 /\ 0 \in 0 .. MaxEvents
    BY <1>1, LogAssumption DEF run
  <2> QED  BY <2>1 DEF Covering, RunCovers
<1>2. CASE getChatEventLog
  BY <1>2, CoverPage
<1>3. CASE PageDone
  <2>1. /\ pc = "event" /\ page = {} /\ min_ev' = lowest
        /\ log' = log /\ db' = db /\ missed' = missed /\ since' = since
    BY <1>3 DEF PageDone, chatVars, dbVars, runVars
  <2>2. /\ lowest = -1 \/ lowest \in EventId
        /\ \A e \in 1 .. since : lowest <= e => Behind(e)'
    BY <2>1 DEF Covering, Behind
  <2>3. CASE lowest = -1
    <3>1. pc' = "done"
      BY <1>3, <2>3 DEF PageDone
    <3>2. \A e \in 1 .. since : Behind(e)'
      BY <2>2, <2>3 DEF TypeOK
    <3>3. RunCovers'
      BY <2>1, <3>2 DEF RunCovers, Behind
    <3> QED  BY <3>1, <3>3 DEF Covering
  <2>4. CASE lowest \in EventId
    <3>1. lowest # -1 /\ lowest \in 0 .. MaxEvents
      BY <2>4, LogAssumption DEF EventId
    <3>2. pc' = "ask"
      BY <1>3, <3>1 DEF PageDone
    <3>3. Covering'
      BY <2>1, <2>2, <3>1, <3>2 DEF Covering
    <3> QED  BY <3>2, <3>3 DEF RunCovers
  <2> QED  BY <2>2, <2>3, <2>4
<1>4. CASE NoPage
  BY <1>4 DEF NoPage, Covering, RunCovers
<1>5. CASE Terminate
  BY <1>5 DEF Terminate, Covering, RunCovers
<1>6. ASSUME NEW e \in EventId, SkipEvent(e) PROVE Goal
  <2>1. /\ log' = log /\ db' = db /\ missed' = missed
        /\ page' = page \ {e} /\ log[e].kind = "other"
        /\ pc = "event" /\ pc' = "event" /\ lowest' = lowest /\ since' = since
    BY <1>6 DEF SkipEvent, chatVars, dbVars, runVars
  <2>2. \A f \in page \ page' : Behind(f)'
    BY <2>1 DEF Behind
  <2> QED  BY <2>1, <2>2, CoverKept
<1>7. ASSUME NEW e \in EventId, Begin(e) PROVE Goal
  <2>1. /\ log' = log /\ db' = db /\ missed' = missed /\ page' = page
        /\ pc = "event" /\ pc' = "track" /\ lowest' = lowest /\ since' = since
    BY <1>7 DEF Begin, chatVars, pageVars, runVars
  <2> QED  BY <2>1, CoverKept
<1>8. ASSUME NEW e \in EventId, trackEventId(e) PROVE Goal
  <2>1. open
    BY <1>8 DEF trackEventId, Transaction
  <2>2. /\ log' = log /\ db' = db /\ missed' = missed /\ page' = page
        /\ pc = "track" /\ pc' = "message"
        /\ lowest' = lowest /\ since' = since
    BY <1>8, <2>1 DEF trackEventId, Write, chatVars, pageVars, runVars
  <2> QED  BY <2>2, CoverKept
<1>9. ASSUME NEW e \in EventId, NotTracked(e) PROVE Goal
  <2>1. /\ log' = log /\ db' = db /\ page' = page \ {e}
        /\ missed' = IF e \in tx.tracked THEN missed ELSE missed \cup {e}
        /\ pc = "track" /\ pc' = "event"
        /\ lowest' = lowest /\ since' = since
    BY <1>9 DEF NotTracked, Rollback, chatVars
  <2>2. e \in db.tracked \cup missed'
    BY <2>1 DEF Transaction
  <2>3. \A f \in page \ page' : Behind(f)'
    BY <2>1, <2>2 DEF Behind
  <2>4. missed \subseteq missed'
    BY <2>1
  <2> QED  BY <2>1, <2>3, <2>4, CoverKept
<1>10. ASSUME NEW e \in EventId, Commit(e) PROVE Goal
  <2>1. /\ log' = log /\ db' = tx /\ page' = page \ {e} /\ missed' = missed
        /\ pc = "commit" /\ pc' = "event"
        /\ lowest' = lowest /\ since' = since
    BY <1>10 DEF Commit, chatVars, runVars
  <2>2. e \in tx.tracked /\ db.tracked \subseteq tx.tracked
    BY <1>10, <2>1 DEF InCommit, Commit, Tracked
  <2>3. \A f \in page \ page' : Behind(f)'
    BY <2>1, <2>2 DEF Behind
  <2> QED  BY <2>1, <2>2, <2>3, CoverKept
<1>11. ASSUME NEW e \in EventId, SkipMessage(e) \/ processMessage(e) PROVE Goal
  <2>1. /\ log' = log /\ missed' = missed /\ page' = page
        /\ pc = "message" /\ NextPart(e)
        /\ lowest' = lowest /\ since' = since
    BY <1>11 DEF SkipMessage, processMessage, chatVars, pageVars, runVars
  <2>2. pc' \in {"message", "commit"}
    BY <2>1, Parts DEF TypeOK
  <2>3. open
    BY <2>1 DEF Transaction
  <2>4. db' = db
    BY <1>11, <2>3, Processing DEF SkipMessage, dbVars
  <2> QED  BY <2>1, <2>2, <2>4, CoverKept
<1>12. ASSUME NEW f \in Events, Post(f) PROVE Goal
  <2>1. /\ db' = db /\ missed' = missed /\ page' = page /\ pc' = pc
        /\ lowest' = lowest /\ since' = since /\ min_ev' = min_ev /\ cut' = cut
    BY <1>12 DEF Post, dbVars, pageVars, runVars
  <2>2. \A e \in 1 .. since : log'[e] = log[e]
    <3> SUFFICES ASSUME NEW e \in 1 .. since PROVE log'[e] = log[e]
      OBVIOUS
    <3>1. e # last + 1 /\ e \in EventId
      BY LogAssumption DEF TypeOK, EventId
    <3> QED  BY <1>12, <3>1 DEF Post, TypeOK
  <2>3. \A e \in 1 .. since : Behind(e) => Behind(e)'
    BY <2>1, <2>2 DEF Behind
  <2>4. Covering'
    BY <2>1, <2>3 DEF Covering
  <2>5. RunCovers'
    BY <2>1, <2>3 DEF RunCovers, Behind
  <2> QED  BY <2>4, <2>5
<1>13. CASE UNCHANGED vars
  BY <1>13
  DEF vars, chatVars, dbVars, pageVars, runVars, Covering, RunCovers, Behind
<1> QED
  BY <1>1, <1>2, <1>3, <1>4, <1>5, <1>6, <1>7, <1>8, <1>9, <1>10, <1>11,
     <1>12, <1>13 DEF Next, Scrape, NoAnswer

-----------------------------------------------------------------------------
(* The theorems.                                                           *)

LogInv ==
  /\ TypeOK /\ CachedIdsExist
  /\ Transaction /\ Tracked
  /\ EventsAtomic /\ InMessage /\ InCommit
  /\ Covering /\ RunCovers

LEMMA LogInvInit == Init => LogInv
<1> SUFFICES ASSUME Init PROVE LogInv
  OBVIOUS
<1> USE DEF Init
<1>1. Empty \in Database
  BY DEF Empty, Database
<1>2. NoEvent \in Event /\ log \in [EventId -> Event]
  BY DEF NoEvent, Event, Content
<1>3. 0 \in 0 .. MaxEvents /\ -1 \in -1 .. MaxEvents /\ 0 \in -1 .. MaxEvents
  BY LogAssumption
<1>4. 0 \in 0 .. MaxCrashes /\ 0 \in 0 .. 0
  BY LogAssumption
<1>5. TypeOK
  BY <1>1, <1>2, <1>3, <1>4 DEF TypeOK, Part
<1>6. \A e \in EventId, p \in Part : db.data[<<e, p>>] = 0 /\ e \notin db.tracked
  BY DEF Empty
<1>7. EventsAtomic
  BY <1>6 DEF EventsAtomic, Whole
<1>8. CachedIdsExist /\ Transaction /\ Tracked
  BY DEF CachedIdsExist, Transaction, Tracked, Empty
<1>9. InMessage /\ InCommit /\ Covering /\ RunCovers
  BY DEF InMessage, InCommit, Covering, RunCovers
<1> QED  BY <1>5, <1>7, <1>8, <1>9 DEF LogInv

LEMMA LogInvStep == LogInv /\ [Next]_vars => LogInv'
BY TypeStep, CachedStep, TransactionStep, AtomicStep, CoverStep DEF LogInv

LEMMA LogInvAlways == Spec => []LogInv
BY LogInvInit, LogInvStep, PTL DEF Spec

\* The types of the scraper's state: page bounds, cursor and tables.
THEOREM LogTypes == Spec => []TypeOK
<1>1. LogInv => TypeOK
  BY DEF LogInv
<1> QED  BY <1>1, LogInvAlways, PTL

\* Wherever processChatEventLog is ended, track_event_id and the tables of
\* messages agree on which events are stored, and each is stored once.
THEOREM EventsStayWhole == Spec => []EventsAtomic
<1>1. LogInv => EventsAtomic
  BY DEF LogInv
<1> QED  BY <1>1, LogInvAlways, PTL

\* The ids in userTgToDb_ and groupTgToDb_ are ids of rows.
THEOREM CachesValid == Spec => []CachedIdsExist
<1>1. LogInv => CachedIdsExist
  BY DEF LogInv
<1> QED  BY <1>1, LogInvAlways, PTL

\* Paging with min_event leaves no event of the log out.
THEOREM RunsCover == Spec => []RunCovers
<1>1. LogInv => RunCovers
  BY DEF LogInv
<1> QED  BY <1>1, LogInvAlways, PTL
-----------------------------------------------------------------------------
(* What is stored stays, and a run goes down the log.                      *)

\* The tables change by one event at a time, an event that was not stored: its
\* id is new, its messages come with it, and the messages of every other event,
\* the rows of users, groups and messages stay as they are. Neither a crash nor
\* another run takes away or doubles what was committed. Nor does the log
\* change that is read.
StoredForGood ==
  [][/\ \A e \in 1 .. last : log'[e] = log[e]
     /\ db' # db =>
          \E e \in 1 .. last :
            /\ e \notin db.tracked /\ db'.tracked = db.tracked \cup {e}
            /\ db.known \subseteq db'.known /\ db.rows \subseteq db'.rows
            /\ \A f \in EventId \ {e}, p \in Part :
                 db'.data[<<f, p>>] = db.data[<<f, p>>]]_vars

\* The next page lies below the last one and each event of a page is taken
\* once: a run cannot read the same events for ever (the safety that RunEnds
\* rests on).
RunGoesDown ==
  [][/\ pc = "event" /\ pc' = "ask" =>
          min_ev' \in EventId /\ (min_ev = 0 \/ min_ev' < min_ev)
     /\ page' # page => pc = "ask" \/ page' \subseteq page]_vars

\* Since START TRANSACTION the transaction holds one event more, the current.
InTransaction ==
  pc \in {"message", "commit"} =>
    \A e \in page : Current(e) =>
      /\ e \notin db.tracked /\ tx.tracked = db.tracked \cup {e}
      /\ db.known \subseteq tx.known /\ db.rows \subseteq tx.rows
      /\ \A f \in EventId \ {e}, p \in Part :
           tx.data[<<f, p>>] = db.data[<<f, p>>]

\* The lowest event of a page is older than the one it was read on from.
LowestLower ==
  pc \in {"event", "track", "message", "commit"} /\ lowest # -1 =>
    lowest \in EventId /\ (min_ev = 0 \/ lowest < min_ev)

\* One event of the page is the current one.
LEMMA CurrentOnce ==
  ASSUME TypeOK, NEW e, NEW f, Current(e), Current(f)
  PROVE  e = f
<1>1. e \in Nat /\ f \in Nat /\ e <= f /\ f <= e
  BY Ids DEF Current
<1> QED  BY ONLY <1>1

\* The statements that end a transaction or belong to none, and what the others
\* leave alone.
LEMMA DatabaseSteps ==
  ASSUME TypeOK, CachedIdsExist, Transaction, [Next]_vars
  PROVE  \/ db' = db
         \/ \E e \in EventId : Commit(e)
<1>1. CASE \E e \in EventId : trackEventId(e)
  BY <1>1 DEF trackEventId, Write, Transaction
<1>2. CASE \E e \in EventId : processMessage(e)
  BY <1>2, Processing DEF processMessage, Transaction
<1> QED
  BY <1>1, <1>2
  DEF Next, Scrape, NoAnswer, run, getChatEventLog, PageDone, NoPage, Terminate,
      SkipEvent, Begin, NotTracked, Rollback, SkipMessage, Post, vars, dbVars

\* A transaction begins with the id of the current event and goes on with its
\* messages.
LEMMA InTransactionStep ==
  ASSUME TypeOK, CachedIdsExist, Transaction, InTransaction, [Next]_vars
  PROVE  InTransaction'
<1>1. ASSUME NEW e \in EventId, trackEventId(e) PROVE InTransaction'
  <2>1. /\ pc = "track" /\ open /\ tx = db /\ tx \in Database /\ e \notin db.tracked
        /\ tx' = [tx EXCEPT !.tracked = @ \cup {e}] /\ db' = db /\ page' = page
        /\ Current(e)
    BY <1>1 DEF trackEventId, Write, Transaction, TypeOK, pageVars
  <2>2. /\ tx'.tracked = db.tracked \cup {e} /\ tx'.known = db.known
        /\ tx'.rows = db.rows /\ tx'.data = db.data
    BY <2>1 DEF Database
  <2>3. \A f : Current(f)' => f = e
    BY <2>1, CurrentOnce DEF Current
  <2> QED  BY <2>1, <2>2, <2>3 DEF InTransaction
<1>2. ASSUME NEW e \in EventId, processMessage(e) PROVE InTransaction'
  <2>1. /\ pc = "message" /\ open /\ page' = page /\ Current(e)
        /\ part \in Part /\ db' = db
    BY <1>2, Processing DEF processMessage, Transaction, TypeOK, pageVars
  <2>2. e \in page
    BY <2>1 DEF Current
  <2>3. /\ e \notin db.tracked /\ tx.tracked = db.tracked \cup {e}
        /\ db.known \subseteq tx.known /\ db.rows \subseteq tx.rows
        /\ \A f \in EventId \ {e}, p \in Part :
             tx.data[<<f, p>>] = db.data[<<f, p>>]
    BY <2>1, <2>2 DEF InTransaction
  <2>4. /\ tx'.tracked = tx.tracked /\ tx.known \subseteq tx'.known
        /\ tx.rows \subseteq tx'.rows
        /\ \A x \in EventId \X Part :
             x # <<e, part>> => tx'.data[x] = tx.data[x]
    BY <1>2, Processing
  <2>5. \A f \in EventId \ {e}, p \in Part :
          tx'.data[<<f, p>>] = tx.data[<<f, p>>]
    BY <2>1, <2>4
  <2>6. \A f : Current(f)' => f = e
    BY <2>1, CurrentOnce DEF Current
  <2> QED  BY <2>1, <2>3, <2>4, <2>5, <2>6 DEF InTransaction
<1>3. CASE \E e \in EventId : SkipMessage(e)
  BY <1>3 DEF SkipMessage, InTransaction, Current, dbVars, pageVars
<1>4. CASE \E e \in Events : Post(e)
  BY <1>4 DEF Post, InTransaction, Current, dbVars, pageVars
<1>5. CASE UNCHANGED vars
  BY <1>5 DEF vars, InTransaction, Current, dbVars, pageVars
<1>6. CASE pc' \notin {"message", "commit"}
  BY <1>6 DEF InTransaction
<1> QED
  BY <1>1, <1>2, <1>3, <1>4, <1>5, <1>6
  DEF Next, Scrape, NoAnswer, run, getChatEventLog, PageDone, NoPage, Terminate,
      SkipEvent, Begin, NotTracked, Commit

\* A page is read from the events older than min_ev.
LEMMA LowestStep ==
  ASSUME TypeOK, LowestLower, [Next]_vars
  PROVE  LowestLower'
<1>1. CASE getChatEventLog
  <2>1. PICK p \in SUBSET Older : page' = p /\ lowest' = Lowest(p)
    BY <1>1 DEF getChatEventLog
  <2>2. p \in SUBSET EventId
    BY <2>1, Ids DEF Older
  <2>3. CASE p = {}
    BY <2>1, <2>2, <2>3, LowestIsLeast DEF LowestLower
  <2>4. CASE p # {}
    <3>1. Lowest(p) \in p
      BY <2>2, <2>4, LowestIsLeast
    <3>2. Lowest(p) \in EventId /\ Lowest(p) \in Older
      BY <2>2, <3>1
    <3>3. min_ev = 0 \/ Lowest(p) < min_ev
      BY <3>2 DEF Older
    <3> QED  BY <1>1, <2>1, <3>2, <3>3 DEF getChatEventLog, LowestLower
  <2> QED  BY <2>3, <2>4
<1>2. CASE pc' \in {"ask", "done", "off"}
  BY <1>2 DEF LowestLower
<1>3. CASE /\ pc \in {"event", "track", "message", "commit"}
           /\ UNCHANGED <<lowest, min_ev>>
  BY <1>3 DEF LowestLower
<1>4. CASE UNCHANGED <<pc, lowest, min_ev>>
  BY <1>4 DEF LowestLower
<1> QED
  BY <1>1, <1>2, <1>3, <1>4
  DEF Next, Scrape, NoAnswer, run, PageDone, NoPage, Terminate, SkipEvent, Begin,
      trackEventId, NotTracked, SkipMessage, processMessage, Commit, Post, vars,
      pageVars

\* The invariant that both rest on.
GoodInv == LogInv /\ InTransaction /\ LowestLower

\* It holds throughout.
LEMMA GoodInvAlways == Spec => []GoodInv
<1>1. Init => InTransaction /\ LowestLower
  BY DEF Init, InTransaction, LowestLower
<1>2. GoodInv /\ [Next]_vars => GoodInv'
  BY LogInvStep, InTransactionStep, LowestStep DEF GoodInv, LogInv
<1> QED  BY <1>1, <1>2, LogInvInit, PTL DEF Spec, GoodInv

\* What the scraper has committed stays committed, event by event, whatever is
\* posted, skipped or refused and however often the process ends.
THEOREM StoredStays == Spec => StoredForGood
<1>1. GoodInv /\ [Next]_vars =>
        [/\ \A e \in 1 .. last : log'[e] = log[e]
         /\ db' # db =>
              \E e \in 1 .. last :
                /\ e \notin db.tracked /\ db'.tracked = db.tracked \cup {e}
                /\ db.known \subseteq db'.known /\ db.rows \subseteq db'.rows
                /\ \A f \in EventId \ {e}, p \in Part :
                     db'.data[<<f, p>>] = db.data[<<f, p>>]]_vars
  <2> SUFFICES ASSUME GoodInv, [Next]_vars
      PROVE  /\ \A e \in 1 .. last : log'[e] = log[e]
             /\ db' # db =>
                  \E e \in 1 .. last :
                    /\ e \notin db.tracked /\ db'.tracked = db.tracked \cup {e}
                    /\ db.known \subseteq db'.known /\ db.rows \subseteq db'.rows
                    /\ \A f \in EventId \ {e}, p \in Part :
                         db'.data[<<f, p>>] = db.data[<<f, p>>]
    OBVIOUS
  <2>1. TypeOK /\ CachedIdsExist /\ Transaction /\ InTransaction
    BY DEF GoodInv, LogInv
  <2>2. \A e \in 1 .. last : log'[e] = log[e]
    <3>1. CASE \E e \in Events : Post(e)
      <4>1. PICK x \in Events : log' = [log EXCEPT ![last + 1] = x]
        BY <3>1 DEF Post
      <4>2. \A e \in 1 .. last : e \in EventId /\ e # last + 1
        BY <2>1, Ids DEF TypeOK
      <4> QED  BY <2>1, <4>1, <4>2 DEF TypeOK
    <3>2. CASE log' = log
      BY <3>2
    <3> QED
      BY <3>1, <3>2
      DEF Next, Scrape, NoAnswer, run, getChatEventLog, PageDone, NoPage,
          Terminate, SkipEvent, Begin, trackEventId, NotTracked, SkipMessage,
          processMessage, Commit, vars, chatVars
  <2>3. ASSUME NEW e \in EventId, Commit(e)
        PROVE  \E f \in 1 .. last :
                 /\ f \notin db.tracked /\ db'.tracked = db.tracked \cup {f}
                 /\ db.known \subseteq db'.known /\ db.rows \subseteq db'.rows
                 /\ \A g \in EventId \ {f}, p \in Part :
                      db'.data[<<g, p>>] = db.data[<<g, p>>]
    <3>1. pc = "commit" /\ Current(e) /\ e \in page /\ db' = tx
      BY <2>3 DEF Commit, Current
    <3>2. e \in 1 .. last
      BY <2>1, <3>1 DEF TypeOK
    <3> QED  BY <2>1, <3>1, <3>2 DEF InTransaction
  <2> QED  BY <2>1, <2>2, <2>3, DatabaseSteps
<1> QED  BY <1>1, GoodInvAlways, PTL DEF Spec, StoredForGood

\* Each page that a run asks for lies strictly below the one before.
THEOREM RunsGoDown == Spec => RunGoesDown
<1>1. GoodInv /\ [Next]_vars =>
        [/\ pc = "event" /\ pc' = "ask" =>
              min_ev' \in EventId /\ (min_ev = 0 \/ min_ev' < min_ev)
         /\ page' # page => pc = "ask" \/ page' \subseteq page]_vars
  <2> SUFFICES ASSUME GoodInv, [Next]_vars
      PROVE  /\ pc = "event" /\ pc' = "ask" =>
                  min_ev' \in EventId /\ (min_ev = 0 \/ min_ev' < min_ev)
             /\ page' # page => pc = "ask" \/ page' \subseteq page
    OBVIOUS
  <2>1. ASSUME pc = "event", pc' = "ask"
        PROVE  min_ev' \in EventId /\ (min_ev = 0 \/ min_ev' < min_ev)
    <3>1. PageDone
      BY <2>1
      DEF Next, Scrape, NoAnswer, run, getChatEventLog, NoPage, Terminate,
          SkipEvent, Begin, trackEventId, NotTracked, SkipMessage,
          processMessage, Commit, Post, vars
    <3>2. min_ev' = lowest /\ lowest # -1
      BY <2>1, <3>1 DEF PageDone
    <3> QED  BY <2>1, <3>2 DEF GoodInv, LowestLower
  <2>2. page' # page => pc = "ask" \/ page' \subseteq page
    BY DEF Next, Scrape, NoAnswer, run, getChatEventLog, PageDone, NoPage,
       Terminate, SkipEvent, Begin, trackEventId, NotTracked, SkipMessage,
       processMessage, Commit, Post, vars, pageVars
  <2> QED  BY <2>1, <2>2
<1> QED  BY <1>1, GoodInvAlways, PTL DEF Spec, RunGoesDown
=============================================================================
