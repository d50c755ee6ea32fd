------------------------------ MODULE EventLog ------------------------------
(***************************************************************************)
(* The history scraper of the archived generation (HistoryScraper.cpp): it *)
(* reads the event log of a chat backwards, page by page, and stores the   *)
(* messages of the deletions and edits in the database, one transaction to *)
(* an event. The event's id goes into the table track_event_id, so that a  *)
(* later run does not store it again.                                      *)
(*                                                                         *)
(* Nothing is caught: a refused statement, a lost link, a null answer each *)
(* end the process. A transaction that was open is rolled back, and the    *)
(* next run begins at the newest event.                                    *)
(***************************************************************************)
EXTENDS Integers, FiniteSets

CONSTANTS
  Events,      \* what may be in the log
  Users,       \* users that send messages
  Channel,     \* a sender that is not a user
  Group,       \* the chat
  Shift,       \* 2^20: a message's id is its number times this
  PageSize,    \* the limit given to getChatEventLog
  MaxEvents,   \* bound: events in the log
  MaxCrashes   \* bound: runs of the program that end early

\* What resolveMessage stores of a content: a row and data, a row, nothing.
Content == {"data", "row", "none"}

\* A deletion has the old message, an edit the old and the new one.
Event == [ kind : {"deleted", "edited", "other"}, num : Nat \ {0},
           sender : Users \cup {Channel}, old : Content, new : Content ]

ASSUME LogAssumption ==
  /\ Events \subseteq Event
  /\ Channel \notin Users
  /\ Group \notin Users
  /\ Shift \in Nat /\ Shift > 1
  /\ PageSize \in Nat \ {0}
  /\ MaxEvents \in Nat
  /\ MaxCrashes \in Nat

VARIABLES
  log,      \* the event log, by event id
  last,     \* the newest event
  db,       \* the database as it is committed
  tx,       \* as the scraper sees it
  open,     \* in a transaction
  pc,       \* where the scraper is
  min_ev,   \* the event to read on from; 0 to begin, -1 at the end
  page,     \* events of the page still to be processed
  lowest,   \* min_event of the page
  part,     \* the message of the event that is next
  tgToDb,   \* the keys of userTgToDb_ and groupTgToDb_
  since,    \* the newest event when the run read its first page
  cut,      \* the run ended for want of an answer
  missed,   \* events the run left because the INSERT of their id failed
  crashes   \* runs that ended early

chatVars == <<log, last>>
dbVars == <<db, tx, open>>
pageVars == <<min_ev, page, lowest>>
runVars == <<since, cut, missed>>
vars == <<chatVars, dbVars, pageVars, runVars, pc, part, tgToDb, crashes>>

EventId == 1 .. MaxEvents
Part == {"old", "new"}

\* tracked: the table track_event_id; known: the users and groups with a row;
\* rows: the numbers in the column tg_msg_id; data: how many rows of
\* gw_group_message_data there are for each message of an event.
Database == [ tracked : SUBSET EventId, known : SUBSET (Users \cup {Group}),
              rows : SUBSET Nat, data : [EventId \X Part -> Nat] ]

Empty == [ tracked |-> {}, known |-> {}, rows |-> {},
           data |-> [d \in EventId \X Part |-> 0] ]

NoEvent == [ kind |-> "other", num |-> 1, sender |-> Channel,
             old |-> "none", new |-> "none" ]

-----------------------------------------------------------------------------
(* The chat, and the statements on the database.                           *)

Post(e) ==
  /\ last < MaxEvents
  /\ last' = last + 1
  /\ log' = [log EXCEPT ![last + 1] = e]
  /\ UNCHANGED <<dbVars, pageVars, runVars, pc, part, tgToDb, crashes>>

\* A statement takes effect in the transaction, or at once if there is none.
Write(d) ==
  /\ tx' = d
  /\ db' = IF open THEN db ELSE d
  /\ UNCHANGED open

Rollback ==
  /\ tx' = db
  /\ open' = FALSE
  /\ UNCHANGED db

-----------------------------------------------------------------------------
(* Worker::run and gatherChatEventLog.                                     *)

run ==
  /\ pc = "off"
  /\ pc' = "ask"
  /\ min_ev' = 0
  /\ since' = 0 /\ cut' = FALSE /\ missed' = {}
  /\ UNCHANGED <<chatVars, dbVars, page, lowest, part, tgToDb, crashes>>

\* Events that were posted before the one to read on from.
Older == { e \in 1 .. last : min_ev = 0 \/ e < min_ev }

\* Mutant: the events that are skipped do not count.
M_Lowest_handled(p) ==
  LET h == { e \in p : log[e].kind # "other" }
  IN  IF h = {} THEN -1 ELSE CHOOSE e \in h : \A f \in h : e <= f

\* Mutant: min_event begins at 0.
M_Lowest_zero(p) ==
  IF p = {} THEN 0 ELSE CHOOSE e \in p : \A f \in p : e <= f

\* min_event of processChatEventLog.
Lowest(p) == IF p = {} THEN -1 ELSE CHOOSE e \in p : \A f \in p : e <= f

\* The newest of the older events, as many as the limit or fewer.
getChatEventLog ==
  /\ pc = "ask"
  /\ \E p \in SUBSET Older :
       /\ Cardinality(p) <= PageSize
       /\ p = {} => Older = {}
       /\ \A e \in p, f \in Older \ p : f < e
       /\ page' = p
       /\ lowest' = Lowest(p)
  /\ since' = IF min_ev = 0 THEN last ELSE since
  /\ pc' = "event"
  /\ UNCHANGED <<chatVars, dbVars, min_ev, cut, missed, part, tgToDb, crashes>>

\* A null: an error or thirty seconds without an answer.
NoPage ==
  /\ pc = "ask"
  /\ pc' = "done"
  /\ cut' = TRUE
  /\ UNCHANGED <<chatVars, dbVars, pageVars, since, missed, part, tgToDb,
                 crashes>>

PageDone ==
  /\ pc = "event" /\ page = {}
  /\ min_ev' = lowest
  /\ pc' = IF lowest = -1 THEN "done" ELSE "ask"
  /\ UNCHANGED <<chatVars, dbVars, page, lowest, runVars, part, tgToDb,
                 crashes>>

-----------------------------------------------------------------------------
(* processChatEventLog.                                                    *)

\* The pages come newest first.
Current(e) == e \in page /\ \A f \in page : f <= e

SkipEvent(e) ==
  /\ pc = "event" /\ Current(e)
  /\ log[e].kind = "other"
  /\ page' = page \ {e}
  /\ UNCHANGED <<chatVars, dbVars, pc, min_ev, lowest, runVars, part, tgToDb,
                 crashes>>

\* Mutant: START TRANSACTION is missing.
M_Begin_none(e) ==
  /\ pc = "event" /\ Current(e)
  /\ log[e].kind # "other"
  /\ pc' = "track"
  /\ UNCHANGED <<chatVars, dbVars, pageVars, runVars, part, tgToDb, crashes>>

Begin(e) ==
  /\ pc = "event" /\ Current(e)
  /\ log[e].kind # "other"
  /\ open' = TRUE
  /\ pc' = "track"
  /\ UNCHANGED <<chatVars, db, tx, pageVars, runVars, part, tgToDb, crashes>>

trackEventId(e) ==
  /\ pc = "track" /\ Current(e)
  /\ e \notin tx.tracked
  /\ Write([tx EXCEPT !.tracked = @ \cup {e}])
  /\ pc' = "message"
  /\ part' = "old"
  /\ UNCHANGED <<chatVars, pageVars, runVars, tgToDb, crashes>>

\* The INSERT fails, by the primary key or for another reason: the code takes
\* both for a duplicate.
NotTracked(e) ==
  /\ pc = "track" /\ Current(e)
  /\ missed' = IF e \in tx.tracked THEN missed ELSE missed \cup {e}
  /\ Rollback
  /\ page' = page \ {e}
  /\ pc' = "event"
  /\ UNCHANGED <<chatVars, min_ev, lowest, since, cut, part, tgToDb, crashes>>

Commit(e) ==
  /\ pc = "commit" /\ Current(e)
  /\ db' = tx
  /\ open' = FALSE
  /\ page' = page \ {e}
  /\ pc' = "event"
  /\ UNCHANGED <<chatVars, tx, min_ev, lowest, runVars, part, tgToDb, crashes>>

-----------------------------------------------------------------------------
(* processMessage.                                                         *)

\* resolveUser and resolveGroup: a cached id is used unseen; otherwise the row
\* is inserted or, when it is there already, read.
resolve(d, x) ==
  IF x \in tgToDb THEN d ELSE [d EXCEPT !.known = @ \cup {x}]

\* getDBMsgIdIfExists looks for the id in the column of the numbers.
Found(d, num) == num * Shift \in d.rows

\* The message has a row, found or new, and its data unless it was found and
\* is not an edit.
resolveMessage(d, e, p) ==
  LET content == IF p = "old" THEN log[e].old ELSE log[e].new
      num == log[e].num
      more == IF content = "data" /\ (p = "new" \/ ~ Found(d, num))
              THEN 1 ELSE 0
  IN  IF content = "none" THEN d
      ELSE [d EXCEPT !.rows = IF Found(d, num) THEN @ ELSE @ \cup {num},
                     !.data[<<e, p>>] = @ + more]

\* The foreign keys of the row that resolveMessage inserts.
KeysValid(d, e) == {log[e].sender, Group} \subseteq d.known

NextPart(e) ==
  IF part = "old" /\ log[e].kind = "edited"
  THEN part' = "new" /\ pc' = pc
  ELSE part' = part /\ pc' = "commit"

\* A message that no user sent is left out.
SkipMessage(e) ==
  /\ pc = "message" /\ Current(e)
  /\ log[e].sender = Channel
  /\ NextPart(e)
  /\ UNCHANGED <<chatVars, dbVars, pageVars, runVars, tgToDb, crashes>>

\* Mutant: the kind of the sender is not looked at.
M_processMessage_any(e) ==
  /\ pc = "message" /\ Current(e)
  /\ Write(resolveMessage(resolve(resolve(tx, log[e].sender), Group), e, part))
  /\ tgToDb' = tgToDb \cup {log[e].sender, Group}
  /\ NextPart(e)
  /\ UNCHANGED <<chatVars, pageVars, runVars, crashes>>

processMessage(e) ==
  /\ pc = "message" /\ Current(e)
  /\ log[e].sender # Channel
  /\ LET d == resolve(resolve(tx, log[e].sender), Group)
     IN  /\ KeysValid(d, e)
         /\ Write(resolveMessage(d, e, part))
  /\ tgToDb' = tgToDb \cup {log[e].sender, Group}
  /\ NextPart(e)
  /\ UNCHANGED <<chatVars, pageVars, runVars, crashes>>

-----------------------------------------------------------------------------
(* The end of the process.                                                 *)

\* The server rolls back; the caches go with the process.
Terminate ==
  /\ pc # "off" /\ crashes < MaxCrashes
  /\ crashes' = crashes + 1
  /\ pc' = "off"
  /\ Rollback
  /\ tgToDb' = {}
  /\ UNCHANGED <<chatVars, pageVars, runVars, part>>

\* Mutant: the event is given up and the next one taken.
M_NoAnswer_rollback(e) ==
  /\ pc = "message" /\ Current(e)
  /\ Rollback
  /\ page' = page \ {e}
  /\ pc' = "event"
  /\ UNCHANGED <<chatVars, min_ev, lowest, runVars, part, tgToDb, crashes>>

\* getUser or getChat gives null and processMessage reads through it.
NoAnswer(e) ==
  /\ pc = "message" /\ Current(e)
  /\ log[e].sender # Channel
  /\ Terminate

-----------------------------------------------------------------------------
Init ==
  /\ log = [e \in EventId |-> NoEvent] /\ last = 0
  /\ db = Empty /\ tx = Empty /\ open = FALSE
  /\ pc = "off"
  /\ min_ev = 0 /\ page = {} /\ lowest = -1
  /\ part = "old" /\ tgToDb = {}
  /\ since = 0 /\ cut = FALSE /\ missed = {}
  /\ crashes = 0

Scrape ==
  \/ getChatEventLog \/ PageDone
  \/ \E e \in EventId :
       \/ SkipEvent(e) \/ Begin(e) \/ trackEventId(e) \/ NotTracked(e)
       \/ SkipMessage(e) \/ processMessage(e) \/ Commit(e)

Next ==
  \/ run \/ Scrape \/ NoPage \/ Terminate
  \/ \E e \in EventId : NoAnswer(e)
  \/ \E e \in Events : Post(e)

\* Each answer comes or times out, and the database answers.
Spec == Init /\ [][Next]_vars /\ WF_vars(Scrape)

-----------------------------------------------------------------------------
(* Properties.                                                             *)

\* Types of the state of the scraper and its tables.
TypeOK ==
  /\ log \in [EventId -> Event]
  /\ last \in 0 .. MaxEvents
  /\ db \in Database
  /\ tx \in Database
  /\ open \in BOOLEAN
  /\ pc \in {"off", "ask", "event", "track", "message", "commit", "done"}
  /\ min_ev \in -1 .. MaxEvents
  /\ page \subseteq 1 .. last
  /\ lowest \in -1 .. MaxEvents
  /\ part \in Part
  /\ tgToDb \subseteq Users \cup {Group}
  /\ since \in 0 .. last
  /\ cut \in BOOLEAN
  /\ missed \subseteq EventId
  /\ crashes \in 0 .. MaxCrashes

\* An event whose message p is to be stored with its data.
HasData(e, p) ==
  /\ log[e].kind = "edited" \/ (log[e].kind = "deleted" /\ p = "old")
  /\ log[e].sender # Channel
  /\ "data" = IF p = "old" THEN log[e].old ELSE log[e].new

\* The tables d hold message p of the event once if the event is tracked, and
\* not at all if it is not. Only the data of a message that was taken for one
\* with a row may be missing.
Whole(d, e, p) ==
  d.data[<<e, p>>] \in
    IF e \in d.tracked /\ HasData(e, p)
    THEN {1} \cup (IF p = "old" /\ Found(d, log[e].num) THEN {0} ELSE {})
    ELSE {0}

\* Wherever the process ends and however often it starts again, what is
\* committed of an event is all of it, once, or nothing, and track_event_id
\* tells which: a run after a crash neither repeats nor leaves out a message.
EventsAtomic == \A e \in EventId, p \in Part : Whole(db, e, p)

\* The caches are filled before the rows they stand for are committed; all the
\* same each id in them is the id of a row, so that no foreign key fails.
CachedIdsExist == tgToDb \subseteq tx.known

\* A run that was not cut short has stored every deletion and edit that was in
\* the log when it began, but for those whose INSERT failed: no page is left
\* out between two others, whatever is posted in the meantime.
RunCovers ==
  pc = "done" /\ ~ cut =>
    \A e \in 1 .. since : log[e].kind # "other" => e \in db.tracked \cup missed

\* A run comes to its end, however many events it skips.
RunEnds == pc = "ask" ~> pc \in {"done", "off"}
=============================================================================
