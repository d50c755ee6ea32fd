---------------------------- MODULE UpdateCache ----------------------------
(***************************************************************************)
(* Td::process_update for the updates after the login: the caches of chat  *)
(* titles and users, and the callbacks of the program.                     *)
(*                                                                         *)
(* TDLib changes a chat or a user and sends an update of it; the updates   *)
(* wait in the order they were sent until the event loop receives them,    *)
(* one in a turn. users_ has keys of 32 bits, the users' ids have 64.      *)
(***************************************************************************)
EXTENDS Naturals, Sequences

CONSTANTS
  Chats,       \* chat ids
  Users,       \* user ids, as numbers
  Texts,       \* titles and names
  Nothing,     \* no entry
  KeyRange,    \* how many keys users_ has: 2^32
  MaxUpdates   \* bound: updates sent

ASSUME CacheAssumption ==
  /\ Users \subseteq Nat
  /\ KeyRange \in Nat \ {0}
  /\ MaxUpdates \in Nat
  /\ Nothing \notin Texts

VARIABLES
  title,        \* the titles of the chats, as TDLib has them
  newest,       \* for each key the user with it that changed last
  updates,      \* updates sent and not received
  sent,         \* how many there have been
  chat_title_,  \* the cache of titles
  users_,       \* the cache of users
  told          \* the last call of a callback, and what the cache had then

tdlibVars == <<title, newest, updates, sent>>
clientVars == <<chat_title_, users_, told>>
cacheVars == <<tdlibVars, clientVars>>

\* The int64 of a user id as the int32 key of users_.
Narrow(u) == u % KeyRange

Keys == 0 .. KeyRange - 1

\* A user object.
User == [id : Users, name : Texts]

Update ==
  [kind : {"new_chat", "chat_title"}, chat : Chats, text : Texts]
    \cup [kind : {"user"}, user : User]
    \cup [kind : {"new_msg"}, chat : Chats]

Titled(u) == u.kind \in {"new_chat", "chat_title"}

-----------------------------------------------------------------------------
(* TDLib.                                                                  *)

Send(u) ==
  /\ sent < MaxUpdates
  /\ sent' = sent + 1
  /\ updates' = Append(updates, u)
  /\ UNCHANGED clientVars

\* The first update of a chat is always updateNewChat.
TdNewChat(c, t) ==
  /\ title[c] = Nothing
  /\ Send([kind |-> "new_chat", chat |-> c, text |-> t])
  /\ title' = [title EXCEPT ![c] = t]
  /\ UNCHANGED newest

TdChatTitle(c, t) ==
  /\ title[c] \notin {Nothing, t}
  /\ Send([kind |-> "chat_title", chat |-> c, text |-> t])
  /\ title' = [title EXCEPT ![c] = t]
  /\ UNCHANGED newest

TdUser(u) ==
  /\ Send([kind |-> "user", user |-> u])
  /\ newest' = [newest EXCEPT ![u.id % KeyRange] = u]
  /\ UNCHANGED title

TdNewMessage(c) ==
  /\ title[c] # Nothing
  /\ Send([kind |-> "new_msg", chat |-> c])
  /\ UNCHANGED <<title, newest>>

-----------------------------------------------------------------------------
(* process_update.                                                         *)

\* The callback of the update, and what it finds in the cache.
execute(u, entry) == told' = [update |-> u, cached |-> entry]

\* Mutant: the wrong field is stored.
M_Titles_swapped(u) == [chat_title_ EXCEPT ![u.chat] = u.chat]

Titles(u) == [chat_title_ EXCEPT ![u.chat] = u.text]

\* Mutant: the callback runs before the cache is written.
M_u_chat_title_early(u) ==
  /\ chat_title_' = Titles(u)
  /\ execute(u, chat_title_[u.chat])
  /\ UNCHANGED users_

u_chat_title(u) ==
  /\ chat_title_' = Titles(u)
  /\ execute(u, chat_title_'[u.chat])
  /\ UNCHANGED users_

u_new_chat(u) ==
  /\ chat_title_' = Titles(u)
  /\ execute(u, chat_title_'[u.chat])
  /\ UNCHANGED users_

\* Mutant: an entry of that key is kept.
M_u_user_emplace(u) ==
  LET k == Narrow(u.user.id)
  IN  /\ users_' = [users_ EXCEPT ![k] = IF @ = Nothing THEN u.user ELSE @]
      /\ execute(u, users_'[k])
      /\ UNCHANGED chat_title_

\* The user object moves into the cache: the callback gets an update without
\* one and finds it in users_ only.
u_user(u) ==
  /\ users_' = [users_ EXCEPT ![Narrow(u.user.id)] = u.user]
  /\ execute(u, users_'[Narrow(u.user.id)])
  /\ UNCHANGED chat_title_

u_new_msg(u) ==
  /\ execute(u, chat_title_[u.chat])
  /\ UNCHANGED <<chat_title_, users_>>

process_update(u) ==
  \/ u.kind = "new_chat" /\ u_new_chat(u)
  \/ u.kind = "chat_title" /\ u_chat_title(u)
  \/ u.kind = "user" /\ u_user(u)
  \/ u.kind = "new_msg" /\ u_new_msg(u)

\* Td::loop.
loop ==
  /\ updates # <<>>
  /\ process_update(Head(updates))
  /\ updates' = Tail(updates)
  /\ UNCHANGED <<title, newest, sent>>

-----------------------------------------------------------------------------
Init ==
  /\ title = [c \in Chats |-> Nothing]
  /\ newest = [k \in Keys |-> Nothing]
  /\ updates = <<>> /\ sent = 0
  /\ chat_title_ = [c \in Chats |-> Nothing]
  /\ users_ = [k \in Keys |-> Nothing]
  /\ told = Nothing

Next ==
  \/ loop
  \/ \E c \in Chats :
       TdNewMessage(c) \/ \E t \in Texts : TdNewChat(c, t) \/ TdChatTitle(c, t)
  \/ \E u \in User : TdUser(u)

Spec == Init /\ [][Next]_cacheVars /\ WF_cacheVars(loop)

-----------------------------------------------------------------------------
(* Properties.                                                             *)

\* Types of the caches.
TypeOK ==
  /\ title \in [Chats -> Texts \cup {Nothing}]
  /\ newest \in [Keys -> User \cup {Nothing}]
  /\ updates \in Seq(Update)
  /\ sent \in 0 .. MaxUpdates
  /\ chat_title_ \in [Chats -> Texts \cup {Nothing}]
  /\ users_ \in [Keys -> User \cup {Nothing}]
  /\ told \in [update : Update, cached : Texts \cup User \cup {Nothing}]
             \cup {Nothing}

\* A callback that looks into the cache finds what its update says, and knows
\* the chat of a new message, though nobody has asked for that chat.
CallbackInformed ==
  told # Nothing =>
    /\ Titled(told.update) => told.cached = told.update.text
    /\ told.update.kind = "user" => told.cached = told.update.user
    /\ told.update.kind = "new_msg" => told.cached # Nothing

\* The two caches as replicas: chat_title_ by chat, users_ by key. All updates
\* share one queue, and each cache lets those of the other kinds pass.
TitleEntry(u) == IF Titled(u) THEN <<u.chat, u.text>> ELSE <<>>
UserEntry(u) ==
  IF u.kind = "user" THEN <<u.user.id % KeyRange, u.user>> ELSE <<>>
TitleLog == [i \in 1 .. Len(updates) |-> TitleEntry(updates[i])]
UserLog == [i \in 1 .. Len(updates) |-> UserEntry(updates[i])]

TitleReplica == INSTANCE Replica WITH
  Keys <- Chats, Values <- Texts, Nothing <- Nothing,
  source <- title, log <- TitleLog, copy <- chat_title_

UserReplica == INSTANCE Replica WITH
  Keys <- Keys, Values <- User, Nothing <- Nothing,
  source <- newest, log <- UserLog, copy <- users_

\* Each cache takes every change once, in order, and takes it at last: that of
\* titles seen by chat, that of users seen by its keys.
CachesAreReplicas == TitleReplica!Spec /\ UserReplica!Spec
=============================================================================
