------------------------- MODULE UpdateCacheProofs -------------------------
(***************************************************************************)
(* Theorems about UpdateCache, for any chats, users, number of keys and    *)
(* number of updates.                                                      *)
(***************************************************************************)
EXTENDS UpdateCache, TLAPS

\* The places in the queue of the updates that write the entry of a chat, of a
\* key of users_.
TitlesOf(c) ==
  { i \in 1 .. Len(updates) : Titled(updates[i]) /\ updates[i].chat = c }
UsersOf(k) ==
  { i \in 1 .. Len(updates) :
      updates[i].kind = "user" /\ updates[i].user.id % KeyRange = k }
Latest(S, i) == i \in S /\ \A j \in S : j <= i

\* The cached title is the one TDLib has now, unless an update of the chat still
\* waits, and then the last that waits has it.
TitleInStep ==
  \A c \in Chats :
    /\ TitlesOf(c) = {} => chat_title_[c] = title[c]
    /\ \A i \in 1 .. Len(updates) :
         Latest(TitlesOf(c), i) => updates[i].text = title[c]

\* The same of users_, by its own keys: an entry holds the user that changed
\* last among those who share it.
UserInStep ==
  \A k \in Keys :
    /\ UsersOf(k) = {} => users_[k] = newest[k]
    /\ \A i \in 1 .. Len(updates) :
         Latest(UsersOf(k), i) => updates[i].user = newest[k]

\* Whatever was received and in whatever order, process_update never leaves
\* an older title or user in a cache when a newer one has come.
CachesInStep == TitleInStep /\ UserInStep

\* The chat of a new message is cached, or an update that caches it is ahead
\* of the message.
MessageAfterChat ==
  \A i \in 1 .. Len(updates) :
    updates[i].kind = "new_msg" =>
      \/ chat_title_[updates[i].chat] # Nothing
      \/ \E j \in 1 .. i - 1 :
           Titled(updates[j]) /\ updates[j].chat = updates[i].chat

-----------------------------------------------------------------------------
\* The key of a user is one of the keys.
LEMMA KeyTyped == ASSUME NEW n \in Users PROVE n % KeyRange \in Keys
BY CacheAssumption DEF Keys

\* What the kinds of updates carry.
LEMMA UpdateFields ==
  ASSUME NEW u \in Update
  PROVE  /\ u.kind \in {"new_chat", "chat_title", "user", "new_msg"}
         /\ Titled(u) => u.chat \in Chats /\ u.text \in Texts
         /\ u.kind = "user" => u.user \in User
         /\ u.kind = "new_msg" => u.chat \in Chats
BY DEF Update, Titled

\* An update that is sent is the last of the queue.
LEMMA Sending ==
  ASSUME NEW s \in Seq(Update), NEW u \in Update
  PROVE  /\ Append(s, u) \in Seq(Update)
         /\ Len(Append(s, u)) = Len(s) + 1
         /\ Append(s, u)[Len(s) + 1] = u
         /\ \A i \in 1 .. Len(s) : Append(s, u)[i] = s[i]
         /\ Len(s) \in Nat
OBVIOUS

\* The one that is received was the first; the others move up.
LEMMA Receiving ==
  ASSUME NEW s \in Seq(Update), s # <<>>
  PROVE  /\ Tail(s) \in Seq(Update)
         /\ Head(s) = s[1] /\ Head(s) \in Update
         /\ Len(s) \in Nat \ {0}
         /\ Len(Tail(s)) = Len(s) - 1
         /\ \A i \in 1 .. Len(s) - 1 : Tail(s)[i] = s[i + 1]
OBVIOUS

\* Every step sends an update, receives one, or does nothing.
LEMMA Steps ==
  ASSUME TypeOK, [Next]_cacheVars
  PROVE  \/ \E u \in Update :
              /\ Send(u)
              /\ \/ /\ Titled(u)
                    /\ title' = [title EXCEPT ![u.chat] = u.text]
                    /\ UNCHANGED newest
                 \/ /\ u.kind = "user"
                    /\ newest' = [newest EXCEPT ![u.user.id % KeyRange] = u.user]
                    /\ UNCHANGED title
                 \/ /\ u.kind = "new_msg" /\ title[u.chat] # Nothing
                    /\ UNCHANGED <<title, newest>>
         \/ loop
         \/ UNCHANGED cacheVars
<1>1. ASSUME NEW c \in Chats, NEW t \in Texts, TdNewChat(c, t)
      PROVE  \E u \in Update : /\ Send(u) /\ Titled(u)
                               /\ title' = [title EXCEPT ![u.chat] = u.text]
                               /\ UNCHANGED newest
  <2> DEFINE u == [kind |-> "new_chat", chat |-> c, text |-> t]
  <2>1. u \in Update /\ Titled(u) /\ u.chat = c /\ u.text = t
    BY DEF Update, Titled
  <2> QED  BY <1>1, <2>1 DEF TdNewChat
<1>2. ASSUME NEW c \in Chats, NEW t \in Texts, TdChatTitle(c, t)
      PROVE  \E u \in Update : /\ Send(u) /\ Titled(u)
                               /\ title' = [title EXCEPT ![u.chat] = u.text]
                               /\ UNCHANGED newest
  <2> DEFINE u == [kind |-> "chat_title", chat |-> c, text |-> t]
  <2>1. u \in Update /\ Titled(u) /\ u.chat = c /\ u.text = t
    BY DEF Update, Titled
  <2> QED  BY <1>2, <2>1 DEF TdChatTitle
<1>3. ASSUME NEW c \in Chats, TdNewMessage(c)
      PROVE  \E u \in Update : /\ Send(u) /\ u.kind = "new_msg"
                               /\ title[u.chat] # Nothing
                               /\ UNCHANGED <<title, newest>>
  <2> DEFINE u == [kind |-> "new_msg", chat |-> c]
  <2>1. u \in Update /\ u.kind = "new_msg" /\ u.chat = c
    BY DEF Update
  <2> QED  BY <1>3, <2>1 DEF TdNewMessage
<1>4. ASSUME NEW x \in User, TdUser(x)
      PROVE  \E u \in Update :
               /\ Send(u) /\ u.kind = "user"
               /\ newest' = [newest EXCEPT ![u.user.id % KeyRange] = u.user]
               /\ UNCHANGED title
  <2> DEFINE u == [kind |-> "user", user |-> x]
  <2>1. u \in Update /\ u.kind = "user" /\ u.user = x
    BY DEF Update
  <2> QED  BY <1>4, <2>1 DEF TdUser
<1> QED  BY <1>1, <1>2, <1>3, <1>4 DEF Next

\* What receiving an update does to the caches.
LEMMA Received ==
  ASSUME TypeOK, loop
  PROVE  LET u == updates[1]
         IN  /\ u \in Update
             /\ Titled(u) => /\ chat_title_' = [chat_title_ EXCEPT ![u.chat] = u.text]
                             /\ users_' = users_
                             /\ told' = [update |-> u, cached |-> u.text]
             /\ u.kind = "user" =>
                  /\ users_' = [users_ EXCEPT ![u.user.id % KeyRange] = u.user]
                  /\ chat_title_' = chat_title_
                  /\ told' = [update |-> u, cached |-> u.user]
             /\ u.kind = "new_msg" =>
                  /\ UNCHANGED <<chat_title_, users_>>
                  /\ told' = [update |-> u, cached |-> chat_title_[u.chat]]
<1> DEFINE u == updates[1]
<1>1. u = Head(updates) /\ u \in Update
  BY Receiving DEF TypeOK, loop
<1>2. process_update(u)
  BY <1>1 DEF loop
<1> HIDE DEF u
<1>3. CASE Titled(u)
  <2>1. u.chat \in Chats
    BY <1>1, <1>3, UpdateFields
  <2>2. /\ chat_title_' = [chat_title_ EXCEPT ![u.chat] = u.text]
        /\ users_' = users_
        /\ told' = [update |-> u, cached |-> chat_title_'[u.chat]]
    BY <1>2, <1>3 DEF process_update, u_new_chat, u_chat_title, Titles, Titled,
       execute
  <2>3. chat_title_'[u.chat] = u.text
    BY <2>1, <2>2 DEF TypeOK
  <2>4. u.kind # "user" /\ u.kind # "new_msg"
    BY <1>3 DEF Titled
  <2> QED  BY <1>1, <2>2, <2>3, <2>4 DEF u
<1>4. CASE u.kind = "user"
  <2>1. u.user.id % KeyRange \in Keys
    BY <1>1, <1>4, UpdateFields, KeyTyped DEF User
  <2>2. /\ users_' = [users_ EXCEPT ![u.user.id % KeyRange] = u.user]
        /\ chat_title_' = chat_title_
        /\ told' = [update |-> u, cached |-> users_'[u.user.id % KeyRange]]
    BY <1>2, <1>4 DEF process_update, u_user, execute, Narrow
  <2>3. users_'[u.user.id % KeyRange] = u.user
    BY <2>1, <2>2 DEF TypeOK
  <2>4. ~ Titled(u) /\ u.kind # "new_msg"
    BY <1>4 DEF Titled
  <2> QED  BY <1>1, <2>2, <2>3, <2>4 DEF u
<1>5. CASE u.kind = "new_msg"
  <2>1. ~ Titled(u) /\ u.kind # "user"
    BY <1>5 DEF Titled
  <2> QED  BY <1>1, <1>2, <1>5, <2>1 DEF process_update, u_new_msg, execute, u
<1> QED  BY <1>1, <1>3, <1>4, <1>5, UpdateFields DEF Titled

\* Types are kept.
LEMMA TypesKept == TypeOK /\ [Next]_cacheVars => TypeOK'
<1> SUFFICES ASSUME TypeOK, [Next]_cacheVars PROVE TypeOK'
  OBVIOUS
<1>1. ASSUME NEW u \in Update, Send(u),
             \/ /\ Titled(u)
                /\ title' = [title EXCEPT ![u.chat] = u.text]
                /\ UNCHANGED newest
             \/ /\ u.kind = "user"
                /\ newest' = [newest EXCEPT ![u.user.id % KeyRange] = u.user]
                /\ UNCHANGED title
             \/ UNCHANGED <<title, newest>>
      PROVE  TypeOK'
  <2>1. title' \in [Chats -> Texts \cup {Nothing}]
    BY <1>1, UpdateFields DEF TypeOK
  <2>2. newest' \in [Keys -> User \cup {Nothing}]
    BY <1>1, UpdateFields, KeyTyped DEF TypeOK, User
  <2>3. updates' \in Seq(Update)
    BY <1>1, Sending DEF Send, TypeOK
  <2>4. sent' \in 0 .. MaxUpdates
    BY <1>1, CacheAssumption DEF Send, TypeOK
  <2>5. UNCHANGED clientVars
    BY <1>1 DEF Send
  <2> QED  BY <2>1, <2>2, <2>3, <2>4, <2>5 DEF TypeOK, clientVars
<1>2. CASE loop
  <2> DEFINE u == updates[1]
  <2>1. u \in Update /\ updates' \in Seq(Update)
        /\ UNCHANGED <<title, newest, sent>>
    BY <1>2, Received, Receiving DEF loop, TypeOK
  <2> HIDE DEF u
  <2>2. CASE Titled(u)
    BY <1>2, <2>1, <2>2, Received, UpdateFields DEF TypeOK, u
  <2>3. CASE u.kind = "user"
    <3>1. u.user \in User /\ u.user.id % KeyRange \in Keys
      BY <2>1, <2>3, UpdateFields, KeyTyped DEF User
    <3> QED  BY <1>2, <2>1, <2>3, <3>1, Received DEF TypeOK, u
  <2>4. CASE u.kind = "new_msg"
    <3>1. chat_title_[u.chat] \in Texts \cup {Nothing}
      BY <2>1, <2>4, UpdateFields DEF TypeOK
    <3> QED  BY <1>2, <2>1, <2>4, <3>1, Received DEF TypeOK, u
  <2> QED  BY <2>1, <2>2, <2>3, <2>4, UpdateFields DEF Titled
<1>3. CASE UNCHANGED cacheVars
  BY <1>3 DEF cacheVars, tdlibVars, clientVars, TypeOK
<1> QED  BY <1>1, <1>2, <1>3, Steps

\* The cache of titles stays in step with TDLib.
LEMMA TitlesKept == TypeOK /\ TitleInStep /\ [Next]_cacheVars => TitleInStep'
<1> SUFFICES ASSUME TypeOK, TitleInStep, [Next]_cacheVars, NEW c \in Chats
    PROVE  /\ TitlesOf(c)' = {} => chat_title_'[c] = title'[c]
           /\ \A i \in 1 .. Len(updates') :
                Latest(TitlesOf(c)', i) => updates'[i].text = title'[c]
  BY DEF TitleInStep, Latest
<1> DEFINE About(u) == Titled(u) /\ u.chat = c
           n == Len(updates)
<1>0. /\ updates \in Seq(Update) /\ n \in Nat
      /\ TitlesOf(c) = { i \in 1 .. n : About(updates[i]) }
      /\ TitlesOf(c)' = { i \in 1 .. Len(updates') : About(updates'[i]) }
  BY DEF TitlesOf, TypeOK
<1>1. ASSUME NEW u \in Update, Send(u)
      PROVE  /\ Len(updates') = n + 1 /\ updates'[n + 1] = u
             /\ \A i \in 1 .. n : updates'[i] = updates[i]
             /\ UNCHANGED clientVars
  BY <1>0, <1>1, Sending DEF Send
<1>2. ASSUME NEW u \in Update, Send(u), Titled(u), u.chat = c,
             title' = [title EXCEPT ![u.chat] = u.text]
      PROVE  /\ TitlesOf(c)' # {}
             /\ \A i \in 1 .. Len(updates') :
                  Latest(TitlesOf(c)', i) => updates'[i].text = title'[c]
  <2>1. n + 1 \in TitlesOf(c)'
    BY <1>0, <1>1, <1>2
  <2>2. \A i \in 1 .. Len(updates') : Latest(TitlesOf(c)', i) => i = n + 1
    BY <1>0, <1>1, <1>2, <2>1 DEF Latest
  <2>3. title'[c] = u.text
    BY <1>2 DEF TypeOK
  <2> QED  BY <1>1, <1>2, <2>1, <2>2, <2>3
<1>3. ASSUME NEW u \in Update, Send(u), ~ About(u), title'[c] = title[c]
      PROVE  /\ TitlesOf(c)' = {} => chat_title_'[c] = title'[c]
             /\ \A i \in 1 .. Len(updates') :
                  Latest(TitlesOf(c)', i) => updates'[i].text = title'[c]
  <2>1. TitlesOf(c)' = TitlesOf(c)
    BY <1>0, <1>1, <1>3
  <2>2. \A i \in TitlesOf(c) : i \in 1 .. n /\ updates'[i] = updates[i]
    BY <1>0, <1>1, <1>3
  <2>3. chat_title_' = chat_title_
    BY <1>1, <1>3 DEF clientVars
  <2> QED  BY <1>3, <2>1, <2>2, <2>3 DEF TitleInStep, Latest
<1>4. CASE loop
  <2>1. /\ n \in Nat \ {0} /\ Len(updates') = n - 1
        /\ \A i \in 1 .. n - 1 : updates'[i] = updates[i + 1]
        /\ title' = title
    BY <1>0, <1>4, Receiving DEF loop
  <2>2. \A i \in Nat : i \in TitlesOf(c)' <=> i + 1 \in TitlesOf(c) /\ i # 0
    BY <1>0, <2>1
  <2>3. ASSUME NEW i \in 1 .. Len(updates'), Latest(TitlesOf(c)', i)
        PROVE  updates'[i].text = title'[c]
    <3>1. i + 1 \in TitlesOf(c) /\ i + 1 \in 1 .. n
      BY <2>1, <2>2, <2>3 DEF Latest
    <3>2. \A j \in TitlesOf(c) : j <= i + 1
      <4> SUFFICES ASSUME NEW j \in TitlesOf(c), j > i + 1 PROVE FALSE
        BY <1>0
      <4>1. j - 1 \in Nat /\ j - 1 # 0 /\ (j - 1) + 1 = j
        BY <1>0
      <4>2. j - 1 \in TitlesOf(c)'
        BY <2>2, <4>1
      <4>3. j - 1 <= i
        BY <2>3, <4>2 DEF Latest
      <4>4. j \in Nat /\ i \in Nat /\ j > i + 1
        BY <1>0
      <4> QED  BY ONLY <4>3, <4>4
    <3> QED  BY <2>1, <2>3, <3>1, <3>2 DEF TitleInStep, Latest
  <2>4. ASSUME TitlesOf(c)' = {} PROVE chat_title_'[c] = title'[c]
    <3>1. \A j \in TitlesOf(c) : j = 1
      <4> SUFFICES ASSUME NEW j \in TitlesOf(c), j # 1 PROVE FALSE
        OBVIOUS
      <4>1. j - 1 \in Nat /\ j - 1 # 0 /\ (j - 1) + 1 = j
        BY <1>0
      <4> QED  BY <2>2, <2>4, <4>1
    <3>2. CASE 1 \in TitlesOf(c)
      <4>1. updates[1].text = title[c]
        BY <2>1, <3>1, <3>2 DEF TitleInStep, Latest
      <4>2. About(updates[1])
        BY <1>0, <3>2
      <4> QED  BY <1>4, <2>1, <4>1, <4>2, Received DEF TypeOK
    <3>3. CASE 1 \notin TitlesOf(c)
      <4>1. TitlesOf(c) = {} /\ ~ About(updates[1])
        BY <1>0, <2>1, <3>1, <3>3
      <4>2. chat_title_'[c] = chat_title_[c]
        <5>1. CASE Titled(updates[1])
          BY <1>4, <4>1, <5>1, Received DEF TypeOK
        <5>2. CASE ~ Titled(updates[1])
          BY <1>4, <5>2, Received, UpdateFields DEF Titled
        <5> QED  BY <5>1, <5>2
      <4> QED  BY <2>1, <4>1, <4>2 DEF TitleInStep
    <3> QED  BY <3>2, <3>3
  <2> QED  BY <2>3, <2>4
<1>5. CASE UNCHANGED cacheVars
  BY <1>5 DEF cacheVars, tdlibVars, clientVars, TitleInStep, TitlesOf, Latest
<1>6. ASSUME NEW u \in Update, Send(u),
             \/ /\ Titled(u)
                /\ title' = [title EXCEPT ![u.chat] = u.text]
             \/ ~ Titled(u) /\ UNCHANGED title
      PROVE  /\ TitlesOf(c)' = {} => chat_title_'[c] = title'[c]
             /\ \A i \in 1 .. Len(updates') :
                  Latest(TitlesOf(c)', i) => updates'[i].text = title'[c]
  <2>1. CASE About(u)
    BY <1>2, <1>6, <2>1
  <2>2. CASE ~ About(u)
    <3>1. title'[c] = title[c]
      BY <1>6, <2>2 DEF TypeOK
    <3> QED  BY <1>3, <1>6, <2>2, <3>1
  <2> QED  BY <2>1, <2>2
<1> QED  BY <1>4, <1>5, <1>6, Steps DEF Titled
\* So does the cache of users, by its keys.
LEMMA UsersKept == TypeOK /\ UserInStep /\ [Next]_cacheVars => UserInStep'
<1> SUFFICES ASSUME TypeOK, UserInStep, [Next]_cacheVars, NEW k \in Keys
    PROVE  /\ UsersOf(k)' = {} => users_'[k] = newest'[k]
           /\ \A i \in 1 .. Len(updates') :
                Latest(UsersOf(k)', i) => updates'[i].user = newest'[k]
  BY DEF UserInStep, Latest
<1> DEFINE About(u) == u.kind = "user" /\ u.user.id % KeyRange = k
           n == Len(updates)
<1>0. /\ updates \in Seq(Update) /\ n \in Nat
      /\ UsersOf(k) = { i \in 1 .. n : About(updates[i]) }
      /\ UsersOf(k)' = { i \in 1 .. Len(updates') : About(updates'[i]) }
  BY DEF UsersOf, TypeOK
<1>1. ASSUME NEW u \in Update, Send(u)
      PROVE  /\ Len(updates') = n + 1 /\ updates'[n + 1] = u
             /\ \A i \in 1 .. n : updates'[i] = updates[i]
             /\ UNCHANGED clientVars
  BY <1>0, <1>1, Sending DEF Send
<1>2. ASSUME NEW u \in Update, Send(u), u.kind = "user", u.user.id % KeyRange = k,
             newest' = [newest EXCEPT ![u.user.id % KeyRange] = u.user]
      PROVE  /\ UsersOf(k)' # {}
             /\ \A i \in 1 .. Len(updates') :
                  Latest(UsersOf(k)', i) => updates'[i].user = newest'[k]
  <2>1. n + 1 \in UsersOf(k)'
    BY <1>0, <1>1, <1>2
  <2>2. \A i \in 1 .. Len(updates') : Latest(UsersOf(k)', i) => i = n + 1
    BY <1>0, <1>1, <1>2, <2>1 DEF Latest
  <2>3. newest'[k] = u.user
    BY <1>2 DEF TypeOK
  <2> QED  BY <1>1, <1>2, <2>1, <2>2, <2>3
<1>3. ASSUME NEW u \in Update, Send(u), ~ About(u), newest'[k] = newest[k]
      PROVE  /\ UsersOf(k)' = {} => users_'[k] = newest'[k]
             /\ \A i \in 1 .. Len(updates') :
                  Latest(UsersOf(k)', i) => updates'[i].user = newest'[k]
  <2>1. UsersOf(k)' = UsersOf(k)
    BY <1>0, <1>1, <1>3
  <2>2. \A i \in UsersOf(k) : i \in 1 .. n /\ updates'[i] = updates[i]
    BY <1>0, <1>1, <1>3
  <2>3. users_' = users_
    BY <1>1, <1>3 DEF clientVars
  <2> QED  BY <1>3, <2>1, <2>2, <2>3 DEF UserInStep, Latest
<1>4. CASE loop
  <2>1. /\ n \in Nat \ {0} /\ Len(updates') = n - 1
        /\ \A i \in 1 .. n - 1 : updates'[i] = updates[i + 1]
        /\ newest' = newest
    BY <1>0, <1>4, Receiving DEF loop
  <2>2. \A i \in Nat : i \in UsersOf(k)' <=> i + 1 \in UsersOf(k) /\ i # 0
    BY <1>0, <2>1
  <2>3. ASSUME NEW i \in 1 .. Len(updates'), Latest(UsersOf(k)', i)
        PROVE  updates'[i].user = newest'[k]
    <3>1. i + 1 \in UsersOf(k) /\ i + 1 \in 1 .. n
      BY <2>1, <2>2, <2>3 DEF Latest
    <3>2. \A j \in UsersOf(k) : j <= i + 1
      <4> SUFFICES ASSUME NEW j \in UsersOf(k), j > i + 1 PROVE FALSE
        BY <1>0
      <4>1. j - 1 \in Nat /\ j - 1 # 0 /\ (j - 1) + 1 = j
        BY <1>0
      <4>2. j - 1 \in UsersOf(k)'
        BY <2>2, <4>1
      <4>3. j - 1 <= i
        BY <2>3, <4>2 DEF Latest
      <4>4. j \in Nat /\ i \in Nat /\ j > i + 1
        BY <1>0
      <4> QED  BY ONLY <4>3, <4>4
    <3> QED  BY <2>1, <2>3, <3>1, <3>2 DEF UserInStep, Latest
  <2>4. ASSUME UsersOf(k)' = {} PROVE users_'[k] = newest'[k]
    <3>1. \A j \in UsersOf(k) : j = 1
      <4> SUFFICES ASSUME NEW j \in UsersOf(k), j # 1 PROVE FALSE
        OBVIOUS
      <4>1. j - 1 \in Nat /\ j - 1 # 0 /\ (j - 1) + 1 = j
        BY <1>0
      <4> QED  BY <2>2, <2>4, <4>1
    <3>2. CASE 1 \in UsersOf(k)
      <4>1. updates[1].user = newest[k]
        BY <2>1, <3>1, <3>2 DEF UserInStep, Latest
      <4>2. About(updates[1])
        BY <1>0, <3>2
      <4> QED  BY <1>4, <2>1, <4>1, <4>2, Received DEF TypeOK
    <3>3. CASE 1 \notin UsersOf(k)
      <4>1. UsersOf(k) = {} /\ ~ About(updates[1])
        BY <1>0, <2>1, <3>1, <3>3
      <4>2. users_'[k] = users_[k]
        <5>1. CASE updates[1].kind = "user"
          BY <1>4, <4>1, <5>1, Received DEF TypeOK
        <5>2. CASE updates[1].kind # "user"
          BY <1>4, <5>2, Received, UpdateFields DEF Titled
        <5> QED  BY <5>1, <5>2
      <4> QED  BY <2>1, <4>1, <4>2 DEF UserInStep
    <3> QED  BY <3>2, <3>3
  <2> QED  BY <2>3, <2>4
<1>5. CASE UNCHANGED cacheVars
  BY <1>5 DEF cacheVars, tdlibVars, clientVars, UserInStep, UsersOf, Latest
<1>6. ASSUME NEW u \in Update, Send(u),
             \/ /\ u.kind = "user"
                /\ newest' = [newest EXCEPT ![u.user.id % KeyRange] = u.user]
             \/ u.kind # "user" /\ UNCHANGED newest
      PROVE  /\ UsersOf(k)' = {} => users_'[k] = newest'[k]
             /\ \A i \in 1 .. Len(updates') :
                  Latest(UsersOf(k)', i) => updates'[i].user = newest'[k]
  <2>1. CASE About(u)
    BY <1>2, <1>6, <2>1
  <2>2. CASE ~ About(u)
    <3>1. newest'[k] = newest[k]
      BY <1>6, <2>2 DEF TypeOK
    <3> QED  BY <1>3, <1>6, <2>2, <3>1
  <2> QED  BY <2>1, <2>2
<1> QED  BY <1>4, <1>5, <1>6, Steps DEF Titled

\* An entry of the cache of titles is never taken away.
LEMMA CachedStays ==
  ASSUME TypeOK, [Next]_cacheVars, NEW c \in Chats, chat_title_[c] # Nothing
  PROVE  chat_title_'[c] # Nothing
<1>1. CASE loop
  <2> DEFINE u == updates[1]
  <2>1. u \in Update
    BY <1>1, Received
  <2>2. CASE Titled(u)
    <3>1. u.text # Nothing
      BY <2>1, <2>2, UpdateFields, CacheAssumption
    <3> QED  BY <1>1, <2>2, <3>1, Received DEF TypeOK
  <2>3. CASE ~ Titled(u)
    BY <1>1, <2>1, <2>3, Received, UpdateFields DEF Titled
  <2> QED  BY <2>2, <2>3
<1>2. CASE \E u \in Update : Send(u)
  BY <1>2 DEF Send, clientVars
<1> QED  BY <1>1, <1>2, Steps DEF cacheVars, clientVars

\* The update that names a chat stays ahead of the messages of that chat.
LEMMA MessagesKept ==
  TypeOK /\ TitleInStep /\ MessageAfterChat /\ [Next]_cacheVars
    => MessageAfterChat'
<1> SUFFICES ASSUME TypeOK, TitleInStep, MessageAfterChat, [Next]_cacheVars,
                    NEW i \in 1 .. Len(updates'), updates'[i].kind = "new_msg"
    PROVE  \/ chat_title_'[updates'[i].chat] # Nothing
           \/ \E j \in 1 .. i - 1 : Titled(updates'[j])
                                    /\ updates'[j].chat = updates'[i].chat
  BY DEF MessageAfterChat
<1> DEFINE n == Len(updates)
           c == updates'[i].chat
<1>0. /\ updates \in Seq(Update) /\ n \in Nat
      /\ \A j \in 1 .. n : updates[j] \in Update
  BY DEF TypeOK
<1>1. ASSUME NEW u \in Update, Send(u),
             u.kind = "new_msg" => title[u.chat] # Nothing
      PROVE  \/ chat_title_'[c] # Nothing
             \/ \E j \in 1 .. i - 1 : Titled(updates'[j]) /\ updates'[j].chat = c
  <2>1. /\ Len(updates') = n + 1 /\ updates'[n + 1] = u
        /\ \A j \in 1 .. n : updates'[j] = updates[j]
        /\ chat_title_' = chat_title_
    BY <1>0, <1>1, Sending DEF Send, clientVars
  <2>2. CASE i \in 1 .. n
    BY <1>0, <2>1, <2>2 DEF MessageAfterChat
  <2>3. CASE i = n + 1
    <3>1. c \in Chats /\ title[c] # Nothing
      BY <1>1, <2>1, <2>3, UpdateFields
    <3>2. CASE TitlesOf(c) = {}
      BY <2>1, <3>1, <3>2 DEF TitleInStep
    <3>3. CASE TitlesOf(c) # {}
      <4>1. PICK j \in 1 .. n : Titled(updates[j]) /\ updates[j].chat = c
        BY <3>3 DEF TitlesOf
      <4>2. j \in 1 .. i - 1 /\ updates'[j] = updates[j]
        BY <1>0, <2>1, <2>3, <4>1
      <4> QED  BY <4>1, <4>2
    <3> QED  BY <3>2, <3>3
  <2> QED  BY <1>0, <2>1, <2>2, <2>3
<1>2. CASE loop
  <2>1. /\ n \in Nat \ {0} /\ Len(updates') = n - 1
        /\ \A j \in 1 .. n - 1 : updates'[j] = updates[j + 1]
    BY <1>0, <1>2, Receiving DEF loop
  <2>2. i + 1 \in 1 .. n /\ updates'[i] = updates[i + 1]
    BY <1>0, <2>1
  <2>3. c \in Chats
    BY <1>0, <2>2, UpdateFields
  <2>4. CASE chat_title_[c] # Nothing
    BY <2>3, <2>4, CachedStays
  <2>5. ASSUME NEW j \in 1 .. i, Titled(updates[j]), updates[j].chat = c
        PROVE  \/ chat_title_'[c] # Nothing
               \/ \E m \in 1 .. i - 1 : Titled(updates'[m])
                                        /\ updates'[m].chat = c
    <3>1. CASE j = 1
      <4>1. updates[1] \in Update
        BY <1>2, Received
      <4>2. updates[1].text # Nothing
        BY <2>5, <3>1, <4>1, UpdateFields, CacheAssumption
      <4> QED  BY <1>2, <2>3, <2>5, <3>1, <4>2, Received DEF TypeOK
    <3>2. CASE j # 1
      <4>1. j - 1 \in 1 .. i - 1 /\ j - 1 \in 1 .. n - 1 /\ (j - 1) + 1 = j
        BY <2>1, <2>2, <2>5, <3>2
      <4>2. updates'[j - 1] = updates[j]
        BY <2>1, <4>1
      <4> QED  BY <2>5, <4>1, <4>2
    <3> QED  BY <3>1, <3>2
  <2>6. \/ chat_title_[c] # Nothing
        \/ \E j \in 1 .. i : Titled(updates[j]) /\ updates[j].chat = c
    <3>1. (i + 1) - 1 = i /\ updates[i + 1].kind = "new_msg"
          /\ updates[i + 1].chat = c
      BY <2>1, <2>2
    <3> QED  BY <2>2, <3>1 DEF MessageAfterChat
  <2> QED  BY <2>4, <2>5, <2>6
<1>3. CASE UNCHANGED cacheVars
  BY <1>3 DEF cacheVars, tdlibVars, clientVars, MessageAfterChat
<1> QED  BY <1>1, <1>2, <1>3, Steps DEF Titled

\* What the last callback could see.
LEMMA CallbacksKept ==
  TypeOK /\ MessageAfterChat /\ CallbackInformed /\ [Next]_cacheVars
    => CallbackInformed'
<1> SUFFICES ASSUME TypeOK, MessageAfterChat, CallbackInformed, [Next]_cacheVars
    PROVE  CallbackInformed'
  OBVIOUS
<1>1. CASE loop
  <2> DEFINE u == updates[1]
  <2>1. u \in Update /\ Len(updates) \in Nat \ {0}
    BY <1>1, Received, Receiving DEF loop, TypeOK
  <2>2. u.kind = "new_msg" => chat_title_[u.chat] # Nothing
    <3>1. 1 \in 1 .. Len(updates) /\ 1 .. 1 - 1 = {}
      BY <2>1
    <3> QED  BY <3>1 DEF MessageAfterChat
  <2>3. CASE Titled(u)
    BY <1>1, <2>3, Received DEF CallbackInformed, Titled
  <2>4. CASE u.kind = "user"
    BY <1>1, <2>4, Received DEF CallbackInformed, Titled
  <2>5. CASE u.kind = "new_msg"
    BY <1>1, <2>2, <2>5, Received DEF CallbackInformed, Titled
  <2> QED  BY <2>1, <2>3, <2>4, <2>5, UpdateFields DEF Titled
<1>2. CASE UNCHANGED clientVars
  BY <1>2 DEF clientVars, CallbackInformed
<1> QED  BY <1>1, <1>2, Steps DEF Send, cacheVars

-----------------------------------------------------------------------------
LEMMA CacheInductive ==
  Spec => [](TypeOK /\ TitleInStep /\ UserInStep /\ MessageAfterChat
             /\ CallbackInformed)
<1>1. Init => TypeOK /\ TitleInStep /\ UserInStep /\ MessageAfterChat
              /\ CallbackInformed
  <2> SUFFICES ASSUME Init
      PROVE TypeOK /\ TitleInStep /\ UserInStep /\ MessageAfterChat
            /\ CallbackInformed
    OBVIOUS
  <2>1. 0 \in 0 .. MaxUpdates /\ <<>> \in Seq(Update) /\ 1 .. Len(<<>>) = {}
    BY CacheAssumption
  <2>2. TypeOK
    BY <2>1 DEF Init, TypeOK
  <2>3. TitleInStep /\ UserInStep /\ MessageAfterChat
    BY <2>1 DEF Init, TitleInStep, UserInStep, MessageAfterChat
  <2>4. CallbackInformed
    BY DEF Init, CallbackInformed
  <2> QED  BY <2>2, <2>3, <2>4
<1> QED  BY <1>1, TypesKept, TitlesKept, UsersKept, MessagesKept, CallbacksKept,
         PTL DEF Spec

\* The caches hold titles and users only.
THEOREM CacheTypes == Spec => []TypeOK
BY CacheInductive, PTL

\* The caches and the updates that wait tell what TDLib has: the title of a
\* chat, and who changed last of the users that share a key.
THEOREM CachesFollow == Spec => []CachesInStep
BY CacheInductive, PTL DEF CachesInStep

\* A callback finds in the caches what it was called for.
THEOREM CallbacksInformed == Spec => []CallbackInformed
BY CacheInductive, PTL

-----------------------------------------------------------------------------
\* The caches as replicas of what TDLib has.

\* A sequence with one element more at its end, and one without its first.
LEMMA IsAppend ==
  ASSUME NEW S, NEW s \in Seq(S), NEW t \in Seq(S), NEW e \in S,
         Len(t) = Len(s) + 1, t[Len(s) + 1] = e,
         \A i \in 1 .. Len(s) : t[i] = s[i]
  PROVE  t = Append(s, e)
OBVIOUS

LEMMA IsTail ==
  ASSUME NEW S, NEW s \in Seq(S), NEW t \in Seq(S), s # <<>>,
         Len(t) = Len(s) - 1, \A i \in 1 .. Len(s) - 1 : t[i] = s[i + 1]
  PROVE  t = Tail(s)
OBVIOUS

\* A change of a title is not taken for something else.
LEMMA Entries ==
  ASSUME NEW u \in Update
  PROVE  /\ TitleEntry(u) \in (Chats \X Texts) \cup {<<>>}
         /\ Titled(u) => TitleEntry(u) = <<u.chat, u.text>> /\ TitleEntry(u) # <<>>
         /\ ~ Titled(u) => TitleEntry(u) = <<>>
         /\ UserEntry(u) \in (Keys \X User) \cup {<<>>}
         /\ u.kind = "user" => /\ UserEntry(u) = <<u.user.id % KeyRange, u.user>>
                               /\ UserEntry(u) # <<>>
         /\ u.kind # "user" => UserEntry(u) = <<>>
<1>1. /\ Titled(u) => u.chat \in Chats /\ u.text \in Texts
      /\ u.kind = "user" => u.user \in User /\ u.user.id % KeyRange \in Keys
  BY UpdateFields, KeyTyped DEF User
<1>2. \A x, y : <<x, y>> # <<>>
  OBVIOUS
<1> QED  BY <1>1, <1>2 DEF TitleEntry, UserEntry

\* The entries of the queue, one by one.
LEMMA Logs ==
  ASSUME NEW q \in Seq(Update), NEW T, NEW U,
         T = [i \in 1 .. Len(q) |-> TitleEntry(q[i])],
         U = [i \in 1 .. Len(q) |-> UserEntry(q[i])]
  PROVE  /\ T \in Seq((Chats \X Texts) \cup {<<>>}) /\ Len(T) = Len(q)
         /\ \A i \in 1 .. Len(q) : T[i] = TitleEntry(q[i])
         /\ U \in Seq((Keys \X User) \cup {<<>>}) /\ Len(U) = Len(q)
         /\ \A i \in 1 .. Len(q) : U[i] = UserEntry(q[i])
<1>1. \A i \in 1 .. Len(q) : q[i] \in Update
  OBVIOUS
<1>2. Len(q) \in Nat
  OBVIOUS
<1> QED  BY <1>1, <1>2, Entries

\* An update that is sent is logged last.
LEMMA LogsSent ==
  ASSUME TypeOK, NEW u \in Update, Send(u)
  PROVE  /\ TitleLog' = Append(TitleLog, TitleEntry(u))
         /\ UserLog' = Append(UserLog, UserEntry(u))
<1> DEFINE n == Len(updates)
<1>1. /\ updates \in Seq(Update) /\ updates' \in Seq(Update) /\ n \in Nat
      /\ Len(updates') = n + 1 /\ updates'[n + 1] = u
      /\ \A i \in 1 .. n : updates'[i] = updates[i]
  BY Sending DEF Send, TypeOK
<1>2. /\ TitleLog = [i \in 1 .. n |-> TitleEntry(updates[i])]
      /\ UserLog = [i \in 1 .. n |-> UserEntry(updates[i])]
      /\ TitleLog' = [i \in 1 .. Len(updates') |-> TitleEntry(updates'[i])]
      /\ UserLog' = [i \in 1 .. Len(updates') |-> UserEntry(updates'[i])]
  BY DEF TitleLog, UserLog, TitleEntry, UserEntry, Titled
<1> HIDE DEF n
<1>3. 1 .. n \subseteq 1 .. n + 1 /\ n + 1 \in 1 .. n + 1
  BY <1>1
<1>4. /\ TitleLog \in Seq((Chats \X Texts) \cup {<<>>}) /\ Len(TitleLog) = n
      /\ \A i \in 1 .. n : TitleLog[i] = TitleEntry(updates[i])
      /\ UserLog \in Seq((Keys \X User) \cup {<<>>}) /\ Len(UserLog) = n
      /\ \A i \in 1 .. n : UserLog[i] = UserEntry(updates[i])
  BY <1>1, <1>2, Logs DEF n
<1>5. /\ TitleLog' \in Seq((Chats \X Texts) \cup {<<>>}) /\ Len(TitleLog') = n + 1
      /\ \A i \in 1 .. n + 1 : TitleLog'[i] = TitleEntry(updates'[i])
      /\ UserLog' \in Seq((Keys \X User) \cup {<<>>}) /\ Len(UserLog') = n + 1
      /\ \A i \in 1 .. n + 1 : UserLog'[i] = UserEntry(updates'[i])
  BY <1>1, <1>2, Logs
<1>6. TitleLog' = Append(TitleLog, TitleEntry(u))
  <2>1. /\ \A i \in 1 .. n : TitleLog'[i] = TitleLog[i]
        /\ TitleLog'[n + 1] = TitleEntry(u)
    BY <1>1, <1>3, <1>4, <1>5
  <2> QED  BY <1>4, <1>5, <2>1, Entries, IsAppend
<1>7. UserLog' = Append(UserLog, UserEntry(u))
  <2>1. /\ \A i \in 1 .. n : UserLog'[i] = UserLog[i]
        /\ UserLog'[n + 1] = UserEntry(u)
    BY <1>1, <1>3, <1>4, <1>5
  <2> QED  BY <1>4, <1>5, <2>1, Entries, IsAppend
<1> QED  BY <1>6, <1>7

\* The one that is received was logged first.
LEMMA LogsReceived ==
  ASSUME TypeOK, loop
  PROVE  /\ TitleLog # <<>> /\ UserLog # <<>>
         /\ Head(TitleLog) = TitleEntry(updates[1])
         /\ Head(UserLog) = UserEntry(updates[1])
         /\ TitleLog' = Tail(TitleLog) /\ UserLog' = Tail(UserLog)
<1> DEFINE n == Len(updates)
<1>1. /\ updates \in Seq(Update) /\ updates' \in Seq(Update) /\ n \in Nat \ {0}
      /\ Len(updates') = n - 1
      /\ \A i \in 1 .. n - 1 : updates'[i] = updates[i + 1]
  BY Receiving DEF loop, TypeOK
<1>2. /\ TitleLog = [i \in 1 .. n |-> TitleEntry(updates[i])]
      /\ UserLog = [i \in 1 .. n |-> UserEntry(updates[i])]
      /\ TitleLog' = [i \in 1 .. Len(updates') |-> TitleEntry(updates'[i])]
      /\ UserLog' = [i \in 1 .. Len(updates') |-> UserEntry(updates'[i])]
  BY DEF TitleLog, UserLog, TitleEntry, UserEntry, Titled
<1> HIDE DEF n
<1>3. 1 \in 1 .. n /\ \A i \in 1 .. n - 1 : i + 1 \in 1 .. n
  BY <1>1
<1>4. /\ TitleLog \in Seq((Chats \X Texts) \cup {<<>>}) /\ Len(TitleLog) = n
      /\ \A i \in 1 .. n : TitleLog[i] = TitleEntry(updates[i])
      /\ UserLog \in Seq((Keys \X User) \cup {<<>>}) /\ Len(UserLog) = n
      /\ \A i \in 1 .. n : UserLog[i] = UserEntry(updates[i])
  BY <1>1, <1>2, Logs DEF n
<1>5. /\ TitleLog' \in Seq((Chats \X Texts) \cup {<<>>}) /\ Len(TitleLog') = n - 1
      /\ \A i \in 1 .. n - 1 : TitleLog'[i] = TitleEntry(updates'[i])
      /\ UserLog' \in Seq((Keys \X User) \cup {<<>>}) /\ Len(UserLog') = n - 1
      /\ \A i \in 1 .. n - 1 : UserLog'[i] = UserEntry(updates'[i])
  BY <1>1, <1>2, Logs
<1>6. TitleLog # <<>> /\ UserLog # <<>>
  BY <1>1, <1>4
<1>7. Head(TitleLog) = TitleLog[1] /\ Head(UserLog) = UserLog[1]
  BY <1>4, <1>6
<1>8. /\ \A i \in 1 .. n - 1 : TitleLog'[i] = TitleLog[i + 1]
      /\ \A i \in 1 .. n - 1 : UserLog'[i] = UserLog[i + 1]
  BY <1>1, <1>3, <1>4, <1>5
<1>9. TitleLog' = Tail(TitleLog)
  BY <1>4, <1>5, <1>6, <1>8, IsTail
<1>10. UserLog' = Tail(UserLog)
  BY <1>4, <1>5, <1>6, <1>8, IsTail
<1> QED  BY <1>3, <1>4, <1>6, <1>7, <1>9, <1>10

\* Both caches start as empty copies.
LEMMA ReplicasStart == Init => TitleReplica!Init /\ UserReplica!Init
<1> SUFFICES ASSUME Init PROVE TitleReplica!Init /\ UserReplica!Init
  OBVIOUS
<1>1. TitleLog = <<>> /\ UserLog = <<>>
  BY DEF Init, TitleLog, UserLog
<1> QED  BY <1>1 DEF Init, TitleReplica!Init, UserReplica!Init

\* A step that sends an update changes what TDLib has, or shares the queue; one
\* that receives it writes the cache it is for, and no other.
LEMMA TitleStep ==
  TypeOK /\ [Next]_cacheVars => [TitleReplica!Next]_(TitleReplica!replicaVars)
<1> SUFFICES ASSUME TypeOK, [Next]_cacheVars
    PROVE  \/ TitleReplica!Next
           \/ UNCHANGED <<title, TitleLog, chat_title_>>
  BY DEF TitleReplica!replicaVars
<1>1. ASSUME NEW u \in Update, Send(u), Titled(u),
             title' = [title EXCEPT ![u.chat] = u.text]
      PROVE  TitleReplica!Next
  <2>1. /\ u.chat \in Chats /\ u.text \in Texts
        /\ TitleLog' = Append(TitleLog, <<u.chat, u.text>>)
        /\ chat_title_' = chat_title_
    BY <1>1, UpdateFields, LogsSent, Entries DEF Send, clientVars
  <2>2. TitleReplica!Change(u.chat, u.text)
    BY <1>1, <2>1 DEF TitleReplica!Change
  <2> QED  BY <2>1, <2>2 DEF TitleReplica!Next
<1>2. ASSUME NEW u \in Update, Send(u), ~ Titled(u), UNCHANGED title
      PROVE  TitleReplica!Next
  <2>1. TitleLog' = Append(TitleLog, <<>>) /\ chat_title_' = chat_title_
    BY <1>2, LogsSent, Entries DEF Send, clientVars
  <2> QED  BY <1>2, <2>1 DEF TitleReplica!Next, TitleReplica!Share
<1>3. CASE loop
  <2> DEFINE u == updates[1]
  <2>1. u \in Update /\ title' = title
    BY <1>3, Received DEF loop
  <2>2. chat_title_' = TitleReplica!Written(chat_title_, TitleEntry(u))
    <3>1. CASE Titled(u)
      <4>1. /\ chat_title_' = [chat_title_ EXCEPT ![u.chat] = u.text]
            /\ TitleEntry(u) = <<u.chat, u.text>> /\ TitleEntry(u) # <<>>
        BY <1>3, <2>1, <3>1, Received, Entries
      <4> HIDE DEF u
      <4> QED  BY <4>1 DEF TitleReplica!Written
    <3>2. CASE ~ Titled(u)
      <4>1. chat_title_' = chat_title_ /\ TitleEntry(u) = <<>>
        BY <1>3, <2>1, <3>2, Received, Entries, UpdateFields DEF Titled
      <4> QED  BY <4>1 DEF TitleReplica!Written
    <3> QED  BY <3>1, <3>2
  <2>3. TitleReplica!Apply
    BY <1>3, <2>1, <2>2, LogsReceived DEF TitleReplica!Apply
  <2> QED  BY <2>3 DEF TitleReplica!Next
<1>4. CASE UNCHANGED cacheVars
  BY <1>4 DEF cacheVars, tdlibVars, clientVars, TitleLog
<1> QED  BY <1>1, <1>2, <1>3, <1>4, Steps DEF Titled

LEMMA UserStep ==
  TypeOK /\ [Next]_cacheVars => [UserReplica!Next]_(UserReplica!replicaVars)
<1> SUFFICES ASSUME TypeOK, [Next]_cacheVars
    PROVE  \/ UserReplica!Next
           \/ UNCHANGED <<newest, UserLog, users_>>
  BY DEF UserReplica!replicaVars
<1>1. ASSUME NEW u \in Update, Send(u), u.kind = "user",
             newest' = [newest EXCEPT ![u.user.id % KeyRange] = u.user]
      PROVE  UserReplica!Next
  <2> DEFINE k == u.user.id % KeyRange
  <2>1. /\ k \in Keys /\ u.user \in User
        /\ UserLog' = Append(UserLog, <<k, u.user>>)
        /\ users_' = users_
    BY <1>1, UpdateFields, KeyTyped, LogsSent, Entries DEF Send, clientVars, User
  <2>2. UserReplica!Change(k, u.user)
    BY <1>1, <2>1 DEF UserReplica!Change
  <2> QED  BY <2>1, <2>2 DEF UserReplica!Next
<1>2. ASSUME NEW u \in Update, Send(u), u.kind # "user", UNCHANGED newest
      PROVE  UserReplica!Next
  <2>1. UserLog' = Append(UserLog, <<>>) /\ users_' = users_
    BY <1>2, LogsSent, Entries DEF Send, clientVars
  <2> QED  BY <1>2, <2>1 DEF UserReplica!Next, UserReplica!Share
<1>3. CASE loop
  <2> DEFINE u == updates[1]
             k == u.user.id % KeyRange
  <2>1. u \in Update /\ newest' = newest
    BY <1>3, Received DEF loop
  <2>2. users_' = UserReplica!Written(users_, UserEntry(u))
    <3>1. CASE u.kind = "user"
      <4>1. /\ users_' = [users_ EXCEPT ![k] = u.user]
            /\ UserEntry(u) = <<k, u.user>> /\ UserEntry(u) # <<>>
        BY <1>3, <2>1, <3>1, Received, Entries
      <4> HIDE DEF u, k
      <4> QED  BY <4>1 DEF UserReplica!Written
    <3>2. CASE u.kind # "user"
      <4>1. users_' = users_ /\ UserEntry(u) = <<>>
        BY <1>3, <2>1, <3>2, Received, Entries, UpdateFields DEF Titled
      <4> QED  BY <4>1 DEF UserReplica!Written
    <3> QED  BY <3>1, <3>2
  <2>3. UserReplica!Apply
    BY <1>3, <2>1, <2>2, LogsReceived DEF UserReplica!Apply
  <2> QED  BY <2>3 DEF UserReplica!Next
<1>4. CASE UNCHANGED cacheVars
  BY <1>4 DEF cacheVars, tdlibVars, clientVars, UserLog
<1> QED  BY <1>1, <1>2, <1>3, <1>4, Steps DEF Titled

\* process_update makes each cache a replica of its own part of what TDLib has,
\* for any number of chats, users and updates: a change that is sent is applied
\* once, after those sent before it, whatever other updates come between, and
\* nothing else writes the cache.
THEOREM CachesReplicate == Spec => TitleReplica!Steps /\ UserReplica!Steps
<1>1. Spec => []TypeOK
  BY CacheInductive, PTL
<1>2. Spec => TitleReplica!Steps
  BY <1>1, ReplicasStart, TitleStep, PTL DEF Spec, TitleReplica!Steps
<1>3. Spec => UserReplica!Steps
  BY <1>1, ReplicasStart, UserStep, PTL DEF Spec, UserReplica!Steps
<1> QED  BY <1>2, <1>3
=============================================================================
