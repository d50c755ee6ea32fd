---------------------------- MODULE LoginProofs ----------------------------
(***************************************************************************)
(* Theorems about the login of TdClient: what is_authorized_ says of the   *)
(* account, and that login steps do not multiply.                          *)
(***************************************************************************)
EXTENDS TdClientProofs, FiniteSetTheorems

(* The states after Ready, in the order TDLib passes through them.         *)
Follows(s, t) ==
  /\ s = "Ready" => t \in {"Ready", "LoggingOut", "Closing", "Closed"}
  /\ s = "LoggingOut" => t \in {"LoggingOut", "Closing", "Closed"}
  /\ s = "Closing" => t \in {"Closing", "Closed"}
  /\ s = "Closed" => t = "Closed"

IsAuth(r) == r.type = "auth"

\* What the client knows, what is announced to it and what TDLib is in follow
\* each other.
Announced ==
  /\ Follows(authorization_state, tdState)
  /\ \A i \in 1 .. Len(inbox) : IsAuth(inbox[i]) =>
       /\ Follows(authorization_state, inbox[i].state)
       /\ Follows(inbox[i].state, tdState)
  /\ \A i, j \in 1 .. Len(inbox) :
       i < j /\ IsAuth(inbox[i]) /\ IsAuth(inbox[j])
         => Follows(inbox[i].state, inbox[j].state)

ViewInv == Announced /\ AuthorizedView

-----------------------------------------------------------------------------
(* is_authorized_.                                                         *)

\* Follows is a preorder.
LEMMA FollowsOrder ==
  /\ \A s : Follows(s, s)
  /\ \A s, t, u : Follows(s, t) /\ Follows(t, u) => Follows(s, u)
BY DEF Follows

\* TDLib goes on in that order.
LEMMA AnswerFollows ==
  ASSUME TypeOK, NEW q \in requests, TdAnswer(q)
  PROVE  /\ Follows(tdState, tdState') /\ tdState' \in AuthState
         /\ \E t \in {"ok", "error", "user"} :
              \/ inbox' = Append(inbox, Answer(q, t)) /\ tdState' = tdState
              \/ /\ inbox' = Append(inbox, Result(q)) /\ tdState' = tdState
                 /\ q.fn = "call"
              \/ inbox' = Append(Append(inbox, Update(tdState')), Answer(q, t))
              \/ inbox' = Append(Append(inbox, Answer(q, t)), Update(tdState'))
<1>1. CASE TdAccept(q)
  BY <1>1 DEF TdAccept, AfterAnswer, Follows, AuthState, Silent, Prompted
<1>2. CASE TdReject(q)
  BY <1>2, FollowsOrder DEF TdReject, TypeOK
<1>3. CASE TdReply(q)
  BY <1>3, FollowsOrder DEF TdReply, tdVars, TypeOK
<1>4. CASE TdClose(q)
  BY <1>4 DEF TdClose, TypeOK, Follows, AuthState, Silent, Prompted
<1> QED  BY <1>1, <1>2, <1>3, <1>4 DEF TdAnswer

\* So it does when nobody asked.
LEMMA MoveFollows ==
  ASSUME TypeOK, TdMove
  PROVE  /\ Follows(tdState, tdState') /\ tdState' \in AuthState
         /\ inbox' = Append(inbox, Update(tdState'))
<1>1. CASE tdState \in DOMAIN MoveOn /\ tdState' \in MoveOn[tdState]
  BY <1>1 DEF TdMove, MoveOn, Follows, AuthState, Silent, Prompted
<1>2. CASE tdState \in DOMAIN AskAgain /\ tdState' \in AskAgain[tdState]
  BY <1>2 DEF TdMove, AskAgain, Follows, AuthState, Silent, Prompted
<1> QED  BY <1>1, <1>2 DEF TdMove

\* A sequence of responses between the client's state a and TDLib's state t.
InOrder(s, a, t) ==
  /\ Follows(a, t)
  /\ \A i \in 1 .. Len(s) : IsAuth(s[i]) =>
       /\ Follows(a, s[i].state)
       /\ Follows(s[i].state, t)
  /\ \A i, j \in 1 .. Len(s) :
       i < j /\ IsAuth(s[i]) /\ IsAuth(s[j]) => Follows(s[i].state, s[j].state)

\* What TDLib announces comes last.
LEMMA AppendInOrder ==
  ASSUME NEW s \in Seq(Response), NEW x \in Response, NEW a, NEW t,
         InOrder(s, a, t), IsAuth(x) => x.state = t
  PROVE  InOrder(Append(s, x), a, t)
<1>1. /\ Len(Append(s, x)) = Len(s) + 1
      /\ \A i \in 1 .. Len(s) : Append(s, x)[i] = s[i]
      /\ Append(s, x)[Len(s) + 1] = x
  OBVIOUS
<1>2. \A i \in 1 .. Len(s) + 1 : i \in 1 .. Len(s) \/ i = Len(s) + 1
  OBVIOUS
<1>3. \A i, j \in 1 .. Len(s) + 1 : i < j => i \in 1 .. Len(s)
  OBVIOUS
<1> QED  BY <1>1, <1>2, <1>3, FollowsOrder DEF InOrder

\* TDLib goes on, and what it announced stays in order.
LEMMA ForwardInOrder ==
  ASSUME NEW s, NEW a, NEW t, NEW u, InOrder(s, a, t), Follows(t, u)
  PROVE  InOrder(s, a, u)
BY FollowsOrder DEF InOrder

\* The client takes the first response.
LEMMA TailInOrder ==
  ASSUME NEW s \in Seq(Response), s # <<>>, NEW a, NEW t, InOrder(s, a, t)
  PROVE  /\ InOrder(Tail(s), a, t)
         /\ IsAuth(Head(s)) => /\ Follows(a, Head(s).state)
                               /\ InOrder(Tail(s), Head(s).state, t)
<1>1. /\ Len(Tail(s)) = Len(s) - 1 /\ Len(s) \in Nat /\ Len(s) > 0
      /\ \A i \in 1 .. Len(Tail(s)) : Tail(s)[i] = s[i + 1]
      /\ Head(s) = s[1]
  OBVIOUS
<1>2. \A i \in 1 .. Len(Tail(s)) : i + 1 \in 1 .. Len(s) /\ 1 < i + 1
  BY <1>1
<1>3. \A i, j \in 1 .. Len(Tail(s)) : i < j => i + 1 < j + 1
  BY <1>1
<1>4. 1 \in 1 .. Len(s)
  BY <1>1
<1> QED  BY <1>1, <1>2, <1>3, <1>4 DEF InOrder

\* Announced is that order.
LEMMA OrderIsAnnounced == Announced <=> InOrder(inbox, authorization_state, tdState)
BY DEF Announced, InOrder

\* What on_authorization_state_update(s) makes of is_authorized_.
Authorized(s) ==
  /\ s = "Ready" => is_authorized'
  /\ s \in {"LoggingOut", "Closed"} => ~ is_authorized'
  /\ s \notin {"Ready", "LoggingOut", "Closed"} => is_authorized' = is_authorized

\* Each overload sets is_authorized_ so.
LEMMA StateAuthorized ==
  ASSUME NEW s, on_authorization_state_update(s)
  PROVE  Authorized(s)
BY DEF on_authorization_state_update, as_ready, as_logging_out, as_message_only,
       as_closed, as_wait_silent, as_wait_prompt, Authorized, Silent, Prompted

\* A turn of the loop acts upon the state announced, or once more upon the
\* present one when a login step was refused.
LEMMA ReceiveAuthorized ==
  ASSUME TypeOK, receive
  PROVE  \/ /\ IsAuth(Head(inbox))
            /\ authorization_state' = Head(inbox).state
            /\ Authorized(Head(inbox).state)
         \/ /\ authorization_state' = authorization_state
            /\ is_authorized' = is_authorized \/ Authorized(authorization_state)
<1> DEFINE r == Head(inbox)
<1>1. CASE process_update(r)
  BY <1>1, StateAuthorized DEF process_update, NoEffect, IsAuth
<1>2. CASE run_handler(r)
  BY <1>2, StateAuthorized DEF run_handler, check_authentication_error, got_me,
     got_answer, NoEffect
<1> QED  BY <1>1, <1>2 DEF receive, process_response

\* Every step keeps the order and what is_authorized_ says.
LEMMA ViewKept == TypeInv /\ ClosedInv /\ ViewInv /\ [Next]_vars => ViewInv'
<1> SUFFICES ASSUME TypeInv, ClosedInv, ViewInv, [Next]_vars PROVE ViewInv'
  OBVIOUS
<1>0. /\ TypeOK /\ inbox \in Seq(Response)
      /\ InOrder(inbox, authorization_state, tdState)
  BY OrderIsAnnounced DEF TypeInv, TypeOK, ViewInv
<1>1. CASE receive
  <2>1. inbox' = Tail(inbox) /\ inbox # <<>> /\ UNCHANGED tdState
    BY <1>1 DEF receive, tdVars
  <2>2. CASE /\ IsAuth(Head(inbox))
             /\ authorization_state' = Head(inbox).state
             /\ Authorized(Head(inbox).state)
    <3>1. /\ InOrder(inbox', authorization_state', tdState')
          /\ Follows(authorization_state, authorization_state')
      BY <1>0, <2>1, <2>2, TailInOrder
    <3>2. AuthorizedView'
      BY <2>2, <3>1 DEF ViewInv, AuthorizedView, Authorized, Follows
    <3> QED  BY <3>1, <3>2, OrderIsAnnounced DEF ViewInv, Announced, InOrder
  <2>3. CASE /\ authorization_state' = authorization_state
             /\ is_authorized' = is_authorized \/ Authorized(authorization_state)
    <3>1. InOrder(inbox', authorization_state', tdState')
      BY <1>0, <2>1, <2>3, TailInOrder
    <3>2. AuthorizedView'
      BY <2>3 DEF ViewInv, AuthorizedView, Authorized
    <3> QED  BY <3>1, <3>2 DEF ViewInv, Announced, InOrder
  <2> QED  BY <1>0, <1>1, <2>2, <2>3, ReceiveAuthorized
<1>2. CASE restart
  BY <1>0, <1>2 DEF restart, tdVars, ClosedInv, ViewInv, AuthorizedView,
     Announced, InOrder
<1>3. CASE \E q \in requests : TdAnswer(q)
  <2>1. PICK q \in requests : TdAnswer(q)
    BY <1>3
  <2>2. UNCHANGED <<authorization_state, is_authorized>> /\ q \in Request
    BY <1>0, <2>1 DEF TdAnswer, loopVars, TypeOK
  <2>3. /\ \A t \in {"ok", "error", "user"} :
             Answer(q, t) \in Response /\ ~ IsAuth(Answer(q, t))
        /\ q.fn = "call" => Result(q) \in Response /\ ~ IsAuth(Result(q))
        /\ Update(tdState') \in Response /\ Update(tdState').state = tdState'
    BY <1>0, <2>1, <2>2, AnswerFollows, RecordsTyped
    DEF Response, Answer, Result, Update, IsAuth
  <2>4. InOrder(inbox, authorization_state, tdState')
    BY <1>0, <2>1, AnswerFollows, ForwardInOrder
  <2>5. InOrder(inbox', authorization_state, tdState')
    <3> DEFINE s == inbox
               a == authorization_state
               u == Update(tdState')
    <3>1. PICK t \in {"ok", "error", "user"} :
            \/ inbox' = Append(s, Answer(q, t))
            \/ inbox' = Append(s, Result(q)) /\ q.fn = "call"
            \/ inbox' = Append(Append(s, u), Answer(q, t))
            \/ inbox' = Append(Append(s, Answer(q, t)), u)
      BY <2>1, <1>0, AnswerFollows
    <3>2. /\ InOrder(Append(s, Answer(q, t)), a, tdState')
          /\ InOrder(Append(s, u), a, tdState')
          /\ q.fn = "call" => InOrder(Append(s, Result(q)), a, tdState')
          /\ Append(s, u) \in Seq(Response)
          /\ Append(s, Answer(q, t)) \in Seq(Response)
      BY <1>0, <2>3, <2>4, AppendInOrder
    <3>3. /\ InOrder(Append(Append(s, Answer(q, t)), u), a, tdState')
          /\ InOrder(Append(Append(s, u), Answer(q, t)), a, tdState')
      BY <2>3, <3>2, AppendInOrder
    <3> QED  BY <3>1, <3>2, <3>3
  <2> QED  BY <2>2, <2>5 DEF ViewInv, Announced, InOrder, AuthorizedView
<1>4. CASE TdMove
  <2>1. /\ Update(tdState') \in Response /\ Update(tdState').state = tdState'
        /\ UNCHANGED <<authorization_state, is_authorized>>
    BY <1>0, <1>4, MoveFollows DEF Response, Update, TdMove, loopVars
  <2>2. InOrder(inbox, authorization_state, tdState')
    BY <1>0, <1>4, MoveFollows, ForwardInOrder
  <2>3. inbox' = Append(inbox, Update(tdState'))
    BY <1>0, <1>4, MoveFollows
  <2>4. InOrder(inbox', authorization_state, tdState')
    BY <1>0, <2>1, <2>2, <2>3, AppendInOrder
  <2> QED  BY <2>1, <2>4 DEF ViewInv, Announced, InOrder, AuthorizedView
<1>5. CASE UNCHANGED <<inbox, authorization_state, is_authorized, tdState>>
  BY <1>5 DEF ViewInv, Announced, AuthorizedView
<1> QED
  BY <1>1, <1>2, <1>3, <1>4, <1>5
  DEF Next, Loop, receive_timeout, receive_null, UserInput, close, CallStep,
      CallBegin, CallEmplace, CallSend, CallReturn, vars, loopVars, tdVars

\* They hold at first.
LEMMA InitView == Init => ViewInv
BY DEF Init, ViewInv, Announced, AuthorizedView, Follows, IsAuth, Update

\* is_authorized_, by which Td::loop chooses its timeout, says that the account is
\* logged in from as_ready to as_logging_out or as_closed, whatever is refused,
\* logged out or closed meanwhile.
THEOREM AuthorizedFollows == Spec => []AuthorizedView
<1>1. ViewInv => AuthorizedView
  BY DEF ViewInv
<1>2. IInv => TypeInv /\ ClosedInv
  BY DEF IInv
<1> QED  BY <1>1, <1>2, Inductive, InitView, ViewKept, PTL DEF Spec

-----------------------------------------------------------------------------
(* Counting login steps.                                                   *)

LoginAt(s, H)    == {i \in 1 .. Len(s) : LoginResponse(s[i], H)}
LoginRequests(R) == {q \in R : q.fn \in AuthState}
Prompting(l)     == IF l = "prompt" THEN 1 ELSE 0

Responses(s, H) == Cardinality(LoginAt(s, H))
Requests(R)     == Cardinality(LoginRequests(R))

\* TDLib may still go on by itself while another device has to confirm.
Pending(s) == IF s = "WaitOtherDeviceConfirmation" THEN 1 ELSE 0

StepsBounded ==
  Requests(requests) + Responses(inbox, handlers) + Prompting(loop)
    + Pending(tdState) <= 1 + moves

\* What a login handler may be answered with is the answer to a login step.
LoginEntry ==
  \A h \in handlers, q \in requests :
    h.kind = "auth" /\ q.id = h.id => q.fn \in AuthState

StepInv ==
  /\ IsFiniteSet(requests)
  /\ manager = "null" => loop = "idle"
  /\ manager = "live" => LoginEntry
  /\ StepsBounded

\* LoginSteps in these terms.
LEMMA StepsAre ==
  LoginSteps = Requests(requests) + Responses(inbox, handlers) + Prompting(loop)
BY DEF LoginSteps, Requests, LoginRequests, Responses, LoginAt, LoginResponse,
       Prompting

\* The responses that count are finitely many.
LEMMA ResponsesCount ==
  ASSUME NEW s \in Seq(Response), NEW H
  PROVE  IsFiniteSet(LoginAt(s, H)) /\ Responses(s, H) \in Nat
<1>1. IsFiniteSet(1 .. Len(s))
  BY FS_Interval
<1>2. LoginAt(s, H) \in SUBSET (1 .. Len(s))
  BY DEF LoginAt
<1> QED  BY <1>1, <1>2, FS_Subset, FS_CardinalityType DEF Responses

\* One more response counts one more, or none.
LEMMA ResponsesAppend ==
  ASSUME NEW s \in Seq(Response), NEW H, NEW x \in Response
  PROVE  Responses(Append(s, x), H)
           = Responses(s, H) + IF LoginResponse(x, H) THEN 1 ELSE 0
<1> DEFINE n == Len(s) + 1
<1>1. /\ Len(Append(s, x)) = n /\ n \in Nat /\ n \notin 1 .. Len(s)
      /\ \A i \in 1 .. Len(s) : Append(s, x)[i] = s[i]
      /\ Append(s, x)[n] = x
  OBVIOUS
<1>2. 1 .. n = (1 .. Len(s)) \cup {n}
  OBVIOUS
<1>3. LoginAt(Append(s, x), H)
        = LoginAt(s, H) \cup IF LoginResponse(x, H) THEN {n} ELSE {}
  BY <1>1, <1>2 DEF LoginAt
<1>4. n \notin LoginAt(s, H)
  BY <1>1 DEF LoginAt
<1>5. Cardinality(LoginAt(s, H) \cup {n}) = Cardinality(LoginAt(s, H)) + 1
  BY <1>4, ResponsesCount, FS_AddElement
<1>6. CASE LoginResponse(x, H)
  BY <1>3, <1>5, <1>6 DEF Responses
<1>7. CASE ~ LoginResponse(x, H)
  BY <1>3, <1>7, ResponsesCount DEF Responses
<1> QED  BY <1>6, <1>7

\* A response that does not count.
LEMMA ResponsesQuiet ==
  ASSUME NEW s \in Seq(Response), NEW H, NEW x \in Response,
         ~ LoginResponse(x, H)
  PROVE  /\ Append(s, x) \in Seq(Response)
         /\ Responses(Append(s, x), H) = Responses(s, H)
BY ResponsesAppend, ResponsesCount

\* One response less counts one less, or as many: the places of the others
\* move up by one.
LEMMA ResponsesTail ==
  ASSUME NEW s \in Seq(Response), s # <<>>, NEW H
  PROVE  Responses(s, H)
           = Responses(Tail(s), H) + IF LoginResponse(Head(s), H) THEN 1 ELSE 0
<1> DEFINE S == LoginAt(Tail(s), H)
           T == LoginAt(s, H) \ {1}
           f == [i \in S |-> i + 1]
<1>1. /\ Len(Tail(s)) = Len(s) - 1 /\ Len(s) \in Nat /\ Len(s) > 0
      /\ \A i \in 1 .. Len(Tail(s)) : Tail(s)[i] = s[i + 1]
      /\ Head(s) = s[1] /\ Tail(s) \in Seq(Response)
  OBVIOUS
<1>2. S \subseteq 1 .. Len(s) - 1 /\ T \subseteq 2 .. Len(s)
  BY <1>1 DEF LoginAt
<1>3. \A i \in 1 .. Len(s) - 1 : i \in S <=> i + 1 \in T
  BY <1>1 DEF LoginAt
<1>4. \A i \in S : i \in Nat /\ f[i] = i + 1 /\ f[i] \in T
  BY <1>1, <1>2, <1>3
<1>5. \A j \in T : j - 1 \in S /\ f[j - 1] = j
  BY <1>1, <1>2, <1>3
<1>6. f \in Bijection(S, T)
  <2>1. f \in [S -> T]
    BY <1>4
  <2>2. \A a, b \in S : f[a] = f[b] => a = b
    BY <1>4
  <2>3. \A j \in T : \E i \in S : f[i] = j
    BY <1>5
  <2> HIDE DEF f, S, T
  <2> QED  BY <2>1, <2>2, <2>3 DEF Bijection, Injection, Surjection, IsInjective
<1>7. IsFiniteSet(S) /\ IsFiniteSet(LoginAt(s, H))
  BY <1>1, ResponsesCount
<1>8. Cardinality(T) = Cardinality(S)
  BY <1>6, <1>7, FS_Bijection DEF ExistsBijection
<1>9. Cardinality(T) = IF 1 \in LoginAt(s, H)
                         THEN Cardinality(LoginAt(s, H)) - 1
                         ELSE Cardinality(LoginAt(s, H))
  BY <1>7, FS_RemoveElement
<1>10. 1 \in LoginAt(s, H) <=> LoginResponse(Head(s), H)
  BY <1>1 DEF LoginAt
<1>11. Responses(s, H) \in Nat /\ Responses(Tail(s), H) \in Nat
  BY <1>1, ResponsesCount
<1> HIDE DEF S, T, f
<1>12. Responses(s, H) = Cardinality(T) + IF LoginResponse(Head(s), H) THEN 1 ELSE 0
  BY <1>9, <1>10, <1>11 DEF Responses
<1> QED  BY <1>8, <1>12 DEF Responses, S

\* A handler under a new id, or of another kind, makes no old refusal count.
LEMMA ResponsesHandler ==
  ASSUME NEW s \in Seq(Response), NEW H, NEW h,
         h.kind = "auth" => ~ HasId(s, h.id)
  PROVE  Responses(s, H \cup {h}) = Responses(s, H)
<1>1. \A i \in 1 .. Len(s) :
        LoginResponse(s[i], H \cup {h}) <=> LoginResponse(s[i], H)
  BY DEF LoginResponse, HasId
<1>2. LoginAt(s, H \cup {h}) = LoginAt(s, H)
  BY <1>1 DEF LoginAt
<1> QED  BY <1>2 DEF Responses

\* The requests that count are finitely many.
LEMMA RequestsCount ==
  ASSUME NEW R, IsFiniteSet(R)
  PROVE  IsFiniteSet(LoginRequests(R)) /\ Requests(R) \in Nat
<1>1. LoginRequests(R) \in SUBSET R
  BY DEF LoginRequests
<1> QED  BY <1>1, FS_Subset, FS_CardinalityType DEF Requests

\* One more request counts one more at most.
LEMMA RequestsAdd ==
  ASSUME NEW R, IsFiniteSet(R), NEW q
  PROVE  /\ IsFiniteSet(R \cup {q})
         /\ Requests(R \cup {q}) \in Nat
         /\ Requests(R \cup {q}) <= Requests(R) + 1
         /\ q.fn \notin AuthState => Requests(R \cup {q}) = Requests(R)
<1>1. IsFiniteSet(R \cup {q}) /\ IsFiniteSet(LoginRequests(R))
  BY FS_AddElement, RequestsCount
<1>2. CASE q.fn \in AuthState
  <2>1. LoginRequests(R \cup {q}) = LoginRequests(R) \cup {q}
    BY <1>2 DEF LoginRequests
  <2>2. Cardinality(LoginRequests(R) \cup {q})
          \in {Cardinality(LoginRequests(R)), Cardinality(LoginRequests(R)) + 1}
    BY <1>1, FS_AddElement
  <2> QED  BY <1>1, <1>2, <2>1, <2>2, RequestsCount DEF Requests
<1>3. CASE q.fn \notin AuthState
  <2>1. LoginRequests(R \cup {q}) = LoginRequests(R)
    BY <1>3 DEF LoginRequests
  <2> QED  BY <1>1, <1>3, <2>1, RequestsCount DEF Requests
<1> QED  BY <1>2, <1>3

\* A request that is answered.
LEMMA RequestsRemove ==
  ASSUME NEW R, IsFiniteSet(R), NEW q \in R
  PROVE  /\ IsFiniteSet(R \ {q})
         /\ Requests(R \ {q}) \in Nat
         /\ Requests(R)
              = Requests(R \ {q}) + IF q.fn \in AuthState THEN 1 ELSE 0
<1>1. IsFiniteSet(R \ {q}) /\ IsFiniteSet(LoginRequests(R))
  BY FS_RemoveElement, RequestsCount
<1>2. CASE q.fn \in AuthState
  <2>1. LoginRequests(R \ {q}) = LoginRequests(R) \ {q} /\ q \in LoginRequests(R)
    BY <1>2 DEF LoginRequests
  <2>2. Cardinality(LoginRequests(R) \ {q}) = Cardinality(LoginRequests(R)) - 1
    BY <1>1, <2>1, FS_RemoveElement
  <2> QED  BY <1>1, <1>2, <2>1, <2>2, RequestsCount DEF Requests
<1>3. CASE q.fn \notin AuthState
  <2>1. LoginRequests(R \ {q}) = LoginRequests(R)
    BY <1>3 DEF LoginRequests
  <2> QED  BY <1>1, <1>3, <2>1, RequestsCount DEF Requests
<1> QED  BY <1>2, <1>3

-----------------------------------------------------------------------------
(* The steps.                                                              *)

\* send_query of the loop adds at most n login steps to the requests, and makes
\* no response count that did not.
SendAdds(n) ==
  /\ IsFiniteSet(requests') /\ Requests(requests') \in Nat
  /\ Requests(requests') <= Requests(requests) + n
  /\ Responses(inbox', handlers') = Responses(inbox', handlers)
  /\ LoginEntry'

\* It adds the one that it sends.
LEMMA SendCounts ==
  ASSUME TypeOK, LiveInv, IsFiniteSet(requests), LoginEntry,
         inbox' \in Seq(Response), IdsBelow(inbox', current_query_id),
         NEW f \in Function \ {"call"},
         NEW h \in {GetMeHandler, create_authentication_query_handler},
         h.kind = "auth" => f \in AuthState,
         LoopSend(f, h)
  PROVE  SendAdds(IF f \in AuthState THEN 1 ELSE 0)
<1> DEFINE q == [id |-> current_query_id, fn |-> f]
<1>1. /\ requests' = requests \cup {q} /\ q.fn = f /\ q.id = current_query_id
      /\ handlers' = handlers \/ handlers' = handlers \cup {h}
      /\ h.id = current_query_id
  BY DEF LoopSend, Emplace, GetMeHandler, create_authentication_query_handler
<1>2. /\ \A g \in handlers : g.id < current_query_id
      /\ \A p \in requests : p.id < current_query_id
      /\ current_query_id \in Nat
  BY DEF LiveInv, IdsGivenOut, TypeOK
<1>3. ~ HasId(inbox', h.id)
  BY <1>1, <1>2 DEF IdsBelow, HasId
<1>4. Responses(inbox', handlers') = Responses(inbox', handlers)
  BY <1>1, <1>3, ResponsesHandler
<1>5. \A g \in handlers', p \in requests' : g.kind = "auth" /\ p.id = g.id
        => \/ g \in handlers /\ p \in requests
           \/ g = h /\ p = q
  BY <1>1, <1>2
<1>6. LoginEntry'
  BY <1>1, <1>5 DEF LoginEntry
<1>7. /\ IsFiniteSet(requests') /\ Requests(requests') \in Nat
      /\ Requests(requests') <= Requests(requests) + 1
      /\ f \notin AuthState => Requests(requests') = Requests(requests)
  <2> HIDE DEF q
  <2> QED  BY <1>1, RequestsAdd
<1>8. Requests(requests) \in Nat
  BY RequestsCount
<1>9. Requests(requests') <= Requests(requests) + IF f \in AuthState THEN 1 ELSE 0
  BY <1>7, <1>8
<1> QED  BY <1>4, <1>6, <1>7, <1>9 DEF SendAdds

\* A state of the login starts one step: a request or a prompt.
LEMMA UpdateCounts ==
  ASSUME TypeOK, LiveInv, IsFiniteSet(requests), LoginEntry, loop = "idle",
         inbox' \in Seq(Response), IdsBelow(inbox', current_query_id),
         NEW s \in AuthState, on_authorization_state_update(s)
  PROVE  /\ SendAdds(1)
         /\ Requests(requests') + Prompting(loop')
              <= Requests(requests)
                 + IF s \in Silent \cup Prompted THEN 1 ELSE 0
<1>1. Requests(requests) \in Nat
  BY RequestsCount
<1>2. CASE as_ready(s)
  <2>1. "getMe" \in Function \ {"call"} /\ "getMe" \notin AuthState
        /\ GetMeHandler.kind # "auth"
    BY DEF Function, AuthState, Silent, Prompted, GetMeHandler
  <2>2. SendAdds(0)
    BY <1>2, <2>1, SendCounts DEF as_ready
  <2>3. Prompting(loop') = 0
    BY <1>2 DEF as_ready, Prompting
  <2> QED  BY <1>1, <2>2, <2>3 DEF SendAdds
<1>3. CASE as_wait_silent(s)
  <2>1. s \in Function \ {"call"} /\ s \in Silent
        /\ create_authentication_query_handler.kind = "auth"
    BY <1>3 DEF as_wait_silent, Function, Silent,
                create_authentication_query_handler
  <2>2. SendAdds(1)
    BY <1>3, <2>1, SendCounts DEF as_wait_silent
  <2>3. Prompting(loop') = 0
    BY <1>3 DEF as_wait_silent, Prompting
  <2> QED  BY <1>1, <2>1, <2>2, <2>3 DEF SendAdds
<1>4. CASE UNCHANGED sendVars
  <2>1. requests' = requests /\ handlers' = handlers
    BY <1>4 DEF sendVars
  <2>2. SendAdds(0)
    BY <1>1, <2>1 DEF SendAdds, LoginEntry
  <2>3. SendAdds(1)
    BY <1>1, <2>2 DEF SendAdds
  <2>4. CASE as_wait_prompt(s)
    <3>1. s \in Prompted /\ Prompting(loop') = 1
      BY <2>4 DEF as_wait_prompt, Prompting
    <3> QED  BY <1>1, <2>1, <2>3, <3>1
  <2>5. CASE loop' = loop
    <3>1. Prompting(loop') = 0
      BY <2>5 DEF Prompting
    <3> QED  BY <1>1, <2>1, <2>3, <3>1
  <2> QED  BY <1>2, <1>3, <2>4, <2>5
       DEF on_authorization_state_update, as_logging_out, as_message_only, as_closed
<1> QED  BY <1>2, <1>3, <1>4
     DEF on_authorization_state_update, as_logging_out, as_message_only,
         as_closed, as_wait_prompt

\* The numbers StepsBounded adds are numbers.
LEMMA Numbers ==
  ASSUME TypeOK, IsFiniteSet(requests)
  PROVE  /\ Requests(requests) \in Nat
         /\ \A H : Responses(inbox, H) \in Nat
         /\ \A l : Prompting(l) \in {0, 1}
         /\ \A t : Pending(t) \in {0, 1}
         /\ moves \in Nat
BY RequestsCount, ResponsesCount, TdClientAssumption
DEF TypeOK, Prompting, Pending

\* A turn of the loop takes a response that counts, or starts no step.
LEMMA ReceiveSteps ==
  ASSUME TypeOK, TypeOK', LiveInv, StepInv, loop = "idle", receive
  PROVE  StepInv'
<1> DEFINE r == Head(inbox)
           counts == LoginResponse(r, handlers)
           Adds(n) ==
             /\ SendAdds(1)
             /\ Requests(requests') + Prompting(loop') <= Requests(requests) + n
<1>1. /\ r \in Response /\ inbox \in Seq(Response) /\ inbox # <<>>
      /\ inbox' = Tail(inbox) /\ inbox' \in Seq(Response)
      /\ UNCHANGED <<tdState, moves>> /\ manager = "live" /\ manager' = "live"
  BY DEF receive, TypeOK, tdVars
<1>2. IdsBelow(inbox', current_query_id)
  BY <1>1, TailIds DEF LiveInv, IdsGivenOut, TypeOK
<1>3. Responses(inbox, handlers)
        = Responses(inbox', handlers) + IF counts THEN 1 ELSE 0
  BY <1>1, ResponsesTail
<1>4. IsFiniteSet(requests) /\ LoginEntry /\ StepsBounded
  BY <1>1 DEF StepInv
<1>5. (counts /\ Adds(1)) \/ Adds(0)
  <2>0. Requests(requests) \in Nat /\ Prompting(loop) = 0
    BY <1>4, RequestsCount DEF Prompting
  <2>1. CASE NoEffect
    <3>1. requests' = requests /\ handlers' = handlers /\ loop' = loop
      BY <2>1 DEF NoEffect, sendVars
    <3> QED  BY <1>4, <2>0, <3>1 DEF SendAdds, LoginEntry
  <2>2. ASSUME r.type = "auth", on_authorization_state_update(r.state)
        PROVE  (counts /\ Adds(1)) \/ Adds(0)
    <3>1. r.state \in AuthState
      BY <1>1, <2>2, RecordsTyped
    <3>2. /\ SendAdds(1)
          /\ Requests(requests') + Prompting(loop')
               <= Requests(requests)
                  + IF r.state \in Silent \cup Prompted THEN 1 ELSE 0
      BY <1>1, <1>2, <1>4, <2>2, <3>1, UpdateCounts
    <3>3. CASE r.state \in Silent \cup Prompted
      BY <2>2, <3>2, <3>3 DEF LoginResponse
    <3>4. CASE r.state \notin Silent \cup Prompted
      BY <2>0, <3>2, <3>4
    <3> QED  BY <3>3, <3>4
  <2>3. ASSUME NEW h \in handlers, h.id = r.id, h.kind = "auth",
               r.type = "error",
               on_authorization_state_update(authorization_state)
        PROVE  (counts /\ Adds(1)) \/ Adds(0)
    <3>1. authorization_state \in AuthState
      BY DEF TypeOK
    <3>2. /\ SendAdds(1)
          /\ Requests(requests') + Prompting(loop')
               <= Requests(requests)
                  + IF authorization_state \in Silent \cup Prompted THEN 1 ELSE 0
      BY <1>1, <1>2, <1>4, <2>3, <3>1, UpdateCounts
    <3>3. counts
      BY <2>3 DEF LoginResponse
    <3>4. CASE authorization_state \in Silent \cup Prompted
      BY <3>2, <3>3, <3>4
    <3>5. CASE authorization_state \notin Silent \cup Prompted
      BY <2>0, <3>2, <3>5
    <3> QED  BY <3>4, <3>5
  <2>4. CASE process_update(r)
    BY <2>1, <2>2, <2>4 DEF process_update
  <2>5. CASE run_handler(r)
    BY <2>1, <2>3, <2>5 DEF run_handler, check_authentication_error, got_me,
       got_answer
  <2> QED  BY <2>4, <2>5 DEF receive, process_response
<1>6. /\ IsFiniteSet(requests') /\ LoginEntry'
      /\ Responses(inbox', handlers') = Responses(inbox', handlers)
  BY <1>5 DEF SendAdds
<1> HIDE DEF counts
<1>7. Requests(requests') + Responses(inbox', handlers') + Prompting(loop')
        <= Requests(requests) + Responses(inbox, handlers) + Prompting(loop)
  <2>1. /\ Requests(requests) \in Nat /\ Prompting(loop) = 0
        /\ Requests(requests') \in Nat /\ Prompting(loop') \in {0, 1}
        /\ Responses(inbox', handlers) \in Nat
    BY <1>1, <1>4, <1>6, RequestsCount, ResponsesCount DEF Prompting
  <2> QED  BY <1>3, <1>5, <1>6, <2>1
<1>8. StepsBounded'
  <2>1. /\ Requests(requests') \in Nat /\ Requests(requests) \in Nat
        /\ Responses(inbox', handlers') \in Nat
        /\ Responses(inbox, handlers) \in Nat
        /\ Prompting(loop) \in {0, 1} /\ Prompting(loop') \in {0, 1}
        /\ Pending(tdState) \in {0, 1} /\ moves \in Nat
    BY <1>1, <1>4, <1>6, RequestsCount, ResponsesCount, Numbers DEF Prompting
  <2>2. Requests(requests) + Responses(inbox, handlers) + Prompting(loop)
          + Pending(tdState) <= 1 + moves
    BY <1>4 DEF StepsBounded
  <2>3. Requests(requests') + Responses(inbox', handlers') + Prompting(loop')
          + Pending(tdState) <= 1 + moves
    BY ONLY <1>7, <2>1, <2>2
  <2> QED  BY <1>1, <2>3 DEF StepsBounded
<1> QED  BY <1>1, <1>6, <1>8 DEF StepInv

\* The user's answer turns the prompt into a request.
LEMMA InputSteps ==
  ASSUME TypeInv, LiveInv, StepInv, manager = "live", UserInput
  PROVE  StepInv'
<1>1. /\ authorization_state \in Function \ {"call"}
      /\ authorization_state \in AuthState
      /\ loop = "prompt" /\ loop' = "idle"
      /\ UNCHANGED <<inbox, tdState, moves, manager>>
      /\ inbox \in Seq(Response)
  BY DEF TypeInv, TypeOK, PromptFor, UserInput, tdVars, Function, AuthState,
         Prompted
<1>2. IsFiniteSet(requests) /\ LoginEntry /\ StepsBounded /\ TypeOK
  BY DEF StepInv, TypeInv
<1>3. SendAdds(1)
  <2>1. IdsBelow(inbox', current_query_id)
    BY <1>1 DEF LiveInv, IdsGivenOut, IdsBelow
  <2>2. LoopSend(authorization_state, create_authentication_query_handler)
    BY DEF UserInput
  <2> QED  BY <1>1, <1>2, <2>1, <2>2, SendCounts
<1>4. Prompting(loop) = 1 /\ Prompting(loop') = 0
  BY <1>1 DEF Prompting
<1>5. StepsBounded'
  BY <1>1, <1>2, <1>3, <1>4, Numbers DEF SendAdds, StepsBounded
<1> QED  BY <1>1, <1>3, <1>5 DEF SendAdds, StepInv

\* A request that is no login step, under an id of no login handler.
LEMMA OtherRequest ==
  ASSUME TypeOK, StepInv, NEW q, q.fn \notin AuthState,
         requests' = requests \cup {q},
         \A h \in handlers : h.kind = "auth" => h.id # q.id,
         UNCHANGED <<handlers, inbox, loop, tdState, moves, manager>>
  PROVE  StepInv'
<1>1. IsFiniteSet(requests') /\ Requests(requests') = Requests(requests)
  BY RequestsAdd DEF StepInv
<1>2. LoginEntry => LoginEntry'
  BY DEF LoginEntry
<1>3. StepsBounded'
  BY <1>1 DEF StepInv, StepsBounded
<1> QED  BY <1>1, <1>2, <1>3 DEF StepInv

\* send_query_sync starts no login step.
LEMMA CallSteps ==
  ASSUME TypeOK, LiveInv, StepInv, manager = "live", NEW c \in Callers,
         CallStep(c)
  PROVE  StepInv'
<1>1. CASE CallEmplace(c)
  <2> DEFINE h == [id |-> qid[c], kind |-> "sync", caller |-> c]
  <2>1. /\ handlers' = handlers \/ handlers' = handlers \cup {h}
        /\ UNCHANGED <<requests, inbox, loop, tdState, moves, manager>>
        /\ h.kind = "sync" /\ inbox \in Seq(Response)
    BY <1>1 DEF CallEmplace, Emplace, loopVars, tdVars, TypeOK
  <2>2. Responses(inbox, handlers') = Responses(inbox, handlers)
    <3> HIDE DEF h
    <3> QED  BY <2>1, ResponsesHandler
  <2>3. LoginEntry => LoginEntry'
    BY <2>1 DEF LoginEntry
  <2> QED  BY <2>1, <2>2, <2>3 DEF StepInv, StepsBounded
<1>2. CASE CallSend(c) /\ requests' # requests
  <2> DEFINE q == [id |-> qid[c], fn |-> "call", of |-> <<c, calls[c]>>]
  <2>1. /\ requests' = requests \cup {q} /\ q.id = qid[c] /\ q.fn = "call"
        /\ pc[c] = "send"
        /\ UNCHANGED <<handlers, inbox, loop, tdState, moves, manager>>
    BY <1>2 DEF CallSend, loopVars, tdVars
  <2>2. \A h \in handlers : h.kind = "auth" => h.id # q.id
    BY <2>1 DEF LiveInv, OwnEntry
  <2>3. q.fn \notin AuthState
    BY <2>1 DEF AuthState, Silent, Prompted
  <2> HIDE DEF q
  <2> QED  BY <2>1, <2>2, <2>3, OtherRequest
<1>3. CASE UNCHANGED <<handlers, requests>>
  <2>1. UNCHANGED <<inbox, loop, tdState, moves, manager>>
    BY DEF CallStep, CallBegin, CallEmplace, CallSend, CallReturn, loopVars,
           tdVars
  <2> QED  BY <1>3, <2>1 DEF StepInv, StepsBounded, LoginEntry
<1> QED  BY <1>1, <1>2, <1>3
     DEF CallStep, CallBegin, CallSend, CallReturn, sendVars

\* Neither does close.
LEMMA CloseSteps ==
  ASSUME TypeOK, LiveInv, StepInv, manager = "live", close
  PROVE  StepInv'
<1> DEFINE q == [id |-> current_query_id, fn |-> "close"]
<1>1. /\ requests' = requests \cup {q} /\ q.id = current_query_id
      /\ q.fn \notin AuthState
      /\ UNCHANGED <<handlers, inbox, loop, tdState, moves, manager>>
  BY DEF close, LoopSendPlain, tdVars, AuthState, Silent, Prompted
<1>2. \A h \in handlers : h.kind = "auth" => h.id # q.id
  BY <1>1 DEF LiveInv, IdsGivenOut, TypeOK
<1> HIDE DEF q
<1> QED  BY <1>1, <1>2, OtherRequest

\* TDLib's answer to a login step counts at most for that step.
LEMMA AnswerSteps ==
  ASSUME TypeOK, StepInv, manager = "live", NEW q \in requests, TdAnswer(q)
  PROVE  StepInv'
<1> DEFINE R(s) == Responses(s, handlers)
           asked == IF q.fn \in AuthState THEN 1 ELSE 0
<1>1. /\ requests' = requests \ {q}
      /\ UNCHANGED <<handlers, loop, moves, manager>>
      /\ IsFiniteSet(requests) /\ LoginEntry /\ StepsBounded
      /\ inbox \in Seq(Response) /\ q \in Request
  BY DEF TdAnswer, TdAccept, TdReject, TdReply, TdClose, loopVars, tdVars,
         StepInv, TypeOK
<1>2. /\ IsFiniteSet(requests') /\ Requests(requests') \in Nat
      /\ Requests(requests) = Requests(requests') + asked
  BY <1>1, RequestsRemove
<1>3. LoginEntry'
  BY <1>1 DEF LoginEntry
<1>4. /\ \A t \in {"ok", "error", "user"} : Answer(q, t) \in Response
      /\ \A t \in {"ok", "user"} : ~ LoginResponse(Answer(q, t), handlers)
      /\ q.fn \notin AuthState => ~ LoginResponse(Answer(q, "error"), handlers)
      /\ q.fn = "call" => /\ Result(q) \in Response
                          /\ ~ LoginResponse(Result(q), handlers)
      /\ \A s \in AuthState :
           /\ Update(s) \in Response
           /\ LoginResponse(Update(s), handlers) <=> s \in Silent \cup Prompted
  BY <1>1, RecordsTyped
  DEF Response, Answer, Result, Update, LoginResponse, LoginEntry
<1>5. \A s \in Seq(Response), x \in Response :
        /\ Append(s, x) \in Seq(Response)
        /\ R(Append(s, x)) = R(s) + IF LoginResponse(x, handlers) THEN 1 ELSE 0
  BY ResponsesAppend
<1>6. R(inbox) \in Nat /\ Pending(tdState) \in {0, 1} /\ Prompting(loop) \in {0, 1}
  BY <1>1, ResponsesCount DEF Pending, Prompting
<1>7. R(inbox') + Pending(tdState') <= R(inbox) + Pending(tdState) + asked
  <2>1. CASE TdAccept(q)
    <3>1. /\ q.fn = tdState /\ tdState \in DOMAIN AfterAnswer
          /\ tdState' \in AuthState
      BY <2>1 DEF TdAccept, AfterAnswer, AuthState, Silent, Prompted
    <3>2. asked = 1 /\ Pending(tdState) = 0
      BY <3>1 DEF AfterAnswer, Pending, AuthState, Silent, Prompted
    <3>3. R(inbox') = R(inbox)
                      + IF tdState' \in Silent \cup Prompted THEN 1 ELSE 0
      <4>1. \/ inbox' = Append(Append(inbox, Update(tdState')), Answer(q, "ok"))
            \/ inbox' = Append(Append(inbox, Answer(q, "ok")), Update(tdState'))
        BY <2>1 DEF TdAccept
      <4> DEFINE a == Answer(q, "ok")
                 u == Update(tdState')
      <4>2. /\ a \in Response /\ ~ LoginResponse(a, handlers)
            /\ u \in Response
            /\ LoginResponse(u, handlers) <=> tdState' \in Silent \cup Prompted
        BY <1>4, <3>1
      <4> HIDE DEF a, u
      <4>3. /\ Append(inbox, u) \in Seq(Response)
            /\ R(Append(inbox, u)) = R(inbox)
                 + IF tdState' \in Silent \cup Prompted THEN 1 ELSE 0
        BY <1>1, <4>2, ResponsesAppend
      <4>4. R(Append(Append(inbox, u), a)) = R(Append(inbox, u))
        BY <4>2, <4>3, ResponsesQuiet
      <4>5. /\ Append(inbox, a) \in Seq(Response)
            /\ R(Append(inbox, a)) = R(inbox)
        BY <1>1, <4>2, ResponsesQuiet
      <4>6. R(Append(Append(inbox, a), u)) = R(Append(inbox, a))
                 + IF tdState' \in Silent \cup Prompted THEN 1 ELSE 0
        BY <4>2, <4>5, ResponsesAppend
      <4> HIDE DEF R
      <4> QED  BY <4>1, <4>3, <4>4, <4>5, <4>6 DEF a, u
    <3>4. tdState' \in Silent \cup Prompted => Pending(tdState') = 0
      BY DEF Silent, Prompted, Pending
    <3>5. Pending(tdState') \in {0, 1}
      BY DEF Pending
    <3> HIDE DEF R, asked
    <3> QED  BY <1>6, <3>2, <3>3, <3>4, <3>5
  <2>2. CASE TdReject(q)
    <3>1. /\ inbox' = Append(inbox, Answer(q, "error")) /\ tdState' = tdState
          /\ asked = 1
      BY <2>2 DEF TdReject
    <3>2. R(inbox') \in {R(inbox), R(inbox) + 1}
      BY <1>1, <1>4, <1>5, <1>6, <3>1
    <3> HIDE DEF R, asked
    <3> QED  BY <1>6, <3>1, <3>2
  <2>3. CASE TdReply(q)
    <3>1. q.fn \notin AuthState /\ tdState' = tdState
      BY <2>3 DEF TdReply, AuthState, Silent, Prompted, tdVars
    <3>2. \/ \E t \in {"ok", "error", "user"} : inbox' = Append(inbox, Answer(q, t))
          \/ q.fn = "call" /\ inbox' = Append(inbox, Result(q))
      BY <2>3 DEF TdReply
    <3>3. \E x \in Response : /\ inbox' = Append(inbox, x)
                               /\ ~ LoginResponse(x, handlers)
      BY <1>4, <3>1, <3>2
    <3>4. R(inbox') = R(inbox)
      BY <1>1, <3>3, ResponsesQuiet
    <3>5. asked = 0
      BY <3>1
    <3> HIDE DEF R, asked
    <3> QED  BY <1>6, <3>1, <3>4, <3>5
  <2>4. CASE TdClose(q)
    <3>1. /\ "Closing" \in AuthState /\ "Closing" \notin Silent \cup Prompted
          /\ q.fn \notin AuthState /\ Pending(tdState') <= Pending(tdState)
      BY <2>4 DEF TdClose, AuthState, Silent, Prompted, Pending
    <3> DEFINE s == Append(inbox, Answer(q, "ok"))
    <3>2. R(s) = R(inbox) /\ s \in Seq(Response)
      BY <1>1, <1>4, ResponsesQuiet
    <3>3. R(inbox') = R(inbox)
      <4>1. /\ Update("Closing") \in Response
            /\ ~ LoginResponse(Update("Closing"), handlers)
        BY <1>4, <3>1
      <4>2. R(Append(s, Update("Closing"))) = R(s)
        BY <3>2, <4>1, ResponsesQuiet
      <4>3. inbox' = s \/ inbox' = Append(s, Update("Closing"))
        BY <2>4 DEF TdClose
      <4> HIDE DEF R, s
      <4> QED  BY <3>2, <4>2, <4>3
    <3>4. asked = 0 /\ Pending(tdState') \in {0, 1}
      BY <3>1 DEF Pending
    <3> HIDE DEF R, asked
    <3> QED  BY <1>6, <3>1, <3>3, <3>4
  <2> QED  BY <2>1, <2>2, <2>3, <2>4 DEF TdAnswer
<1>8. /\ R(inbox') = Responses(inbox', handlers')
      /\ asked \in {0, 1} /\ moves \in Nat
      /\ inbox' \in Seq(Response)
  BY <1>1, AnswerTyped, Numbers
<1>9. R(inbox') \in Nat /\ Pending(tdState') \in {0, 1}
  BY <1>8, ResponsesCount DEF Pending
<1>10. StepsBounded'
  <2>1. Requests(requests) + R(inbox) + Prompting(loop) + Pending(tdState)
          <= 1 + moves
    BY <1>1 DEF StepsBounded
  <2>2. Requests(requests') + R(inbox') + Prompting(loop) + Pending(tdState')
          <= 1 + moves
    <3>1. /\ Requests(requests') \in Nat /\ Prompting(loop) \in Nat
          /\ R(inbox) \in Nat /\ R(inbox') \in Nat
      BY <1>2, <1>6, <1>9
    <3>2. Pending(tdState) \in Nat /\ Pending(tdState') \in Nat
      BY <1>6, <1>9
    <3>3. asked \in Nat /\ moves \in Nat
      BY <1>8
    <3>4. Requests(requests) = Requests(requests') + asked
      BY <1>2
    <3> HIDE DEF R, asked
    <3> QED  BY <1>7, <2>1, <3>1, <3>2, <3>3, <3>4
  <2> QED  BY <1>1, <1>8, <2>2 DEF StepsBounded
<1> QED  BY <1>1, <1>2, <1>3, <1>10 DEF StepInv

\* What TDLib announces unasked is allowed for by moves, or by the login that
\* another device confirms.
LEMMA MoveSteps ==
  ASSUME TypeOK, StepInv, TdMove
  PROVE  StepInv'
<1> DEFINE u == Update(tdState')
<1>1. /\ UNCHANGED <<handlers, requests, loop, manager>>
      /\ IsFiniteSet(requests) /\ StepsBounded
      /\ inbox \in Seq(Response) /\ inbox' = Append(inbox, u)
      /\ u \in Response
      /\ LoginResponse(u, handlers) <=> tdState' \in Silent \cup Prompted
  BY MoveFollows DEF TdMove, loopVars, sendVars, StepInv, TypeOK, Response,
     Update, LoginResponse
<1>2. Responses(inbox', handlers') = Responses(inbox, handlers)
        + IF tdState' \in Silent \cup Prompted THEN 1 ELSE 0
  BY <1>1, ResponsesAppend
<1>3. (IF tdState' \in Silent \cup Prompted THEN 1 ELSE 0) + Pending(tdState')
        + moves <= Pending(tdState) + moves'
  <2>1. moves \in Nat
    BY TdClientAssumption DEF TypeOK
  <2>2. CASE tdState \in DOMAIN MoveOn /\ tdState' \in MoveOn[tdState]
             /\ UNCHANGED moves
    <3>1. CASE tdState = "WaitOtherDeviceConfirmation"
      <4>1. Pending(tdState) = 1 /\ Pending(tdState') = 0
        BY <2>2, <3>1 DEF MoveOn, Pending
      <4> QED  BY <2>1, <2>2, <4>1
    <3>2. CASE tdState # "WaitOtherDeviceConfirmation"
      <4>1. /\ tdState' \notin Silent \cup Prompted
            /\ Pending(tdState') = 0 /\ Pending(tdState) = 0
        BY <2>2, <3>2 DEF MoveOn, Pending, Silent, Prompted
      <4> QED  BY <2>1, <2>2, <4>1
    <3> QED  BY <3>1, <3>2
  <2>3. CASE tdState \in DOMAIN AskAgain /\ tdState' \in AskAgain[tdState]
             /\ moves' = moves + 1
    <3>1. Pending(tdState') = 0 /\ Pending(tdState) = 0
      BY <2>3 DEF AskAgain, Pending
    <3> QED  BY <2>1, <2>3, <3>1
  <2> QED  BY <2>2, <2>3 DEF TdMove
<1>4. StepsBounded'
  <2> DEFINE n == IF tdState' \in Silent \cup Prompted THEN 1 ELSE 0
  <2>1. /\ Pending(tdState') \in {0, 1} /\ n \in {0, 1}
        /\ moves' \in Nat /\ moves \in Nat
    BY Numbers DEF Pending, TdMove, TypeOK
  <2>2. Requests(requests) + Responses(inbox, handlers) + Prompting(loop)
          + Pending(tdState) <= 1 + moves
    BY <1>1 DEF StepsBounded
  <2>3. n + Pending(tdState') + moves <= Pending(tdState) + moves'
    BY <1>3
  <2>4. /\ Requests(requests) \in Nat /\ Responses(inbox, handlers) \in Nat
        /\ Prompting(loop) \in {0, 1} /\ Pending(tdState) \in {0, 1}
    BY <1>1, Numbers
  <2>5. Requests(requests) + (Responses(inbox, handlers) + n) + Prompting(loop)
          + Pending(tdState') <= 1 + moves'
    <3> HIDE DEF n
    <3> QED  BY <2>1, <2>2, <2>3, <2>4
  <2> QED  BY <1>1, <1>2, <2>5 DEF StepsBounded
<1> QED  BY <1>1, <1>4 DEF StepInv, LoginEntry

\* Without a ClientManager nothing is left that could make a step.
LEMMA NothingLeft ==
  ASSUME TypeOK', manager' = "null", loop' = "idle", ClosedInv', ViewInv'
  PROVE  StepInv'
<1>1. requests' = {} /\ inbox' = <<>> /\ tdState' = "Closed" /\ moves' \in Nat
  BY TdClientAssumption
  DEF ClosedInv, ViewInv, Announced, Follows, TypeOK
<1>2. LoginRequests(requests') = {} /\ LoginAt(inbox', handlers') = {}
  BY <1>1 DEF LoginRequests, LoginAt
<1>3. Requests(requests') = 0 /\ Responses(inbox', handlers') = 0
  BY <1>2, FS_EmptySet DEF Requests, Responses
<1>4. Prompting(loop') = 0 /\ Pending(tdState') = 0
  BY <1>1 DEF Prompting, Pending
<1>5. StepsBounded'
  BY <1>1, <1>3, <1>4 DEF StepsBounded
<1> QED  BY <1>1, <1>5, FS_EmptySet DEF StepInv

\* Every step of the client keeps the count.
LEMMA StepsKept ==
  IInv /\ ViewInv /\ StepInv /\ [Next]_vars /\ IInv' /\ ViewInv' => StepInv'
<1> SUFFICES ASSUME IInv, ViewInv, StepInv, [Next]_vars, IInv', ViewInv'
             PROVE  StepInv'
  OBVIOUS
<1>1. /\ TypeInv /\ TypeOK /\ TypeOK' /\ ClosedInv'
      /\ manager = "live" => LiveInv
      /\ manager \in {"live", "null"} /\ manager' \in {"live", "null"}
  BY DEF IInv, TypeInv, TypeOK
<1>2. manager' = "null" => loop' = "idle"
  BY <1>1 DEF StepInv, Next, Loop, restart, receive, receive_timeout,
     receive_null, UserInput, close, CallStep, CallBegin, CallEmplace, CallSend,
     CallReturn, TdAnswer, TdMove, vars, loopVars
<1>3. CASE manager' = "null"
  BY <1>1, <1>2, <1>3, NothingLeft
<1>4. CASE manager' = "live"
  <2>1. manager = "live" /\ LiveInv /\ ~ restart
    BY <1>1, <1>4, ManagerSteps DEF restart
  <2>2. CASE receive /\ loop = "idle"
    BY <1>1, <2>1, <2>2, ReceiveSteps
  <2>3. CASE UserInput
    BY <1>1, <2>1, <2>3, InputSteps
  <2>4. CASE close
    BY <1>1, <2>1, <2>4, CloseSteps
  <2>5. CASE \E c \in Callers : CallStep(c)
    BY <1>1, <2>1, <2>5, CallSteps
  <2>6. CASE \E q \in requests : TdAnswer(q)
    BY <1>1, <2>1, <2>6, AnswerSteps
  <2>7. CASE TdMove
    BY <1>1, <2>7, MoveSteps
  <2>8. CASE UNCHANGED <<requests, inbox, handlers, loop, tdState, moves, manager>>
    BY <2>8 DEF StepInv, StepsBounded, LoginEntry
  <2> QED
    BY <2>1, <2>2, <2>3, <2>4, <2>5, <2>6, <2>7, <2>8
    DEF Next, Loop, receive_timeout, receive_null, vars, loopVars, sendVars,
        tdVars
<1> QED  BY <1>1, <1>3, <1>4

\* At first the state announced by TDLib is the one step.
LEMMA InitSteps == Init => StepInv
<1> SUFFICES ASSUME Init PROVE StepInv
  OBVIOUS
<1> DEFINE q == [id |-> 0, fn |-> "getOption"]
           u == Update("WaitTdlibParameters")
<1>1. requests = {} \cup {q} /\ q.fn \notin AuthState /\ IsFiniteSet({})
  BY FS_EmptySet DEF Init, AuthState, Silent, Prompted
<1>2. LoginRequests({}) = {}
  BY DEF LoginRequests
<1>3. IsFiniteSet(requests) /\ Requests(requests) = 0
  <2> HIDE DEF q
  <2> QED  BY <1>1, <1>2, RequestsAdd, FS_EmptySet DEF Requests
<1>4. inbox = <<u>> /\ Len(inbox) = 1 /\ inbox[1] = u
  BY DEF Init
<1>5. LoginResponse(u, handlers)
  BY DEF LoginResponse, Update, Silent
<1>6. LoginAt(inbox, handlers) = {1}
  BY <1>4, <1>5 DEF LoginAt
<1>7. Responses(inbox, handlers) = 1
  BY <1>6, FS_Singleton DEF Responses
<1>8. Prompting(loop) = 0 /\ Pending(tdState) = 0 /\ moves = 0
  BY DEF Init, Prompting, Pending
<1>9. StepsBounded
  BY <1>3, <1>7, <1>8 DEF StepsBounded
<1> QED  BY <1>3, <1>9 DEF Init, StepInv, LoginEntry

\* However many old steps are refused late, there is at most one login step
\* under way for the login and one for each state TDLib announced by itself.
THEOREM StepsDoNotMultiply == Spec => []LoginNotMultiplied
<1>1. IInv /\ StepInv => LoginNotMultiplied
  <2> SUFFICES ASSUME IInv, StepInv PROVE LoginNotMultiplied
    OBVIOUS
  <2>1. TypeOK /\ IsFiniteSet(requests) /\ StepsBounded
    BY DEF IInv, TypeInv, StepInv
  <2>2. Requests(requests) + Responses(inbox, handlers) + Prompting(loop)
          <= 1 + moves
    BY <2>1, Numbers DEF StepsBounded
  <2> QED  BY <2>2, StepsAre DEF LoginNotMultiplied
<1>2. IInv => TypeInv /\ ClosedInv
  BY DEF IInv
<1> QED
  BY <1>1, <1>2, Inductive, InitView, ViewKept, InitSteps, StepsKept, PTL DEF Spec
-----------------------------------------------------------------------------
(* A login step is always under way.                                       *)

\* The last state announced in s to a client that is in state a is t.
LastWord(s, a, t) ==
  \/ a = t /\ \A i \in 1 .. Len(s) : ~ IsAuth(s[i])
  \/ \E i \in 1 .. Len(s) :
       /\ IsAuth(s[i]) /\ s[i].state = t
       /\ \A j \in 1 .. Len(s) : j > i => ~ IsAuth(s[j])

\* The refusal of a login step will find the handler that asks again.
Guarded ==
  \A q \in requests :
    q.fn \in AuthState => \E h \in handlers : h.id = q.id /\ h.kind = "auth"

\* No handler of the login is ever an old one: authentication_query_id_ stays 0.
NeverOld ==
  /\ authentication_query_id = 0
  /\ \A h \in handlers : h.kind = "auth" => h.gen = 0

\* With these LoginUnderWay is inductive.
WayInv ==
  /\ NeverOld
  /\ manager = "live" => LastWord(inbox, authorization_state, tdState)
  /\ manager = "live" /\ ~race => Guarded
  /\ LoginUnderWay

\* A response that says nothing of the state leaves the last word.
LEMMA LastWordQuiet ==
  ASSUME NEW s \in Seq(Response), NEW x \in Response, ~ IsAuth(x),
         NEW a, NEW t, LastWord(s, a, t)
  PROVE  LastWord(Append(s, x), a, t)
<1>1. /\ Len(Append(s, x)) = Len(s) + 1 /\ Len(s) \in Nat
      /\ \A i \in 1 .. Len(s) : Append(s, x)[i] = s[i]
      /\ Append(s, x)[Len(s) + 1] = x
  OBVIOUS
<1>2. \A i \in 1 .. Len(s) + 1 : i \in 1 .. Len(s) \/ i = Len(s) + 1
  BY <1>1
<1>3. 1 .. Len(s) \subseteq 1 .. Len(s) + 1
  BY <1>1
<1> QED  BY <1>1, <1>2, <1>3 DEF LastWord

\* A state announced is the last word.
LEMMA LastWordSaid ==
  ASSUME NEW s \in Seq(Response), NEW x \in Response, IsAuth(x), NEW a
  PROVE  LastWord(Append(s, x), a, x.state)
<1>1. /\ Len(Append(s, x)) = Len(s) + 1 /\ Len(s) \in Nat
      /\ Append(s, x)[Len(s) + 1] = x
  OBVIOUS
<1>2. /\ Len(s) + 1 \in 1 .. Len(s) + 1
      /\ \A j \in 1 .. Len(s) + 1 : ~ (j > Len(s) + 1)
  BY <1>1
<1> QED  BY <1>1, <1>2 DEF LastWord

\* The client reads the first response.
LEMMA LastWordRead ==
  ASSUME NEW s \in Seq(Response), s # <<>>, NEW a, NEW t, LastWord(s, a, t)
  PROVE  LastWord(Tail(s), IF IsAuth(Head(s)) THEN Head(s).state ELSE a, t)
<1> DEFINE b == IF IsAuth(Head(s)) THEN Head(s).state ELSE a
<1>1. /\ Len(Tail(s)) = Len(s) - 1 /\ Len(s) \in Nat /\ Len(s) > 0
      /\ \A i \in 1 .. Len(s) - 1 : Tail(s)[i] = s[i + 1]
      /\ Head(s) = s[1]
  OBVIOUS
<1>2. \A i \in 1 .. Len(s) - 1 : i + 1 \in 1 .. Len(s)
  BY <1>1
<1>3. 1 \in 1 .. Len(s)
  BY <1>1
<1>4. CASE a = t /\ \A i \in 1 .. Len(s) : ~ IsAuth(s[i])
  BY <1>1, <1>2, <1>3, <1>4 DEF LastWord
<1>5. ASSUME NEW i \in 1 .. Len(s), IsAuth(s[i]), s[i].state = t,
             \A j \in 1 .. Len(s) : j > i => ~ IsAuth(s[j])
      PROVE  LastWord(Tail(s), b, t)
  <2>1. CASE i = 1
    <3>1. \A j \in 1 .. Len(s) - 1 : j + 1 > i
      BY <1>1, <2>1
    <3>2. \A j \in 1 .. Len(s) - 1 : ~ IsAuth(Tail(s)[j])
      BY <1>1, <1>2, <1>5, <3>1
    <3> QED  BY <1>1, <1>5, <2>1, <3>2 DEF LastWord
  <2>2. CASE i # 1
    <3>1. i - 1 \in 1 .. Len(s) - 1 /\ (i - 1) + 1 = i
      BY <1>1, <2>2
    <3>2. \A j \in 1 .. Len(s) - 1 : j > i - 1 => j + 1 > i
      BY <1>1
    <3>3. IsAuth(Tail(s)[i - 1]) /\ Tail(s)[i - 1].state = t
      BY <1>1, <1>5, <3>1
    <3>4. \A j \in 1 .. Len(s) - 1 : j > i - 1 => ~ IsAuth(Tail(s)[j])
      BY <1>1, <1>2, <1>5, <3>2
    <3> HIDE DEF b
    <3> QED  BY <1>1, <3>1, <3>3, <3>4 DEF LastWord
  <2> QED  BY <2>1, <2>2
<1> QED  BY <1>4, <1>5 DEF LastWord

\* A state TDLib waits in and the client does not know of is announced to it.
LEMMA WaitAnnounced ==
  ASSUME NEW s, NEW a, NEW t \in Waiting, NEW H, LastWord(s, a, t), a # t
  PROVE  \E i \in 1 .. Len(s) : LoginResponse(s[i], H)
BY DEF LastWord, LoginResponse, IsAuth, Waiting

\* send_query of the loop registers the handler of a login step, unless a
\* caller is in handlers_.
LEMMA SendGuarded ==
  ASSUME IdsGivenOut, TypeOK, NeverOld, UNCHANGED authentication_query_id, NEW f,
         NEW h \in {GetMeHandler, create_authentication_query_handler},
         f \in AuthState => h.kind = "auth",
         LoopSend(f, h)
  PROVE  /\ NeverOld'
         /\ requests \subseteq requests' /\ handlers \subseteq handlers'
         /\ f \in AuthState => \E q \in requests' : q.fn \in AuthState
         /\ Guarded /\ Emplacing = {} => Guarded'
<1> DEFINE q == [id |-> current_query_id, fn |-> f]
<1>1. /\ requests' = requests \cup {q} /\ q.fn = f /\ q.id = current_query_id
      /\ h.id = current_query_id
      /\ h.kind = "auth" => h.gen = 0
  BY DEF LoopSend, GetMeHandler, create_authentication_query_handler, NeverOld
<1>2. \A g \in handlers : g.id # current_query_id
  BY DEF IdsGivenOut, TypeOK
<1>3. /\ handlers' = handlers \/ handlers' = handlers \cup {h}
      /\ Emplacing = {} => handlers' = handlers \cup {h}
  BY <1>1, <1>2 DEF LoopSend, Emplace
<1> HIDE DEF q
<1>4. NeverOld'
  BY <1>1, <1>3 DEF NeverOld
<1>5. ASSUME Guarded, Emplacing = {} PROVE Guarded'
  BY <1>1, <1>3, <1>5 DEF Guarded
<1> QED  BY <1>1, <1>3, <1>4, <1>5

\* Each overload of on_authorization_state_update keeps what the login needs,
\* and starts a step when TDLib waits for one.
Drives(s) ==
  /\ NeverOld'
  /\ requests \subseteq requests' /\ handlers \subseteq handlers'
  /\ s \in Waiting => loop' = "prompt" \/ \E q \in requests' : q.fn \in AuthState
  /\ Guarded /\ (s \in Sending => Emplacing = {}) => Guarded'

LEMMA StateDrives ==
  ASSUME IdsGivenOut, TypeOK, NeverOld, UNCHANGED authentication_query_id,
         NEW s, on_authorization_state_update(s)
  PROVE  Drives(s)
<1>1. CASE as_ready(s)
  <2>1. "getMe" \notin AuthState /\ s = "Ready" /\ s \notin Waiting
        /\ s \in Sending
    BY <1>1 DEF as_ready, AuthState, Silent, Prompted, Waiting, Sending
  <2>2. LoopSend("getMe", GetMeHandler)
    BY <1>1 DEF as_ready
  <2> QED  BY <2>1, <2>2, SendGuarded DEF Drives
<1>2. CASE as_wait_silent(s)
  <2>1. /\ s \in AuthState /\ s \in Sending
        /\ create_authentication_query_handler.kind = "auth"
    BY <1>2 DEF as_wait_silent, AuthState, Silent, Sending,
                create_authentication_query_handler
  <2>2. LoopSend(s, create_authentication_query_handler)
    BY <1>2 DEF as_wait_silent
  <2> QED  BY <2>1, <2>2, SendGuarded DEF Drives
<1>3. CASE UNCHANGED sendVars /\ (s \in Waiting => loop' = "prompt")
  BY <1>3 DEF sendVars, Drives, NeverOld, Guarded
<1> QED
  BY <1>1, <1>2, <1>3
  DEF on_authorization_state_update, as_logging_out, as_message_only, as_closed,
      as_wait_prompt, Waiting, Silent, Prompted

\* A turn of the loop: what it does to the login beside reading a response.
LEMMA ReceiveDrives ==
  ASSUME TypeOK, LiveInv, NeverOld, receive
  PROVE  /\ NeverOld'
         /\ requests \subseteq requests' /\ handlers \subseteq handlers'
         /\ Guarded /\ ~ race' => Guarded'
         /\ IsAuth(Head(inbox)) => /\ authorization_state' = Head(inbox).state
                                   /\ Drives(authorization_state')
         /\ ~ IsAuth(Head(inbox)) => authorization_state' = authorization_state
         /\ ~ race' /\ ~ IsAuth(Head(inbox)) /\ LoginResponse(Head(inbox), handlers)
              => Drives(authorization_state)
<1> DEFINE r == Head(inbox)
<1>0. /\ IdsGivenOut /\ UNCHANGED authentication_query_id
      /\ r \in Response /\ r = inbox[1] /\ 1 \in 1 .. Len(inbox)
      /\ process_response(r)
  BY DEF LiveInv, receive, TypeOK
<1>1. ASSUME NoEffect
      PROVE  /\ NeverOld'
             /\ requests \subseteq requests' /\ handlers \subseteq handlers'
             /\ Guarded => Guarded'
  BY <1>0, <1>1 DEF NoEffect, sendVars, NeverOld, Guarded
<1>2. CASE r.id = 0 /\ process_update(r)
  <2>1. CASE IsAuth(r)
    <3>1. /\ authorization_state' = r.state
          /\ on_authorization_state_update(r.state)
          /\ race' = IF r.state \in Sending THEN Raced ELSE race
      BY <1>2, <2>1 DEF process_update, IsAuth
    <3>2. Drives(r.state)
      BY <1>0, <3>1, StateDrives
    <3>3. r.state \in Sending /\ ~ race' => Emplacing = {}
      BY <3>1 DEF Raced
    <3> QED  BY <2>1, <3>1, <3>2, <3>3 DEF Drives
  <2>2. CASE ~ IsAuth(r)
    <3>1. NoEffect /\ authorization_state' = authorization_state
      BY <1>2, <2>2 DEF process_update, IsAuth
    <3>2. ~ LoginResponse(r, handlers)
      BY <1>2, <2>2 DEF LoginResponse, IsAuth, IdsGivenOut, LiveInv
    <3> QED  BY <1>1, <2>2, <3>1, <3>2
  <2> QED  BY <2>1, <2>2
<1>3. CASE r.id # 0 /\ run_handler(r)
  <2>1. /\ ~ IsAuth(r) /\ authorization_state' = authorization_state
        /\ race' = Raced
    BY <1>0, <1>3, RecordsTyped DEF run_handler, IsAuth
  <2>2. \/ NoEffect
        \/ on_authorization_state_update(authorization_state)
    BY <1>3 DEF run_handler, check_authentication_error, got_me, got_answer
  <2>3. CASE on_authorization_state_update(authorization_state)
    <3>1. Drives(authorization_state)
      BY <1>0, <2>3, StateDrives
    <3> QED  BY <2>1, <3>1 DEF Drives, Raced
  <2>4. CASE NoEffect /\ ~ on_authorization_state_update(authorization_state)
    <3>1. ASSUME ~ race', LoginResponse(r, handlers) PROVE FALSE
      <4>1. PICK h \in handlers : h.id = r.id /\ h.kind = "auth"
        BY <2>1, <3>1 DEF LoginResponse, IsAuth
      <4>2. r.type = "error"
        BY <2>1, <3>1 DEF LoginResponse, IsAuth
      <4>3. \A g \in handlers : g.id = r.id => g = h
        BY <4>1 DEF LiveInv, IdsDistinct
      <4>4. ~ Raced
        BY <2>1, <3>1
      <4>5. \/ check_authentication_error(h, r)
            \/ got_me(h, r)
            \/ got_answer(h, r)
        BY <1>3, <4>1, <4>3, <4>4 DEF run_handler
      <4>6. check_authentication_error(h, r)
        BY <4>1, <4>5 DEF got_me, got_answer
      <4> QED  BY <2>4, <4>1, <4>2, <4>6 DEF check_authentication_error, NeverOld
    <3> QED  BY <1>1, <2>1, <2>4, <3>1
  <2> QED  BY <2>2, <2>3, <2>4
<1> QED  BY <1>0, <1>2, <1>3 DEF process_response

LEMMA ReceiveWay ==
  ASSUME TypeOK, LiveInv, WayInv, loop = "idle", receive
  PROVE  WayInv'
<1> DEFINE r == Head(inbox)
<1>1. /\ inbox \in Seq(Response) /\ inbox # <<>> /\ inbox' = Tail(inbox)
      /\ manager = "live" /\ UNCHANGED tdState /\ NeverOld
      /\ LastWord(inbox, authorization_state, tdState)
      /\ race => race'
  BY DEF receive, TypeOK, tdVars, WayInv, process_response, process_update,
     run_handler, Raced
<1>2. LastWord(inbox', authorization_state', tdState')
  BY <1>1, LastWordRead, ReceiveDrives
<1>3. ASSUME ~ race', tdState \in Waiting
      PROVE  \/ loop' = "prompt"
             \/ \E q \in requests' : q.fn \in AuthState
             \/ \E i \in 1 .. Len(inbox') : LoginResponse(inbox'[i], handlers')
  <2>1. CASE authorization_state' # tdState
    BY <1>1, <1>2, <1>3, <2>1, WaitAnnounced
  <2>2. CASE authorization_state' = tdState /\ IsAuth(r)
    BY <1>1, <1>3, <2>2, ReceiveDrives DEF Drives
  <2>3. CASE authorization_state' = tdState /\ ~ IsAuth(r)
    <3>1. CASE \E q \in requests : q.fn \in AuthState
      BY <1>1, <3>1, ReceiveDrives
    <3>2. CASE LoginResponse(r, handlers)
      BY <1>1, <1>3, <2>3, <3>2, ReceiveDrives DEF Drives
    <3>3. ASSUME NEW i \in 1 .. Len(inbox), LoginResponse(inbox[i], handlers),
                 i # 1
          PROVE  \E j \in 1 .. Len(inbox') : LoginResponse(inbox'[j], handlers')
      <4>1. i - 1 \in 1 .. Len(inbox') /\ inbox'[i - 1] = inbox[i]
        BY <1>1, <3>3
      <4>2. LoginResponse(inbox[i], handlers')
        BY <1>1, <3>3, ReceiveDrives DEF LoginResponse
      <4> QED  BY <4>1, <4>2
    <3>4. \/ \E q \in requests : q.fn \in AuthState
          \/ \E i \in 1 .. Len(inbox) : LoginResponse(inbox[i], handlers)
      BY <1>1, <1>3 DEF WayInv, LoginUnderWay
    <3>5. r = inbox[1]
      BY <1>1
    <3> QED  BY <3>1, <3>2, <3>3, <3>4, <3>5
  <2> QED  BY <2>1, <2>2, <2>3
<1>4. NeverOld' /\ (~ race' => Guarded')
  BY <1>1, ReceiveDrives DEF WayInv
<1> QED  BY <1>1, <1>2, <1>3, <1>4 DEF WayInv, LoginUnderWay

\* The user's answer is sent.
LEMMA InputWay ==
  ASSUME TypeInv, LiveInv, WayInv, manager = "live", UserInput
  PROVE  WayInv'
<1>1. /\ authorization_state \in AuthState /\ TypeOK /\ IdsGivenOut /\ NeverOld
      /\ LoopSend(authorization_state, create_authentication_query_handler)
      /\ create_authentication_query_handler.kind = "auth"
      /\ UNCHANGED <<inbox, tdState, manager, authorization_state,
                     authentication_query_id>>
      /\ race' = Raced
  BY DEF TypeInv, TypeOK, LiveInv, WayInv, UserInput, tdVars,
         create_authentication_query_handler
<1>2. /\ NeverOld'
      /\ \E q \in requests' : q.fn \in AuthState
      /\ Guarded /\ Emplacing = {} => Guarded'
  BY <1>1, SendGuarded
<1> QED  BY <1>1, <1>2 DEF WayInv, LoginUnderWay, Raced

\* A caller and close add requests and handlers that are not of the login.
LEMMA OthersWay ==
  ASSUME WayInv, manager = "live",
         UNCHANGED <<inbox, tdState, manager, authorization_state, loop,
                     authentication_query_id>>,
         requests \subseteq requests', handlers \subseteq handlers',
         \A q \in requests' : q.fn \in AuthState => q \in requests,
         \A h \in handlers' : h.kind = "auth" => h \in handlers,
         race => race'
  PROVE  WayInv'
<1>1. NeverOld' /\ (~ race' => Guarded')
  BY DEF WayInv, NeverOld, Guarded
<1>2. LastWord(inbox', authorization_state', tdState')
  BY DEF WayInv
<1>3. \A i \in 1 .. Len(inbox) :
        LoginResponse(inbox[i], handlers) => LoginResponse(inbox[i], handlers')
  BY DEF LoginResponse
<1>4. LoginUnderWay'
  BY <1>3 DEF WayInv, LoginUnderWay
<1> QED  BY <1>1, <1>2, <1>4 DEF WayInv

LEMMA CallWay ==
  ASSUME WayInv, manager = "live", NEW c \in Callers, CallStep(c)
  PROVE  WayInv'
<1>1. UNCHANGED <<inbox, tdState, manager, authorization_state, loop,
                  authentication_query_id>>
  BY DEF CallStep, CallBegin, CallEmplace, CallSend, CallReturn, loopVars, tdVars
<1>2. race => race'
  BY DEF CallStep, CallBegin, CallEmplace, CallSend, CallReturn, Raced
<1>3. /\ requests \subseteq requests'
      /\ \A q \in requests' : q.fn \in AuthState => q \in requests
  <2>1. CASE CallSend(c) /\ requests' # requests
    <3> DEFINE q == [id |-> qid[c], fn |-> "call", of |-> <<c, calls[c]>>]
    <3>1. requests' = requests \cup {q} /\ q.fn = "call"
      BY <2>1 DEF CallSend
    <3>2. "call" \notin AuthState
      BY DEF AuthState, Silent, Prompted
    <3> HIDE DEF q
    <3> QED  BY <3>1, <3>2
  <2>2. CASE requests' = requests
    BY <2>2
  <2> QED  BY <2>1, <2>2 DEF CallStep, CallBegin, CallEmplace, CallReturn,
            sendVars
<1>4. /\ handlers \subseteq handlers'
      /\ \A h \in handlers' : h.kind = "auth" => h \in handlers
  <2>1. CASE CallEmplace(c)
    <3> DEFINE h == [id |-> qid[c], kind |-> "sync", caller |-> c]
    <3>1. /\ handlers' = handlers \/ handlers' = handlers \cup {h}
          /\ h.kind = "sync"
      BY <2>1 DEF CallEmplace, Emplace
    <3> HIDE DEF h
    <3> QED  BY <3>1
  <2>2. CASE handlers' = handlers
    BY <2>2
  <2> QED  BY <2>1, <2>2 DEF CallStep, CallBegin, CallSend, CallReturn, sendVars
<1> QED  BY <1>1, <1>2, <1>3, <1>4, OthersWay

LEMMA CloseWay ==
  ASSUME WayInv, manager = "live", close
  PROVE  WayInv'
<1> DEFINE q == [id |-> current_query_id, fn |-> "close"]
<1>1. /\ requests' = requests \cup {q} /\ q.fn \notin AuthState
      /\ UNCHANGED <<handlers, inbox, tdState, manager, authorization_state, loop,
                     authentication_query_id, race>>
  BY DEF close, LoopSendPlain, tdVars, AuthState, Silent, Prompted
<1> HIDE DEF q
<1> QED  BY <1>1, OthersWay

\* TDLib's answer to a login step announces the next state or is an error that
\* finds its handler; that to another query leaves the login alone.
LEMMA AnswerWay ==
  ASSUME TypeOK, WayInv, manager = "live", NEW q \in requests, TdAnswer(q)
  PROVE  WayInv'
<1>1. /\ requests' = requests \ {q} /\ q \in Request
      /\ UNCHANGED <<handlers, loop, manager, authorization_state, race,
                     authentication_query_id>>
      /\ inbox \in Seq(Response)
      /\ LastWord(inbox, authorization_state, tdState)
  BY DEF TdAnswer, loopVars, TypeOK, WayInv
<1>2. NeverOld' /\ (~ race' => Guarded')
  BY <1>1 DEF WayInv, NeverOld, Guarded
<1>3. /\ \A t \in {"ok", "error", "user"} :
           Answer(q, t) \in Response /\ ~ IsAuth(Answer(q, t))
      /\ q.fn = "call" => Result(q) \in Response /\ ~ IsAuth(Result(q))
      /\ Update(tdState') \in Response /\ IsAuth(Update(tdState'))
      /\ Update(tdState').state = tdState'
  BY <1>1, AnswerFollows, RecordsTyped
  DEF Response, Answer, Result, Update, IsAuth
<1>4. \E t \in {"ok", "error", "user"} :
        \/ inbox' = Append(inbox, Answer(q, t)) /\ tdState' = tdState
        \/ inbox' = Append(inbox, Result(q)) /\ tdState' = tdState /\ q.fn = "call"
        \/ inbox' = Append(Append(inbox, Update(tdState')), Answer(q, t))
        \/ inbox' = Append(Append(inbox, Answer(q, t)), Update(tdState'))
  BY AnswerFollows
<1>5. LastWord(inbox', authorization_state', tdState')
  <2> DEFINE u == Update(tdState')
  <2>1. PICK t \in {"ok", "error", "user"} :
          \/ inbox' = Append(inbox, Answer(q, t)) /\ tdState' = tdState
          \/ inbox' = Append(inbox, Result(q)) /\ tdState' = tdState /\ q.fn = "call"
          \/ inbox' = Append(Append(inbox, u), Answer(q, t))
          \/ inbox' = Append(Append(inbox, Answer(q, t)), u)
    BY <1>4
  <2> DEFINE a == Answer(q, t)
  <2>2. a \in Response /\ ~ IsAuth(a)
    BY <1>3
  <2>3. u \in Response /\ IsAuth(u) /\ u.state = tdState'
    BY <1>3
  <2> HIDE DEF a, u
  <2>4. /\ Append(inbox, a) \in Seq(Response) /\ Append(inbox, u) \in Seq(Response)
        /\ LastWord(Append(inbox, a), authorization_state, tdState)
        /\ LastWord(Append(inbox, u), authorization_state, tdState')
    BY <1>1, <2>2, <2>3, LastWordQuiet, LastWordSaid
  <2>5. CASE inbox' = Append(inbox, a) /\ tdState' = tdState
    BY <1>1, <2>4, <2>5
  <2>6. CASE inbox' = Append(inbox, Result(q)) /\ tdState' = tdState /\ q.fn = "call"
    BY <1>1, <1>3, <2>6, LastWordQuiet
  <2>7. CASE inbox' = Append(Append(inbox, u), a)
    BY <1>1, <2>2, <2>4, <2>7, LastWordQuiet
  <2>8. CASE inbox' = Append(Append(inbox, a), u)
    BY <1>1, <2>3, <2>4, <2>8, LastWordSaid
  <2> QED  BY <2>1, <2>5, <2>6, <2>7, <2>8 DEF a
<1>6. ASSUME ~ race, tdState' \in Waiting
      PROVE  \/ loop = "prompt"
             \/ \E p \in requests' : p.fn \in AuthState
             \/ \E i \in 1 .. Len(inbox') : LoginResponse(inbox'[i], handlers)
  <2>1. \A s \in Seq(Response), x, y \in Response :
          /\ \E i \in 1 .. Len(Append(s, x)) : Append(s, x)[i] = x
          /\ \E i \in 1 .. Len(Append(Append(s, x), y)) :
               Append(Append(s, x), y)[i] = x
          /\ Append(s, x) \in Seq(Response)
    <3> SUFFICES ASSUME NEW s \in Seq(Response), NEW x \in Response,
                        NEW y \in Response
        PROVE  /\ \E i \in 1 .. Len(Append(s, x)) : Append(s, x)[i] = x
               /\ \E i \in 1 .. Len(Append(Append(s, x), y)) :
                    Append(Append(s, x), y)[i] = x
               /\ Append(s, x) \in Seq(Response)
      OBVIOUS
    <3>1. /\ Len(Append(s, x)) = Len(s) + 1 /\ Len(s) \in Nat
          /\ Len(Append(Append(s, x), y)) = Len(s) + 2
          /\ Append(s, x)[Len(s) + 1] = x
          /\ Append(Append(s, x), y)[Len(s) + 1] = x
      OBVIOUS
    <3>2. Len(s) + 1 \in 1 .. Len(s) + 1 /\ Len(s) + 1 \in 1 .. Len(s) + 2
      BY <3>1
    <3> QED  BY <3>1, <3>2
  <2>2. CASE TdAccept(q)
    <3>1. \/ inbox' = Append(Append(inbox, Update(tdState')), Answer(q, "ok"))
          \/ inbox' = Append(Append(inbox, Answer(q, "ok")), Update(tdState'))
      BY <2>2 DEF TdAccept
    <3> DEFINE u == Update(tdState')
               a == Answer(q, "ok")
    <3>2. /\ \/ inbox' = Append(Append(inbox, u), a)
             \/ inbox' = Append(Append(inbox, a), u)
          /\ u \in Response /\ a \in Response
          /\ LoginResponse(u, handlers)
      BY <1>3, <1>6, <3>1 DEF LoginResponse, IsAuth, Waiting
    <3> HIDE DEF u, a
    <3>3. Append(inbox, a) \in Seq(Response)
      BY <1>1, <2>1, <3>2
    <3>4. \E i \in 1 .. Len(Append(Append(inbox, u), a)) :
            Append(Append(inbox, u), a)[i] = u
      BY <1>1, <2>1, <3>2
    <3>5. \E i \in 1 .. Len(Append(Append(inbox, a), u)) :
            Append(Append(inbox, a), u)[i] = u
      BY <2>1, <3>2, <3>3
    <3>6. \E i \in 1 .. Len(inbox') : inbox'[i] = u
      BY <3>2, <3>4, <3>5
    <3> QED  BY <3>2, <3>6
  <2>3. CASE TdReject(q)
    <3>1. inbox' = Append(inbox, Answer(q, "error")) /\ q.fn \in AuthState
      BY <2>3 DEF TdReject
    <3>2. PICK i \in 1 .. Len(inbox') : inbox'[i] = Answer(q, "error")
      BY <1>1, <1>3, <2>1, <3>1
    <3>3. \E h \in handlers : h.id = q.id /\ h.kind = "auth"
      BY <1>6, <3>1 DEF WayInv, Guarded
    <3>4. LoginResponse(inbox'[i], handlers)
      BY <3>2, <3>3 DEF LoginResponse, Answer
    <3> QED  BY <3>4
  <2>4. CASE TdReply(q)
    <3>1. tdState' = tdState /\ q.fn \notin AuthState
      BY <2>4 DEF TdReply, tdVars, AuthState, Silent, Prompted
    <3>2. PICK x \in Response : inbox' = Append(inbox, x)
      BY <1>3, <2>4 DEF TdReply
    <3>3. \A i \in 1 .. Len(inbox) :
            i \in 1 .. Len(inbox') /\ inbox'[i] = inbox[i]
      BY <1>1, <3>2
    <3> QED  BY <1>1, <1>6, <3>1, <3>3 DEF WayInv, LoginUnderWay
  <2>5. CASE TdClose(q)
    BY <1>6, <2>5 DEF TdClose, Waiting, Silent, Prompted
  <2> QED  BY <2>2, <2>3, <2>4, <2>5 DEF TdAnswer
<1> QED  BY <1>1, <1>2, <1>5, <1>6 DEF WayInv, LoginUnderWay

\* So does what it announces by itself.
LEMMA MoveWay ==
  ASSUME TypeOK, WayInv, TdMove
  PROVE  WayInv'
<1> DEFINE u == Update(tdState')
<1>1. /\ UNCHANGED <<handlers, requests, loop, manager, authorization_state, race,
                     authentication_query_id>>
      /\ inbox \in Seq(Response) /\ inbox' = Append(inbox, u)
      /\ u \in Response /\ IsAuth(u) /\ u.state = tdState'
  BY MoveFollows DEF TdMove, loopVars, sendVars, TypeOK, Response, Update, IsAuth
<1> HIDE DEF u
<1>2. NeverOld' /\ (manager' = "live" /\ ~ race' => Guarded')
  BY <1>1 DEF WayInv, NeverOld, Guarded
<1>3. LastWord(inbox', authorization_state', tdState')
  BY <1>1, LastWordSaid
<1>4. ASSUME tdState' \in Waiting
      PROVE  \E i \in 1 .. Len(inbox') : LoginResponse(inbox'[i], handlers')
  <2>1. Len(inbox') \in 1 .. Len(inbox') /\ inbox'[Len(inbox')] = u
    BY <1>1
  <2> QED  BY <1>1, <1>4, <2>1 DEF LoginResponse, IsAuth, Waiting
<1> QED  BY <1>2, <1>3, <1>4 DEF WayInv, LoginUnderWay

\* restart leaves handlers_ as it is, and the id of the login is 0 again.
LEMMA RestartOld == NeverOld /\ restart => NeverOld'
BY DEF restart, NeverOld

\* Every step keeps the login going.
LEMMA WayKept == IInv /\ StepInv /\ WayInv /\ [Next]_vars /\ IInv' => WayInv'
<1> SUFFICES ASSUME IInv, StepInv, WayInv, [Next]_vars, IInv'
             PROVE  WayInv'
  OBVIOUS
<1>1. /\ TypeInv /\ TypeOK /\ NeverOld
      /\ manager = "live" => LiveInv
      /\ manager \in {"live", "null"} /\ manager' \in {"live", "null"}
  BY DEF IInv, TypeInv, TypeOK, WayInv
<1>2. CASE manager' = "null"
  <2>1. NeverOld'
    <3>1. CASE manager = "null"
      <4>1. loop = "idle" /\ authentication_query_id' = 0
        BY <1>1, <3>1 DEF StepInv, NeverOld, Next, Loop, restart, receive,
           receive_timeout, receive_null, UserInput, close, CallStep, CallBegin,
           CallEmplace, CallSend, CallReturn, TdAnswer, TdMove, vars, loopVars
      <4>2. \A h \in handlers' : h.kind = "auth" => h \in handlers
        BY <3>1, <4>1 DEF Next, Loop, restart, receive, receive_timeout,
           receive_null, UserInput, close, CallStep, CallBegin, CallEmplace,
           CallSend, CallReturn, TdAnswer, TdMove, vars, sendVars, Emplace
      <4> QED  BY <1>1, <4>1, <4>2 DEF NeverOld
    <3>2. CASE manager = "live"
      <4>1. restart
        BY <1>1, <1>2, <3>2, ManagerSteps
      <4> QED  BY <1>1, <4>1, RestartOld
    <3> QED  BY <1>1, <3>1, <3>2
  <2> QED  BY <1>2, <2>1 DEF WayInv, LoginUnderWay
<1>3. CASE manager' = "live"
  <2>1. manager = "live" /\ LiveInv /\ ~ restart
    BY <1>1, <1>3, ManagerSteps DEF restart
  <2>2. CASE receive /\ loop = "idle"
    BY <1>1, <2>1, <2>2, ReceiveWay
  <2>3. CASE UserInput
    BY <1>1, <2>1, <2>3, InputWay
  <2>4. CASE close
    BY <1>1, <2>1, <2>4, CloseWay
  <2>5. CASE \E c \in Callers : CallStep(c)
    BY <1>1, <2>1, <2>5, CallWay
  <2>6. CASE \E q \in requests : TdAnswer(q)
    BY <1>1, <2>1, <2>6, AnswerWay
  <2>7. CASE TdMove
    BY <1>1, <2>7, MoveWay
  <2>8. CASE UNCHANGED <<requests, inbox, handlers, loop, tdState, manager, race,
                         authorization_state, authentication_query_id>>
    BY <2>8 DEF WayInv, NeverOld, Guarded, LoginUnderWay
  <2> QED
    BY <2>1, <2>2, <2>3, <2>4, <2>5, <2>6, <2>7, <2>8
    DEF Next, Loop, receive_timeout, receive_null, vars, loopVars, sendVars,
        tdVars
<1> QED  BY <1>1, <1>2, <1>3

\* At first TDLib has announced the state it waits in.
LEMMA InitWay == Init => WayInv
<1> SUFFICES ASSUME Init PROVE WayInv
  OBVIOUS
<1> DEFINE u == Update("WaitTdlibParameters")
<1>1. /\ inbox = <<u>> /\ Len(inbox) = 1 /\ inbox[1] = u
      /\ IsAuth(u) /\ u.state = "WaitTdlibParameters"
      /\ LoginResponse(u, handlers)
  BY DEF Init, Update, IsAuth, LoginResponse, Silent
<1> HIDE DEF u
<1>2. LastWord(inbox, authorization_state, tdState) /\ LoginUnderWay
  BY <1>1 DEF Init, LastWord, LoginUnderWay
<1>3. NeverOld /\ Guarded
  BY DEF Init, NeverOld, Guarded, AuthState, Silent, Prompted
<1> QED  BY <1>2, <1>3 DEF WayInv

\* However a login goes, with any number of refused steps, states announced by
\* TDLib itself and late answers: as long as it waits for a step, one is under
\* way, so that the dialogue cannot come to rest by a step lost.
THEOREM LoginGoesOn == Spec => []LoginUnderWay
<1>1. WayInv => LoginUnderWay
  BY DEF WayInv
<1>2. IInv => TypeInv /\ ClosedInv
  BY DEF IInv
<1> QED
  BY <1>1, <1>2, Inductive, InitView, ViewKept, InitSteps, StepsKept, InitWay,
     WayKept, PTL DEF Spec
=============================================================================
