-------------------------- MODULE OAuthLoginProofs --------------------------
(***************************************************************************)
(* Theorems of OAuthLogin, for any number of users, accounts, emails,      *)
(* states and requests: identities stay apart, an account reaches only     *)
(* users of an email it had, a state admits once unless the map was raced, *)
(* and links move only by an overlap.                                      *)
(***************************************************************************)
EXTENDS OAuthLogin, TLAPS

USE NoneIsNothing

(***************************************************************************)
(* The inductive invariant.  A callback carries an email its account has   *)
(* had, then a user with such an email; emails of stored users never       *)
(* change, so the user stays one the account may be logged in as.  The     *)
(* link in a copy that another handler is to write back was made for that  *)
(* email too.                                                              *)
(***************************************************************************)

UserOK(u) ==
    /\ doc[u].email = None => doc[u] = NoDoc
    /\ doc[u].yandex # None => doc[u].email \in had[doc[u].yandex]

CallbackOK(r) ==
    LET q == req[r] IN
    /\ q.pc \in {"put", "sweep", "look", "take"} => q.state \in States
    /\ q.pc \in {"by_id", "by_email", "link", "login"} => q.account \in Accounts
    /\ q.pc \in {"by_id", "by_email", "create"} => q.email \in Emails
    /\ q.pc \in {"by_id", "by_email", "create"} /\ q.account # None =>
         q.email \in had[q.account]
    /\ q.pc \in {"link", "login"} =>
         q.user \in Users /\ doc[q.user].email \in had[q.account]
    /\ q.pc = "update" =>
         /\ q.user \in Users /\ doc[q.user].email \in Emails
         /\ q.copy # None => doc[q.user].email \in had[q.copy]
    /\ q.pc = "link" /\ q.late = FALSE => doc[q.user].yandex = None
    /\ q.pc = "update" /\ q.late = FALSE => doc[q.user].yandex = q.copy

LoginOK(login) == doc[login[2]].email \in had[login[1]]

Identities ==
    /\ OneUserPerIdentity
    /\ \A u \in Users : UserOK(u)
    /\ \A r \in Requests : CallbackOK(r)
    /\ \A login \in logins : LoginOK(login)

\* A state is nobody else's until it is issued.
StateOK(r) ==
    /\ req[r].pc \in {"put", "sweep"} =>
         /\ req[r].state \notin issued
         /\ \A q \in Requests \ {r} : req[q].state # req[r].state
    /\ req[r].pc \in {"look", "take"} => req[r].state \in issued

StatesOK ==
    /\ \A r \in Requests : StateOK(r)
    /\ taken \subseteq issued
    /\ raced = FALSE => states \cap taken = {}

IInv == TypeOK /\ Identities /\ StatesOK

(***************************************************************************)
(* The local variables of a handler.                                       *)
(***************************************************************************)

InMap == {"put", "sweep", "look", "take"}

LEMMA IdleRequest ==
    /\ Idle \in Request /\ Idle.pc = "idle" /\ Idle.state = None /\ Idle.late = FALSE
BY DEF Idle, Request, Steps

LEMMA Goes ==
    ASSUME TypeOK, NEW r \in Requests, NEW step \in Steps, Goto(r, step)
    PROVE  /\ req' \in [Requests -> Request]
           /\ req'[r].pc = step /\ req'[r].state = req[r].state
           /\ req'[r].account = req[r].account /\ req'[r].email = req[r].email
           /\ req'[r].user = req[r].user /\ req'[r].late = req[r].late
           /\ req'[r].copy = req[r].copy
           /\ \A s \in Requests \ {r} : req'[s] = req[s]
BY DEF TypeOK, Goto, Request

LEMMA Becomes ==
    ASSUME TypeOK, NEW r \in Requests, NEW q \in Request, req' = [req EXCEPT ![r] = q]
    PROVE  /\ req' \in [Requests -> Request] /\ req'[r] = q
           /\ \A s \in Requests \ {r} : req'[s] = req[s]
BY DEF TypeOK

LEMMA Answers ==
    ASSUME TypeOK, NEW r \in Requests, Answer(r)
    PROVE  /\ req' \in [Requests -> Request] /\ req'[r] = Idle
           /\ \A s \in Requests \ {r} : req'[s] = req[s]
           /\ CallbackOK(r)' /\ StateOK(r)'
<1>1. /\ req' \in [Requests -> Request] /\ req'[r] = Idle
      /\ \A s \in Requests \ {r} : req'[s] = req[s]
  BY IdleRequest, Becomes DEF Answer
<1> QED BY <1>1, IdleRequest DEF CallbackOK, StateOK

LEMMA HadEmails ==
    ASSUME TypeOK
    PROVE  \A a \in Accounts : had[a] \subseteq Emails
BY DEF TypeOK

(***************************************************************************)
(* Steps that write no document.                                           *)
(***************************************************************************)

LEMMA IdentitiesKept ==
    ASSUME TypeOK, Identities, doc' = doc,
           \A a \in Accounts : had[a] \subseteq had'[a],
           \A login \in logins' : login \in logins \/ LoginOK(login)',
           \A s \in Requests : req'[s] = req[s] \/ CallbackOK(s)'
    PROVE  Identities'
<1>1. OneUserPerIdentity'
  BY DEF Identities, OneUserPerIdentity
<1>2. ASSUME NEW u \in Users PROVE UserOK(u)'
  <2>1. doc[u].yandex # None => doc[u].yandex \in Accounts
    BY DEF TypeOK, Doc
  <2> QED BY <2>1 DEF Identities, UserOK
<1>3. ASSUME NEW s \in Requests, req'[s] = req[s] PROVE CallbackOK(s)'
  <2>1. /\ req[s].account # None => req[s].account \in Accounts
        /\ req[s].copy # None => req[s].copy \in Accounts
    BY DEF TypeOK, Request
  <2> QED BY <1>3, <2>1 DEF Identities, CallbackOK
<1>4. ASSUME NEW login \in logins PROVE LoginOK(login)'
  <2>1. login[1] \in Accounts /\ LoginOK(login)
    BY DEF TypeOK, Identities
  <2> QED BY <2>1 DEF LoginOK
<1> QED BY <1>1, <1>2, <1>3, <1>4 DEF Identities

LEMMA StatesKept ==
    ASSUME StatesOK, states' \subseteq states, UNCHANGED <<issued, taken, raced>>,
           \A s \in Requests : \/ req'[s] = req[s]
                               \/ /\ req'[s].pc \notin InMap
                                  /\ req'[s].state \in {req[s].state, None}
                               \/ /\ req'[s].pc \in {"look", "take"}
                                  /\ req'[s].state \in issued,
           Identities
    PROVE  StatesOK'
<1>1. ASSUME NEW s \in Requests PROVE StateOK(s)'
  <2>1. req[s].pc \in InMap => req[s].state \in States
    BY DEF Identities, CallbackOK, InMap
  <2> QED BY <2>1 DEF StatesOK, StateOK, InMap
<1> QED BY <1>1 DEF StatesOK

LEMMA Local ==
    ASSUME IInv, NEW r \in Requests, UNCHANGED <<memory, doc, history>>,
           req' \in [Requests -> Request],
           \A s \in Requests \ {r} : req'[s] = req[s],
           CallbackOK(r)',
           \/ req'[r].pc \notin InMap /\ req'[r].state \in {req[r].state, None}
           \/ req'[r].pc \in {"look", "take"} /\ req'[r].state \in issued
    PROVE  IInv'
<1>1. TypeOK'
  BY DEF IInv, TypeOK, memory, history
<1>2. Identities'
  BY IdentitiesKept DEF IInv, history
<1>3. StatesOK'
  BY StatesKept DEF IInv, memory, history
<1> QED BY <1>1, <1>2, <1>3 DEF IInv

LEMMA CallbackBeginStep ==
    ASSUME IInv, NEW r \in Requests, NEW s \in States, CallbackBegin(r, s)
    PROVE  IInv'
<1> DEFINE q == [Idle EXCEPT !.pc = "look", !.state = s]
<1>1. q \in Request /\ q.pc = "look" /\ q.state = s
  BY DEF Idle, Request, Steps
<1>2. /\ s \in issued /\ UNCHANGED <<memory, doc, history>>
      /\ req' = [req EXCEPT ![r] = q]
  BY DEF CallbackBegin, Begin
<1> HIDE DEF q
<1>3. /\ req' \in [Requests -> Request] /\ req'[r] = q
      /\ \A t \in Requests \ {r} : req'[t] = req[t]
  BY <1>1, <1>2, Becomes DEF IInv
<1>4. CallbackOK(r)'
  BY <1>1, <1>3 DEF CallbackOK
<1> QED BY <1>1, <1>2, <1>3, <1>4, Local

LEMMA LookStep ==
    ASSUME IInv, NEW r \in Requests, Look(r)
    PROVE  IInv'
<1>1. /\ req[r].pc = "look" /\ Goto(r, "take") /\ UNCHANGED <<memory, doc, history>>
  BY DEF Look, At
<1>2. /\ req' \in [Requests -> Request]
      /\ req'[r].pc = "take" /\ req'[r].state = req[r].state
      /\ \A t \in Requests \ {r} : req'[t] = req[t]
  BY <1>1, Goes DEF IInv, Steps
<1>3. req[r].state \in States /\ req[r].state \in issued
  BY <1>1 DEF IInv, Identities, CallbackOK, StatesOK, StateOK
<1>4. CallbackOK(r)'
  BY <1>2, <1>3 DEF CallbackOK
<1> QED BY <1>1, <1>2, <1>3, <1>4, Local

\* FindOrCreateUser returns user u: the callback is to log in as u.
LEMMA FoundUser ==
    ASSUME IInv, NEW r \in Requests, NEW u \in Users, NEW step \in {"login", "link"},
           req[r].account \in Accounts, doc[u].email \in had[req[r].account],
           step = "link" => doc[u].yandex = None,
           req' = [req EXCEPT ![r] = [Found(r, u) EXCEPT !.pc = step]],
           UNCHANGED <<memory, doc, history>>
    PROVE  IInv'
<1> DEFINE q == [Found(r, u) EXCEPT !.pc = step]
<1>1. /\ q \in Request /\ q.pc = step /\ q.state = None /\ q.late = FALSE
      /\ q.account = req[r].account /\ q.user = u
  BY DEF Found, Idle, Request, Steps
<1> HIDE DEF q
<1>2. req' = [req EXCEPT ![r] = q]
  BY DEF q
<1>3. /\ req' \in [Requests -> Request] /\ req'[r] = q
      /\ \A t \in Requests \ {r} : req'[t] = req[t]
  BY <1>1, <1>2, Becomes DEF IInv
<1>4. CallbackOK(r)'
  BY <1>1, <1>3 DEF CallbackOK, history
<1> QED BY <1>1, <1>3, <1>4, Local DEF InMap

LEMMA FoundIsLogin ==
    ASSUME NEW r, NEW u
    PROVE  [Found(r, u) EXCEPT !.pc = "login"] = Found(r, u)
BY DEF Found, Idle

LEMMA FindByIdStep ==
    ASSUME IInv, NEW r \in Requests, FindById(r)
    PROVE  IInv'
<1>1. PICK u \in Linked(req[r].account) : req' = [req EXCEPT ![r] = Found(r, u)]
  BY DEF FindById
<1>2. req[r].pc = "by_id" /\ UNCHANGED <<memory, doc, history>>
  BY DEF FindById, At
<1>3. req[r].account \in Accounts
  BY <1>2 DEF IInv, Identities, CallbackOK
<1>4. u \in Users /\ doc[u].yandex = req[r].account
  BY <1>1 DEF Linked
<1>5. doc[u].email \in had[req[r].account]
  BY <1>3, <1>4 DEF IInv, Identities, UserOK
<1> QED BY <1>1, <1>2, <1>3, <1>4, <1>5, FoundIsLogin, FoundUser

LEMMA FindByEmailStep ==
    ASSUME IInv, NEW r \in Requests, FindByEmail(r)
    PROVE  IInv'
<1>1. PICK u \in WithEmail(req[r].email) :
        req' = [req EXCEPT ![r] = IF doc[u].yandex # None THEN Found(r, u)
                                  ELSE [Found(r, u) EXCEPT !.pc = "link"]]
  BY DEF FindByEmail
<1>2. req[r].pc = "by_email" /\ UNCHANGED <<memory, doc, history>>
  BY DEF FindByEmail, At
<1>3. req[r].account \in Accounts /\ req[r].email \in had[req[r].account]
  BY <1>2 DEF IInv, Identities, CallbackOK
<1>4. u \in Users /\ doc[u].email \in had[req[r].account]
  BY <1>1, <1>3 DEF WithEmail
<1>5. CASE doc[u].yandex # None
  BY <1>1, <1>2, <1>3, <1>4, <1>5, FoundIsLogin, FoundUser
<1>6. CASE doc[u].yandex = None
  BY <1>1, <1>2, <1>3, <1>4, <1>6, FoundUser
<1> QED BY <1>5, <1>6

LEMMA FindFailsStep ==
    ASSUME IInv, NEW r \in Requests, FindByIdFails(r) \/ FindByEmailFails(r)
    PROVE  IInv'
<1>1. PICK step \in {"by_email", "create"} :
        Goto(r, step) /\ req[r].pc \in {"by_id", "by_email"}
  BY DEF FindByIdFails, FindByEmailFails, At
<1>2. UNCHANGED <<memory, doc, history>>
  BY DEF FindByIdFails, FindByEmailFails
<1>3. /\ req' \in [Requests -> Request]
      /\ req'[r].pc = step /\ req'[r].state = req[r].state
      /\ req'[r].account = req[r].account /\ req'[r].email = req[r].email
      /\ \A t \in Requests \ {r} : req'[t] = req[t]
  BY <1>1, Goes DEF IInv, Steps
<1>4. CallbackOK(r)
  BY DEF IInv, Identities
<1>5. CallbackOK(r)'
  BY <1>1, <1>2, <1>3, <1>4 DEF CallbackOK, history
<1> QED BY <1>2, <1>3, <1>5, Local DEF InMap

LEMMA RegisterFindStep ==
    ASSUME IInv, NEW r \in Requests, NEW e \in Emails, RegisterFind(r, e)
    PROVE  IInv'
<1> DEFINE q == [Idle EXCEPT !.pc = "create", !.email = e]
<1>1. q \in Request /\ q.pc = "create" /\ q.state = None /\ q.account = None /\ q.email = e
  BY DEF Idle, Request, Steps
<1>2. /\ UNCHANGED <<memory, doc, history>> /\ req' = [req EXCEPT ![r] = q]
  BY DEF RegisterFind, Begin
<1> HIDE DEF q
<1>3. /\ req' \in [Requests -> Request] /\ req'[r] = q
      /\ \A t \in Requests \ {r} : req'[t] = req[t]
  BY <1>1, <1>2, Becomes DEF IInv
<1>4. CallbackOK(r)'
  BY <1>1, <1>3 DEF CallbackOK
<1> QED BY <1>1, <1>2, <1>3, <1>4, Local DEF InMap

LEMMA RejectStep ==
    ASSUME IInv, NEW r \in Requests, Reject(r)
    PROVE  IInv'
<1>1. Answer(r) /\ UNCHANGED <<memory, doc, history>>
  BY DEF Reject
<1> QED BY <1>1, Answers, IdleRequest, Local DEF IInv, InMap

LEMMA IdentifyStep ==
    ASSUME IInv, NEW r \in Requests, NEW a \in Accounts, NEW e \in Emails,
           Identify(r, a, e)
    PROVE  IInv'
<1> DEFINE q == [Idle EXCEPT !.pc = "by_id", !.account = a, !.email = e]
<1>2. /\ q \in Request /\ q.pc = "by_id" /\ q.state = None /\ q.account = a
      /\ q.email = e
  BY DEF Idle, Request, Steps
<1>3. /\ UNCHANGED <<memory, doc, issued, taken, raced, logins>>
      /\ req' = [req EXCEPT ![r] = q] /\ had' = [had EXCEPT ![a] = @ \cup {e}]
  BY DEF Identify
<1> HIDE DEF q
<1>4. /\ req' \in [Requests -> Request] /\ req'[r] = q
      /\ \A t \in Requests \ {r} : req'[t] = req[t]
  BY <1>2, <1>3, Becomes DEF IInv
<1>5. /\ had' \in [Accounts -> SUBSET Emails] /\ e \in had'[a]
      /\ \A b \in Accounts : had[b] \subseteq had'[b]
  BY <1>3 DEF IInv, TypeOK
<1>6. TypeOK'
  BY <1>3, <1>4, <1>5 DEF IInv, TypeOK, memory
<1>7. CallbackOK(r)'
  BY <1>2, <1>4, <1>5 DEF CallbackOK
<1>8. Identities'
  BY <1>3, <1>4, <1>5, <1>7, IdentitiesKept DEF IInv
<1>9. StatesOK'
  BY <1>2, <1>3, <1>4, StatesKept DEF IInv, memory, InMap
<1> QED BY <1>6, <1>8, <1>9 DEF IInv

LEMMA LoginStep ==
    ASSUME IInv, NEW r \in Requests, Login(r)
    PROVE  IInv'
<1>1. /\ req[r].pc = "login" /\ Answer(r)
      /\ logins' = logins \cup {<<req[r].account, req[r].user>>}
      /\ UNCHANGED <<memory, doc, issued, taken, raced, had>>
  BY DEF Login, At
<1>2. /\ req[r].account \in Accounts /\ req[r].user \in Users
      /\ doc[req[r].user].email \in had[req[r].account]
  BY <1>1 DEF IInv, Identities, CallbackOK
<1>3. /\ req' \in [Requests -> Request] /\ req'[r] = Idle /\ CallbackOK(r)'
      /\ \A t \in Requests \ {r} : req'[t] = req[t]
  BY <1>1, Answers DEF IInv
<1>4. TypeOK'
  BY <1>1, <1>2, <1>3 DEF IInv, TypeOK, memory
<1>5. \A login \in logins' : login \in logins \/ LoginOK(login)'
  BY <1>1, <1>2 DEF LoginOK
<1>6. Identities'
  BY <1>1, <1>3, <1>5, IdentitiesKept DEF IInv
<1>7. StatesOK'
  BY <1>1, <1>3, IdleRequest, StatesKept DEF IInv, memory, InMap
<1> QED BY <1>4, <1>6, <1>7 DEF IInv

(***************************************************************************)
(* The map of states.                                                      *)
(***************************************************************************)

LEMMA InitBeginStep ==
    ASSUME IInv, NEW r \in Requests, NEW s \in States, InitBegin(r, s)
    PROVE  IInv'
<1> DEFINE q == [Idle EXCEPT !.pc = "put", !.state = s]
<1>1. q \in Request /\ q.pc = "put" /\ q.state = s
  BY DEF Idle, Request, Steps
<1>2. /\ s \notin issued /\ \A t \in Requests : req[t].state # s
      /\ UNCHANGED <<memory, doc, history>> /\ req' = [req EXCEPT ![r] = q]
  BY DEF InitBegin, Begin
<1> HIDE DEF q
<1>3. /\ req' \in [Requests -> Request] /\ req'[r] = q
      /\ \A t \in Requests \ {r} : req'[t] = req[t]
  BY <1>1, <1>2, Becomes DEF IInv
<1>4. TypeOK'
  BY <1>2, <1>3 DEF IInv, TypeOK, memory, history
<1>5. CallbackOK(r)'
  BY <1>1, <1>3 DEF CallbackOK
<1>6. Identities'
  BY <1>2, <1>3, <1>5, IdentitiesKept DEF IInv, history
<1>7. ASSUME NEW t \in Requests PROVE StateOK(t)'
  BY <1>1, <1>2, <1>3 DEF IInv, StatesOK, StateOK, history
<1>8. StatesOK'
  BY <1>2, <1>7 DEF IInv, StatesOK, memory, history
<1> QED BY <1>4, <1>6, <1>8 DEF IInv

LEMMA PutStep ==
    ASSUME IInv, NEW r \in Requests, Put(r)
    PROVE  IInv'
<1>1. /\ req[r].pc = "put" /\ states' = states \cup {req[r].state} /\ Goto(r, "sweep")
      /\ UNCHANGED <<old, doc, issued, taken, raced, had, logins>>
  BY DEF Put, At, history
<1>2. /\ req' \in [Requests -> Request]
      /\ req'[r].pc = "sweep" /\ req'[r].state = req[r].state
      /\ \A t \in Requests \ {r} : req'[t] = req[t]
  BY <1>1, Goes DEF IInv, Steps
<1>3. req[r].state \in States /\ req[r].state \notin issued
  BY <1>1 DEF IInv, Identities, CallbackOK, StatesOK, StateOK
<1>4. TypeOK'
  BY <1>1, <1>2, <1>3 DEF IInv, TypeOK
<1>5. CallbackOK(r)'
  BY <1>2, <1>3 DEF CallbackOK
<1>6. Identities'
  BY <1>1, <1>2, <1>5, IdentitiesKept DEF IInv
<1>7. ASSUME NEW t \in Requests PROVE StateOK(t)'
  BY <1>1, <1>2 DEF IInv, StatesOK, StateOK
<1>8. StatesOK'
  BY <1>1, <1>3, <1>7 DEF IInv, StatesOK
<1> QED BY <1>4, <1>6, <1>8 DEF IInv

\* The state a request issues stays nobody else's.
LEMMA Issues ==
    ASSUME IInv, NEW r \in Requests, req[r].pc = "sweep", Answer(r),
           issued' = issued \cup {req[r].state}
    PROVE  \A t \in Requests : StateOK(t)'
<1>1. /\ req' \in [Requests -> Request] /\ req'[r] = Idle
      /\ \A t \in Requests \ {r} : req'[t] = req[t]
  BY Answers DEF IInv
<1>2. StateOK(r)
  BY DEF IInv, StatesOK
<1>3. req[r].state # None
  BY DEF IInv, Identities, CallbackOK
<1>4. ASSUME NEW t \in Requests \ {r} PROVE StateOK(t)'
  <2>1. StateOK(t) /\ req'[t] = req[t] /\ req[t].state # req[r].state
    BY <1>1, <1>2 DEF IInv, StatesOK, StateOK
  <2>2. req[t].pc \in {"put", "sweep"} => req[t].state # None
    BY DEF IInv, Identities, CallbackOK
  <2>3. \A q \in Requests : req'[q] = req[q] \/ req'[q].state = None
    BY <1>1, IdleRequest
  <2> QED BY <2>1, <2>2, <2>3 DEF StateOK
<1>5. StateOK(r)'
  BY Answers DEF IInv
<1> QED BY <1>4, <1>5

LEMMA SweepStep ==
    ASSUME IInv, NEW r \in Requests, Sweep(r)
    PROVE  IInv'
<1>1. /\ req[r].pc = "sweep" /\ states' = states \ old /\ old' = {}
      /\ issued' = issued \cup {req[r].state} /\ Answer(r)
      /\ UNCHANGED <<doc, taken, raced, had, logins>>
  BY DEF Sweep, At
<1>2. /\ req' \in [Requests -> Request] /\ CallbackOK(r)'
      /\ \A t \in Requests \ {r} : req'[t] = req[t]
  BY <1>1, Answers DEF IInv
<1>3. req[r].state \in States
  BY <1>1 DEF IInv, Identities, CallbackOK
<1>4. TypeOK'
  BY <1>1, <1>2, <1>3 DEF IInv, TypeOK
<1>5. Identities'
  BY <1>1, <1>2, IdentitiesKept DEF IInv
<1>6. StatesOK'
  BY <1>1, Issues DEF IInv, StatesOK
<1> QED BY <1>4, <1>5, <1>6 DEF IInv

LEMMA TakeStep ==
    ASSUME IInv, NEW r \in Requests, Take(r)
    PROVE  IInv'
<1>1. /\ req[r].pc = "take" /\ Goto(r, "identify")
      /\ states' = states \ {req[r].state} /\ old' = old \ {req[r].state}
      /\ taken' = taken \cup {req[r].state}
      /\ UNCHANGED <<doc, issued, raced, had, logins>>
  BY DEF Take, At
<1>2. /\ req' \in [Requests -> Request]
      /\ req'[r].pc = "identify" /\ req'[r].state = req[r].state
      /\ \A t \in Requests \ {r} : req'[t] = req[t]
  BY <1>1, Goes DEF IInv, Steps
<1>3. req[r].state \in States /\ req[r].state \in issued
  BY <1>1 DEF IInv, Identities, CallbackOK, StatesOK, StateOK
<1>4. TypeOK'
  BY <1>1, <1>2, <1>3 DEF IInv, TypeOK
<1>5. CallbackOK(r)'
  BY <1>2 DEF CallbackOK
<1>6. Identities'
  BY <1>1, <1>2, <1>5, IdentitiesKept DEF IInv
<1>7. ASSUME NEW t \in Requests PROVE StateOK(t)'
  BY <1>1, <1>2 DEF IInv, StatesOK, StateOK
<1>8. StatesOK'
  BY <1>1, <1>3, <1>7 DEF IInv, StatesOK
<1> QED BY <1>4, <1>6, <1>8 DEF IInv

LEMMA RaceStep ==
    ASSUME IInv, NEW r \in Requests, Race(r)
    PROVE  IInv'
<1>1. /\ req[r].pc \in {"put", "sweep", "take"} /\ raced' = TRUE
      /\ UNCHANGED <<memory, doc, had, logins>>
  BY DEF Race, Conflict
<1>2. req[r].state \in States
  BY <1>1 DEF IInv, Identities, CallbackOK
<1>3. CASE req[r].pc = "sweep"
  <2>1. Answer(r) /\ issued' = issued \cup {req[r].state} /\ taken' = taken
    BY <1>3 DEF Race, At
  <2>2. /\ req' \in [Requests -> Request] /\ CallbackOK(r)'
        /\ \A t \in Requests \ {r} : req'[t] = req[t]
    BY <2>1, Answers DEF IInv
  <2>3. TypeOK'
    BY <1>1, <1>2, <2>1, <2>2 DEF IInv, TypeOK, memory
  <2>4. Identities'
    BY <1>1, <2>2, IdentitiesKept DEF IInv
  <2>5. StatesOK'
    BY <1>1, <1>3, <2>1, Issues DEF IInv, StatesOK
  <2> QED BY <2>3, <2>4, <2>5 DEF IInv
<1>4. CASE req[r].pc # "sweep"
  <2>1. PICK step \in {"sweep", "identify"} :
          /\ Goto(r, step) /\ issued' = issued
          /\ step = "sweep" => req[r].pc = "put"
    BY <1>1, <1>4 DEF Race, At
  <2>2. taken' \subseteq taken \cup issued
    <3>1. CASE req[r].pc = "take"
      BY <3>1 DEF Race, At, IInv, StatesOK, StateOK
    <3>2. CASE req[r].pc # "take"
      BY <3>2 DEF Race, At
    <3> QED BY <3>1, <3>2
  <2>3. /\ req' \in [Requests -> Request]
        /\ req'[r].pc = step /\ req'[r].state = req[r].state
        /\ \A t \in Requests \ {r} : req'[t] = req[t]
    BY <2>1, Goes DEF IInv, Steps
  <2>4. TypeOK'
    BY <1>1, <2>1, <2>2, <2>3 DEF IInv, TypeOK, memory
  <2>5. CallbackOK(r)'
    BY <1>2, <2>3 DEF CallbackOK
  <2>6. Identities'
    BY <1>1, <2>3, <2>5, IdentitiesKept DEF IInv
  <2>7. ASSUME NEW t \in Requests PROVE StateOK(t)'
    BY <2>1, <2>3 DEF IInv, StatesOK, StateOK
  <2>8. StatesOK'
    BY <1>1, <2>1, <2>2, <2>7 DEF IInv, StatesOK
  <2> QED BY <2>4, <2>6, <2>8 DEF IInv
<1> QED BY <1>3, <1>4

LEMMA RestartStep ==
    ASSUME IInv, Restart
    PROVE  IInv'
<1>1. /\ states' = {} /\ old' = {} /\ UNCHANGED <<doc, history>>
      /\ req' = [r \in Requests |-> Idle]
  BY DEF Restart
<1>2. TypeOK'
  BY <1>1, IdleRequest DEF IInv, TypeOK, history
<1>3. ASSUME NEW r \in Requests PROVE CallbackOK(r)' /\ StateOK(r)'
  BY <1>1, IdleRequest DEF CallbackOK, StateOK
<1>4. Identities'
  BY <1>1, <1>3, IdentitiesKept DEF IInv, history
<1>5. StatesOK'
  BY <1>1, <1>3 DEF IInv, StatesOK, history
<1> QED BY <1>2, <1>4, <1>5 DEF IInv

LEMMA OutsideStep ==
    ASSUME IInv,
           (\E s \in States : Age(s)) \/ UNCHANGED vars
    PROVE  IInv'
<1>1. UNCHANGED <<states, doc, req, history>>
  BY DEF Age, vars, memory
<1>2. old' \subseteq states
  <2>1. CASE \E s \in States : Age(s)
    BY <2>1 DEF Age, IInv, TypeOK
  <2>2. CASE UNCHANGED vars
    BY <2>2 DEF vars, IInv, TypeOK, memory
  <2> QED BY <2>1, <2>2
<1>3. TypeOK'
  BY <1>1, <1>2 DEF IInv, TypeOK, history
<1>4. Identities'
  BY <1>1, IdentitiesKept DEF IInv, history
<1>5. StatesOK'
  BY <1>1, StatesKept DEF IInv, history
<1> QED BY <1>3, <1>4, <1>5 DEF IInv

(***************************************************************************)
(* The writes of documents.  The unique indexes keep identities apart; a   *)
(* write never changes the email of a stored user; and whoever read the    *)
(* user before, to link it, is late.                                       *)
(***************************************************************************)

LEMMA Storing ==
    ASSUME IInv, NEW r \in Requests, NEW u \in Users, NEW d \in Doc, NEW next \in Request,
           Store(r, u, d, next),
           d.email \in Emails, doc[u] = NoDoc \/ d.email = doc[u].email,
           d.yandex # None => d.email \in had[d.yandex],
           next.pc \in {"login", "idle"}, next.state = None,
           next.pc = "login" =>
             /\ next.account \in Accounts /\ next.user = u
             /\ d.email \in had[next.account],
           UNCHANGED <<memory, history>>
    PROVE  IInv'
<1>1. /\ Unique(u, d) /\ doc' \in [Users -> Doc] /\ doc'[u] = d
      /\ \A v \in Users \ {u} : doc'[v] = doc[v]
  BY DEF Store, IInv, TypeOK
<1>2. ASSUME NEW s \in Requests \ {r}
      PROVE  /\ req'[s] \in Request
             /\ req'[s].pc = req[s].pc /\ req'[s].state = req[s].state
             /\ req'[s].account = req[s].account /\ req'[s].email = req[s].email
             /\ req'[s].user = req[s].user /\ req'[s].copy = req[s].copy
             /\ req'[s].late = FALSE =>
                  /\ req[s].late = FALSE
                  /\ req[s].pc \in {"link", "update"} /\ req[s].user = u =>
                       doc[u].yandex = d.yandex
  <2>0. req[s] \in Request
    BY DEF IInv, TypeOK
  <2>1. req[s] \in Request /\ [req[s] EXCEPT !.late = TRUE] \in Request
    BY <2>0 DEF Request
  <2>2. CASE req[s].pc \in {"link", "update"} /\ req[s].user = u /\ doc[u].yandex # d.yandex
    <3>1. req'[s] = [req[s] EXCEPT !.late = TRUE]
      BY <2>2 DEF Store
    <3> QED BY <2>1, <3>1 DEF Request
  <2>3. CASE ~(req[s].pc \in {"link", "update"} /\ req[s].user = u /\ doc[u].yandex # d.yandex)
    <3>1. req'[s] = req[s]
      BY <2>3 DEF Store
    <3> QED BY <2>1, <2>3, <3>1
  <2> QED BY <2>2, <2>3
<1>3. req'[r] = next
  BY DEF Store
<1>4. req' \in [Requests -> Request]
  BY <1>2, <1>3 DEF Store
<1>5. TypeOK'
  BY <1>1, <1>4 DEF IInv, TypeOK, memory, history
<1>6. \* the emails of stored users are kept
      \A v \in Users : doc[v].email \in Emails => doc'[v].email = doc[v].email
  BY <1>1 DEF NoDoc
<1>7. OneUserPerIdentity'
  BY <1>1 DEF IInv, Identities, OneUserPerIdentity, Unique
<1>8. ASSUME NEW v \in Users PROVE UserOK(v)'
  BY <1>1 DEF IInv, Identities, UserOK, history
<1>9. ASSUME NEW s \in Requests \ {r} PROVE CallbackOK(s)'
  <2>1. CallbackOK(s)
    BY DEF IInv, Identities
  <2>2. req[s].pc \in {"link", "login", "update"} =>
          doc'[req[s].user].email = doc[req[s].user].email
    BY <1>6, <2>1, HadEmails DEF CallbackOK, IInv
  <2>3. req'[s].late = FALSE /\ req[s].pc \in {"link", "update"} =>
          doc'[req[s].user].yandex = doc[req[s].user].yandex
    BY <1>1, <1>2, <2>1 DEF CallbackOK
  <2> QED BY <1>2, <2>1, <2>2, <2>3 DEF CallbackOK, history
<1>10. CallbackOK(r)'
  BY <1>1, <1>3 DEF CallbackOK, history
<1>11. ASSUME NEW login \in logins PROVE LoginOK(login)'
  <2>1. LoginOK(login) /\ login[1] \in Accounts /\ login[2] \in Users
    BY DEF IInv, Identities, TypeOK
  <2> QED BY <1>6, <2>1, HadEmails DEF LoginOK, IInv, history
<1>12. Identities'
  BY <1>7, <1>8, <1>9, <1>10, <1>11 DEF Identities, history
<1>13. StatesOK'
  <2>1. ASSUME NEW s \in Requests PROVE StateOK(s)'
    <3>1. CASE s = r
      BY <1>3, <3>1 DEF StateOK
    <3>2. CASE s # r
      <4>1. req'[s].pc = req[s].pc /\ req'[s].state = req[s].state /\ StateOK(s)
        BY <1>2, <3>2 DEF IInv, StatesOK
      <4>2. req[s].pc \in {"put", "sweep"} => req[s].state # None
        BY DEF IInv, Identities, CallbackOK
      <4>3. \A q \in Requests : req'[q].state \in {req[q].state, None}
        BY <1>2, <1>3
      <4> QED BY <4>1, <4>2, <4>3 DEF StateOK, history
    <3> QED BY <3>1, <3>2
  <2> QED BY <2>1 DEF IInv, StatesOK, memory, history
<1> QED BY <1>5, <1>12, <1>13 DEF IInv

LEMMA AfterStore ==
    ASSUME NEW r \in Requests, NEW u \in Users, req[r].account \in Accounts
    PROVE  \A next \in {Found(r, u), Idle} :
             /\ next \in Request /\ next.pc \in {"login", "idle"} /\ next.state = None
             /\ next.pc = "login" => next.account = req[r].account /\ next.user = u
<1> DEFINE q == Found(r, u)
<1>1. /\ q \in Request /\ q.pc = "login" /\ q.state = None
      /\ q.account = req[r].account /\ q.user = u
  BY DEF Found, Idle, Request, Steps
<1> HIDE DEF q
<1>2. Idle \in Request /\ Idle.pc = "idle" /\ Idle.state = None
  BY IdleRequest
<1>3. \A next \in {q, Idle} :
        /\ next \in Request /\ next.pc \in {"login", "idle"} /\ next.state = None
        /\ next.pc = "login" => next.account = req[r].account /\ next.user = u
  BY <1>1, <1>2
<1> QED BY <1>3 DEF q

LEMMA LinkStep ==
    ASSUME IInv, NEW r \in Requests, Link(r)
    PROVE  IInv'
<1> DEFINE u == req[r].user
           d == [doc[u] EXCEPT !.yandex = req[r].account]
<1>1. PICK next \in {Found(r, u), Idle} : Store(r, u, d, next)
  BY DEF Link
<1>2. req[r].pc = "link" /\ UNCHANGED <<memory, history>>
  BY DEF Link, At
<1>3. /\ req[r].account \in Accounts /\ u \in Users
      /\ doc[u].email \in had[req[r].account] /\ doc[u].email \in Emails
  BY <1>2, HadEmails DEF IInv, Identities, CallbackOK
<1>4. d \in Doc /\ d.email = doc[u].email /\ d.yandex = req[r].account
  BY <1>3 DEF IInv, TypeOK, Doc
<1> HIDE DEF u, d
<1> QED BY <1>1, <1>2, <1>3, <1>4, AfterStore, Storing

LEMMA CreateStep ==
    ASSUME IInv, NEW r \in Requests, NEW u \in Users, Create(r, u)
    PROVE  IInv'
<1> DEFINE d == [email |-> req[r].email, yandex |-> req[r].account]
<1>1. PICK next \in {Found(r, u), Idle} : Store(r, u, d, next)
  BY DEF Create
<1>2. /\ req[r].pc = "create" /\ req[r].account # None /\ doc[u] = NoDoc
      /\ UNCHANGED <<memory, history>>
  BY DEF Create, At
<1>3. /\ req[r].account \in Accounts /\ req[r].email \in Emails
      /\ req[r].email \in had[req[r].account]
  BY <1>2 DEF IInv, Identities, CallbackOK, TypeOK, Request
<1>4. d \in Doc /\ d.email = req[r].email /\ d.yandex = req[r].account
  BY <1>3 DEF Doc
<1> HIDE DEF d
<1> QED BY <1>1, <1>2, <1>3, <1>4, AfterStore, Storing

LEMMA RegisterCreateStep ==
    ASSUME IInv, NEW r \in Requests, NEW u \in Users, RegisterCreate(r, u)
    PROVE  IInv'
<1> DEFINE d == [email |-> req[r].email, yandex |-> None]
<1>1. /\ req[r].pc = "create" /\ doc[u] = NoDoc /\ Store(r, u, d, Idle)
      /\ UNCHANGED <<memory, history>>
  BY DEF RegisterCreate, At
<1>2. req[r].email \in Emails
  BY <1>1 DEF IInv, Identities, CallbackOK
<1>3. d \in Doc /\ d.email = req[r].email /\ d.yandex = None
  BY <1>2 DEF Doc
<1> HIDE DEF d
<1> QED BY <1>1, <1>2, <1>3, IdleRequest, Storing

LEMMA UpdateFindStep ==
    ASSUME IInv, NEW r \in Requests, NEW u \in Users, UpdateFind(r, u)
    PROVE  IInv'
<1> DEFINE q == [Idle EXCEPT !.pc = "update", !.user = u, !.copy = doc[u].yandex]
<1>1. doc[u] \in Doc /\ doc[u].yandex \in Accounts \cup {None} /\ UserOK(u)
  BY DEF IInv, TypeOK, Doc, Identities
<1>2. /\ q \in Request /\ q.pc = "update" /\ q.state = None /\ q.user = u
      /\ q.copy = doc[u].yandex
  BY <1>1 DEF Idle, Request, Steps
<1>3. /\ doc[u] # NoDoc /\ req' = [req EXCEPT ![r] = q]
      /\ UNCHANGED <<memory, doc, history>>
  BY DEF UpdateFind, Begin
<1> HIDE DEF q
<1>4. /\ req' \in [Requests -> Request] /\ req'[r] = q
      /\ \A t \in Requests \ {r} : req'[t] = req[t]
  BY <1>2, <1>3, Becomes DEF IInv
<1>5. doc[u].email \in Emails
  BY <1>1, <1>3 DEF UserOK, Doc
<1>6. CallbackOK(r)'
  BY <1>1, <1>2, <1>3, <1>4, <1>5 DEF CallbackOK, UserOK, history
<1> QED BY <1>2, <1>3, <1>4, <1>6, Local DEF InMap

LEMMA UpdateWriteStep ==
    ASSUME IInv, NEW r \in Requests, UpdateWrite(r)
    PROVE  IInv'
<1> DEFINE u == req[r].user
           d == [doc[u] EXCEPT !.yandex = req[r].copy]
<1>1. /\ req[r].pc = "update" /\ Store(r, u, d, Idle)
      /\ UNCHANGED <<memory, history>>
  BY DEF UpdateWrite, At
<1>2. /\ req[r].copy \in Accounts \cup {None} /\ u \in Users /\ doc[u].email \in Emails
      /\ req[r].copy # None => doc[u].email \in had[req[r].copy]
  BY <1>1 DEF IInv, TypeOK, Request, Identities, CallbackOK
<1>3. d \in Doc /\ d.email = doc[u].email /\ d.yandex = req[r].copy
  BY <1>2 DEF IInv, TypeOK, Doc
<1> HIDE DEF u, d
<1> QED BY <1>1, <1>2, <1>3, IdleRequest, Storing

(***************************************************************************)
(* The theorems.                                                           *)
(***************************************************************************)

LEMMA InitIInv == Init => IInv
<1> SUFFICES ASSUME Init PROVE IInv
  OBVIOUS
<1>1. TypeOK
  BY IdleRequest DEF Init, TypeOK, Doc, NoDoc
<1>2. ASSUME NEW r \in Requests PROVE CallbackOK(r) /\ StateOK(r)
  BY IdleRequest DEF Init, CallbackOK, StateOK
<1>3. Identities
  BY <1>2 DEF Init, Identities, OneUserPerIdentity, UserOK, NoDoc
<1>4. StatesOK
  BY <1>2 DEF Init, StatesOK
<1> QED BY <1>1, <1>3, <1>4 DEF IInv

LEMMA NextIInv == IInv /\ [Next]_vars => IInv'
<1> SUFFICES ASSUME IInv, [Next]_vars PROVE IInv'
  OBVIOUS
<1>1. ASSUME NEW r \in Requests, OAuthInit(r) PROVE IInv'
  BY <1>1, InitBeginStep, PutStep, SweepStep DEF OAuthInit
<1>2. ASSUME NEW r \in Requests, FindOrCreateUser(r) PROVE IInv'
  BY <1>2, FindByIdStep, FindByEmailStep, FindFailsStep, LinkStep, CreateStep
     DEF FindOrCreateUser
<1>3. ASSUME NEW r \in Requests, OAuthCallback(r) PROVE IInv'
  BY <1>2, <1>3, CallbackBeginStep, LookStep, TakeStep, IdentifyStep, LoginStep
     DEF OAuthCallback
<1>4. ASSUME NEW r \in Requests, Register(r) PROVE IInv'
  BY <1>4, RegisterFindStep, RegisterCreateStep DEF Register
<1>5. ASSUME NEW r \in Requests, Update(r) PROVE IInv'
  BY <1>5, UpdateFindStep, UpdateWriteStep DEF Update
<1> QED BY <1>1, <1>3, <1>4, <1>5, RaceStep, RejectStep, RestartStep, OutsideStep DEF Next

\* FindOrCreateUser and Register write documents that the unique indexes
\* accept, and OAuthInit's states are nobody else's until they are issued.
THEOREM Inductive == Spec => []IInv
<1>1. Init => IInv
  BY InitIInv
<1>2. IInv /\ [Next]_vars => IInv'
  BY NextIInv
<1> QED BY <1>1, <1>2, PTL DEF Spec

\* Every variable has its type.
THEOREM TypeCorrect == Spec => []TypeOK
<1>1. IInv => TypeOK
  BY DEF IInv
<1> QED BY <1>1, Inductive, PTL

\* The indexes ux_users_email and ux_users_yandex_id keep users apart,
\* although FindOrCreateUser takes any error of a lookup for "no such user".
THEOREM IdentitiesAreApart == Spec => []OneUserPerIdentity
<1>1. IInv => OneUserPerIdentity
  BY DEF IInv, Identities
<1> QED BY <1>1, Inductive, PTL

\* FindOrCreateUser links an account to, and OAuthCallback logs it in as, a
\* user whose email the account had when the callback asked for it.
THEOREM AccountsReachOwnEmails == Spec => []LoginsShareTheEmail
<1>1. IInv => LoginsShareTheEmail
  BY DEF IInv, Identities, UserOK, LoginOK, LoginsShareTheEmail
<1> QED BY <1>1, Inductive, PTL

\* OAuthCallback deletes the state it found: nobody is let in with it later,
\* unless two handlers were inside stateStore at once.
THEOREM StatesAdmitOnce == Spec => StateAdmitsOnce
<1> DEFINE Once == \A r \in Requests : Look(r) => raced \/ req[r].state \notin taken
<1>1. IInv => Once
  BY DEF IInv, TypeOK, StatesOK, Look
<1>2. IInv /\ [Next]_vars => [Once]_vars
  BY <1>1
<1>3. Spec => [][Once]_vars
  BY <1>2, Inductive, PTL DEF Spec
<1> QED BY <1>3 DEF StateAdmitsOnce

\* FindOrCreateUser links only users that it read without a link, and Update
\* of the other handlers writes the link back as it was read: a link that is
\* there is lost or replaced only by a handler that read the user before the
\* link changed.
THEOREM LinksMoveByOverlap == Spec => LinkMovesOnlyByOverlap
<1> DEFINE Mover(r, u) == /\ req[r].user = u
                          /\ \/ Link(r) /\ (req[r].late \/ doc[u].yandex = None)
                             \/ UpdateWrite(r) /\ req[r].late
           Moves(u) == doc[u] # NoDoc /\ doc'[u].yandex # doc[u].yandex
           Kept == \A u \in Users : Moves(u) => \E r \in Requests : Mover(r, u)
<1>1. IInv /\ [Next]_vars => [Kept]_vars
  <2> SUFFICES ASSUME IInv, [Next]_vars, NEW u \in Users, Moves(u)
               PROVE  \E r \in Requests : Mover(r, u)
    OBVIOUS
  <2>1. PICK r \in Requests : \/ Link(r) \/ UpdateWrite(r)
                              \/ \E v \in Users : Create(r, v) \/ RegisterCreate(r, v)
    BY DEF Next, OAuthInit, InitBegin, Put, Sweep, OAuthCallback, CallbackBegin, Look,
           Take, Identify, FindOrCreateUser, FindById, FindByIdFails, FindByEmail,
           FindByEmailFails, Login, Register, RegisterFind, Update, UpdateFind,
           Race, Reject, Restart, Age, vars
  <2>2. ASSUME NEW v \in Users, Create(r, v) \/ RegisterCreate(r, v) PROVE FALSE
    <3>1. PICK d : doc' = [doc EXCEPT ![v] = d] /\ doc[v] = NoDoc
      BY <2>2 DEF Create, RegisterCreate, Store
    <3> QED BY <3>1 DEF IInv, TypeOK
  <2>3. req[r].late \in BOOLEAN /\ CallbackOK(r)
    BY DEF IInv, TypeOK, Request, Identities
  <2>4. CASE Link(r)
    <3>1. PICK d : doc' = [doc EXCEPT ![req[r].user] = d]
      BY <2>4 DEF Link, Store
    <3>2. req[r].user = u
      BY <3>1 DEF IInv, TypeOK
    <3>3. req[r].late # FALSE \/ doc[u].yandex = None
      BY <2>3, <2>4, <3>2 DEF Link, At, CallbackOK
    <3> QED BY <2>3, <2>4, <3>2, <3>3
  <2>5. CASE UpdateWrite(r)
    <3>1. doc' = [doc EXCEPT ![req[r].user] = [@ EXCEPT !.yandex = req[r].copy]]
      BY <2>5 DEF UpdateWrite, Store
    <3>2. req[r].user = u
      BY <3>1 DEF IInv, TypeOK
    <3>3. doc'[u].yandex = req[r].copy
      BY <3>1, <3>2 DEF IInv, TypeOK, Doc
    <3>4. req[r].late # FALSE
      BY <2>3, <2>5, <3>2, <3>3 DEF UpdateWrite, At, CallbackOK
    <3> QED BY <2>3, <2>5, <3>2, <3>4
  <2> QED BY <2>1, <2>2, <2>4, <2>5
<1>2. Spec => [][Kept]_vars
  BY <1>1, Inductive, PTL DEF Spec
<1> QED BY <1>2 DEF LinkMovesOnlyByOverlap
=============================================================================
