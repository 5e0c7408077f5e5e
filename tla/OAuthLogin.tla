----------------------------- MODULE OAuthLogin -----------------------------
(***************************************************************************)
(* Login through Yandex: the states of OAuthInit, and the users a callback *)
(* finds, links or creates.                                                *)
(*                                                                         *)
(* stateStore is a Go map that handlers use without a lock.  A conflicting *)
(* access has no defined result: the runtime ends the process when it      *)
(* notices, otherwise one of the writes may be lost (Race).  FindOrCreate- *)
(* User takes any error of a lookup for "no such user" and goes on; what   *)
(* keeps users apart is the unique indexes of the collection, at every     *)
(* insertion and replacement.  POST /auth/register competes for an email,  *)
(* and POST /profile, /auth/forgot-password and /auth/reset-password       *)
(* replace the whole document, its yandex_id as they read it.  The rest of *)
(* these is the subject of modules Registration and UserDocument, and the  *)
(* session that a callback ends with is the login of module AuthSessions.  *)
(***************************************************************************)
EXTENDS Naturals

CONSTANTS
    Users,      \* the pool of identifiers uuid.New can return
    Accounts,   \* Yandex accounts
    Emails,     \* default_email of accounts, and emails that register
    States,     \* the pool of states GenerateState can return
    Requests,
    None

ASSUME NoneIsNothing == None \notin Users \cup Accounts \cup Emails \cup States

VARIABLES
    states,   \* the keys of stateStore
    old,      \* those that were put there more than fifteen minutes ago
    doc,      \* the documents, email None: not stored
    req,      \* the local variables of every handler
    \* history
    issued,   \* states a client was redirected with
    taken,    \* states a callback was let in with
    raced,    \* whether stateStore was ever used by two at once
    had,      \* the emails an account had when a callback asked for it
    logins    \* the users accounts were logged in as

memory  == <<states, old>>
history == <<issued, taken, raced, had, logins>>
vars    == <<memory, doc, req, history>>

Doc == [email : Emails \cup {None}, yandex : Accounts \cup {None}]
NoDoc == [email |-> None, yandex |-> None]

Steps == {"idle", "put", "sweep", "look", "take", "identify",
          "by_id", "by_email", "link", "create", "login", "update"}
Request == [pc : Steps, state : States \cup {None},
            account : Accounts \cup {None},   \* None: a registration
            email : Emails \cup {None}, user : Users \cup {None},
            copy : Accounts \cup {None},      \* yandex_id of the document in memory
            late : BOOLEAN]                   \* history: it changed since it was read
Idle == [pc |-> "idle", state |-> None, account |-> None, email |-> None,
         user |-> None, copy |-> None, late |-> FALSE]

Init ==
    /\ states = {} /\ old = {}
    /\ doc = [u \in Users |-> NoDoc]
    /\ req = [r \in Requests |-> Idle]
    /\ issued = {} /\ taken = {} /\ raced = FALSE
    /\ had = [a \in Accounts |-> {}] /\ logins = {}

At(r, step)   == req[r].pc = step
Goto(r, step) == req' = [req EXCEPT ![r].pc = step]
Answer(r)     == req' = [req EXCEPT ![r] = Idle]
Begin(r, fields) == At(r, "idle") /\ req' = [req EXCEPT ![r] = fields]

-----------------------------------------------------------------------------
(* GET /auth/oauth/yandex                                                  *)

InitBegin(r, s) ==
    /\ s \notin issued /\ \A q \in Requests : req[q].state # s
    /\ Begin(r, [Idle EXCEPT !.pc = "put", !.state = s])
    /\ UNCHANGED <<memory, doc, history>>

Put(r) ==
    /\ At(r, "put")
    /\ states' = states \cup {req[r].state}
    /\ Goto(r, "sweep")
    /\ UNCHANGED <<old, doc, history>>

\* cleanupState, then the redirect.
Sweep(r) ==
    /\ At(r, "sweep")
    /\ states' = states \ old /\ old' = {}
    /\ issued' = issued \cup {req[r].state}
    /\ Answer(r)
    /\ UNCHANGED <<doc, taken, raced, had, logins>>

-----------------------------------------------------------------------------
(* GET /auth/oauth/yandex/callback                                         *)

CallbackBegin(r, s) ==
    /\ s \in issued
    /\ Begin(r, [Idle EXCEPT !.pc = "look", !.state = s])
    /\ UNCHANGED <<memory, doc, history>>

\* A state that is not there is a 403.  Its age is not looked at.
Look(r) ==
    /\ At(r, "look")
    /\ req[r].state \in states
    /\ Goto(r, "take")
    /\ UNCHANGED <<memory, doc, history>>

\* Mutant of Take: the state is removed at the end of the flow only.
TakeLater(r) ==
    /\ At(r, "take")
    /\ taken' = taken \cup {req[r].state}
    /\ Goto(r, "identify")
    /\ UNCHANGED <<memory, doc, issued, raced, had, logins>>

Take(r) ==
    /\ At(r, "take")
    /\ states' = states \ {req[r].state} /\ old' = old \ {req[r].state}
    /\ taken' = taken \cup {req[r].state}
    /\ Goto(r, "identify")
    /\ UNCHANGED <<doc, issued, raced, had, logins>>

\* ExchangeCodeForToken and GetYandexUserInfo, whoever the code is for: the
\* owner of an account can give it another default_email at any time.
Identify(r, a, e) ==
    /\ At(r, "identify")
    /\ req' = [req EXCEPT ![r] = [Idle EXCEPT !.pc = "by_id", !.account = a,
                                              !.email = e]]
    /\ had' = [had EXCEPT ![a] = @ \cup {e}]
    /\ UNCHANGED <<memory, doc, issued, taken, raced, logins>>

\* Mutant of Linked: a filter that users without a link match as well.
LinkedOrNone(a) == {u \in Users : doc[u] # NoDoc /\ doc[u].yandex \in {a, None}}

\* The users FindByYandexID and FindByEmail can return.
Linked(a)    == {u \in Users : doc[u].yandex = a}
WithEmail(e) == {u \in Users : doc[u].email = e}

\* FindOrCreateUser has returned user u.
Found(r, u) == [Idle EXCEPT !.pc = "login", !.account = req[r].account, !.user = u]

FindById(r) ==
    /\ At(r, "by_id")
    /\ \E u \in Linked(req[r].account) :
         req' = [req EXCEPT ![r] = Found(r, u)]
    /\ UNCHANGED <<memory, doc, history>>

\* No document, or any other error.
FindByIdFails(r) ==
    /\ At(r, "by_id")
    /\ Goto(r, "by_email")
    /\ UNCHANGED <<memory, doc, history>>

\* Mutant of FindByEmail: the user is linked whoever it is linked to.
FindByEmailAndLink(r) ==
    /\ At(r, "by_email")
    /\ \E u \in WithEmail(req[r].email) :
         req' = [req EXCEPT ![r].pc = "link", ![r].user = u, ![r].late = FALSE]
    /\ UNCHANGED <<memory, doc, history>>

\* A user that is linked already, to whatever account, is returned as it is.
FindByEmail(r) ==
    /\ At(r, "by_email")
    /\ \E u \in WithEmail(req[r].email) :
         req' = [req EXCEPT ![r] = IF doc[u].yandex # None THEN Found(r, u)
                                   ELSE [Found(r, u) EXCEPT !.pc = "link"]]
    /\ UNCHANGED <<memory, doc, history>>

FindByEmailFails(r) ==
    /\ At(r, "by_email")
    /\ Goto(r, "create")
    /\ UNCHANGED <<memory, doc, history>>

\* Mutant of Unique: there is no index on yandex_id.
UniqueEmail(u, d) == \A v \in Users \ {u} : doc[v].email # d.email

\* ux_users_email and ux_users_yandex_id, which is sparse.
Unique(u, d) ==
    \A v \in Users \ {u} : /\ doc[v].email # d.email
                           /\ d.yandex # None => doc[v].yandex # d.yandex

\* What a write leaves in the database and in the handlers that read before.
Store(r, u, d, next) ==
    /\ Unique(u, d)
    /\ doc' = [doc EXCEPT ![u] = d]
    /\ req' = [q \in Requests |->
                 IF q = r THEN next
                 ELSE IF /\ req[q].pc \in {"link", "update"} /\ req[q].user = u
                         /\ doc[u].yandex # d.yandex
                      THEN [req[q] EXCEPT !.late = TRUE] ELSE req[q]]

\* Update of the document as it was read, with the link; the call may have
\* taken effect and answer an error.
Link(r) ==
    /\ At(r, "link")
    /\ LET u == req[r].user IN
       \E next \in {Found(r, u), Idle} :
         Store(r, u, [doc[u] EXCEPT !.yandex = req[r].account], next)
    /\ UNCHANGED <<memory, history>>

\* Mutant of Create: the new user stays in a variable of the inner scope.
CreateShadowed(r, u) ==
    /\ At(r, "create") /\ req[r].account # None
    /\ doc[u] = NoDoc
    /\ Store(r, u, [email |-> req[r].email, yandex |-> req[r].account],
             Found(r, None))
    /\ UNCHANGED <<memory, history>>

\* A new user with a random password, linked from the start.
Create(r, u) ==
    /\ At(r, "create") /\ req[r].account # None
    /\ doc[u] = NoDoc
    /\ \E next \in {Found(r, u), Idle} :
         Store(r, u, [email |-> req[r].email, yandex |-> req[r].account], next)
    /\ UNCHANGED <<memory, history>>

\* CreateTokens, SaveTokenPair and the cookies.
Login(r) ==
    /\ At(r, "login")
    /\ logins' = logins \cup {<<req[r].account, req[r].user>>}
    /\ Answer(r)
    /\ UNCHANGED <<memory, doc, issued, taken, raced, had>>

-----------------------------------------------------------------------------
(* POST /auth/register, as far as it touches the documents                 *)

\* FindByEmail found nobody.
RegisterFind(r, e) ==
    /\ WithEmail(e) = {}
    /\ Begin(r, [Idle EXCEPT !.pc = "create", !.email = e])
    /\ UNCHANGED <<memory, doc, history>>

RegisterCreate(r, u) ==
    /\ At(r, "create") /\ req[r].account = None
    /\ doc[u] = NoDoc
    /\ Store(r, u, [email |-> req[r].email, yandex |-> None], Idle)
    /\ UNCHANGED <<memory, history>>

-----------------------------------------------------------------------------
(* POST /profile, POST /auth/forgot-password, POST /auth/reset-password    *)

\* Each reads the user and changes fields that are not modelled here.
UpdateFind(r, u) ==
    /\ doc[u] # NoDoc
    /\ Begin(r, [Idle EXCEPT !.pc = "update", !.user = u, !.copy = doc[u].yandex])
    /\ UNCHANGED <<memory, doc, history>>

\* Update: ReplaceOne of the whole document, the link as it was read.
UpdateWrite(r) ==
    /\ At(r, "update")
    /\ LET u == req[r].user IN
       Store(r, u, [doc[u] EXCEPT !.yandex = req[r].copy], Idle)
    /\ UNCHANGED <<memory, history>>

-----------------------------------------------------------------------------
(* Races, failures and time                                                *)

\* Two handlers are inside stateStore, and one of them writes.
Conflict(r) ==
    /\ req[r].pc \in {"put", "sweep", "take"}
    /\ \E q \in Requests \ {r} : req[q].pc \in {"put", "sweep", "look", "take"}

\* The write is lost, and the handler goes on.
Race(r) ==
    /\ Conflict(r)
    /\ raced' = TRUE
    /\ issued' = IF At(r, "sweep") THEN issued \cup {req[r].state} ELSE issued
    /\ taken' = IF At(r, "take") THEN taken \cup {req[r].state} ELSE taken
    /\ CASE At(r, "put")   -> Goto(r, "sweep")
         [] At(r, "take")  -> Goto(r, "identify")
         [] At(r, "sweep") -> Answer(r)
    /\ UNCHANGED <<memory, doc, had, logins>>

\* 403, 502 or 500: a check or a call fails and changes nothing.
Reject(r) ==
    /\ req[r].pc \in {"look", "identify", "link", "create", "login", "update"}
    /\ Answer(r)
    /\ UNCHANGED <<memory, doc, history>>

\* The process ends, after a Race among others, and the states are gone.
Restart ==
    /\ states' = {} /\ old' = {}
    /\ req' = [r \in Requests |-> Idle]
    /\ UNCHANGED <<doc, history>>

Age(s) ==
    /\ s \in states
    /\ old' = old \cup {s}
    /\ UNCHANGED <<states, doc, req, history>>

-----------------------------------------------------------------------------
OAuthInit(r) == (\E s \in States : InitBegin(r, s)) \/ Put(r) \/ Sweep(r)

FindOrCreateUser(r) == \/ FindById(r) \/ FindByIdFails(r)
                       \/ FindByEmail(r) \/ FindByEmailFails(r)
                       \/ Link(r) \/ \E u \in Users : Create(r, u)

OAuthCallback(r) == \/ \E s \in States : CallbackBegin(r, s)
                    \/ Look(r) \/ Take(r)
                    \/ \E a \in Accounts, e \in Emails : Identify(r, a, e)
                    \/ FindOrCreateUser(r) \/ Login(r)

Register(r) == \/ \E e \in Emails : RegisterFind(r, e)
               \/ \E u \in Users : RegisterCreate(r, u)

Update(r) == (\E u \in Users : UpdateFind(r, u)) \/ UpdateWrite(r)

Next == \/ \E r \in Requests : \/ OAuthInit(r) \/ OAuthCallback(r) \/ Register(r)
                               \/ Update(r) \/ Race(r) \/ Reject(r)
        \/ \E s \in States : Age(s)
        \/ Restart

Spec == Init /\ [][Next]_vars

-----------------------------------------------------------------------------
(* Properties                                                              *)

\* Every variable has its type.
TypeOK ==
    /\ states \subseteq States /\ old \subseteq states
    /\ doc \in [Users -> Doc]
    /\ req \in [Requests -> Request]
    /\ issued \subseteq States /\ taken \subseteq States /\ raced \in BOOLEAN
    /\ had \in [Accounts -> SUBSET Emails]
    /\ logins \subseteq Accounts \X Users

\* FindOrCreateUser beside itself and beside Register, with lookups that fail
\* and addresses that change: an email and a Yandex account are those of at
\* most one user.
OneUserPerIdentity ==
    \A u, v \in Users : u # v =>
        /\ doc[u].email # None => doc[u].email # doc[v].email
        /\ doc[u].yandex # None => doc[u].yandex # doc[v].yandex

\* A Yandex account is linked to, and logged in as, only users whose email it
\* had when a callback asked for it: an account never reaches a user through
\* someone else's link.
LoginsShareTheEmail ==
    /\ \A u \in Users : doc[u].yandex # None => doc[u].email \in had[doc[u].yandex]
    /\ \A login \in logins : doc[login[2]].email \in had[login[1]]

\* OAuthCallback deletes the state: a callback that looks a state up after
\* another one was let in with it is refused, unless stateStore was raced.
StateAdmitsOnce ==
    [][\A r \in Requests : Look(r) => raced \/ req[r].state \notin taken]_vars

\* The link of a user changes in two ways only: a callback links a user that is
\* not linked, or a handler writes over a link that changed since it read the
\* user.  So an account that is linked loses the user, to nobody or to another
\* account, only through an overlap of two writers.
LinkMovesOnlyByOverlap ==
    [][\A u \in Users :
         doc[u] # NoDoc /\ doc'[u].yandex # doc[u].yandex =>
           \E r \in Requests :
             /\ req[r].user = u
             /\ \/ Link(r) /\ (req[r].late \/ doc[u].yandex = None)
                \/ UpdateWrite(r) /\ req[r].late]_vars
=============================================================================
