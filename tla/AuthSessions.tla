---------------------------- MODULE AuthSessions ----------------------------
(***************************************************************************)
(* Sessions of the API: access JTIs in Redis, refresh tokens in MongoDB.   *)
(*                                                                         *)
(* One login or refresh creates a PAIR: an access JWT whose JTI is a key   *)
(* of Redis and a refresh JWT whose bcrypt hash is a document of the       *)
(* collection "tokens".  A pair is one identifier here, because its two    *)
(* halves are always created together (auth_service.go CreateTokens).      *)
(*                                                                         *)
(* A handler makes several calls to Redis and MongoDB and holds no lock    *)
(* between them, so every call is an action of its own and the calls of    *)
(* different requests interleave.  Abort is any call answering an error:   *)
(* the handler returns at once and undoes nothing.  Restart is the process *)
(* stopping and starting: NewService pings Redis once and the answer holds *)
(* until the next start.                                                   *)
(***************************************************************************)
CONSTANTS
    Users,       \* user documents
    Pairs,       \* the pool of token pairs that can be created
    Requests,    \* handler goroutines
    None,        \* no user, no pair
    Operations,  \* the endpoints the clients of this instance call
    TimePasses   \* whether tokens expire and keys leave Redis by themselves

ASSUME NoneIsNoIdentifier == None \notin Users \cup Pairs
ASSUME OperationsAreEndpoints ==
    Operations \subseteq {"login", "refresh", "logout", "logout-all", "reset"}
ASSUME TimePassesIsBoolean == TimePasses \in BOOLEAN

VARIABLES
    owner,         \* the user a pair was created for, None: not created
    parent,        \* the pair whose refresh token was exchanged for this one
    access,        \* pairs whose JTI key is in Redis
    refresh,       \* the token document: "none", "active" or "revoked"
    held,          \* pairs a client received (Set-Cookie of a 200)
    expired,       \* pairs whose access JWT is past its exp
    lapsed,        \* pairs whose refresh JWT and document are past expires_at
    enabled,       \* cache.Service.enabled of the running process
    req,           \* the local variables of every handler
    \* history: what the clients were told
    closedAccess,  \* access tokens a 200 said are closed, deleted from Redis
    closedRefresh  \* refresh tokens a 200 said are closed, found in MongoDB

store   == <<owner, parent, access, refresh, held>>
clock   == <<expired, lapsed>>
history == <<closedAccess, closedRefresh>>
vars    == <<store, clock, enabled, req, history>>

Steps == {"idle", "issue", "save", "rotate",
          "out_access", "out_find", "out_revoke", "out_profile",
          "all_revoke", "scan", "unlink", "all_profile"}
Carriers == {"cookie", "bearer", "reset", "none"}

Request == [pc: Steps, via: Carriers,
            user: Users \cup {None},
            acc: Pairs \cup {None},    \* the access token presented
            ref: Pairs \cup {None},    \* the refresh token presented
            new: Pairs \cup {None},    \* the pair this request created
            before: SUBSET Pairs,      \* history: on record when it began
            todo: SUBSET Pairs]        \* keys SCAN still owes

Idle == [pc |-> "idle", via |-> "none", user |-> None, acc |-> None,
         ref |-> None, new |-> None, before |-> {}, todo |-> {}]

Init ==
    /\ owner = [p \in Pairs |-> None]
    /\ parent = [p \in Pairs |-> None]
    /\ access = {}
    /\ refresh = [p \in Pairs |-> "none"]
    /\ held = {}
    /\ expired = {} /\ lapsed = {}
    /\ enabled \in BOOLEAN
    /\ req = [r \in Requests |-> Idle]
    /\ closedAccess = {} /\ closedRefresh = {}

-----------------------------------------------------------------------------
(* Operators the handlers share                                            *)

PairsOf(u)    == {p \in Pairs : owner[p] = u}
OnRecord(u)   == {p \in PairsOf(u) : refresh[p] # "none"}

\* validateAccessSession: without a cache, and when Redis does not answer, the
\* key is not missed.
SessionValid(p, answered) == enabled /\ answered => p \in access

\* ValidateAccessToken: the signature and exp, then the key.
AccessAccepted(p, answered) == p \notin expired /\ SessionValid(p, answered)

\* Mutant of ActiveTokens: the filter loses user_id.
ActiveTokensOfAnyUser(u) == {p \in Pairs : refresh[p] = "active" /\ p \notin lapsed}

\* FindActiveByUser.
ActiveTokens(u) == {p \in PairsOf(u) : refresh[p] = "active" /\ p \notin lapsed}

\* findMatchingToken: the bcrypt comparison finds the presented token only.
Matches(u, p) == p \in ActiveTokens(u)

At(r, step)    == req[r].pc = step
Goto(r, step)  == req' = [req EXCEPT ![r].pc = step]
Begin(r, fields) == /\ At(r, "idle")
                    /\ req' = [req EXCEPT ![r] = fields]
Answer(r)      == req' = [req EXCEPT ![r] = Idle]

\* Mutant of Revoke: the document is removed instead of marked.
RevokeByDelete(P) == refresh' = [p \in Pairs |-> IF p \in P THEN "deleted" ELSE refresh[p]]

\* RevokeByID and RevokeAll: "$set": {revoked: true}.
Revoke(P) == refresh' = [p \in Pairs |-> IF p \in P THEN "revoked" ELSE refresh[p]]

-----------------------------------------------------------------------------
(* POST /auth/login and the tail of the OAuth callback                     *)

\* The credentials were right: FindByEmail and CheckPassword change nothing.
LoginBegin(r, u) ==
    /\ Begin(r, [Idle EXCEPT !.pc = "issue", !.user = u])
    /\ UNCHANGED <<store, clock, enabled, history>>

\* Mutant of Issue: the cookies are set before SaveTokenPair has answered.
IssueEarly(r, p) ==
    /\ At(r, "issue")
    /\ owner[p] = None
    /\ owner' = [owner EXCEPT ![p] = req[r].user]
    /\ parent' = [parent EXCEPT ![p] = req[r].ref]
    /\ access' = IF enabled THEN access \cup {p} ELSE access
    /\ held' = held \cup {p}
    /\ req' = [req EXCEPT ![r].pc = "save", ![r].new = p]
    /\ UNCHANGED <<refresh, clock, enabled, history>>

\* CreateTokens, then saveAccessSession: the JTI key goes to Redis first.
Issue(r, p) ==
    /\ At(r, "issue")
    /\ owner[p] = None
    /\ owner' = [owner EXCEPT ![p] = req[r].user]
    /\ parent' = [parent EXCEPT ![p] = req[r].ref]
    /\ access' = IF enabled THEN access \cup {p} ELSE access
    /\ req' = [req EXCEPT ![r].pc = "save", ![r].new = p]
    /\ UNCHANGED <<refresh, held, clock, enabled, history>>

\* Mutant of Save: the presented token's document is written back as it was read.
SaveAgain(r) ==
    /\ At(r, "save")
    /\ refresh' = [p \in Pairs |-> IF p \in {req[r].new, req[r].ref} THEN "active" ELSE refresh[p]]
    /\ held' = held \cup {req[r].new}
    /\ Answer(r)
    /\ UNCHANGED <<owner, parent, access, clock, enabled, history>>

\* saveToken, then setCookies.  The answer may not reach the client.
Save(r) ==
    /\ At(r, "save")
    /\ refresh' = [refresh EXCEPT ![req[r].new] = "active"]
    /\ held' \in {held, held \cup {req[r].new}}
    /\ Answer(r)
    /\ UNCHANGED <<owner, parent, access, clock, enabled, history>>

-----------------------------------------------------------------------------
(* POST /auth/refresh                                                      *)

\* ParseToken and findMatchingToken.  No match answers 401 and changes nothing.
RefreshBegin(r, p) ==
    /\ p \in held
    /\ Matches(owner[p], p)
    /\ Begin(r, [Idle EXCEPT !.pc = "rotate", !.user = owner[p], !.ref = p])
    /\ UNCHANGED <<store, clock, enabled, history>>

\* Mutant of Rotate: the old token is left for the end and then forgotten.
RotateNothing(r) ==
    /\ At(r, "rotate")
    /\ Goto(r, "issue")
    /\ UNCHANGED <<store, clock, enabled, history>>

\* RevokeByID: no condition on "revoked", so a second caller succeeds as well.
Rotate(r) ==
    /\ At(r, "rotate")
    /\ Revoke({req[r].ref})
    /\ Goto(r, "issue")
    /\ UNCHANGED <<owner, parent, access, held, clock, enabled, history>>

-----------------------------------------------------------------------------
(* POST /auth/logout                                                       *)

\* AuthMiddleware accepted access token p, also when Redis did not answer; q is
\* the refresh cookie, if any.
LogoutBegin(r, p, via, q) ==
    /\ p \in held
    /\ \E answered \in BOOLEAN : AccessAccepted(p, answered)
    /\ Begin(r, [Idle EXCEPT !.pc = "out_access", !.via = via,
                             !.user = owner[p], !.acc = p, !.ref = q])
    /\ UNCHANGED <<store, clock, enabled, history>>

\* Mutant of OutAccess: the key is kept when a refresh cookie came along.
OutAccessOrRefresh(r) ==
    /\ At(r, "out_access")
    /\ access' = IF enabled /\ req[r].via = "cookie" /\ req[r].ref = None
                 THEN access \ {req[r].acc} ELSE access
    /\ Goto(r, "out_find")
    /\ UNCHANGED <<owner, parent, refresh, held, clock, enabled, history>>

\* Only the cookie is read: a token of the Authorization header stays.
OutAccess(r) ==
    /\ At(r, "out_access")
    /\ access' = IF enabled /\ req[r].via = "cookie" /\ req[r].acc \notin expired
                 THEN access \ {req[r].acc} ELSE access
    /\ Goto(r, "out_find")
    /\ UNCHANGED <<owner, parent, refresh, held, clock, enabled, history>>

\* findMatchingToken found the document.
OutFind(r) ==
    /\ At(r, "out_find")
    /\ Matches(req[r].user, req[r].ref)
    /\ Goto(r, "out_revoke")
    /\ UNCHANGED <<store, clock, enabled, history>>

\* No match, or MongoDB answered an error: either way the step is skipped.
OutSkip(r) ==
    /\ At(r, "out_find")
    /\ Goto(r, "out_profile")
    /\ UNCHANGED <<store, clock, enabled, history>>

\* RevokeByID.
OutRevoke(r) ==
    /\ At(r, "out_revoke")
    /\ Revoke({req[r].ref})
    /\ req' = [req EXCEPT ![r].pc = "out_profile", ![r].before = {req[r].ref}]
    /\ UNCHANGED <<owner, parent, access, held, clock, enabled, history>>

\* The profile key is deleted, the cookies are cleared, 200.
OutProfile(r) ==
    /\ At(r, "out_profile")
    /\ closedAccess' = IF enabled /\ req[r].via = "cookie"
                       THEN closedAccess \cup {req[r].acc} ELSE closedAccess
    /\ closedRefresh' = closedRefresh \cup req[r].before
    /\ Answer(r)
    /\ UNCHANGED <<store, clock, enabled>>

-----------------------------------------------------------------------------
(* POST /auth/logout-all, and the tail of POST /auth/reset-password        *)

AllBegin(r, p, via) ==
    /\ p \in held
    /\ \E answered \in BOOLEAN : AccessAccepted(p, answered)
    /\ Begin(r, [Idle EXCEPT !.pc = "all_revoke", !.via = via,
                             !.user = owner[p], !.before = OnRecord(owner[p])])
    /\ UNCHANGED <<store, clock, enabled, history>>

\* The reset token matched and the new password is stored.
ResetBegin(r, u) ==
    /\ Begin(r, [Idle EXCEPT !.pc = "all_revoke", !.via = "reset",
                             !.user = u, !.before = OnRecord(u)])
    /\ UNCHANGED <<store, clock, enabled, history>>

\* RevokeAll: one UpdateMany.  DelByPattern returns at once without a cache.
AllRevoke(r) ==
    /\ At(r, "all_revoke")
    /\ Revoke({p \in PairsOf(req[r].user) : refresh[p] = "active"})
    /\ Goto(r, IF enabled THEN "scan" ELSE "all_profile")
    /\ UNCHANGED <<owner, parent, access, held, clock, enabled, history>>

\* SCAN promises every key that is present from its first call to its last.
ScanBegin(r) ==
    /\ At(r, "scan")
    /\ req' = [req EXCEPT ![r].pc = "unlink",
                          ![r].todo = access \cap PairsOf(req[r].user)]
    /\ UNCHANGED <<store, clock, enabled, history>>

\* One page: any of the matching keys, keys written meanwhile included.
UnlinkPage(r, page) ==
    /\ At(r, "unlink")
    /\ page # {} /\ page \subseteq access \cap PairsOf(req[r].user)
    /\ access' = access \ page
    /\ req' = [req EXCEPT ![r].todo = @ \ page]
    /\ UNCHANGED <<owner, parent, refresh, held, clock, enabled, history>>

\* Mutant of ScanEnd: the loop stops at the first page whatever the cursor.
ScanEndAfterOnePage(r) ==
    /\ At(r, "unlink")
    /\ req' = [req EXCEPT ![r].pc = "all_profile", ![r].todo = {}]
    /\ UNCHANGED <<store, clock, enabled, history>>

\* The cursor is 0 again.
ScanEnd(r) ==
    /\ At(r, "unlink")
    /\ req[r].todo \cap access = {}
    /\ req' = [req EXCEPT ![r].pc = "all_profile", ![r].todo = {}]
    /\ UNCHANGED <<store, clock, enabled, history>>

\* The profile key is deleted, 200.
AllProfile(r) ==
    /\ At(r, "all_profile")
    /\ closedRefresh' = closedRefresh \cup req[r].before
    /\ closedAccess' = IF enabled THEN closedAccess \cup req[r].before ELSE closedAccess
    /\ Answer(r)
    /\ UNCHANGED <<store, clock, enabled>>

-----------------------------------------------------------------------------
(* Failures and time                                                       *)

\* A call answers an error, whether or not it took effect.
Abort(r) ==
    /\ ~At(r, "idle")
    /\ Answer(r)
    /\ UNCHANGED <<store, clock, enabled, history>>

\* The process stops and starts: the stores stay, the cache is probed once.
Restart ==
    /\ enabled' \in BOOLEAN
    /\ req' = [r \in Requests |-> Idle]
    /\ UNCHANGED <<store, clock, history>>

Expire(p) ==
    /\ TimePasses /\ p \in held
    /\ expired' = expired \cup {p}
    /\ UNCHANGED <<store, lapsed, enabled, req, history>>

Lapse(p) ==
    /\ TimePasses /\ p \in expired
    /\ lapsed' = lapsed \cup {p}
    /\ UNCHANGED <<store, expired, enabled, req, history>>

\* A key's TTL is over, or Redis lost it.
Evict(p) ==
    /\ TimePasses /\ p \in access
    /\ access' = access \ {p}
    /\ UNCHANGED <<owner, parent, refresh, held, clock, enabled, req, history>>

-----------------------------------------------------------------------------
Login(r) == (\E p \in Pairs : Issue(r, p)) \/ Save(r)

Refresh(r) == Rotate(r) \/ Login(r)

Logout(r) == OutAccess(r) \/ OutFind(r) \/ OutSkip(r) \/ OutRevoke(r) \/ OutProfile(r)

LogoutAll(r) == \/ AllRevoke(r) \/ ScanBegin(r) \/ ScanEnd(r) \/ AllProfile(r)
                \/ \E page \in SUBSET Pairs : UnlinkPage(r, page)

Arrive(r) ==
    \/ \E u \in Users : \/ "login" \in Operations /\ LoginBegin(r, u)
                        \/ "reset" \in Operations /\ ResetBegin(r, u)
    \/ \E p \in Pairs :
        \/ "refresh" \in Operations /\ RefreshBegin(r, p)
        \/ \E via \in {"cookie", "bearer"} :
            \/ "logout-all" \in Operations /\ AllBegin(r, p, via)
            \/ /\ "logout" \in Operations
               /\ \E q \in held \cup {None} : LogoutBegin(r, p, via, q)

Handle(r) == Refresh(r) \/ Logout(r) \/ LogoutAll(r) \/ Abort(r)

Age == \E p \in Pairs : Expire(p) \/ Lapse(p) \/ Evict(p)

Next == \/ \E r \in Requests : Arrive(r) \/ Handle(r)
        \/ Restart
        \/ Age

Spec == Init /\ [][Next]_vars

-----------------------------------------------------------------------------
(* Properties                                                              *)

\* Every variable has its type.
TypeOK ==
    /\ owner \in [Pairs -> Users \cup {None}]
    /\ parent \in [Pairs -> Pairs \cup {None}]
    /\ refresh \in [Pairs -> {"none", "active", "revoked"}]
    /\ access \subseteq Pairs /\ held \subseteq Pairs
    /\ expired \subseteq Pairs /\ lapsed \subseteq Pairs
    /\ enabled \in BOOLEAN
    /\ req \in [Requests -> Request]
    /\ closedAccess \subseteq Pairs /\ closedRefresh \subseteq Pairs

\* While the cache is on and answers, an access token that a logout (cookie), a
\* logout-all or a password reset answered 200 for is never accepted again,
\* whatever logins, refreshes and SCAN pages ran beside it (DelByPattern).
ClosedAccessRefused ==
    enabled => \A p \in closedAccess : ~AccessAccepted(p, TRUE)

\* A refresh token that such an answer covered is revoked for good: no
\* concurrent handler writes "revoked: false" over it.
ClosedRefreshRevoked ==
    \A p \in closedRefresh : refresh[p] = "revoked"

\* What an answered logout, logout-all or reset closed stays closed, through
\* both of the stores that could admit it again.
ClosedStaysClosed == ClosedAccessRefused /\ ClosedRefreshRevoked

\* RefreshTokens revokes before it creates: an old refresh token and its
\* successor are never both usable, even with two refreshes of one token.
SuccessorReplacesParent ==
    \A p \in Pairs : parent[p] # None => refresh[parent[p]] = "revoked"

\* A client never holds a pair of which MongoDB has no record: SaveTokenPair
\* fails before the cookies are set.
HeldIsRecorded ==
    \A p \in held : owner[p] \in Users /\ refresh[p] # "none"

\* A session of one user is ended only by a handler that runs for this user:
\* neither a refresh cookie of someone else nor the key pattern reaches over.
OnlyOwnSessionsEnd ==
    [][\A p \in Pairs :
         \/ refresh[p] = "active" /\ refresh'[p] = "revoked"
         \/ ~TimePasses /\ p \in access /\ p \notin access'
         => \E r \in Requests : req[r].user = owner[p] /\ ~At(r, "idle")]_vars

\* The ledger that the collection "tokens" keeps; a pair whose document is not
\* stored yet is not on it.
Life   == [p \in Pairs |-> CASE refresh[p] = "active"  -> "live"
                             [] refresh[p] = "revoked" -> "over"
                             [] OTHER                  -> "none"]
Holder == [p \in Pairs |-> IF refresh[p] = "none" THEN None ELSE owner[p]]
Source == [p \in Pairs |-> IF refresh[p] = "none" THEN None ELSE parent[p]]

Ledger == INSTANCE SessionLedger WITH
    life <- Life, holder <- Holder, source <- Source, told <- closedRefresh

\* The endpoints, call by call and with every interleaving and failure, keep
\* the promise of module SessionLedger.
ImplementsLedger == Ledger!Spec

\* auth_handler.go, LogoutAll: "ends all active sessions of the user".  When
\* it answers 200, no session that was on record when it began goes on with a
\* refresh token obtained meanwhile.
LogoutAllEndsSessions ==
    [][\A r \in Requests :
         AllProfile(r) /\ req[r].via # "reset" =>
           ~ \E p \in held : parent[p] \in req[r].before /\ refresh[p] = "active"]_vars
=============================================================================
