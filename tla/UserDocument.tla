---------------------------- MODULE UserDocument ----------------------------
(***************************************************************************)
(* The user document of MongoDB and the cached profile in Redis.           *)
(*                                                                         *)
(* Four handlers change a user: POST /profile, POST /auth/forgot-password, *)
(* POST /auth/reset-password and the OAuth callback that links a Yandex    *)
(* account.  Each reads the whole document, changes some fields in memory  *)
(* and replaces the whole document (user_repository.go Update); nothing    *)
(* compares versions, so a handler can write back what another has         *)
(* replaced meanwhile.  GET /profile and GET /auth/whoami read through the *)
(* cache.  Every call to a store is an action of its own.                  *)
(*                                                                         *)
(* What the calls of a reset do to the sessions is the subject of module   *)
(* AuthSessions, and how a file is deleted that of module FileStore.       *)
(***************************************************************************)
EXTENDS Naturals

CONSTANTS
    Users, Requests,
    Names,       \* what display_name and bio can be set to
    Passwords,   \* what a reset can set
    Tokens,      \* the pool of reset tokens that can be generated
    Files,       \* files that were uploaded before
    None,
    Operations,  \* the endpoints the clients of this instance call
    MaxWrites,   \* bound on the writes of one document
    MaxFaults    \* bound on Redis errors, failed deletions and lost answers

ASSUME NoneIsNothing == None \notin Users \cup Names \cup Passwords \cup Tokens \cup Files
ASSUME OperationsAreEndpoints == Operations \subseteq {"get", "profile", "forgot", "reset", "link"}
ASSUME BoundsAreNumbers == MaxWrites \in Nat /\ MaxFaults \in Nat

VARIABLES
    doc,        \* the documents
    files,      \* files whose metadata is not deleted
    fileOwner,  \* user_id of a file, never changed; None is any other user
    cache,      \* wp:users:profile:{id}
    enabled,    \* cache.Service.enabled of the running process
    lapsed,     \* reset tokens past their thirty minutes
    req,        \* the local variables of every handler
    faults,
    \* history
    issued,     \* the user a reset token was answered to
    used,       \* the passwords a reset token was exchanged for
    tainted,    \* profiles that a race, an error or a process without Redis
                \* left behind
    behind,     \* profiles written by a handler that drops no key
    revived     \* reset tokens that a late writer put back

stores  == <<doc, files, fileOwner, cache, enabled>>
history == <<issued, used, tainted, behind, revived>>
vars    == <<stores, lapsed, req, faults, history>>

\* password: None is the one the user registered with; reset: the token whose
\* hash and expiry are set; yandex: whether yandex_id is; updated: UpdatedAt,
\* which every write of the document sets, as the number of that write (two
\* within a millisecond are told apart, and MongoDB's rounding is left out).
Doc == [password : Passwords \cup {None}, reset : Tokens \cup {None},
        yandex : BOOLEAN, name : Names \cup {None}, avatar : Files \cup {None},
        updated : 0..MaxWrites]
Blank == [password |-> None, reset |-> None, yandex |-> FALSE,
          name |-> None, avatar |-> None, updated |-> 0]

\* ToResponse
Public(d) == [name |-> d.name, avatar |-> d.avatar, updated |-> d.updated]
Profiles  == {Public(d) : d \in Doc}
Missing   == [none |-> TRUE]

Steps == {"idle", "find", "check", "write", "drop", "avatar", "fill",
          "revoke", "keys", "close"}
Request == [pc : Steps, op : Operations \cup {None}, user : Users \cup {None},
            copy : Doc,                   \* the document in memory
            old : Files \cup {None},      \* oldAvatarID
            token : Tokens \cup {None},   \* the reset token made or presented
            late : BOOLEAN]               \* history: written since it was read
Idle == [pc |-> "idle", op |-> None, user |-> None, copy |-> Blank,
         old |-> None, token |-> None, late |-> FALSE]

Init ==
    /\ doc = [u \in Users |-> Blank]
    /\ files = Files
    /\ fileOwner \in [Files -> Users \cup {None}]
    /\ cache = [u \in Users |-> Missing] /\ enabled \in BOOLEAN
    /\ lapsed = {}
    /\ req = [r \in Requests |-> Idle]
    /\ faults = 0
    /\ issued = [t \in Tokens |-> None]
    /\ used = [t \in Tokens |-> {}]
    /\ tainted = {} /\ behind = {} /\ revived = {}

At(r, step) == req[r].pc = step
Goto(r, step) == req' = [req EXCEPT ![r].pc = step]
Done(r)     == req' = [req EXCEPT ![r] = Idle]
Begin(r, op, fields) ==
    /\ op \in Operations /\ At(r, "idle")
    /\ req' = [req EXCEPT ![r] = [fields EXCEPT !.op = op]]
Fault == faults < MaxFaults /\ faults' = faults + 1
UsersAt(steps) == {req[r].user : r \in {s \in Requests : req[s].pc \in steps}}

\* Update: UpdatedAt is set in the copy, and ReplaceOne writes all of it.
Stamped(r) == [req[r].copy EXCEPT !.updated = doc[req[r].user].updated + 1]
After(r, step) == [req[r] EXCEPT !.pc = step, !.late = FALSE, !.copy = Stamped(r)]

\* The token in a late copy that the document has no longer.
Revives(r) == {t \in Tokens : /\ req[r].late /\ t = req[r].copy.reset
                              /\ t \notin {req[r].token, doc[req[r].user].reset}}

\* Whoever else holds a copy is late now.
Replace(r, next) ==
    LET u == req[r].user IN
    /\ doc[u].updated < MaxWrites
    /\ doc' = [doc EXCEPT ![u] = Stamped(r)]
    /\ tainted' = IF req[r].late THEN tainted \cup {u} ELSE tainted
    /\ behind' = IF req[r].op \in {"forgot", "link"} THEN behind \cup {u} ELSE behind
    /\ revived' = revived \cup Revives(r)
    /\ req' = [s \in Requests |->
                 IF s = r THEN next
                 ELSE IF req[s].user = u /\ ~At(s, "find")
                      THEN [req[s] EXCEPT !.late = TRUE] ELSE req[s]]

\* Set and Del of the profile's key.  In a process that started without Redis
\* they do nothing and report no error.
Put(u, entry, late) ==
    IF enabled
    THEN /\ cache' = [cache EXCEPT ![u] = entry]
         /\ tainted' = IF late THEN tainted \cup {u} ELSE tainted \ {u}
         /\ behind' = behind \ {u}
    ELSE UNCHANGED <<cache, tainted, behind>>
Drop(u) ==
    IF enabled
    THEN /\ cache' = [cache EXCEPT ![u] = Missing]
         /\ tainted' = tainted \ {u} /\ behind' = behind \ {u}
    ELSE /\ tainted' = tainted \cup {u}
         /\ UNCHANGED <<cache, behind>>

-----------------------------------------------------------------------------
(* GET /profile and GET /auth/whoami                                       *)

\* A hit answers from the cache and changes nothing.  There is a miss beside
\* an entry when Redis answers an error or was missing at the start.
GetMiss(r, u) ==
    /\ Begin(r, "get", [Idle EXCEPT !.pc = "find", !.user = u])
    /\ UNCHANGED <<stores, lapsed, faults, history>>

GetFind(r) ==
    /\ At(r, "find")
    /\ req' = [req EXCEPT ![r].pc = "fill", ![r].copy = doc[req[r].user]]
    /\ UNCHANGED <<stores, lapsed, faults, history>>

\* Mutant of Fill: the document is cached instead of the response.
FillDocument(r) ==
    /\ At(r, "fill")
    /\ Put(req[r].user, req[r].copy, req[r].late)
    /\ Done(r)
    /\ UNCHANGED <<doc, files, fileOwner, enabled, lapsed, faults, issued, used, revived>>

\* cache.Set of the response; the last step of POST /profile as well.
Fill(r) ==
    /\ At(r, "fill")
    /\ Put(req[r].user, Public(req[r].copy), req[r].late)
    /\ Done(r)
    /\ UNCHANGED <<doc, files, fileOwner, enabled, lapsed, faults, issued, used, revived>>

-----------------------------------------------------------------------------
(* POST /profile                                                           *)

\* Mutant of ProfileFind: the document is rebuilt from the public profile.
ProfileFindPublic(r, u, name, avatar) ==
    /\ Begin(r, "profile",
         [Idle EXCEPT !.pc = IF avatar = None THEN "write" ELSE "check",
                      !.user = u, !.old = doc[u].avatar,
                      !.copy = [Blank EXCEPT
                          !.name = IF name = None THEN doc[u].name ELSE name,
                          !.avatar = IF avatar = None THEN doc[u].avatar ELSE avatar]])
    /\ UNCHANGED <<stores, lapsed, faults, history>>

\* FindByID; None is a field the request does not name.
ProfileFind(r, u, name, avatar) ==
    /\ Begin(r, "profile",
         [Idle EXCEPT !.pc = IF avatar = None THEN "write" ELSE "check",
                      !.user = u, !.old = doc[u].avatar,
                      !.copy = [doc[u] EXCEPT
                          !.name = IF name = None THEN @ ELSE name,
                          !.avatar = IF avatar = None THEN @ ELSE avatar]])
    /\ UNCHANGED <<stores, lapsed, faults, history>>

\* Mutant of AvatarCheck: any file that exists will do.
AvatarCheckAnyone(r) ==
    /\ At(r, "check")
    /\ Goto(r, "write")
    /\ UNCHANGED <<stores, lapsed, faults, history>>

\* GetMetadata found a file of the user; the metadata of one that was deleted
\* may still be cached.  Otherwise 403 or 404, and nothing changes.
AvatarCheck(r) ==
    /\ At(r, "check")
    /\ fileOwner[req[r].copy.avatar] = req[r].user
    /\ Goto(r, "write")
    /\ UNCHANGED <<stores, lapsed, faults, history>>

ProfileWrite(r) ==
    /\ At(r, "write") /\ req[r].op = "profile"
    /\ Replace(r, After(r, "drop"))
    /\ UNCHANGED <<files, fileOwner, cache, enabled, lapsed, faults, issued, used>>

\* Where Update goes after invalidateProfileCache.
AfterDrop(r) == IF req[r].old # None /\ req[r].old # req[r].copy.avatar
                THEN "avatar" ELSE "fill"

\* Mutant of ProfileDrop: the cached profile is left for the fill to replace.
ProfileDropNothing(r) ==
    /\ At(r, "drop")
    /\ Goto(r, AfterDrop(r))
    /\ UNCHANGED <<stores, lapsed, faults, history>>

ProfileDrop(r) ==
    /\ At(r, "drop")
    /\ Drop(req[r].user)
    /\ Goto(r, AfterDrop(r))
    /\ UNCHANGED <<doc, files, fileOwner, enabled, lapsed, faults, issued, used, revived>>

\* Redis answers an error: logged, and the handler goes on.
ProfileDropFails(r) ==
    /\ At(r, "drop") /\ enabled /\ Fault
    /\ tainted' = tainted \cup {req[r].user}
    /\ Goto(r, AfterDrop(r))
    /\ UNCHANGED <<stores, lapsed, issued, used, behind, revived>>

\* fileService.Delete of the previous avatar; an error is only logged.
AvatarDelete(r) ==
    /\ At(r, "avatar")
    /\ Goto(r, "fill")
    /\ \/ files' = files \ {req[r].old} /\ UNCHANGED faults
       \/ Fault /\ UNCHANGED files
    /\ UNCHANGED <<doc, fileOwner, cache, enabled, lapsed, history>>

-----------------------------------------------------------------------------
(* POST /auth/forgot-password and POST /auth/reset-password                *)

\* FindByEmail; the new hash and expiry replace those of an earlier token.
ForgotFind(r, u, t) ==
    /\ issued[t] = None /\ \A s \in Requests : req[s].token # t
    /\ Begin(r, "forgot", [Idle EXCEPT !.pc = "write", !.user = u, !.token = t,
                                       !.copy = [doc[u] EXCEPT !.reset = t]])
    /\ UNCHANGED <<stores, lapsed, faults, history>>

\* Update, then the token is answered.  No cache is touched.
ForgotWrite(r) ==
    /\ At(r, "write") /\ req[r].op = "forgot"
    /\ Replace(r, Idle)
    /\ issued' = [issued EXCEPT ![req[r].token] = req[r].user]
    /\ UNCHANGED <<files, fileOwner, cache, enabled, lapsed, faults, used>>

\* Mutant of ResetTarget: the first user with an active token is taken.
ResetTargetFirst(t) == {u \in Users : doc[u].reset \notin lapsed \cup {None}}

\* FindUsersWithActiveResetToken and CheckOpaqueToken.
ResetTarget(t) == {u \in Users : doc[u].reset = t /\ t \notin lapsed}

\* Mutant of ResetFind: the token is left to lapse.
ResetFindKeepsToken(r, u, t, p) ==
    /\ issued[t] # None
    /\ u \in ResetTarget(t)
    /\ Begin(r, "reset", [Idle EXCEPT !.pc = "write", !.user = u, !.token = t,
                            !.copy = [doc[u] EXCEPT !.password = p]])
    /\ UNCHANGED <<stores, lapsed, faults, history>>

ResetFind(r, u, t, p) ==
    /\ issued[t] # None
    /\ u \in ResetTarget(t)
    /\ Begin(r, "reset", [Idle EXCEPT !.pc = "write", !.user = u, !.token = t,
                            !.copy = [doc[u] EXCEPT !.password = p, !.reset = None]])
    /\ UNCHANGED <<stores, lapsed, faults, history>>

ResetWrite(r) ==
    /\ At(r, "write") /\ req[r].op = "reset"
    /\ Replace(r, After(r, "revoke"))
    /\ used' = [used EXCEPT ![req[r].token] = @ \cup {req[r].copy.password}]
    /\ UNCHANGED <<files, fileOwner, cache, enabled, lapsed, faults, issued>>

\* RevokeAll, then the deletion of the access keys by pages: module
\* AuthSessions has what they change.  The profile key is due meanwhile.
ResetRevoke(r) ==
    /\ At(r, "revoke")
    /\ Goto(r, "keys")
    /\ UNCHANGED <<stores, lapsed, faults, history>>

ResetKeys(r) ==
    /\ At(r, "keys")
    /\ Goto(r, "close")
    /\ UNCHANGED <<stores, lapsed, faults, history>>

\* The profile key goes last; its error is a 400.
ResetClose(r) ==
    /\ At(r, "close")
    /\ Drop(req[r].user)
    /\ Done(r)
    /\ UNCHANGED <<doc, files, fileOwner, enabled, lapsed, faults, issued, used, revived>>

-----------------------------------------------------------------------------
(* The OAuth callback for a user found by email                            *)

LinkFind(r, u) ==
    /\ ~doc[u].yandex
    /\ Begin(r, "link", [Idle EXCEPT !.pc = "write", !.user = u,
                                     !.copy = [doc[u] EXCEPT !.yandex = TRUE]])
    /\ UNCHANGED <<stores, lapsed, faults, history>>

LinkWrite(r) ==
    /\ At(r, "write") /\ req[r].op = "link"
    /\ Replace(r, Idle)
    /\ UNCHANGED <<files, fileOwner, cache, enabled, lapsed, faults, issued, used>>

-----------------------------------------------------------------------------
(* Failures and time                                                       *)

\* The steps of a reset whose document is written and whose profile is not
\* deleted.
Resetting == {"revoke", "keys", "close"}

\* A call answers an error: 400 or 500, and nothing is undone.
Abort(r) ==
    /\ req[r].pc \in {"find", "check", "write", "fill"} \cup Resetting
    /\ behind' = IF req[r].pc \in Resetting THEN behind \cup {req[r].user} ELSE behind
    /\ Done(r)
    /\ UNCHANGED <<stores, lapsed, faults, issued, used, tainted, revived>>

\* ReplaceOne took effect and was answered with an error.
WriteUnanswered(r) ==
    /\ At(r, "drop") /\ Fault
    /\ tainted' = tainted \cup {req[r].user}
    /\ Done(r)
    /\ UNCHANGED <<stores, lapsed, issued, used, behind, revived>>

\* The process dies: a profile that was written stays in the cache as it was.
\* The next process asks anew whether Redis answers.
Crash ==
    /\ enabled' \in BOOLEAN
    /\ tainted' = tainted \cup UsersAt({"drop"})
    /\ behind' = behind \cup UsersAt(Resetting)
    /\ req' = [r \in Requests |-> Idle]
    /\ UNCHANGED <<doc, files, fileOwner, cache, lapsed, faults, issued, used, revived>>

Lapse(t) ==
    /\ issued[t] # None
    /\ lapsed' = lapsed \cup {t}
    /\ UNCHANGED <<stores, req, faults, history>>

\* The TTL of the key ends, or a logout deletes it.
Expire(u) ==
    /\ cache[u] # Missing
    /\ cache' = [cache EXCEPT ![u] = Missing]
    /\ tainted' = tainted \ {u} /\ behind' = behind \ {u}
    /\ UNCHANGED <<doc, files, fileOwner, enabled, lapsed, req, faults,
                   issued, used, revived>>

-----------------------------------------------------------------------------
Get(r) == (\E u \in Users : GetMiss(r, u)) \/ GetFind(r) \/ Fill(r)

UpdateProfile(r) ==
    \/ \E u \in Users, name \in Names \cup {None}, avatar \in Files \cup {None} :
         ProfileFind(r, u, name, avatar)
    \/ AvatarCheck(r) \/ ProfileWrite(r) \/ ProfileDrop(r) \/ ProfileDropFails(r)
    \/ AvatarDelete(r) \/ WriteUnanswered(r)

Recover(r) ==
    \/ \E u \in Users, t \in Tokens :
         ForgotFind(r, u, t) \/ \E p \in Passwords : ResetFind(r, u, t, p)
    \/ ForgotWrite(r) \/ ResetWrite(r)
    \/ ResetRevoke(r) \/ ResetKeys(r) \/ ResetClose(r)

Link(r) == (\E u \in Users : LinkFind(r, u)) \/ LinkWrite(r)

Next == \/ \E r \in Requests : \/ Get(r) \/ UpdateProfile(r) \/ Recover(r)
                               \/ Link(r) \/ Abort(r)
        \/ Crash
        \/ \E t \in Tokens : Lapse(t)
        \/ \E u \in Users : Expire(u)

Spec == Init /\ [][Next]_vars

-----------------------------------------------------------------------------
(* Properties                                                              *)

TypeOK ==
    /\ doc \in [Users -> Doc]
    /\ files \subseteq Files /\ fileOwner \in [Files -> Users \cup {None}]
    /\ cache \in [Users -> Profiles \cup {Missing}] /\ enabled \in BOOLEAN
    /\ lapsed \subseteq Tokens
    /\ req \in [Requests -> Request]
    /\ faults \in 0..MaxFaults
    /\ issued \in [Tokens -> Users \cup {None}]
    /\ used \in [Tokens -> SUBSET Passwords]
    /\ tainted \subseteq Users /\ behind \subseteq Users /\ revived \subseteq Tokens

\* The fields a handler is there to change.
Own(op) == CASE op = "profile" -> {"updated", "name", "avatar"}
             [] op = "forgot"  -> {"updated", "reset"}
             [] op = "reset"   -> {"updated", "password", "reset"}
             [] op = "link"    -> {"updated", "yandex"}
             [] OTHER          -> {}

Write(r) == ProfileWrite(r) \/ ForgotWrite(r) \/ ResetWrite(r) \/ LinkWrite(r)

\* A handler that no other write overtook between its read and its ReplaceOne
\* changes its own fields and no other: whatever is lost is lost to an overlap.
OverlapFreeWritesKeep ==
    [][\A r \in Requests : Write(r) /\ ~req[r].late =>
         \A f \in DOMAIN Blank \ Own(req[r].op) :
             doc'[req[r].user][f] = doc[req[r].user][f]]_vars

\* A password is the one of the registration or came with a reset token that
\* was made for this user, whatever stale documents are written back.
PasswordsComeWithTokens ==
    \A u \in Users : doc[u].password # None =>
        \E t \in Tokens : issued[t] = u /\ doc[u].password \in used[t]

\* The avatar in a document, and so in a profile, is a file of this user.
AvatarIsOwn ==
    \A u \in Users : /\ doc[u].avatar # None => fileOwner[doc[u].avatar] = u
                     /\ cache[u] # Missing /\ cache[u].avatar # None =>
                          fileOwner[cache[u].avatar] = u

\* A token buys a second password only by an overlap: its two resets both read
\* the document before either wrote it, or a late writer put the token back.
TokenSpentTwiceOnlyByOverlap ==
    [][\A r \in Requests : ResetWrite(r) /\ used[req[r].token] # {} =>
         req[r].late \/ req[r].token \in revived]_vars

\* A cached profile has the document's name and avatar, except while the writer
\* has still to delete it, after a lost update or a late fill, or when the
\* deletion failed or met a process that started without Redis.  Its updatedAt
\* is moreover that of an older write after a forgotten password or a linked
\* account, whose handlers drop no key, and while a reset is unfinished.
ProfileStaleOnlyByOverlap ==
    \A u \in Users :
      \/ cache[u] = Missing \/ u \in tainted \cup UsersAt({"drop"})
      \/ /\ \A f \in {"name", "avatar"} : cache[u][f] = doc[u][f]
         /\ \/ cache[u].updated = doc[u].updated
            \/ u \in behind \cup UsersAt(Resetting)
=============================================================================
