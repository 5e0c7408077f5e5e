------------------------- MODULE UserDocumentProofs -------------------------
(***************************************************************************)
(* Theorems of UserDocument, for any number of users, requests, tokens and *)
(* files: what a handler writes back of a document it read before, what    *)
(* the profile cache then holds, and how often a reset token is spent.     *)
(***************************************************************************)
EXTENDS UserDocument, TLAPS

USE NoneIsNothing, BoundsAreNumbers

(***************************************************************************)
(* The inductive invariant.  What is true of the documents is true of the  *)
(* copies that handlers hold, since those are what is written back; and a  *)
(* copy that no write overtook is the document but for the fields its      *)
(* handler is there to change.                                             *)
(***************************************************************************)

Owned(u, file) == file # None => fileOwner[file] = u
Known(u, p)    == p # None => \E t \in Tokens : issued[t] = u /\ p \in used[t]
Sent(u, t)     == t # None => issued[t] = u

Writes(r, op) == req[r].pc = "write" /\ req[r].op = op
Reading == {"idle", "find"}
Written == {"drop", "avatar", "fill", "revoke", "keys", "close"}

UserOK(u) ==
    /\ Owned(u, doc[u].avatar)
    /\ Known(u, doc[u].password)
    /\ Sent(u, doc[u].reset)

Dropping(u)  == \E r \in Requests : req[r].pc = "drop" /\ req[r].user = u
Unclosed(u) == \E r \in Requests : req[r].pc \in Resetting /\ req[r].user = u

Shown(u) == /\ cache[u].name = doc[u].name /\ cache[u].avatar = doc[u].avatar
            /\ cache[u].updated = doc[u].updated \/ u \in behind \/ Unclosed(u)

CacheOK(u) ==
    /\ cache[u] # Missing => Owned(u, cache[u].avatar)
    /\ cache[u] = Missing \/ u \in tainted \/ Dropping(u) \/ Shown(u)

\* A token that was spent is in no document, unless a late writer put it there.
SpentOK ==
    \A t \in Tokens :
      /\ issued[t] = None => used[t] = {}
      /\ \A u \in Users : doc[u].reset = t /\ used[t] # {} => t \in revived

CopyOK(r) ==
    LET q == req[r] IN
    /\ q.pc # "idle" => q.user \in Users
    /\ q.pc = "check" => q.op = "profile" /\ q.copy.avatar \in Files
    /\ q.pc \notin Reading \cup {"check"} => Owned(q.user, q.copy.avatar)
    /\ q.pc \notin Reading =>
         /\ Writes(r, "reset") \/ Known(q.user, q.copy.password)
         /\ Writes(r, "forgot") \/ Sent(q.user, q.copy.reset)

\* A token is nobody else's until it is issued, and then it is its user's.
TokenOK(r) ==
    /\ Writes(r, "reset") =>
         /\ req[r].token \in Tokens /\ issued[req[r].token] = req[r].user
         /\ req[r].copy.password \in Passwords /\ req[r].copy.reset = None
    /\ req[r].op \notin {"forgot", "reset"} => req[r].token = None
    /\ Writes(r, "forgot") =>
         /\ req[r].token \in Tokens /\ issued[req[r].token] = None
         /\ req[r].copy.reset = req[r].token
         /\ \A s \in Requests \ {r} : req[s].token # req[r].token

Keeps(op, new, d) ==
    /\ op # "reset" => new.password = d.password
    /\ op \notin {"forgot", "reset"} => new.reset = d.reset
    /\ op # "link" => new.yandex = d.yandex
    /\ op # "profile" => new.name = d.name /\ new.avatar = d.avatar

Fresh(r) ==
    LET q == req[r] IN q.late = FALSE =>
    /\ q.pc \in {"check", "write"} => Keeps(q.op, q.copy, doc[q.user])
    /\ Writes(r, "reset") => doc[q.user].reset = q.token
    /\ q.pc \in Written => q.copy = doc[q.user]

HandlerOK(r) == CopyOK(r) /\ TokenOK(r) /\ Fresh(r)

IInv == /\ TypeOK
        /\ \A u \in Users : UserOK(u) /\ CacheOK(u)
        /\ \A r \in Requests : HandlerOK(r)
        /\ SpentOK

(***************************************************************************)
(* The local variables of a handler.                                       *)
(***************************************************************************)

LEMMA IdleRequest ==
    /\ Idle \in Request /\ Idle.pc = "idle" /\ Idle.user = None /\ Idle.token = None
    /\ Idle.late = FALSE /\ Idle.op = None /\ Blank \in Doc
BY DEF Idle, Request, Steps, Doc, Blank

LEMMA PublicProfile ==
    ASSUME NEW d \in Doc
    PROVE  /\ Public(d) \in Profiles /\ Public(d) # Missing
           /\ Public(d).name = d.name /\ Public(d).avatar = d.avatar
           /\ Public(d).updated = d.updated
<1>1. DOMAIN Public(d) # DOMAIN Missing
  BY DEF Public, Missing
<1> QED BY <1>1 DEF Public, Profiles

LEMMA Goes ==
    ASSUME TypeOK, NEW r \in Requests, NEW step \in Steps, Goto(r, step)
    PROVE  /\ req' \in [Requests -> Request] /\ req'[r].pc = step
           /\ req'[r].op = req[r].op /\ req'[r].user = req[r].user
           /\ req'[r].copy = req[r].copy /\ req'[r].old = req[r].old
           /\ req'[r].token = req[r].token /\ req'[r].late = req[r].late
           /\ \A s \in Requests \ {r} : req'[s] = req[s]
BY DEF TypeOK, Goto, Request

LEMMA Becomes ==
    ASSUME TypeOK, NEW r \in Requests, NEW q \in Request, req' = [req EXCEPT ![r] = q]
    PROVE  /\ req' \in [Requests -> Request] /\ req'[r] = q
           /\ \A s \in Requests \ {r} : req'[s] = req[s]
BY DEF TypeOK

LEMMA IdleIsOK ==
    ASSUME NEW r \in Requests, req[r] = Idle
    PROVE  HandlerOK(r)
BY IdleRequest DEF HandlerOK, CopyOK, TokenOK, Fresh, Writes, Reading, Written

LEMMA IsUserAt ==
    ASSUME NEW u
    PROVE  /\ u \in UsersAt({"drop"}) <=> Dropping(u)
           /\ u \in UsersAt(Resetting) <=> Unclosed(u)
BY DEF UsersAt, Dropping, Unclosed

(***************************************************************************)
(* Steps that write no document.                                           *)
(***************************************************************************)

LEMMA HandlersKept ==
    ASSUME IInv, NEW r \in Requests, UNCHANGED <<doc, fileOwner, issued, used>>,
           \A s \in Requests \ {r} : req'[s] = req[s],
           HandlerOK(r)',
           \A s \in Requests \ {r} : Writes(s, "forgot") => req'[r].token # req[s].token
    PROVE  /\ \A u \in Users : UserOK(u)'
           /\ \A s \in Requests : HandlerOK(s)'
<1>1. ASSUME NEW u \in Users PROVE UserOK(u)'
  BY DEF IInv, UserOK, Owned, Known, Sent
<1>2. ASSUME NEW s \in Requests \ {r} PROVE HandlerOK(s)'
  <2>1. HandlerOK(s)
    BY DEF IInv
  <2>2. CopyOK(s)'
    BY <2>1 DEF HandlerOK, CopyOK, Writes, Owned, Known, Sent
  <2>3. TokenOK(s)'
    <3>1. Writes(s, "forgot") =>
            \A t \in Requests \ {s} : req'[t].token # req[s].token
      BY <2>1 DEF HandlerOK, TokenOK
    <3> QED BY <2>1, <3>1 DEF HandlerOK, TokenOK, Writes
  <2>4. Fresh(s)'
    BY <2>1 DEF HandlerOK, Fresh, Writes
  <2> QED BY <2>2, <2>3, <2>4 DEF HandlerOK
<1> QED BY <1>1, <1>2

LEMMA CacheKept ==
    ASSUME IInv, NEW u \in Users, UNCHANGED <<doc, fileOwner>>,
           cache'[u] = cache[u], u \in tainted => u \in tainted',
           u \in behind => u \in behind',
           \A r \in Requests : req[r].pc = "drop" /\ req[r].user = u =>
             u \in tainted' \/ (req'[r].pc = "drop" /\ req'[r].user = u),
           \A r \in Requests : req[r].pc \in Resetting /\ req[r].user = u =>
             u \in behind' \/ (req'[r].pc \in Resetting /\ req'[r].user = u)
    PROVE  CacheOK(u)'
<1>1. CacheOK(u)
  BY DEF IInv
<1>2. CASE Dropping(u)
  BY <1>1, <1>2 DEF CacheOK, Dropping, Owned
<1>3. CASE Shown(u)
  <2>1. Unclosed(u) => u \in behind' \/ Unclosed(u)'
    BY DEF Unclosed
  <2>2. Shown(u)'
    BY <1>3, <2>1 DEF Shown
  <2> QED BY <1>1, <2>2 DEF CacheOK, Owned
<1> QED BY <1>1, <1>2, <1>3 DEF CacheOK, Owned

LEMMA CacheMissing ==
    ASSUME NEW u \in Users, cache'[u] = Missing
    PROVE  CacheOK(u)'
BY DEF CacheOK

LEMMA SpentKept ==
    ASSUME IInv, UNCHANGED <<doc, issued, used, revived>>
    PROVE  SpentOK'
BY DEF IInv, SpentOK

LEMMA Local ==
    ASSUME IInv, NEW r \in Requests, UNCHANGED <<stores, lapsed, faults, history>>,
           req' \in [Requests -> Request], req[r].pc \notin {"drop"} \cup Resetting,
           \A s \in Requests \ {r} : req'[s] = req[s],
           HandlerOK(r)',
           \A s \in Requests \ {r} : Writes(s, "forgot") => req'[r].token # req[s].token
    PROVE  IInv'
<1> USE DEF stores, history
<1>1. TypeOK'
  BY DEF IInv, TypeOK
<1>2. /\ \A u \in Users : UserOK(u)'
      /\ \A s \in Requests : HandlerOK(s)'
  BY HandlersKept
<1>3. ASSUME NEW u \in Users PROVE CacheOK(u)'
  BY CacheKept
<1>4. SpentOK'
  BY SpentKept
<1> QED BY <1>1, <1>2, <1>3, <1>4 DEF IInv

\* A handler at a later step still holds the document it wrote, or is done.
LEMMA Continues ==
    ASSUME IInv, NEW r \in Requests, UNCHANGED <<doc, fileOwner, issued, used>>,
           \/ Done(r)
           \/ req[r].pc \in Written /\ \E step \in Written : Goto(r, step)
    PROVE  /\ req' \in [Requests -> Request]
           /\ \A s \in Requests \ {r} : req'[s] = req[s]
           /\ \A u \in Users : UserOK(u)'
           /\ \A s \in Requests : HandlerOK(s)'
<1>1. CASE Done(r)
  <2>1. /\ req' \in [Requests -> Request] /\ req'[r] = Idle
        /\ \A s \in Requests \ {r} : req'[s] = req[s]
    BY <1>1, IdleRequest, Becomes DEF Done, IInv
  <2>2. HandlerOK(r)'
    BY <2>1, IdleRequest DEF HandlerOK, CopyOK, TokenOK, Fresh, Writes, Reading, Written
  <2>3. \A s \in Requests : Writes(s, "forgot") => req[s].token # None
    BY DEF IInv, HandlerOK, TokenOK
  <2> QED BY <2>1, <2>2, <2>3, IdleRequest, HandlersKept
<1>2. CASE req[r].pc \in Written /\ \E step \in Written : Goto(r, step)
  <2>1. PICK step \in Written : Goto(r, step)
    BY <1>2
  <2>2. /\ req' \in [Requests -> Request] /\ req'[r].pc = step
        /\ req'[r].op = req[r].op /\ req'[r].user = req[r].user
        /\ req'[r].copy = req[r].copy
        /\ req'[r].token = req[r].token /\ req'[r].late = req[r].late
        /\ \A s \in Requests \ {r} : req'[s] = req[s]
    BY <2>1, Goes DEF IInv, Written, Steps
  <2>3. HandlerOK(r)
    BY DEF IInv
  <2>4. HandlerOK(r)'
    BY <1>2, <2>2, <2>3
       DEF HandlerOK, CopyOK, TokenOK, Fresh, Writes, Reading, Written, Owned, Known, Sent
  <2>5. \A s \in Requests \ {r} : Writes(s, "forgot") => req[r].token # req[s].token
    BY DEF IInv, HandlerOK, TokenOK
  <2> QED BY <2>2, <2>4, <2>5, HandlersKept
<1> QED BY <1>1, <1>2

(***************************************************************************)
(* The steps that read a document.                                         *)
(***************************************************************************)

\* A handler that begins holds what its document may hold, and no token that
\* another handler is about to issue.
LEMMA Beginning ==
    ASSUME IInv, NEW r \in Requests, NEW op, NEW fields, NEW u \in Users,
           Begin(r, op, fields), [fields EXCEPT !.op = op] \in Request,
           UNCHANGED <<stores, lapsed, faults, history>>,
           req'[r] = [fields EXCEPT !.op = op] => HandlerOK(r)',
           \A s \in Requests \ {r} :
             Writes(s, "forgot") => [fields EXCEPT !.op = op].token # req[s].token
    PROVE  IInv'
<1> DEFINE q == [fields EXCEPT !.op = op]
<1>1. req[r].pc = "idle" /\ req' = [req EXCEPT ![r] = q] /\ q \in Request
  BY DEF Begin, At
<1> HIDE DEF q
<1>2. /\ req' \in [Requests -> Request] /\ req'[r] = q
      /\ \A s \in Requests \ {r} : req'[s] = req[s]
  BY <1>1, Becomes DEF IInv
<1>3. HandlerOK(r)' /\ \A s \in Requests \ {r} : Writes(s, "forgot") => q.token # req[s].token
  BY <1>2 DEF q
<1> QED BY <1>1, <1>2, <1>3, Local DEF Resetting

LEMMA ForgottenTokens ==
    ASSUME IInv
    PROVE  \A s \in Requests : Writes(s, "forgot") =>
             /\ req[s].token \in Tokens /\ req[s].token # None
             /\ issued[req[s].token] = None
BY DEF IInv, HandlerOK, TokenOK

LEMMA GetMissStep ==
    ASSUME IInv, NEW r \in Requests, NEW u \in Users, GetMiss(r, u)
    PROVE  IInv'
<1> DEFINE f == [Idle EXCEPT !.pc = "find", !.user = u]
           q == [f EXCEPT !.op = "get"]
<1>1. /\ "get" \in Operations /\ Begin(r, "get", f)
      /\ UNCHANGED <<stores, lapsed, faults, history>>
  BY DEF GetMiss, Begin
<1>2. q \in Request /\ q.pc = "find" /\ q.user = u /\ q.token = None
  BY <1>1, IdleRequest DEF Idle, Request, Steps
<1> HIDE DEF q, f
<1>3. req'[r] = q => HandlerOK(r)'
  BY <1>2 DEF HandlerOK, CopyOK, TokenOK, Fresh, Writes, Reading, Written
<1> QED BY <1>1, <1>2, <1>3, ForgottenTokens, Beginning DEF q

LEMMA GetFindStep ==
    ASSUME IInv, NEW r \in Requests, GetFind(r)
    PROVE  IInv'
<1>1. /\ req[r].pc = "find" /\ UNCHANGED <<stores, lapsed, faults, history>>
      /\ req' = [req EXCEPT ![r].pc = "fill", ![r].copy = doc[req[r].user]]
  BY DEF GetFind, At
<1>2. req[r].user \in Users /\ req[r] \in Request /\ doc[req[r].user] \in Doc
  BY <1>1 DEF IInv, HandlerOK, CopyOK, TypeOK
<1>3. /\ req'[r].pc = "fill" /\ req'[r].copy = doc[req[r].user]
      /\ req'[r].user = req[r].user /\ req'[r].token = req[r].token
      /\ req'[r].op = req[r].op
      /\ \A s \in Requests \ {r} : req'[s] = req[s]
  BY <1>1, <1>2 DEF IInv, TypeOK, Request
<1>4. req' \in [Requests -> Request]
  BY <1>1, <1>2 DEF IInv, TypeOK, Request, Steps
<1>5. UserOK(req[r].user) /\ TokenOK(r)
  BY <1>2 DEF IInv, HandlerOK
<1>6. HandlerOK(r)'
  BY <1>1, <1>2, <1>3, <1>5 DEF HandlerOK, CopyOK, TokenOK, Fresh, Writes, Reading, Written,
       UserOK, Owned, Known, Sent, stores, history
<1>7. \A s \in Requests \ {r} : Writes(s, "forgot") => req[r].token # req[s].token
  BY DEF IInv, HandlerOK, TokenOK
<1> QED BY <1>1, <1>3, <1>4, <1>6, <1>7, Local DEF Resetting

LEMMA ProfileFindStep ==
    ASSUME IInv, NEW r \in Requests, NEW u \in Users, NEW name \in Names \cup {None},
           NEW avatar \in Files \cup {None}, ProfileFind(r, u, name, avatar)
    PROVE  IInv'
<1> DEFINE n == IF name = None THEN doc[u].name ELSE name
           a == IF avatar = None THEN doc[u].avatar ELSE avatar
           d == [doc[u] EXCEPT !.name = n, !.avatar = a]
           step == IF avatar = None THEN "write" ELSE "check"
           f == [Idle EXCEPT !.pc = step, !.user = u, !.old = doc[u].avatar, !.copy = d]
           q == [f EXCEPT !.op = "profile"]
<1>1. /\ "profile" \in Operations /\ Begin(r, "profile", f)
      /\ UNCHANGED <<stores, lapsed, faults, history>>
  BY DEF ProfileFind, Begin
<1>2. /\ d \in Doc /\ d.password = doc[u].password /\ d.reset = doc[u].reset
      /\ d.yandex = doc[u].yandex /\ d.avatar = a
      /\ a = IF avatar = None THEN doc[u].avatar ELSE avatar
      /\ a \in Files \cup {None} /\ doc[u].avatar \in Files \cup {None}
  <2>1. doc[u] \in Doc
    BY DEF IInv, TypeOK
  <2>2. /\ doc[u].avatar \in Files \cup {None}
        /\ n \in Names \cup {None} /\ a \in Files \cup {None}
    BY <2>1 DEF Doc
  <2>3. a = IF avatar = None THEN doc[u].avatar ELSE avatar
    OBVIOUS
  <2> HIDE DEF n, a
  <2> QED BY <2>1, <2>2, <2>3 DEF Doc
<1> HIDE DEF n, a
<1> HIDE DEF d
<1>3. step \in {"write", "check"} /\ (step = "check" => avatar # None)
  OBVIOUS
<1>4. step = "write" => avatar = None
  OBVIOUS
<1> HIDE DEF step
<1>5. /\ q \in Request /\ q.pc = step /\ q.op = "profile" /\ q.user = u /\ q.copy = d
      /\ q.token = None
  BY <1>1, <1>2, <1>3, IdleRequest DEF Idle, Request, Steps
<1>6. UserOK(u)
  BY DEF IInv
<1> HIDE DEF q, f
<1>7. ASSUME req'[r] = q PROVE HandlerOK(r)'
  <2>1. CopyOK(r)'
    BY <1>1, <1>2, <1>3, <1>4, <1>5, <1>6, <1>7 DEF CopyOK, Writes, Reading,
         UserOK, Owned, Known, Sent, stores, history
  <2>2. TokenOK(r)'
    BY <1>5, <1>7 DEF TokenOK, Writes
  <2>3. Fresh(r)'
    BY <1>1, <1>2, <1>3, <1>5, <1>7 DEF Fresh, Keeps, Writes, Written, stores
  <2> QED BY <2>1, <2>2, <2>3 DEF HandlerOK
<1> QED BY <1>1, <1>5, <1>7, ForgottenTokens, Beginning DEF q

LEMMA AvatarCheckStep ==
    ASSUME IInv, NEW r \in Requests, AvatarCheck(r)
    PROVE  IInv'
<1>1. /\ req[r].pc = "check" /\ fileOwner[req[r].copy.avatar] = req[r].user
      /\ Goto(r, "write") /\ UNCHANGED <<stores, lapsed, faults, history>>
  BY DEF AvatarCheck, At
<1>2. /\ req' \in [Requests -> Request] /\ req'[r].pc = "write"
      /\ req'[r].op = req[r].op /\ req'[r].user = req[r].user
      /\ req'[r].copy = req[r].copy
      /\ req'[r].token = req[r].token /\ req'[r].late = req[r].late
      /\ \A s \in Requests \ {r} : req'[s] = req[s]
  BY <1>1, Goes DEF IInv, Steps
<1>3. HandlerOK(r)
  BY DEF IInv
<1>4. HandlerOK(r)'
  BY <1>1, <1>2, <1>3 DEF HandlerOK, CopyOK, TokenOK, Fresh, Writes, Reading, Written,
       Owned, Known, Sent, stores, history
<1>5. \A s \in Requests \ {r} : Writes(s, "forgot") => req[r].token # req[s].token
  BY DEF IInv, HandlerOK, TokenOK
<1> QED BY <1>1, <1>2, <1>4, <1>5, Local DEF Resetting

LEMMA ForgotFindStep ==
    ASSUME IInv, NEW r \in Requests, NEW u \in Users, NEW t \in Tokens, ForgotFind(r, u, t)
    PROVE  IInv'
<1> DEFINE d == [doc[u] EXCEPT !.reset = t]
           f == [Idle EXCEPT !.pc = "write", !.user = u, !.token = t, !.copy = d]
           q == [f EXCEPT !.op = "forgot"]
<1>1. /\ "forgot" \in Operations /\ Begin(r, "forgot", f)
      /\ issued[t] = None /\ \A s \in Requests : req[s].token # t
      /\ UNCHANGED <<stores, lapsed, faults, history>>
  BY DEF ForgotFind, Begin
<1>2. /\ d \in Doc /\ d.password = doc[u].password /\ d.reset = t /\ d.name = doc[u].name
      /\ d.yandex = doc[u].yandex /\ d.avatar = doc[u].avatar
  <2>1. doc[u] \in Doc
    BY DEF IInv, TypeOK
  <2> QED BY <2>1 DEF Doc
<1> HIDE DEF d
<1>0. "forgot" \in Operations /\ d \in Doc
  BY <1>1, <1>2
<1>3. /\ q \in Request /\ q.pc = "write" /\ q.op = "forgot" /\ q.user = u /\ q.copy = d
      /\ q.token = t
  BY <1>0 DEF Idle, Request, Steps
<1>4. UserOK(u)
  BY DEF IInv
<1> HIDE DEF q, f
<1>5. ASSUME req'[r] = q PROVE HandlerOK(r)'
  <2>1. CopyOK(r)'
    BY <1>1, <1>2, <1>3, <1>4, <1>5 DEF CopyOK, Writes, Reading,
         UserOK, Owned, Known, Sent, stores, history
  <2>2. \A s \in Requests \ {r} : req'[s] = req[s]
    BY <1>1 DEF Begin, IInv, TypeOK
  <2>3. TokenOK(r)'
    BY <1>1, <1>2, <1>3, <1>5, <2>2 DEF TokenOK, Writes, history
  <2>4. Fresh(r)'
    BY <1>1, <1>2, <1>3, <1>5 DEF Fresh, Keeps, Writes, Written, stores
  <2> QED BY <2>1, <2>3, <2>4 DEF HandlerOK
<1>6. \A s \in Requests \ {r} : q.token # req[s].token
  BY <1>1, <1>3
<1> QED BY <1>1, <1>3, <1>5, <1>6, Beginning DEF q

LEMMA ResetFindStep ==
    ASSUME IInv, NEW r \in Requests, NEW u \in Users, NEW t \in Tokens, NEW p \in Passwords,
           ResetFind(r, u, t, p)
    PROVE  IInv'
<1> DEFINE d == [doc[u] EXCEPT !.password = p, !.reset = None]
           f == [Idle EXCEPT !.pc = "write", !.user = u, !.token = t, !.copy = d]
           q == [f EXCEPT !.op = "reset"]
<1>1. /\ "reset" \in Operations /\ Begin(r, "reset", f)
      /\ issued[t] # None /\ doc[u].reset = t
      /\ UNCHANGED <<stores, lapsed, faults, history>>
  BY DEF ResetFind, ResetTarget, Begin
<1>2. /\ d \in Doc /\ d.password = p /\ d.reset = None /\ d.name = doc[u].name
      /\ d.yandex = doc[u].yandex /\ d.avatar = doc[u].avatar
  <2>1. doc[u] \in Doc
    BY DEF IInv, TypeOK
  <2> QED BY <2>1 DEF Doc
<1> HIDE DEF d
<1>0. "reset" \in Operations /\ d \in Doc
  BY <1>1, <1>2
<1>3. /\ q \in Request /\ q.pc = "write" /\ q.op = "reset" /\ q.user = u /\ q.copy = d
      /\ q.token = t
  BY <1>0 DEF Idle, Request, Steps
<1>4. UserOK(u) /\ issued[t] = u
  BY <1>1 DEF IInv, UserOK, Sent
<1> HIDE DEF q, f
<1>5. ASSUME req'[r] = q PROVE HandlerOK(r)'
  <2>1. CopyOK(r)'
    BY <1>1, <1>2, <1>3, <1>4, <1>5 DEF CopyOK, Writes, Reading,
         UserOK, Owned, Known, Sent, stores, history
  <2>2. TokenOK(r)'
    BY <1>1, <1>2, <1>3, <1>4, <1>5 DEF TokenOK, Writes, history
  <2>3. Fresh(r)'
    BY <1>1, <1>2, <1>3, <1>5 DEF Fresh, Keeps, Writes, Written, stores
  <2> QED BY <2>1, <2>2, <2>3 DEF HandlerOK
<1>6. \A s \in Requests \ {r} : Writes(s, "forgot") => q.token # req[s].token
  BY <1>1, <1>3, ForgottenTokens
<1> QED BY <1>1, <1>3, <1>5, <1>6, Beginning DEF q


LEMMA LinkFindStep ==
    ASSUME IInv, NEW r \in Requests, NEW u \in Users, LinkFind(r, u)
    PROVE  IInv'
<1> DEFINE d == [doc[u] EXCEPT !.yandex = TRUE]
           f == [Idle EXCEPT !.pc = "write", !.user = u, !.copy = d]
           q == [f EXCEPT !.op = "link"]
<1>1. /\ "link" \in Operations /\ Begin(r, "link", f)
      /\ UNCHANGED <<stores, lapsed, faults, history>>
  BY DEF LinkFind, Begin
<1>2. /\ d \in Doc /\ d.password = doc[u].password /\ d.reset = doc[u].reset
      /\ d.name = doc[u].name /\ d.avatar = doc[u].avatar
  <2>1. doc[u] \in Doc
    BY DEF IInv, TypeOK
  <2> QED BY <2>1 DEF Doc
<1> HIDE DEF d
<1>3. /\ q \in Request /\ q.pc = "write" /\ q.op = "link" /\ q.user = u /\ q.copy = d
      /\ q.token = None
  BY <1>1, <1>2, IdleRequest DEF Idle, Request, Steps
<1>4. UserOK(u)
  BY DEF IInv
<1> HIDE DEF q, f
<1>5. ASSUME req'[r] = q PROVE HandlerOK(r)'
  <2>1. CopyOK(r)'
    BY <1>1, <1>2, <1>3, <1>4, <1>5 DEF CopyOK, Writes, Reading,
         UserOK, Owned, Known, Sent, stores, history
  <2>2. TokenOK(r)'
    BY <1>3, <1>5 DEF TokenOK, Writes
  <2>3. Fresh(r)'
    BY <1>1, <1>2, <1>3, <1>5 DEF Fresh, Keeps, Writes, Written, stores
  <2> QED BY <2>1, <2>2, <2>3 DEF HandlerOK
<1> QED BY <1>1, <1>3, <1>5, ForgottenTokens, Beginning DEF q

(***************************************************************************)
(* The steps after a write.                                                *)
(***************************************************************************)

\* What a step does to the cache and its history matters for its user only.
LEMMA OneUser ==
    ASSUME IInv, NEW r \in Requests, NEW u \in Users, UNCHANGED <<doc, fileOwner>>,
           \A s \in Requests \ {r} : req'[s] = req[s],
           req[r].pc \in {"drop"} \cup Resetting => req[r].user = u,
           \A v \in Users \ {u} : /\ cache'[v] = cache[v]
                                  /\ v \in tainted => v \in tainted'
                                  /\ v \in behind => v \in behind',
           CacheOK(u)'
    PROVE  \A v \in Users : CacheOK(v)'
<1>1. ASSUME NEW v \in Users \ {u} PROVE CacheOK(v)'
  <2>1. \A s \in Requests :
          req[s].pc \in {"drop"} \cup Resetting /\ req[s].user = v => s # r
    BY <1>1
  <2>2. \A s \in Requests :
          /\ req[s].pc = "drop" /\ req[s].user = v =>
               req'[s].pc = "drop" /\ req'[s].user = v
          /\ req[s].pc \in Resetting /\ req[s].user = v =>
               req'[s].pc \in Resetting /\ req'[s].user = v
    BY <2>1
  <2> QED BY <2>2, CacheKept
<1> QED BY <1>1

\* Del of the key, or a Del that did nothing and leaves the profile tainted.
Deletes(u) ==
    \/ cache' = [cache EXCEPT ![u] = Missing] /\ tainted' = tainted \ {u} /\ behind' = behind \ {u}
    \/ cache' = cache /\ tainted' = tainted \cup {u} /\ behind' = behind

LEMMA DeletedOK ==
    ASSUME IInv, NEW r \in Requests, NEW u \in Users, u = req[r].user,
           UNCHANGED <<doc, fileOwner>>, \A s \in Requests \ {r} : req'[s] = req[s],
           Deletes(u)
    PROVE  /\ \A v \in Users : CacheOK(v)'
           /\ cache' \in [Users -> Profiles \cup {Missing}]
           /\ tainted' \subseteq Users /\ behind' \subseteq Users
<1>1. /\ cache' \in [Users -> Profiles \cup {Missing}]
      /\ tainted' \subseteq Users /\ behind' \subseteq Users
      /\ \A v \in Users \ {u} : /\ cache'[v] = cache[v]
                                /\ v \in tainted => v \in tainted'
                                /\ v \in behind => v \in behind'
  BY DEF Deletes, IInv, TypeOK
<1>2. CacheOK(u)'
  <2>1. CASE cache' = [cache EXCEPT ![u] = Missing]
    BY <2>1, CacheMissing DEF IInv, TypeOK
  <2>2. CASE cache' = cache /\ u \in tainted'
    <3>1. CacheOK(u)
      BY DEF IInv
    <3> QED BY <2>2, <3>1 DEF CacheOK, Owned
  <2> QED BY <2>1, <2>2 DEF Deletes
<1> QED BY <1>1, <1>2, OneUser

LEMMA FillStep ==
    ASSUME IInv, NEW r \in Requests, Fill(r)
    PROVE  IInv'
<1>0. PICK u, d : u = req[r].user /\ d = req[r].copy
  OBVIOUS
<1>1. /\ req[r].pc = "fill" /\ Done(r)
      /\ UNCHANGED <<doc, files, fileOwner, enabled, lapsed, faults, issued, used, revived>>
  BY DEF Fill, At
<1>2. HandlerOK(r) /\ d \in Doc /\ u \in Users
  BY <1>0, <1>1 DEF IInv, TypeOK, Request, HandlerOK, CopyOK
<1>3. /\ req' \in [Requests -> Request]
      /\ \A s \in Requests \ {r} : req'[s] = req[s]
      /\ \A v \in Users : UserOK(v)'
      /\ \A s \in Requests : HandlerOK(s)'
  BY <1>1, Continues
<1>4. \/ cache' = cache /\ tainted' = tainted /\ behind' = behind
      \/ /\ cache' = [cache EXCEPT ![u] = Public(d)] /\ behind' = behind \ {u}
         /\ tainted' = IF req[r].late THEN tainted \cup {u} ELSE tainted \ {u}
  BY <1>0 DEF Fill, Put
<1>5. /\ Public(d) \in Profiles /\ Public(d) # Missing
      /\ Public(d).name = d.name /\ Public(d).avatar = d.avatar
      /\ Public(d).updated = d.updated
  BY <1>2, PublicProfile
<1>6. TypeOK'
  <2>1. /\ tainted' \subseteq Users /\ behind' \subseteq Users
        /\ cache' \in [Users -> Profiles \cup {Missing}]
    BY <1>2, <1>4, <1>5 DEF IInv, TypeOK
  <2> QED BY <1>1, <1>3, <2>1 DEF IInv, TypeOK
<1>7. /\ \A v \in Users \ {u} : cache'[v] = cache[v]
      /\ \A v \in Users \ {u} : v \in tainted => v \in tainted'
      /\ \A v \in Users \ {u} : v \in behind => v \in behind'
  BY <1>4 DEF IInv, TypeOK
<1>8. CacheOK(u)'
  <2>1. CASE cache' = cache /\ tainted' = tainted /\ behind' = behind
    <3>1. \A s \in Requests : req[s].pc \in {"drop"} \cup Resetting => req'[s] = req[s]
      BY <1>1, <1>3 DEF Resetting
    <3> QED BY <1>1, <1>2, <2>1, <3>1, CacheKept
  <2>2. CASE /\ cache' = [cache EXCEPT ![u] = Public(d)]
             /\ tainted' = IF req[r].late THEN tainted \cup {u} ELSE tainted \ {u}
    <3>1. cache'[u] = Public(d)
      BY <1>2, <2>2 DEF IInv, TypeOK
    <3>2. Owned(u, d.avatar)
      BY <1>0, <1>1, <1>2 DEF HandlerOK, CopyOK, Reading
    <3>3. cache'[u].avatar # None => fileOwner'[cache'[u].avatar] = u
      BY <1>1, <1>5, <3>1, <3>2 DEF Owned
    <3>4. CASE req[r].late = FALSE
      <4>1. d = doc[u]
        BY <1>0, <1>1, <1>2, <3>4 DEF HandlerOK, Fresh, Written
      <4>2. /\ cache'[u].name = doc'[u].name /\ cache'[u].avatar = doc'[u].avatar
            /\ cache'[u].updated = doc'[u].updated
        BY <1>1, <1>5, <3>1, <4>1
      <4> QED BY <3>3, <4>2 DEF CacheOK, Shown, Owned
    <3>5. CASE req[r].late = TRUE
      BY <2>2, <3>3, <3>5 DEF CacheOK, Owned
    <3>6. req[r].late = FALSE \/ req[r].late = TRUE
      BY DEF IInv, TypeOK, Request
    <3> QED BY <3>4, <3>5, <3>6
  <2> QED BY <1>4, <2>1, <2>2
<1>9. \A v \in Users : CacheOK(v)'
  BY <1>1, <1>2, <1>3, <1>7, <1>8, OneUser DEF Resetting
<1>10. SpentOK'
  BY <1>1, SpentKept
<1> QED BY <1>3, <1>6, <1>9, <1>10 DEF IInv

\* The handler that wrote deletes the cached profile, or its error is logged.
LEMMA DropSteps ==
    ASSUME IInv, NEW r \in Requests,
           ProfileDrop(r) \/ ProfileDropFails(r) \/ WriteUnanswered(r)
    PROVE  IInv'
<1>1. PICK u : u = req[r].user
  OBVIOUS
<1>2. /\ req[r].pc = "drop"
      /\ UNCHANGED <<doc, files, fileOwner, enabled, lapsed, issued, used, revived>>
  BY DEF ProfileDrop, ProfileDropFails, WriteUnanswered, At, stores
<1>3. Done(r) \/ \E step \in Written : Goto(r, step)
  BY DEF ProfileDrop, ProfileDropFails, WriteUnanswered, AfterDrop, Written
<1>4. /\ req' \in [Requests -> Request]
      /\ \A s \in Requests \ {r} : req'[s] = req[s]
      /\ \A v \in Users : UserOK(v)'
      /\ \A s \in Requests : HandlerOK(s)'
  BY <1>2, <1>3, Continues DEF Written
<1>5. u \in Users
  BY <1>1, <1>2 DEF IInv, HandlerOK, CopyOK
<1>6. faults' \in 0..MaxFaults
  <2>1. faults' = faults \/ Fault
    BY DEF ProfileDrop, ProfileDropFails, WriteUnanswered
  <2> QED BY <2>1 DEF Fault, IInv, TypeOK
<1>7. Deletes(u)
  BY <1>1 DEF ProfileDrop, ProfileDropFails, WriteUnanswered, Drop, Deletes, stores
<1>8. /\ \A v \in Users : CacheOK(v)'
      /\ cache' \in [Users -> Profiles \cup {Missing}]
      /\ tainted' \subseteq Users /\ behind' \subseteq Users
  BY <1>1, <1>2, <1>4, <1>5, <1>7, DeletedOK
<1>9. TypeOK'
  BY <1>2, <1>4, <1>6, <1>8 DEF IInv, TypeOK
<1>10. SpentOK'
  BY <1>2, SpentKept
<1> QED BY <1>4, <1>8, <1>9, <1>10 DEF IInv

LEMMA AvatarDeleteStep ==
    ASSUME IInv, NEW r \in Requests, AvatarDelete(r)
    PROVE  IInv'
<1>1. /\ req[r].pc = "avatar" /\ Goto(r, "fill") /\ files' \subseteq files
      /\ UNCHANGED <<doc, fileOwner, cache, enabled, lapsed, history>>
  BY DEF AvatarDelete, At
<1>2. faults' \in 0..MaxFaults
  BY DEF AvatarDelete, Fault, IInv, TypeOK
<1>3. /\ req' \in [Requests -> Request]
      /\ \A s \in Requests \ {r} : req'[s] = req[s]
      /\ \A v \in Users : UserOK(v)'
      /\ \A s \in Requests : HandlerOK(s)'
  BY <1>1, Continues DEF Written, history
<1>4. TypeOK'
  BY <1>1, <1>2, <1>3 DEF IInv, TypeOK, history
<1>5. \A s \in Requests : req[s].pc \in {"drop"} \cup Resetting => req'[s] = req[s]
  BY <1>1, <1>3 DEF Resetting
<1>6. ASSUME NEW v \in Users PROVE CacheOK(v)'
  BY <1>1, <1>5, CacheKept DEF history
<1>7. SpentOK'
  BY <1>1, SpentKept DEF history
<1> QED BY <1>3, <1>4, <1>6, <1>7 DEF IInv

LEMMA ResetCloseStep ==
    ASSUME IInv, NEW r \in Requests, ResetClose(r)
    PROVE  IInv'
<1>1. PICK u : u = req[r].user
  OBVIOUS
<1>2. /\ req[r].pc = "close" /\ Done(r)
      /\ UNCHANGED <<doc, files, fileOwner, enabled, lapsed, faults, issued, used, revived>>
  BY DEF ResetClose, At
<1>3. /\ req' \in [Requests -> Request]
      /\ \A s \in Requests \ {r} : req'[s] = req[s]
      /\ \A v \in Users : UserOK(v)'
      /\ \A s \in Requests : HandlerOK(s)'
  BY <1>2, Continues
<1>4. u \in Users
  BY <1>1, <1>2 DEF IInv, HandlerOK, CopyOK
<1>5. Deletes(u)
  BY <1>1 DEF ResetClose, Drop, Deletes
<1>6. /\ \A v \in Users : CacheOK(v)'
      /\ cache' \in [Users -> Profiles \cup {Missing}]
      /\ tainted' \subseteq Users /\ behind' \subseteq Users
  BY <1>1, <1>2, <1>3, <1>4, <1>5, DeletedOK
<1>7. TypeOK'
  BY <1>2, <1>3, <1>6 DEF IInv, TypeOK
<1>8. SpentOK'
  BY <1>2, SpentKept
<1> QED BY <1>3, <1>6, <1>7, <1>8 DEF IInv

LEMMA ResetRevokeStep ==
    ASSUME IInv, NEW r \in Requests, ResetRevoke(r) \/ ResetKeys(r)
    PROVE  IInv'
<1>1. PICK u : u = req[r].user
  OBVIOUS
<1>2. /\ req[r].pc \in Resetting
      /\ \E step \in {"keys", "close"} : Goto(r, step)
      /\ UNCHANGED <<stores, lapsed, faults, history>>
  BY DEF ResetRevoke, ResetKeys, Resetting, At
<1>3. PICK step \in {"keys", "close"} : Goto(r, step)
  BY <1>2
<1>4. req'[r].pc = step /\ req'[r].user = u
  BY <1>1, <1>3, Goes DEF IInv, Steps
<1>5. /\ req' \in [Requests -> Request]
      /\ \A s \in Requests \ {r} : req'[s] = req[s]
      /\ \A v \in Users : UserOK(v)'
      /\ \A s \in Requests : HandlerOK(s)'
  BY <1>2, <1>3, Continues DEF Written, Resetting, stores, history
<1>6. TypeOK'
  BY <1>2, <1>5 DEF IInv, TypeOK, stores, history
<1>7. \A s \in Requests :
        /\ req[s].pc = "drop" => req'[s] = req[s]
        /\ req[s].pc \in Resetting => req'[s].pc \in Resetting /\ req'[s].user = req[s].user
  BY <1>1, <1>2, <1>4, <1>5 DEF Resetting
<1>8. ASSUME NEW v \in Users PROVE CacheOK(v)'
  BY <1>2, <1>7, CacheKept DEF stores, history
<1>9. SpentOK'
  BY <1>2, SpentKept DEF stores, history
<1> QED BY <1>5, <1>6, <1>8, <1>9 DEF IInv


LEMMA AbortStep ==
    ASSUME IInv, NEW r \in Requests, Abort(r)
    PROVE  IInv'
<1>1. PICK u : u = req[r].user
  OBVIOUS
<1>2. /\ req[r].pc \notin {"idle", "drop"} /\ Done(r)
      /\ behind' = IF req[r].pc \in Resetting THEN behind \cup {u} ELSE behind
      /\ UNCHANGED <<stores, lapsed, faults, issued, used, tainted, revived>>
  BY <1>1 DEF Abort, Resetting
<1>3. /\ req' \in [Requests -> Request]
      /\ \A s \in Requests \ {r} : req'[s] = req[s]
      /\ \A v \in Users : UserOK(v)'
      /\ \A s \in Requests : HandlerOK(s)'
  BY <1>2, Continues DEF stores
<1>4. u \in Users
  BY <1>1, <1>2 DEF IInv, HandlerOK, CopyOK
<1>5. TypeOK'
  <2>1. behind' \subseteq Users
    BY <1>2, <1>4 DEF IInv, TypeOK
  <2> QED BY <1>2, <1>3, <2>1 DEF IInv, TypeOK, stores
<1>6. ASSUME NEW v \in Users PROVE CacheOK(v)'
  <2>1. ASSUME NEW s \in Requests, req[s].pc \in Resetting, req[s].user = v
        PROVE  v \in behind' \/ (req'[s].pc \in Resetting /\ req'[s].user = v)
    BY <1>1, <1>2, <1>3, <2>1
  <2>2. v \in behind => v \in behind'
    BY <1>2
  <2>3. \A s \in Requests : req[s].pc = "drop" => req'[s] = req[s]
    BY <1>2, <1>3
  <2> QED BY <1>2, <2>1, <2>2, <2>3, CacheKept DEF stores
<1>7. SpentOK'
  BY <1>2, SpentKept DEF stores
<1> QED BY <1>3, <1>5, <1>6, <1>7 DEF IInv

(***************************************************************************)
(* The writes.  Update replaces the whole document with the copy: what the *)
(* copy may hold is what the document may hold, every other copy is late   *)
(* now, and a late copy taints what the cache knows.                       *)
(***************************************************************************)

LEMMA KnownKept ==
    ASSUME NEW u \in Users, NEW p, Known(u, p),
           \A t \in Tokens : issued[t] = u => issued'[t] = u /\ used[t] \subseteq used'[t]
    PROVE  p # None => \E t \in Tokens : issued'[t] = u /\ p \in used'[t]
BY DEF Known

LEMMA NextStamp ==
    ASSUME NEW n \in 0..MaxWrites, n < MaxWrites
    PROVE  n + 1 \in 0..MaxWrites
OBVIOUS

\* What ReplaceOne writes is the copy, but for updatedAt.
LEMMA StampedCopy ==
    ASSUME IInv, NEW r \in Requests, req[r].user \in Users,
           doc[req[r].user].updated < MaxWrites
    PROVE  /\ Stamped(r) \in Doc
           /\ Stamped(r).password = req[r].copy.password
           /\ Stamped(r).reset = req[r].copy.reset
           /\ Stamped(r).yandex = req[r].copy.yandex
           /\ Stamped(r).name = req[r].copy.name
           /\ Stamped(r).avatar = req[r].copy.avatar
<1>1. PICK d \in Doc : d = req[r].copy
  BY DEF IInv, TypeOK, Request
<1>2. PICK n : n = doc[req[r].user].updated + 1
  OBVIOUS
<1>3. n \in 0..MaxWrites
  <2>1. doc[req[r].user] \in Doc
    BY DEF IInv, TypeOK
  <2>2. doc[req[r].user].updated \in 0..MaxWrites
    BY <2>1 DEF Doc
  <2> QED BY <1>2, <2>2, NextStamp
<1>4. Stamped(r) = [d EXCEPT !.updated = n]
  BY <1>1, <1>2 DEF Stamped
<1>5. [d EXCEPT !.updated = n] \in Doc
  BY <1>3 DEF Doc
<1>6. /\ [d EXCEPT !.updated = n].password = d.password
      /\ [d EXCEPT !.updated = n].reset = d.reset
      /\ [d EXCEPT !.updated = n].yandex = d.yandex
      /\ [d EXCEPT !.updated = n].name = d.name
      /\ [d EXCEPT !.updated = n].avatar = d.avatar
  BY DEF Doc
<1> QED BY <1>1, <1>4, <1>5, <1>6

LEMMA Replaced ==
    ASSUME IInv, NEW r \in Requests, NEW next \in Request, Replace(r, next),
           req[r].user \in Users
    PROVE  /\ doc' \in [Users -> Doc] /\ doc'[req[r].user] = Stamped(r)
           /\ \A v \in Users \ {req[r].user} : doc'[v] = doc[v]
           /\ req' \in [Requests -> Request] /\ req'[r] = next
           /\ \A s \in Requests \ {r} :
                /\ req'[s].pc = req[s].pc /\ req'[s].op = req[s].op
                /\ req'[s].user = req[s].user /\ req'[s].copy = req[s].copy
                /\ req'[s].token = req[s].token
                /\ req'[s].late = FALSE => /\ req[s].late = FALSE
                                           /\ req[s].user # req[r].user \/ req[s].pc = "find"
<1>1. Stamped(r) \in Doc
  BY StampedCopy DEF Replace
<1>2. /\ doc' \in [Users -> Doc] /\ doc'[req[r].user] = Stamped(r)
      /\ \A v \in Users \ {req[r].user} : doc'[v] = doc[v]
  <2>1. doc' = [doc EXCEPT ![req[r].user] = Stamped(r)]
    BY DEF Replace
  <2> QED BY <1>1, <2>1 DEF IInv, TypeOK
<1>3. req'[r] = next
  BY DEF Replace
<1>4. ASSUME NEW s \in Requests \ {r}
      PROVE  /\ req'[s] \in Request
             /\ req'[s].pc = req[s].pc /\ req'[s].op = req[s].op
             /\ req'[s].user = req[s].user /\ req'[s].copy = req[s].copy
             /\ req'[s].token = req[s].token
             /\ req'[s].late = FALSE => /\ req[s].late = FALSE
                                        /\ req[s].user # req[r].user \/ req[s].pc = "find"
  <2>1. req[s] \in Request
    BY DEF IInv, TypeOK
  <2>2. CASE req[s].user = req[r].user /\ ~At(s, "find")
    <3>1. req'[s] = [req[s] EXCEPT !.late = TRUE]
      BY <2>2 DEF Replace
    <3> QED BY <2>1, <3>1 DEF Request
  <2>3. CASE ~(req[s].user = req[r].user /\ ~At(s, "find"))
    <3>1. req'[s] = req[s]
      BY <2>3 DEF Replace
    <3> QED BY <2>1, <2>3, <3>1 DEF At
  <2> QED BY <2>2, <2>3
<1>5. req' \in [Requests -> Request]
  BY <1>3, <1>4 DEF Replace
<1> QED BY <1>2, <1>3, <1>4, <1>5

LEMMA Replacing ==
    ASSUME IInv, NEW r \in Requests, NEW u \in Users, NEW next \in Request,
           u = req[r].user, req[r].pc = "write", Replace(r, next),
           UNCHANGED <<files, fileOwner, cache, enabled, lapsed, faults>>,
           issued' \in [Tokens -> Users \cup {None}], used' \in [Tokens -> SUBSET Passwords],
           \A t \in Tokens : used[t] \subseteq used'[t],
           \A t \in Tokens : \/ issued'[t] = issued[t]
                             \/ Writes(r, "forgot") /\ t = req[r].token,
           \A t \in Tokens : \/ used'[t] = used[t]
                             \/ Writes(r, "reset") /\ t = req[r].token,
           req[r].op \in {"profile", "forgot", "reset", "link"},
           HandlerOK(r)', UserOK(u)', next.token \in {req[r].token, None},
           req[r].op = "profile" => next.pc = "drop" /\ next.user = u,
           req[r].op = "reset" => next.pc = "revoke" /\ next.user = u
    PROVE  IInv'
<1>1. /\ doc' \in [Users -> Doc] /\ doc'[u] = Stamped(r)
      /\ \A v \in Users \ {u} : doc'[v] = doc[v]
      /\ req' \in [Requests -> Request] /\ req'[r] = next
  BY Replaced
<1>0. /\ doc'[u].name = req[r].copy.name /\ doc'[u].avatar = req[r].copy.avatar
      /\ doc'[u].reset = req[r].copy.reset
  <2>1. doc[req[r].user].updated < MaxWrites
    BY DEF Replace
  <2> QED BY <1>1, <2>1, StampedCopy
<1>2. \A s \in Requests \ {r} :
        /\ req'[s].pc = req[s].pc /\ req'[s].op = req[s].op
        /\ req'[s].user = req[s].user /\ req'[s].copy = req[s].copy
        /\ req'[s].token = req[s].token
        /\ req'[s].late = FALSE => /\ req[s].late = FALSE
                                   /\ req[s].user # u \/ req[s].pc = "find"
  <2>1. req[r].user \in Users
    OBVIOUS
  <2>2. \A s \in Requests \ {r} :
          /\ req'[s].pc = req[s].pc /\ req'[s].op = req[s].op
          /\ req'[s].user = req[s].user /\ req'[s].copy = req[s].copy
          /\ req'[s].token = req[s].token
          /\ req'[s].late = FALSE => /\ req[s].late = FALSE
                                     /\ req[s].user # req[r].user \/ req[s].pc = "find"
    BY <2>1, Replaced
  <2> QED BY <2>2
<1>3. /\ tainted' = IF req[r].late THEN tainted \cup {u} ELSE tainted
      /\ behind' = IF req[r].op \in {"forgot", "link"} THEN behind \cup {u} ELSE behind
      /\ revived' = revived \cup Revives(r)
  BY DEF Replace
<1>4. tainted \subseteq tainted' /\ behind \subseteq behind' /\ revived \subseteq revived'
  BY <1>3
<1>5. req[r].late = FALSE \/ req[r].late = TRUE
  BY DEF IInv, TypeOK, Request
<1>6. HandlerOK(r)
  BY DEF IInv
<1>7. \* nobody's token is taken away
      \A t \in Tokens : issued[t] # None => issued'[t] = issued[t]
  BY <1>6 DEF HandlerOK, TokenOK
<1>8. TypeOK'
  <2>1. tainted' \subseteq Users /\ behind' \subseteq Users /\ revived' \subseteq Tokens
    BY <1>3 DEF IInv, TypeOK, Revives
  <2> QED BY <1>1, <2>1 DEF IInv, TypeOK
<1>9. ASSUME NEW s \in Requests \ {r} PROVE HandlerOK(s)'
  <2>1. HandlerOK(s) /\ req[s] \in Request
    BY DEF IInv, TypeOK
  <2>2. CopyOK(s)'
    <3>1. PICK v, d : v = req[s].user /\ d = req[s].copy
      OBVIOUS
    <3>2. ASSUME req[s].pc \notin Reading, Known(v, d.password)
          PROVE  d.password # None =>
                   \E t \in Tokens : issued'[t] = v /\ d.password \in used'[t]
      <4>1. v \in Users /\ v # None
        BY <2>1, <3>1, <3>2 DEF HandlerOK, CopyOK, Reading
      <4> QED BY <1>7, <3>2, <4>1, KnownKept
    <3>3. ASSUME req[s].pc \notin Reading, Sent(v, d.reset)
          PROVE  d.reset # None => issued'[d.reset] = v
      <4>1. v \in Users /\ v # None /\ d.reset \in Tokens \cup {None}
        BY <2>1, <3>1, <3>3 DEF HandlerOK, CopyOK, Reading, Request, Doc
      <4> QED BY <1>7, <3>3, <4>1 DEF Sent
    <3> QED BY <1>2, <2>1, <3>1, <3>2, <3>3
         DEF HandlerOK, CopyOK, Writes, Reading, Owned, Known, Sent
  <2>3. TokenOK(s)'
    <3>1. Writes(s, "reset")' =>
            /\ req'[s].token \in Tokens /\ issued'[req'[s].token] = req'[s].user
            /\ req'[s].copy.password \in Passwords /\ req'[s].copy.reset = None
      <4>1. Writes(s, "reset") => req[s].user \in Users
        BY <2>1 DEF HandlerOK, CopyOK, Writes
      <4> QED BY <1>2, <1>7, <2>1, <4>1 DEF HandlerOK, TokenOK, Writes
    <3>2. Writes(s, "forgot") =>
            /\ req[s].token \in Tokens /\ req[s].token # req[r].token
            /\ issued'[req[s].token] = None
      BY <2>1 DEF HandlerOK, TokenOK
    <3>3. Writes(s, "forgot") =>
            \A t \in Requests \ {s} : req'[t].token # req[s].token
      BY <1>1, <1>2, <2>1, <3>2 DEF HandlerOK, TokenOK
    <3>4. req'[s].op \notin {"forgot", "reset"} => req'[s].token = None
      BY <1>2, <2>1 DEF HandlerOK, TokenOK
    <3> QED BY <1>2, <2>1, <3>1, <3>2, <3>3, <3>4 DEF HandlerOK, TokenOK, Writes
  <2>4. Fresh(s)'
    <3>1. req'[s].late = FALSE /\ req[s].pc \notin Reading => doc'[req[s].user] = doc[req[s].user]
      BY <1>1, <1>2, <2>1 DEF HandlerOK, CopyOK, Reading
    <3> QED BY <1>2, <2>1, <3>1 DEF HandlerOK, Fresh, Writes, Reading, Written
  <2> QED BY <2>2, <2>3, <2>4 DEF HandlerOK
<1>10. ASSUME NEW v \in Users \ {u} PROVE UserOK(v)'
  <2>1. UserOK(v) /\ doc[v] \in Doc /\ v # None
    BY DEF IInv, TypeOK
  <2>2. PICK d : d = doc[v] /\ d = doc'[v]
    BY <1>1
  <2>3. d.password # None => \E t \in Tokens : issued'[t] = v /\ d.password \in used'[t]
    BY <1>7, <2>1, <2>2, KnownKept DEF UserOK
  <2>4. d.reset # None => issued'[d.reset] = v
    BY <1>7, <2>1, <2>2 DEF UserOK, Sent, Doc
  <2> QED BY <2>1, <2>2, <2>3, <2>4 DEF UserOK, Owned, Known, Sent
<1>11. ASSUME NEW v \in Users PROVE CacheOK(v)'
  <2>1. /\ CacheOK(v) /\ UNCHANGED <<cache, fileOwner>>
        /\ Dropping(v) => Dropping(v)'
        /\ Unclosed(v) => Unclosed(v)'
    <3>1. \A s \in Requests : req[s].pc \in {"drop"} \cup Resetting =>
            req'[s].pc = req[s].pc /\ req'[s].user = req[s].user
      BY <1>2 DEF Resetting
    <3> QED BY <3>1 DEF IInv, Dropping, Unclosed
  <2>2. CASE v # u
    <3>1. doc'[v] = doc[v] /\ (v \in tainted => v \in tainted')
          /\ (v \in behind => v \in behind')
      BY <1>1, <1>4, <2>2
    <3>2. Shown(v) => Shown(v)'
      BY <2>1, <3>1 DEF Shown
    <3> QED BY <2>1, <3>1, <3>2 DEF CacheOK, Owned
  <2>3. CASE v = u /\ req[r].late = TRUE
    BY <1>3, <2>1, <2>3 DEF CacheOK, Owned
  <2>4. CASE v = u /\ req[r].op = "profile"
    <3>1. Dropping(u)'
      BY <1>1, <2>4 DEF Dropping
    <3> QED BY <2>1, <2>4, <3>1 DEF CacheOK, Owned
  <2>5. CASE v = u /\ req[r].late = FALSE /\ req[r].op # "profile"
    <3>1. doc'[u].name = doc[u].name /\ doc'[u].avatar = doc[u].avatar
      BY <1>0, <1>6, <2>5 DEF HandlerOK, Fresh, Keeps
    <3>2. u \in behind' \/ Unclosed(u)'
      <4>1. CASE req[r].op = "reset"
        BY <1>1, <4>1 DEF Unclosed, Resetting
      <4> QED BY <1>3, <2>5, <4>1
    <3> QED BY <1>4, <2>1, <2>5, <3>1, <3>2 DEF CacheOK, Shown, Owned
  <2> QED BY <1>5, <2>2, <2>3, <2>4, <2>5
<1>12. ASSUME NEW t \in Tokens, issued'[t] = None PROVE used'[t] = {}
  <2>1. issued[t] = None
    BY <1>7, <1>12
  <2>2. used[t] = {} /\ ~(Writes(r, "reset") /\ t = req[r].token)
    BY <1>6, <2>1 DEF IInv, SpentOK, HandlerOK, CopyOK, TokenOK
  <2> QED BY <2>2
<1>13. ASSUME NEW t \in Tokens, NEW v \in Users, doc'[v].reset = t, used'[t] # {}
       PROVE  t \in revived'
  <2>1. ASSUME doc[v].reset = t, used[t] # {} PROVE t \in revived'
    BY <1>4, <2>1 DEF IInv, SpentOK
  <2>2. CASE v # u
    <3>1. doc[v].reset = t
      BY <1>1, <1>13, <2>2
    <3>2. issued[t] = v
      BY <3>1 DEF IInv, UserOK, Sent
    <3>3. ~(Writes(r, "reset") /\ t = req[r].token)
      BY <1>6, <2>2, <3>2 DEF HandlerOK, TokenOK
    <3> QED BY <1>13, <2>1, <3>1, <3>3
  <2>3. CASE v = u
    <3>1. req[r].copy.reset = t
      BY <1>0, <1>13, <2>3
    <3>2. req[r].op # "reset"
      BY <1>6, <3>1 DEF HandlerOK, TokenOK, Writes
    <3>3. used[t] # {}
      BY <1>13, <3>2 DEF Writes
    <3>4. req[r].op # "forgot"
      BY <1>6, <3>1, <3>3 DEF HandlerOK, TokenOK, Writes, IInv, SpentOK
    <3>5. req[r].token # t
      BY <1>6, <3>2, <3>4 DEF HandlerOK, TokenOK
    <3>6. CASE req[r].late = FALSE
      BY <1>6, <2>1, <2>3, <3>1, <3>2, <3>3, <3>4, <3>6 DEF HandlerOK, Fresh, Keeps
    <3>7. CASE req[r].late = TRUE
      BY <1>3, <2>1, <2>3, <3>1, <3>3, <3>5, <3>7 DEF Revives
    <3> QED BY <1>5, <3>6, <3>7
  <2> QED BY <2>2, <2>3
<1>14. SpentOK'
  BY <1>12, <1>13 DEF SpentOK
<1> QED BY <1>8, <1>9, <1>10, <1>11, <1>14 DEF IInv

\* The handler goes on, or answers, with what it wrote in its hands.
LEMMA AfterWrite ==
    ASSUME IInv, NEW r \in Requests, NEW step \in {"drop", "revoke"}, req[r].user \in Users,
           doc[req[r].user].updated < MaxWrites
    PROVE  /\ After(r, step) \in Request
           /\ After(r, step).pc = step /\ After(r, step).user = req[r].user
           /\ After(r, step).copy = Stamped(r) /\ After(r, step).token = req[r].token
           /\ After(r, step).op = req[r].op
<1>1. PICK q \in Request : q = req[r]
  BY DEF IInv, TypeOK
<1>2. PICK d \in Doc : d = Stamped(r)
  BY StampedCopy
<1>3. step \in Steps
  BY DEF Steps
<1> DEFINE next == [q EXCEPT !.pc = step, !.late = FALSE, !.copy = d]
<1>4. /\ next.pc = step /\ next.user = q.user /\ next.copy = d
      /\ next.token = q.token /\ next.op = q.op
  BY DEF Request
<1>5. next \in Request
  BY <1>3 DEF Request
<1>6. After(r, step) = next
  BY <1>1, <1>2 DEF After
<1> HIDE DEF next
<1> QED BY <1>1, <1>2, <1>4, <1>5, <1>6

LEMMA WrittenHere ==
    ASSUME IInv, NEW r \in Requests, NEW u \in Users, NEW next \in Request,
           u = req[r].user, Replace(r, next)
    PROVE  /\ req'[r] = next /\ doc'[u] = Stamped(r)
           /\ Stamped(r).password = req[r].copy.password
           /\ Stamped(r).reset = req[r].copy.reset
           /\ Stamped(r).yandex = req[r].copy.yandex
           /\ Stamped(r).name = req[r].copy.name
           /\ Stamped(r).avatar = req[r].copy.avatar
<1>1. req'[r] = next
  BY DEF Replace
<1>2. doc' = [doc EXCEPT ![u] = Stamped(r)] /\ doc \in [Users -> Doc]
  BY DEF Replace, IInv, TypeOK
<1>3. doc[req[r].user].updated < MaxWrites
  BY DEF Replace
<1> QED BY <1>1, <1>2, <1>3, StampedCopy

LEMMA WrittenUser ==
    ASSUME NEW u, NEW d, doc'[u] = d, UNCHANGED <<fileOwner, issued, used>>,
           Owned(u, d.avatar), Known(u, d.password), Sent(u, d.reset)
    PROVE  UserOK(u)'
BY DEF UserOK, Owned, Known, Sent

LEMMA ProfileWriteStep ==
    ASSUME IInv, NEW r \in Requests, ProfileWrite(r)
    PROVE  IInv'
<1> DEFINE next == After(r, "drop")
<1>1. PICK u : u = req[r].user
  OBVIOUS
<1>2. /\ req[r].pc = "write" /\ req[r].op = "profile" /\ Replace(r, next)
      /\ UNCHANGED <<files, fileOwner, cache, enabled, lapsed, faults, issued, used>>
  BY DEF ProfileWrite, At
<1>3. HandlerOK(r) /\ u \in Users
  BY <1>1, <1>2 DEF IInv, HandlerOK, CopyOK
<1>4. /\ next \in Request /\ next.pc = "drop" /\ next.user = u
      /\ next.copy = Stamped(r) /\ next.token = req[r].token /\ next.op = req[r].op
  BY <1>1, <1>2, <1>3, AfterWrite DEF Replace
<1> HIDE DEF next
<1>5. /\ req'[r] = next /\ doc'[u] = Stamped(r)
      /\ Stamped(r).password = req[r].copy.password
      /\ Stamped(r).reset = req[r].copy.reset
      /\ Stamped(r).avatar = req[r].copy.avatar
  BY <1>1, <1>2, <1>3, <1>4, WrittenHere
<1>6. /\ Owned(u, req[r].copy.avatar) /\ Known(u, req[r].copy.password)
      /\ Sent(u, req[r].copy.reset)
  BY <1>1, <1>2, <1>3 DEF HandlerOK, CopyOK, Writes, Reading
<1>7. UserOK(u)'
  <2>1. PICK d : d = Stamped(r)
    OBVIOUS
  <2> QED BY <1>2, <1>5, <1>6, <2>1, WrittenUser
<1>8. HandlerOK(r)'
  BY <1>2, <1>3, <1>4, <1>5, <1>6
     DEF HandlerOK, CopyOK, TokenOK, Fresh, Writes, Reading, Written, Owned, Known, Sent
<1>9. issued' \in [Tokens -> Users \cup {None}] /\ used' \in [Tokens -> SUBSET Passwords]
  BY <1>2 DEF IInv, TypeOK
<1> QED BY <1>1, <1>2, <1>3, <1>4, <1>7, <1>8, <1>9, Replacing

LEMMA LinkWriteStep ==
    ASSUME IInv, NEW r \in Requests, LinkWrite(r)
    PROVE  IInv'
<1>1. PICK u : u = req[r].user
  OBVIOUS
<1>2. /\ req[r].pc = "write" /\ req[r].op = "link" /\ Replace(r, Idle)
      /\ UNCHANGED <<files, fileOwner, cache, enabled, lapsed, faults, issued, used>>
  BY DEF LinkWrite, At
<1>3. HandlerOK(r) /\ u \in Users
  BY <1>1, <1>2 DEF IInv, HandlerOK, CopyOK
<1>4. /\ req'[r] = Idle /\ doc'[u] = Stamped(r)
      /\ Stamped(r).password = req[r].copy.password
      /\ Stamped(r).reset = req[r].copy.reset
      /\ Stamped(r).avatar = req[r].copy.avatar
  BY <1>1, <1>2, <1>3, IdleRequest, WrittenHere
<1>5. /\ Owned(u, req[r].copy.avatar) /\ Known(u, req[r].copy.password)
      /\ Sent(u, req[r].copy.reset)
  BY <1>1, <1>2, <1>3 DEF HandlerOK, CopyOK, Writes, Reading
<1>6. UserOK(u)'
  <2>1. PICK d : d = Stamped(r)
    OBVIOUS
  <2> QED BY <1>2, <1>4, <1>5, <2>1, WrittenUser
<1>7. HandlerOK(r)'
  BY <1>4, IdleRequest DEF HandlerOK, CopyOK, TokenOK, Fresh, Writes, Reading, Written
<1>8. issued' \in [Tokens -> Users \cup {None}] /\ used' \in [Tokens -> SUBSET Passwords]
  BY <1>2 DEF IInv, TypeOK
<1> QED BY <1>1, <1>2, <1>3, <1>6, <1>7, <1>8, IdleRequest, Replacing

LEMMA ForgotWriteStep ==
    ASSUME IInv, NEW r \in Requests, ForgotWrite(r)
    PROVE  IInv'
<1>1. PICK u : u = req[r].user
  OBVIOUS
<1>2. /\ req[r].pc = "write" /\ req[r].op = "forgot" /\ Replace(r, Idle)
      /\ issued' = [issued EXCEPT ![req[r].token] = u]
      /\ UNCHANGED <<files, fileOwner, cache, enabled, lapsed, faults, used>>
  BY <1>1 DEF ForgotWrite, At
<1>3. HandlerOK(r) /\ u \in Users
  BY <1>1, <1>2 DEF IInv, HandlerOK, CopyOK
<1>4. /\ req'[r] = Idle /\ doc'[u] = Stamped(r)
      /\ Stamped(r).password = req[r].copy.password
      /\ Stamped(r).reset = req[r].copy.reset
      /\ Stamped(r).avatar = req[r].copy.avatar
  BY <1>1, <1>2, <1>3, IdleRequest, WrittenHere
<1>5. /\ req[r].token \in Tokens /\ issued[req[r].token] = None
      /\ req[r].copy.reset = req[r].token
  BY <1>2, <1>3 DEF HandlerOK, TokenOK, Writes
<1>6. /\ issued' \in [Tokens -> Users \cup {None}] /\ issued'[req[r].token] = u
      /\ \A t \in Tokens \ {req[r].token} : issued'[t] = issued[t]
  <2>1. issued \in [Tokens -> Users \cup {None}]
    BY DEF IInv, TypeOK
  <2> QED BY <1>2, <1>3, <1>5, <2>1
<1>7. Owned(u, req[r].copy.avatar) /\ Known(u, req[r].copy.password)
  BY <1>1, <1>2, <1>3 DEF HandlerOK, CopyOK, Writes, Reading
<1>8. UserOK(u)'
  <2>1. PICK p : p = req[r].copy.password
    OBVIOUS
  <2>2. p # None => \E t \in Tokens : issued'[t] = u /\ p \in used'[t]
    BY <1>2, <1>3, <1>5, <1>6, <1>7, <2>1, KnownKept
  <2> QED BY <1>2, <1>4, <1>5, <1>6, <1>7, <2>1, <2>2 DEF UserOK, Owned, Known, Sent
<1>9. HandlerOK(r)'
  BY <1>4, IdleRequest DEF HandlerOK, CopyOK, TokenOK, Fresh, Writes, Reading, Written
<1>10. used' \in [Tokens -> SUBSET Passwords] /\ \A t \in Tokens : used[t] \subseteq used'[t]
  BY <1>2 DEF IInv, TypeOK
<1>11. \A t \in Tokens : issued'[t] = issued[t] \/ (Writes(r, "forgot") /\ t = req[r].token)
  BY <1>2, <1>6 DEF Writes
<1> QED BY <1>1, <1>2, <1>3, <1>6, <1>8, <1>9, <1>10, <1>11, IdleRequest, Replacing

LEMMA ResetWriteStep ==
    ASSUME IInv, NEW r \in Requests, ResetWrite(r)
    PROVE  IInv'
<1> DEFINE next == After(r, "revoke")
<1>1. PICK u : u = req[r].user
  OBVIOUS
<1>2. /\ req[r].pc = "write" /\ req[r].op = "reset" /\ Replace(r, next)
      /\ used' = [used EXCEPT ![req[r].token] = @ \cup {req[r].copy.password}]
      /\ UNCHANGED <<files, fileOwner, cache, enabled, lapsed, faults, issued>>
  BY DEF ResetWrite, At
<1>3. HandlerOK(r) /\ u \in Users
  BY <1>1, <1>2 DEF IInv, HandlerOK, CopyOK
<1>4. /\ next \in Request /\ next.pc = "revoke" /\ next.user = u
      /\ next.copy = Stamped(r) /\ next.token = req[r].token /\ next.op = req[r].op
  BY <1>1, <1>2, <1>3, AfterWrite DEF Replace
<1> HIDE DEF next
<1>5. /\ req'[r] = next /\ doc'[u] = Stamped(r)
      /\ Stamped(r).password = req[r].copy.password
      /\ Stamped(r).reset = req[r].copy.reset
      /\ Stamped(r).avatar = req[r].copy.avatar
  BY <1>1, <1>2, <1>3, <1>4, WrittenHere
<1>6. /\ req[r].token \in Tokens /\ issued[req[r].token] = u
      /\ req[r].copy.password \in Passwords
  BY <1>1, <1>2, <1>3 DEF HandlerOK, TokenOK, Writes
<1>7. /\ used' \in [Tokens -> SUBSET Passwords]
      /\ req[r].copy.password \in used'[req[r].token]
      /\ \A t \in Tokens : used[t] \subseteq used'[t]
      /\ \A t \in Tokens \ {req[r].token} : used'[t] = used[t]
  BY <1>2, <1>6 DEF IInv, TypeOK
<1>8. Owned(u, req[r].copy.avatar) /\ Sent(u, req[r].copy.reset)
  BY <1>1, <1>2, <1>3 DEF HandlerOK, CopyOK, Writes, Reading
<1>9. UserOK(u)'
  BY <1>2, <1>5, <1>6, <1>7, <1>8 DEF UserOK, Owned, Known, Sent
<1>10. HandlerOK(r)'
  BY <1>2, <1>3, <1>4, <1>5, <1>6, <1>7, <1>8
     DEF HandlerOK, CopyOK, TokenOK, Fresh, Writes, Reading, Written, Owned, Known, Sent
<1>11. issued' \in [Tokens -> Users \cup {None}]
  BY <1>2 DEF IInv, TypeOK
<1>12. \A t \in Tokens : used'[t] = used[t] \/ (Writes(r, "reset") /\ t = req[r].token)
  BY <1>2, <1>7 DEF Writes
<1> QED BY <1>1, <1>2, <1>3, <1>4, <1>7, <1>9, <1>10, <1>11, <1>12, Replacing

(***************************************************************************)
(* Crashes and time.                                                       *)
(***************************************************************************)

LEMMA CrashStep ==
    ASSUME IInv, Crash
    PROVE  IInv'
<1>1. /\ enabled' \in BOOLEAN
      /\ tainted' = tainted \cup UsersAt({"drop"}) /\ behind' = behind \cup UsersAt(Resetting)
      /\ req' = [r \in Requests |-> Idle]
      /\ UNCHANGED <<doc, files, fileOwner, cache, lapsed, faults, issued, used, revived>>
  BY DEF Crash
<1>2. UsersAt({"drop"}) \subseteq Users /\ UsersAt(Resetting) \subseteq Users
  BY DEF UsersAt, Resetting, IInv, HandlerOK, CopyOK
<1>3. req' \in [Requests -> Request] /\ \A r \in Requests : req'[r] = Idle
  BY <1>1, IdleRequest
<1>4. TypeOK'
  <2>1. tainted' \subseteq Users /\ behind' \subseteq Users
    BY <1>1, <1>2 DEF IInv, TypeOK
  <2> QED BY <1>1, <1>3, <2>1 DEF IInv, TypeOK
<1>5. ASSUME NEW u \in Users PROVE UserOK(u)'
  BY <1>1 DEF IInv, UserOK, Owned, Known, Sent
<1>6. ASSUME NEW r \in Requests PROVE HandlerOK(r)'
  BY <1>3, IdleRequest DEF HandlerOK, CopyOK, TokenOK, Fresh, Writes, Reading, Written
<1>7. ASSUME NEW u \in Users PROVE CacheOK(u)'
  <2>1. \A r \in Requests :
          /\ req[r].pc = "drop" /\ req[r].user = u => u \in tainted'
          /\ req[r].pc \in Resetting /\ req[r].user = u => u \in behind'
    BY <1>1 DEF UsersAt
  <2>2. (u \in tainted => u \in tainted') /\ (u \in behind => u \in behind')
    BY <1>1
  <2> QED BY <1>1, <2>1, <2>2, CacheKept
<1>8. SpentOK'
  BY <1>1, SpentKept
<1> QED BY <1>4, <1>5, <1>6, <1>7, <1>8 DEF IInv

LEMMA ExpireStep ==
    ASSUME IInv, NEW u \in Users, Expire(u)
    PROVE  IInv'
<1>1. /\ cache' = [cache EXCEPT ![u] = Missing]
      /\ tainted' = tainted \ {u} /\ behind' = behind \ {u}
      /\ UNCHANGED <<doc, files, fileOwner, enabled, lapsed, req, faults, issued, used, revived>>
  BY DEF Expire
<1>2. TypeOK'
  <2>1. tainted' \subseteq Users /\ behind' \subseteq Users
    BY <1>1 DEF IInv, TypeOK
  <2> QED BY <1>1, <2>1 DEF IInv, TypeOK
<1>3. ASSUME NEW v \in Users PROVE UserOK(v)'
  BY <1>1 DEF IInv, UserOK, Owned, Known, Sent
<1>4. ASSUME NEW r \in Requests PROVE HandlerOK(r)'
  BY <1>1 DEF IInv, HandlerOK, CopyOK, TokenOK, Fresh, Writes, Owned, Known, Sent
<1>5. CacheOK(u)'
  BY <1>1, CacheMissing DEF IInv, TypeOK
<1>6. ASSUME NEW v \in Users \ {u} PROVE CacheOK(v)'
  <2>1. /\ cache'[v] = cache[v]
        /\ (v \in tainted => v \in tainted') /\ (v \in behind => v \in behind')
    BY <1>1 DEF IInv, TypeOK
  <2> QED BY <1>1, <2>1, CacheKept
<1>7. SpentOK'
  BY <1>1, SpentKept
<1> QED BY <1>2, <1>3, <1>4, <1>5, <1>6, <1>7 DEF IInv

LEMMA OutsideStep ==
    ASSUME IInv, (\E t \in Tokens : Lapse(t)) \/ UNCHANGED vars
    PROVE  IInv'
<1>1. UNCHANGED <<doc, files, fileOwner, cache, enabled, req, faults,
                  issued, used, tainted, behind, revived>>
  BY DEF Lapse, vars, stores, history
<1>2. lapsed' \subseteq Tokens
  <2>1. CASE \E t \in Tokens : Lapse(t)
    BY <2>1 DEF Lapse, IInv, TypeOK
  <2>2. CASE UNCHANGED vars
    BY <2>2 DEF vars, IInv, TypeOK
  <2> QED BY <2>1, <2>2
<1>3. TypeOK'
  BY <1>1, <1>2 DEF IInv, TypeOK
<1>4. ASSUME NEW u \in Users PROVE UserOK(u)'
  BY <1>1 DEF IInv, UserOK, Owned, Known, Sent
<1>5. ASSUME NEW u \in Users PROVE CacheOK(u)'
  BY <1>1, CacheKept
<1>6. ASSUME NEW r \in Requests PROVE HandlerOK(r)'
  BY <1>1 DEF IInv, HandlerOK, CopyOK, TokenOK, Fresh, Writes, Owned, Known, Sent
<1>7. SpentOK'
  BY <1>1, SpentKept
<1> QED BY <1>3, <1>4, <1>5, <1>6, <1>7 DEF IInv

(***************************************************************************)
(* The theorems.                                                           *)
(***************************************************************************)

LEMMA InitIInv == Init => IInv
<1> SUFFICES ASSUME Init PROVE IInv
  OBVIOUS
<1>1. TypeOK
  BY IdleRequest DEF Init, TypeOK
<1>2. ASSUME NEW u \in Users PROVE UserOK(u) /\ CacheOK(u)
  BY <1>1 DEF Init, UserOK, CacheOK, Owned, Known, Sent, Blank
<1>3. ASSUME NEW r \in Requests PROVE HandlerOK(r)
  BY IdleIsOK DEF Init
<1>4. SpentOK
  BY DEF Init, SpentOK
<1> QED BY <1>1, <1>2, <1>3, <1>4 DEF IInv

LEMMA NextIInv == IInv /\ [Next]_vars => IInv'
<1> SUFFICES ASSUME IInv, [Next]_vars PROVE IInv'
  OBVIOUS
<1>1. ASSUME NEW r \in Requests, Get(r) PROVE IInv'
  BY <1>1, GetMissStep, GetFindStep, FillStep DEF Get
<1>2. ASSUME NEW r \in Requests, UpdateProfile(r) PROVE IInv'
  BY <1>2, ProfileFindStep, AvatarCheckStep, ProfileWriteStep, DropSteps, AvatarDeleteStep
     DEF UpdateProfile
<1>3. ASSUME NEW r \in Requests, Recover(r) PROVE IInv'
  BY <1>3, ForgotFindStep, ForgotWriteStep, ResetFindStep, ResetWriteStep,
     ResetRevokeStep, ResetCloseStep DEF Recover
<1>4. ASSUME NEW r \in Requests, Link(r) PROVE IInv'
  BY <1>4, LinkFindStep, LinkWriteStep DEF Link
<1> QED BY <1>1, <1>2, <1>3, <1>4, AbortStep, CrashStep, ExpireStep, OutsideStep DEF Next

\* What is true of every document is true of every copy that ReplaceOne can
\* still write back, and a copy that no write overtook is the document but for
\* the fields its handler is there to change.
THEOREM Inductive == Spec => []IInv
<1>1. Init => IInv
  BY InitIInv
<1>2. IInv /\ [Next]_vars => IInv'
  BY NextIInv
<1> QED BY <1>1, <1>2, PTL DEF Spec

\* Every variable has its type.
THEOREM TypeCorrect == Spec => []TypeOK
<1>1. IInv => TypeOK
  BY DEF IInv
<1> QED BY <1>1, Inductive, PTL

\* The avatar that GetMetadata checked before Update is the only kind there
\* is in a document or a cached profile: a file of the same user.
THEOREM AvatarsAreOwn == Spec => []AvatarIsOwn
<1>1. IInv => AvatarIsOwn
  BY DEF IInv, UserOK, CacheOK, Owned, AvatarIsOwn
<1> QED BY <1>1, Inductive, PTL

\* ForgotPassword and ResetPassword: a password set later than at the
\* registration came with a token that was answered to the same user.
THEOREM PasswordsAreRecovered == Spec => []PasswordsComeWithTokens
<1>1. IInv => PasswordsComeWithTokens
  BY DEF IInv, UserOK, Known, PasswordsComeWithTokens
<1> QED BY <1>1, Inductive, PTL

\* Update and invalidateProfileCache: a cached profile shows the name and the
\* avatar of its document but for a due deletion, an overlap, a failure or a
\* process without Redis; its updatedAt is older also after ForgotPassword, a
\* linked account or an unfinished reset.
THEOREM ProfilesAreFresh == Spec => []ProfileStaleOnlyByOverlap
<1>1. IInv => ProfileStaleOnlyByOverlap
  <2> SUFFICES ASSUME IInv, NEW u \in Users
               PROVE  \/ cache[u] = Missing \/ u \in tainted \cup UsersAt({"drop"})
                      \/ /\ \A f \in {"name", "avatar"} : cache[u][f] = doc[u][f]
                         /\ \/ cache[u].updated = doc[u].updated
                            \/ u \in behind \cup UsersAt(Resetting)
    BY DEF ProfileStaleOnlyByOverlap
  <2>1. CacheOK(u)
    BY DEF IInv
  <2>2. CASE Shown(u)
    BY <2>2, IsUserAt DEF Shown
  <2> QED BY <2>1, <2>2, IsUserAt DEF CacheOK
<1> QED BY <1>1, Inductive, PTL

\* ResetPassword clears the token it was given: the token changes the password
\* again only if two resets had read the document, or a late ReplaceOne of
\* another handler brought the token back.
THEOREM TokensAreSpentOnce == Spec => TokenSpentTwiceOnlyByOverlap
<1> DEFINE Once == \A r \in Requests : ResetWrite(r) /\ used[req[r].token] # {} =>
                     req[r].late \/ req[r].token \in revived
<1>1. IInv /\ [Next]_vars => [Once]_vars
  <2> SUFFICES ASSUME IInv, NEW r \in Requests, ResetWrite(r), used[req[r].token] # {},
                      ~req[r].late
               PROVE  req[r].token \in revived
    OBVIOUS
  <2>1. Writes(r, "reset") /\ HandlerOK(r)
    BY DEF ResetWrite, At, Writes, IInv
  <2>2. req[r].late = FALSE
    BY DEF IInv, TypeOK, Request
  <2>3. /\ req[r].token \in Tokens /\ req[r].user \in Users
        /\ doc[req[r].user].reset = req[r].token
    BY <2>1, <2>2 DEF HandlerOK, CopyOK, TokenOK, Fresh, Writes
  <2> QED BY <2>3 DEF IInv, SpentOK
<1>2. Spec => [][Once]_vars
  BY <1>1, Inductive, PTL DEF Spec
<1> QED BY <1>2 DEF TokenSpentTwiceOnlyByOverlap

\* ReplaceOne of a copy that no other write overtook changes the fields of its
\* handler and no other field.
THEOREM LostOnlyByOverlap == Spec => OverlapFreeWritesKeep
<1> DEFINE Kept == \A r \in Requests : Write(r) /\ ~req[r].late =>
                     \A f \in DOMAIN Blank \ Own(req[r].op) :
                       doc'[req[r].user][f] = doc[req[r].user][f]
<1>1. IInv /\ [Next]_vars => [Kept]_vars
  <2> SUFFICES ASSUME IInv, NEW r \in Requests, Write(r), ~req[r].late,
                      NEW f \in DOMAIN Blank \ Own(req[r].op)
               PROVE  doc'[req[r].user][f] = doc[req[r].user][f]
    OBVIOUS
  <2>1. /\ req[r].pc = "write" /\ req[r].op \in {"profile", "forgot", "reset", "link"}
        /\ \E next : Replace(r, next)
    BY DEF Write, ProfileWrite, ForgotWrite, ResetWrite, LinkWrite, At
  <2>2. req[r].user \in Users /\ Fresh(r)
    BY <2>1 DEF IInv, HandlerOK, CopyOK
  <2>3. /\ doc'[req[r].user] = Stamped(r)
        /\ Stamped(r).password = req[r].copy.password
        /\ Stamped(r).reset = req[r].copy.reset
        /\ Stamped(r).yandex = req[r].copy.yandex
        /\ Stamped(r).name = req[r].copy.name
        /\ Stamped(r).avatar = req[r].copy.avatar
    <3>1. /\ doc' = [doc EXCEPT ![req[r].user] = Stamped(r)]
          /\ doc[req[r].user].updated < MaxWrites
      BY <2>1 DEF Replace
    <3>2. doc'[req[r].user] = Stamped(r)
      BY <2>2, <3>1 DEF IInv, TypeOK
    <3> QED BY <2>2, <3>1, <3>2, StampedCopy
  <2>4. req[r].late = FALSE
    BY DEF IInv, TypeOK, Request
  <2>5. Keeps(req[r].op, req[r].copy, doc[req[r].user])
    BY <2>1, <2>2, <2>4 DEF Fresh
  <2>6. DOMAIN Blank = {"password", "reset", "yandex", "name", "avatar", "updated"}
    BY DEF Blank
  <2>7. PICK op, new, d : op = req[r].op /\ new = Stamped(r) /\ d = doc[req[r].user]
    OBVIOUS
  <2>9. Keeps(op, new, d)
    BY <2>3, <2>5, <2>7 DEF Keeps
  <2>8. new[f] = d[f]
    <3>1. CASE op = "profile"
      BY <2>6, <2>7, <2>9, <3>1 DEF Keeps, Own
    <3>2. CASE op = "forgot"
      BY <2>6, <2>7, <2>9, <3>2 DEF Keeps, Own
    <3>3. CASE op = "reset"
      BY <2>6, <2>7, <2>9, <3>3 DEF Keeps, Own
    <3>4. CASE op = "link"
      BY <2>6, <2>7, <2>9, <3>4 DEF Keeps, Own
    <3> QED BY <2>1, <2>7, <3>1, <3>2, <3>3, <3>4
  <2> QED BY <2>3, <2>7, <2>8
<1>2. Spec => [][Kept]_vars
  BY <1>1, Inductive, PTL DEF Spec
<1> QED BY <1>2 DEF OverlapFreeWritesKeep
=============================================================================
