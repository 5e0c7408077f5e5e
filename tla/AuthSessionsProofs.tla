-------------------------- MODULE AuthSessionsProofs --------------------------
(* Theorems of AuthSessions, for every set of users, pairs and requests and  *)
(* whatever the other constants are.                                         *)
EXTENDS AuthSessions, TLAPS

USE NoneIsNoIdentifier

(***************************************************************************)
(* What every request knows of the stores at each of its steps.            *)
(***************************************************************************)

\* A pair that was not created appears nowhere.
UncreatedIsBlank ==
    \A p \in Pairs : owner[p] = None =>
        refresh[p] = "none" /\ parent[p] = None /\ p \notin access /\ p \notin held

\* A request that created a pair is the only one that will record it.
CreatorOwnsNew ==
    /\ \A r \in Requests : At(r, "save") =>
         /\ req[r].new \in Pairs
         /\ owner[req[r].new] \in Users
         /\ refresh[req[r].new] = "none"
    /\ \A r, s \in Requests : At(r, "save") /\ At(s, "save") /\ r # s =>
         req[r].new # req[s].new

\* The tokens a request presents are tokens of the user it runs for, and a
\* request that goes on to create a pair has revoked the one it exchanges.
PresentedAreOwn ==
    \A r \in Requests :
        /\ ~At(r, "idle") => req[r].user \in Users
        /\ At(r, "rotate") \/ At(r, "out_revoke") =>
             req[r].ref \in Pairs /\ owner[req[r].ref] = req[r].user
        /\ At(r, "rotate") \/ At(r, "out_revoke") => refresh[req[r].ref] # "none"
        /\ At(r, "issue") /\ req[r].ref # None => refresh[req[r].ref] = "revoked"
        /\ At(r, "out_access") \/ At(r, "out_find") \/ At(r, "out_revoke")
             \/ At(r, "out_profile") =>
             req[r].acc \in Pairs /\ owner[req[r].acc] = req[r].user

\* What a closing request will report is closed already.
BeforeIsClosed ==
    \A r \in Requests :
        /\ \A p \in req[r].before : owner[p] = req[r].user /\ owner[p] # None
        /\ At(r, "all_revoke") =>
             \A p \in req[r].before : refresh[p] # "none"
        /\ ~At(r, "all_revoke") =>
             \A p \in req[r].before : refresh[p] = "revoked"
        /\ At(r, "unlink") => req[r].before \cap access \subseteq req[r].todo
        /\ At(r, "all_profile") /\ enabled => req[r].before \cap access = {}
        /\ (At(r, "out_find") \/ At(r, "out_revoke") \/ At(r, "out_profile"))
             /\ enabled /\ req[r].via = "cookie" =>
             req[r].acc \in expired \/ req[r].acc \notin access

\* A closed access token stays closed whatever the cache is: its key is gone.
ClosedKeyIsGone ==
    \A p \in closedAccess : owner[p] # None /\ (p \in expired \/ p \notin access)

IInv ==
    /\ TypeOK
    /\ UncreatedIsBlank
    /\ CreatorOwnsNew
    /\ PresentedAreOwn
    /\ BeforeIsClosed
    /\ ClosedKeyIsGone
    /\ ClosedRefreshRevoked
    /\ SuccessorReplacesParent
    /\ HeldIsRecorded

\* A handler that only goes on to another step keeps its type, and so does a
\* handler that starts with or returns to a typed record.
LEMMA GotoTyped ==
    ASSUME TypeOK, NEW r \in Requests, NEW step \in Steps, Goto(r, step)
    PROVE  req' \in [Requests -> Request]
<1>1. req[r] \in Request
  BY DEF TypeOK
<1>2. [req[r] EXCEPT !.pc = step] \in Request
  BY <1>1 DEF Request
<1> QED BY <1>2 DEF TypeOK, Goto

LEMMA BeginTyped ==
    ASSUME TypeOK, NEW r \in Requests, NEW fields \in Request, Begin(r, fields)
    PROVE  req' \in [Requests -> Request]
BY DEF TypeOK, Begin

LEMMA IdleTyped == Idle \in Request
BY DEF Idle, Request, Steps, Carriers

LEMMA AnswerTyped ==
    ASSUME TypeOK, NEW r \in Requests, Answer(r)
    PROVE  req' \in [Requests -> Request]
BY IdleTyped DEF TypeOK, Answer

\* Revoking changes the state of documents to "revoked" and nothing else.
LEMMA RevokeTyped ==
    ASSUME TypeOK, NEW P, Revoke(P)
    PROVE  refresh' \in [Pairs -> {"none", "active", "revoked"}]
BY DEF TypeOK, Revoke

LEMMA LoginBeginStep ==
    ASSUME IInv, NEW r \in Requests, NEW u \in Users,
           LoginBegin(r, u)
    PROVE  IInv'
<1> USE DEF LoginBegin, At, Begin, Idle, store, clock, history
<1>1. TypeOK'
  BY DEF IInv, TypeOK, Request, Steps, Carriers
<1>2. UncreatedIsBlank'
  BY DEF IInv, TypeOK, Request, UncreatedIsBlank
<1>3. CreatorOwnsNew'
  BY DEF IInv, TypeOK, Request, CreatorOwnsNew
<1>4. PresentedAreOwn'
  BY DEF IInv, TypeOK, Request, PresentedAreOwn
<1>5. BeforeIsClosed'
  BY DEF IInv, TypeOK, Request, BeforeIsClosed
<1>6. ClosedKeyIsGone'
  BY DEF IInv, TypeOK, Request, ClosedKeyIsGone
<1>7. ClosedRefreshRevoked'
  BY DEF IInv, TypeOK, Request, ClosedRefreshRevoked
<1>8. SuccessorReplacesParent'
  BY DEF IInv, TypeOK, Request, SuccessorReplacesParent
<1>9. HeldIsRecorded'
  BY DEF IInv, TypeOK, Request, HeldIsRecorded
<1> QED BY <1>1, <1>2, <1>3, <1>4, <1>5, <1>6, <1>7, <1>8, <1>9 DEF IInv

LEMMA IssueStep ==
    ASSUME IInv, NEW r \in Requests, NEW p \in Pairs,
           Issue(r, p)
    PROVE  IInv'
<1> USE DEF Issue, At, store, clock, history
<1>1. TypeOK'
  <2>1. req[r] \in Request
    BY DEF IInv, TypeOK
  <2>2. [req[r] EXCEPT !.pc = "save", !.new = p] \in Request
    <3> HIDE DEF Issue
    <3> QED BY <2>1 DEF Request, Steps
  <2>3. req' \in [Requests -> Request]
    BY <2>2 DEF IInv, TypeOK
  <2>4. req[r].user \in Users /\ req[r].ref \in Pairs \cup {None}
    BY <2>1 DEF IInv, PresentedAreOwn, Request
  <2> QED BY <2>3, <2>4 DEF IInv, TypeOK
<1>2. UncreatedIsBlank'
  BY DEF IInv, TypeOK, Request, UncreatedIsBlank, PresentedAreOwn
<1>3. CreatorOwnsNew'
  BY DEF IInv, TypeOK, Request, CreatorOwnsNew, UncreatedIsBlank, PresentedAreOwn
<1>4. PresentedAreOwn'
  BY DEF IInv, TypeOK, Request, PresentedAreOwn, UncreatedIsBlank
<1>5. BeforeIsClosed'
  BY DEF IInv, TypeOK, Request, BeforeIsClosed, UncreatedIsBlank, PresentedAreOwn
<1>6. ClosedKeyIsGone'
  BY DEF IInv, TypeOK, Request, ClosedKeyIsGone, UncreatedIsBlank
<1>7. ClosedRefreshRevoked'
  BY DEF IInv, TypeOK, Request, ClosedRefreshRevoked
<1>8. SuccessorReplacesParent'
  BY DEF IInv, TypeOK, Request, SuccessorReplacesParent, PresentedAreOwn
<1>9. HeldIsRecorded'
  BY DEF IInv, TypeOK, Request, HeldIsRecorded, UncreatedIsBlank
<1> QED BY <1>1, <1>2, <1>3, <1>4, <1>5, <1>6, <1>7, <1>8, <1>9 DEF IInv

LEMMA SaveStep ==
    ASSUME IInv, NEW r \in Requests,
           Save(r)
    PROVE  IInv'
<1> USE DEF Save, At, Answer, Idle, store, clock, history
<1>1. TypeOK'
  <2>1. req' \in [Requests -> Request]
    BY AnswerTyped DEF IInv
  <2> QED BY <2>1 DEF IInv, TypeOK, CreatorOwnsNew
<1>2. UncreatedIsBlank'
  BY DEF IInv, TypeOK, Request, UncreatedIsBlank, CreatorOwnsNew
<1>3. CreatorOwnsNew'
  BY DEF IInv, TypeOK, Request, CreatorOwnsNew
<1>4. PresentedAreOwn'
  BY DEF IInv, TypeOK, Request, PresentedAreOwn, CreatorOwnsNew
<1>5. BeforeIsClosed'
  BY DEF IInv, TypeOK, Request, BeforeIsClosed, CreatorOwnsNew
<1>6. ClosedKeyIsGone'
  BY DEF IInv, TypeOK, Request, ClosedKeyIsGone
<1>7. ClosedRefreshRevoked'
  BY DEF IInv, TypeOK, Request, ClosedRefreshRevoked, CreatorOwnsNew
<1>8. SuccessorReplacesParent'
  BY DEF IInv, TypeOK, Request, SuccessorReplacesParent, CreatorOwnsNew
<1>9. HeldIsRecorded'
  BY DEF IInv, TypeOK, Request, HeldIsRecorded, CreatorOwnsNew
<1> QED BY <1>1, <1>2, <1>3, <1>4, <1>5, <1>6, <1>7, <1>8, <1>9 DEF IInv

LEMMA RefreshBeginStep ==
    ASSUME IInv, NEW r \in Requests, NEW p \in Pairs,
           RefreshBegin(r, p)
    PROVE  IInv'
<1> USE DEF RefreshBegin, At, Begin, Idle, Matches, ActiveTokens, PairsOf, store, clock, history
<1>1. TypeOK'
  BY DEF IInv, TypeOK, Request, Steps, Carriers
<1>2. UncreatedIsBlank'
  BY DEF IInv, TypeOK, Request, UncreatedIsBlank
<1>3. CreatorOwnsNew'
  BY DEF IInv, TypeOK, Request, CreatorOwnsNew
<1>4. PresentedAreOwn'
  BY DEF IInv, TypeOK, Request, PresentedAreOwn, HeldIsRecorded
<1>5. BeforeIsClosed'
  BY DEF IInv, TypeOK, Request, BeforeIsClosed, HeldIsRecorded
<1>6. ClosedKeyIsGone'
  BY DEF IInv, TypeOK, Request, ClosedKeyIsGone
<1>7. ClosedRefreshRevoked'
  BY DEF IInv, TypeOK, Request, ClosedRefreshRevoked
<1>8. SuccessorReplacesParent'
  BY DEF IInv, TypeOK, Request, SuccessorReplacesParent
<1>9. HeldIsRecorded'
  BY DEF IInv, TypeOK, Request, HeldIsRecorded
<1> QED BY <1>1, <1>2, <1>3, <1>4, <1>5, <1>6, <1>7, <1>8, <1>9 DEF IInv

LEMMA RotateStep ==
    ASSUME IInv, NEW r \in Requests,
           Rotate(r)
    PROVE  IInv'
<1> USE DEF Rotate, At, Goto, Revoke, store, clock, history
<1>1. TypeOK'
  <2>1. req' \in [Requests -> Request]
    BY GotoTyped DEF IInv, Steps
  <2>2. refresh' \in [Pairs -> {"none", "active", "revoked"}]
    BY RevokeTyped DEF IInv
  <2> QED BY <2>1, <2>2 DEF IInv, TypeOK
<1>2. UncreatedIsBlank'
  BY DEF IInv, TypeOK, Request, UncreatedIsBlank, PresentedAreOwn
<1>3. CreatorOwnsNew'
  BY DEF IInv, TypeOK, Request, CreatorOwnsNew, PresentedAreOwn
<1>4. PresentedAreOwn'
  BY DEF IInv, TypeOK, Request, PresentedAreOwn
<1>5. BeforeIsClosed'
  BY DEF IInv, TypeOK, Request, BeforeIsClosed
<1>6. ClosedKeyIsGone'
  BY DEF IInv, TypeOK, Request, ClosedKeyIsGone
<1>7. ClosedRefreshRevoked'
  BY DEF IInv, TypeOK, Request, ClosedRefreshRevoked
<1>8. SuccessorReplacesParent'
  BY DEF IInv, TypeOK, Request, SuccessorReplacesParent
<1>9. HeldIsRecorded'
  BY DEF IInv, TypeOK, Request, HeldIsRecorded
<1> QED BY <1>1, <1>2, <1>3, <1>4, <1>5, <1>6, <1>7, <1>8, <1>9 DEF IInv

LEMMA LogoutBeginStep ==
    ASSUME IInv, NEW r \in Requests, NEW p \in Pairs, NEW via \in {"cookie", "bearer"},
           NEW q \in held \cup {None},
           LogoutBegin(r, p, via, q)
    PROVE  IInv'
<1> USE DEF LogoutBegin, At, Begin, Idle, store, clock, history
<1>1. TypeOK'
  BY DEF IInv, TypeOK, Request, Steps, Carriers
<1>2. UncreatedIsBlank'
  BY DEF IInv, TypeOK, Request, UncreatedIsBlank
<1>3. CreatorOwnsNew'
  BY DEF IInv, TypeOK, Request, CreatorOwnsNew
<1>4. PresentedAreOwn'
  BY DEF IInv, TypeOK, Request, PresentedAreOwn, HeldIsRecorded
<1>5. BeforeIsClosed'
  BY DEF IInv, TypeOK, Request, BeforeIsClosed
<1>6. ClosedKeyIsGone'
  BY DEF IInv, TypeOK, Request, ClosedKeyIsGone
<1>7. ClosedRefreshRevoked'
  BY DEF IInv, TypeOK, Request, ClosedRefreshRevoked
<1>8. SuccessorReplacesParent'
  BY DEF IInv, TypeOK, Request, SuccessorReplacesParent
<1>9. HeldIsRecorded'
  BY DEF IInv, TypeOK, Request, HeldIsRecorded
<1> QED BY <1>1, <1>2, <1>3, <1>4, <1>5, <1>6, <1>7, <1>8, <1>9 DEF IInv

LEMMA OutAccessStep ==
    ASSUME IInv, NEW r \in Requests,
           OutAccess(r)
    PROVE  IInv'
<1> USE DEF OutAccess, At, Goto, store, clock, history
<1>1. TypeOK'
  <2>1. req' \in [Requests -> Request]
    BY GotoTyped DEF IInv, Steps
  <2> QED BY <2>1 DEF IInv, TypeOK
<1>2. UncreatedIsBlank'
  BY DEF IInv, TypeOK, Request, UncreatedIsBlank
<1>3. CreatorOwnsNew'
  BY DEF IInv, TypeOK, Request, CreatorOwnsNew
<1>4. PresentedAreOwn'
  BY DEF IInv, TypeOK, Request, PresentedAreOwn
<1>5. BeforeIsClosed'
  BY DEF IInv, TypeOK, Request, BeforeIsClosed
<1>6. ClosedKeyIsGone'
  BY DEF IInv, TypeOK, Request, ClosedKeyIsGone
<1>7. ClosedRefreshRevoked'
  BY DEF IInv, TypeOK, Request, ClosedRefreshRevoked
<1>8. SuccessorReplacesParent'
  BY DEF IInv, TypeOK, Request, SuccessorReplacesParent
<1>9. HeldIsRecorded'
  BY DEF IInv, TypeOK, Request, HeldIsRecorded
<1> QED BY <1>1, <1>2, <1>3, <1>4, <1>5, <1>6, <1>7, <1>8, <1>9 DEF IInv

LEMMA OutFindStep ==
    ASSUME IInv, NEW r \in Requests,
           OutFind(r)
    PROVE  IInv'
<1> USE DEF OutFind, At, Goto, Matches, ActiveTokens, PairsOf, store, clock, history
<1>1. TypeOK'
  <2>1. req' \in [Requests -> Request]
    BY GotoTyped DEF IInv, Steps
  <2> QED BY <2>1 DEF IInv, TypeOK
<1>2. UncreatedIsBlank'
  BY DEF IInv, TypeOK, Request, UncreatedIsBlank
<1>3. CreatorOwnsNew'
  BY DEF IInv, TypeOK, Request, CreatorOwnsNew
<1>4. PresentedAreOwn'
  BY DEF IInv, TypeOK, Request, PresentedAreOwn
<1>5. BeforeIsClosed'
  BY DEF IInv, TypeOK, Request, BeforeIsClosed
<1>6. ClosedKeyIsGone'
  BY DEF IInv, TypeOK, Request, ClosedKeyIsGone
<1>7. ClosedRefreshRevoked'
  BY DEF IInv, TypeOK, Request, ClosedRefreshRevoked
<1>8. SuccessorReplacesParent'
  BY DEF IInv, TypeOK, Request, SuccessorReplacesParent
<1>9. HeldIsRecorded'
  BY DEF IInv, TypeOK, Request, HeldIsRecorded
<1> QED BY <1>1, <1>2, <1>3, <1>4, <1>5, <1>6, <1>7, <1>8, <1>9 DEF IInv

LEMMA OutSkipStep ==
    ASSUME IInv, NEW r \in Requests,
           OutSkip(r)
    PROVE  IInv'
<1> USE DEF OutSkip, At, Goto, store, clock, history
<1>1. TypeOK'
  <2>1. req' \in [Requests -> Request]
    BY GotoTyped DEF IInv, Steps
  <2> QED BY <2>1 DEF IInv, TypeOK
<1>2. UncreatedIsBlank'
  BY DEF IInv, TypeOK, Request, UncreatedIsBlank
<1>3. CreatorOwnsNew'
  BY DEF IInv, TypeOK, Request, CreatorOwnsNew
<1>4. PresentedAreOwn'
  BY DEF IInv, TypeOK, Request, PresentedAreOwn
<1>5. BeforeIsClosed'
  BY DEF IInv, TypeOK, Request, BeforeIsClosed
<1>6. ClosedKeyIsGone'
  BY DEF IInv, TypeOK, Request, ClosedKeyIsGone
<1>7. ClosedRefreshRevoked'
  BY DEF IInv, TypeOK, Request, ClosedRefreshRevoked
<1>8. SuccessorReplacesParent'
  BY DEF IInv, TypeOK, Request, SuccessorReplacesParent
<1>9. HeldIsRecorded'
  BY DEF IInv, TypeOK, Request, HeldIsRecorded
<1> QED BY <1>1, <1>2, <1>3, <1>4, <1>5, <1>6, <1>7, <1>8, <1>9 DEF IInv

LEMMA OutRevokeStep ==
    ASSUME IInv, NEW r \in Requests,
           OutRevoke(r)
    PROVE  IInv'
<1> USE DEF OutRevoke, At, Revoke, store, clock, history
<1>1. TypeOK'
  <2>1. req[r] \in Request
    BY DEF IInv, TypeOK
  <2>2. [req[r] EXCEPT !.pc = "out_profile", !.before = {req[r].ref}] \in Request
    <3>1. req[r].ref \in Pairs
      BY DEF IInv, PresentedAreOwn
    <3> HIDE DEF OutRevoke, Revoke
    <3> QED BY <2>1, <3>1 DEF Request, Steps
  <2>3. req' \in [Requests -> Request]
    BY <2>2 DEF IInv, TypeOK
  <2>4. refresh' \in [Pairs -> {"none", "active", "revoked"}]
    BY RevokeTyped DEF IInv
  <2> QED BY <2>3, <2>4 DEF IInv, TypeOK
<1>2. UncreatedIsBlank'
  BY DEF IInv, TypeOK, Request, UncreatedIsBlank, PresentedAreOwn
<1>3. CreatorOwnsNew'
  BY DEF IInv, TypeOK, Request, CreatorOwnsNew, PresentedAreOwn
<1>4. PresentedAreOwn'
  BY DEF IInv, TypeOK, Request, PresentedAreOwn
<1>5. BeforeIsClosed'
  BY DEF IInv, TypeOK, Request, BeforeIsClosed, PresentedAreOwn
<1>6. ClosedKeyIsGone'
  BY DEF IInv, TypeOK, Request, ClosedKeyIsGone
<1>7. ClosedRefreshRevoked'
  BY DEF IInv, TypeOK, Request, ClosedRefreshRevoked
<1>8. SuccessorReplacesParent'
  BY DEF IInv, TypeOK, Request, SuccessorReplacesParent
<1>9. HeldIsRecorded'
  BY DEF IInv, TypeOK, Request, HeldIsRecorded
<1> QED BY <1>1, <1>2, <1>3, <1>4, <1>5, <1>6, <1>7, <1>8, <1>9 DEF IInv

LEMMA OutProfileStep ==
    ASSUME IInv, NEW r \in Requests,
           OutProfile(r)
    PROVE  IInv'
<1> USE DEF OutProfile, At, Answer, Idle, store, clock, history
<1>1. TypeOK'
  <2>1. req' \in [Requests -> Request]
    BY AnswerTyped DEF IInv
  <2>2. req[r].acc \in Pairs /\ req[r].before \subseteq Pairs
    BY DEF IInv, TypeOK, Request, PresentedAreOwn
  <2> QED BY <2>1, <2>2 DEF IInv, TypeOK
<1>2. UncreatedIsBlank'
  BY DEF IInv, TypeOK, Request, UncreatedIsBlank
<1>3. CreatorOwnsNew'
  BY DEF IInv, TypeOK, Request, CreatorOwnsNew
<1>4. PresentedAreOwn'
  BY DEF IInv, TypeOK, Request, PresentedAreOwn
<1>5. BeforeIsClosed'
  BY DEF IInv, TypeOK, Request, BeforeIsClosed
<1>6. ClosedKeyIsGone'
  BY DEF IInv, TypeOK, Request, ClosedKeyIsGone, PresentedAreOwn, BeforeIsClosed
<1>7. ClosedRefreshRevoked'
  BY DEF IInv, TypeOK, Request, ClosedRefreshRevoked, BeforeIsClosed
<1>8. SuccessorReplacesParent'
  BY DEF IInv, TypeOK, Request, SuccessorReplacesParent
<1>9. HeldIsRecorded'
  BY DEF IInv, TypeOK, Request, HeldIsRecorded
<1> QED BY <1>1, <1>2, <1>3, <1>4, <1>5, <1>6, <1>7, <1>8, <1>9 DEF IInv

LEMMA AllBeginStep ==
    ASSUME IInv, NEW r \in Requests, NEW p \in Pairs, NEW via \in {"cookie", "bearer"},
           AllBegin(r, p, via)
    PROVE  IInv'
<1> USE DEF AllBegin, At, Begin, Idle, OnRecord, PairsOf, store, clock, history
<1>1. TypeOK'
  BY DEF IInv, TypeOK, Request, Steps, Carriers
<1>2. UncreatedIsBlank'
  BY DEF IInv, TypeOK, Request, UncreatedIsBlank
<1>3. CreatorOwnsNew'
  BY DEF IInv, TypeOK, Request, CreatorOwnsNew
<1>4. PresentedAreOwn'
  BY DEF IInv, TypeOK, Request, PresentedAreOwn, HeldIsRecorded
<1>5. BeforeIsClosed'
  BY DEF IInv, TypeOK, Request, BeforeIsClosed, HeldIsRecorded
<1>6. ClosedKeyIsGone'
  BY DEF IInv, TypeOK, Request, ClosedKeyIsGone
<1>7. ClosedRefreshRevoked'
  BY DEF IInv, TypeOK, Request, ClosedRefreshRevoked
<1>8. SuccessorReplacesParent'
  BY DEF IInv, TypeOK, Request, SuccessorReplacesParent
<1>9. HeldIsRecorded'
  BY DEF IInv, TypeOK, Request, HeldIsRecorded
<1> QED BY <1>1, <1>2, <1>3, <1>4, <1>5, <1>6, <1>7, <1>8, <1>9 DEF IInv

LEMMA ResetBeginStep ==
    ASSUME IInv, NEW r \in Requests, NEW u \in Users,
           ResetBegin(r, u)
    PROVE  IInv'
<1> USE DEF ResetBegin, At, Begin, Idle, OnRecord, PairsOf, store, clock, history
<1>1. TypeOK'
  BY DEF IInv, TypeOK, Request, Steps, Carriers
<1>2. UncreatedIsBlank'
  BY DEF IInv, TypeOK, Request, UncreatedIsBlank
<1>3. CreatorOwnsNew'
  BY DEF IInv, TypeOK, Request, CreatorOwnsNew
<1>4. PresentedAreOwn'
  BY DEF IInv, TypeOK, Request, PresentedAreOwn
<1>5. BeforeIsClosed'
  BY DEF IInv, TypeOK, Request, BeforeIsClosed
<1>6. ClosedKeyIsGone'
  BY DEF IInv, TypeOK, Request, ClosedKeyIsGone
<1>7. ClosedRefreshRevoked'
  BY DEF IInv, TypeOK, Request, ClosedRefreshRevoked
<1>8. SuccessorReplacesParent'
  BY DEF IInv, TypeOK, Request, SuccessorReplacesParent
<1>9. HeldIsRecorded'
  BY DEF IInv, TypeOK, Request, HeldIsRecorded
<1> QED BY <1>1, <1>2, <1>3, <1>4, <1>5, <1>6, <1>7, <1>8, <1>9 DEF IInv

LEMMA AllRevokeStep ==
    ASSUME IInv, NEW r \in Requests,
           AllRevoke(r)
    PROVE  IInv'
<1> USE DEF AllRevoke, At, Goto, Revoke, PairsOf, store, clock, history
<1>1. TypeOK'
  <2>1. req' \in [Requests -> Request]
    BY GotoTyped DEF IInv, Steps
  <2>2. refresh' \in [Pairs -> {"none", "active", "revoked"}]
    BY RevokeTyped DEF IInv
  <2> QED BY <2>1, <2>2 DEF IInv, TypeOK
<1>2. UncreatedIsBlank'
  BY DEF IInv, TypeOK, Request, UncreatedIsBlank
<1>3. CreatorOwnsNew'
  BY DEF IInv, TypeOK, Request, CreatorOwnsNew
<1>4. PresentedAreOwn'
  BY DEF IInv, TypeOK, Request, PresentedAreOwn
<1>5. BeforeIsClosed'
  BY DEF IInv, TypeOK, Request, BeforeIsClosed
<1>6. ClosedKeyIsGone'
  BY DEF IInv, TypeOK, Request, ClosedKeyIsGone
<1>7. ClosedRefreshRevoked'
  BY DEF IInv, TypeOK, Request, ClosedRefreshRevoked
<1>8. SuccessorReplacesParent'
  BY DEF IInv, TypeOK, Request, SuccessorReplacesParent
<1>9. HeldIsRecorded'
  BY DEF IInv, TypeOK, Request, HeldIsRecorded
<1> QED BY <1>1, <1>2, <1>3, <1>4, <1>5, <1>6, <1>7, <1>8, <1>9 DEF IInv

LEMMA ScanBeginStep ==
    ASSUME IInv, NEW r \in Requests,
           ScanBegin(r)
    PROVE  IInv'
<1> USE DEF ScanBegin, At, PairsOf, store, clock, history
<1>1. TypeOK'
  <2>1. req[r] \in Request
    BY DEF IInv, TypeOK
  <2>2. [req[r] EXCEPT !.pc = "unlink", !.todo = access \cap PairsOf(req[r].user)] \in Request
    BY <2>1 DEF IInv, TypeOK, Request, Steps
  <2>3. req' \in [Requests -> Request]
    BY <2>2 DEF IInv, TypeOK
  <2> QED BY <2>3 DEF IInv, TypeOK, Request
<1>2. UncreatedIsBlank'
  BY DEF IInv, TypeOK, Request, UncreatedIsBlank
<1>3. CreatorOwnsNew'
  BY DEF IInv, TypeOK, Request, CreatorOwnsNew
<1>4. PresentedAreOwn'
  BY DEF IInv, TypeOK, Request, PresentedAreOwn
<1>5. BeforeIsClosed'
  BY DEF IInv, TypeOK, Request, BeforeIsClosed
<1>6. ClosedKeyIsGone'
  BY DEF IInv, TypeOK, Request, ClosedKeyIsGone
<1>7. ClosedRefreshRevoked'
  BY DEF IInv, TypeOK, Request, ClosedRefreshRevoked
<1>8. SuccessorReplacesParent'
  BY DEF IInv, TypeOK, Request, SuccessorReplacesParent
<1>9. HeldIsRecorded'
  BY DEF IInv, TypeOK, Request, HeldIsRecorded
<1> QED BY <1>1, <1>2, <1>3, <1>4, <1>5, <1>6, <1>7, <1>8, <1>9 DEF IInv

LEMMA UnlinkPageStep ==
    ASSUME IInv, NEW r \in Requests, NEW page \in SUBSET Pairs,
           UnlinkPage(r, page)
    PROVE  IInv'
<1> USE DEF UnlinkPage, At, PairsOf, store, clock, history
<1>1. TypeOK'
  BY DEF IInv, TypeOK, Request, Steps, Carriers
<1>2. UncreatedIsBlank'
  BY DEF IInv, TypeOK, Request, UncreatedIsBlank
<1>3. CreatorOwnsNew'
  BY DEF IInv, TypeOK, Request, CreatorOwnsNew
<1>4. PresentedAreOwn'
  BY DEF IInv, TypeOK, Request, PresentedAreOwn
<1>5. BeforeIsClosed'
  BY DEF IInv, TypeOK, Request, BeforeIsClosed
<1>6. ClosedKeyIsGone'
  BY DEF IInv, TypeOK, Request, ClosedKeyIsGone
<1>7. ClosedRefreshRevoked'
  BY DEF IInv, TypeOK, Request, ClosedRefreshRevoked
<1>8. SuccessorReplacesParent'
  BY DEF IInv, TypeOK, Request, SuccessorReplacesParent
<1>9. HeldIsRecorded'
  BY DEF IInv, TypeOK, Request, HeldIsRecorded
<1> QED BY <1>1, <1>2, <1>3, <1>4, <1>5, <1>6, <1>7, <1>8, <1>9 DEF IInv

LEMMA ScanEndStep ==
    ASSUME IInv, NEW r \in Requests,
           ScanEnd(r)
    PROVE  IInv'
<1> USE DEF ScanEnd, At, store, clock, history
<1>1. TypeOK'
  <2>1. req[r] \in Request
    BY DEF IInv, TypeOK
  <2>2. [req[r] EXCEPT !.pc = "all_profile", !.todo = {}] \in Request
    BY <2>1 DEF IInv, TypeOK, Request, Steps
  <2>3. req' \in [Requests -> Request]
    BY <2>2 DEF IInv, TypeOK
  <2> QED BY <2>3 DEF IInv, TypeOK, Request
<1>2. UncreatedIsBlank'
  BY DEF IInv, TypeOK, Request, UncreatedIsBlank
<1>3. CreatorOwnsNew'
  BY DEF IInv, TypeOK, Request, CreatorOwnsNew
<1>4. PresentedAreOwn'
  BY DEF IInv, TypeOK, Request, PresentedAreOwn
<1>5. BeforeIsClosed'
  BY DEF IInv, TypeOK, Request, BeforeIsClosed
<1>6. ClosedKeyIsGone'
  BY DEF IInv, TypeOK, Request, ClosedKeyIsGone
<1>7. ClosedRefreshRevoked'
  BY DEF IInv, TypeOK, Request, ClosedRefreshRevoked
<1>8. SuccessorReplacesParent'
  BY DEF IInv, TypeOK, Request, SuccessorReplacesParent
<1>9. HeldIsRecorded'
  BY DEF IInv, TypeOK, Request, HeldIsRecorded
<1> QED BY <1>1, <1>2, <1>3, <1>4, <1>5, <1>6, <1>7, <1>8, <1>9 DEF IInv

LEMMA AllProfileStep ==
    ASSUME IInv, NEW r \in Requests,
           AllProfile(r)
    PROVE  IInv'
<1> USE DEF AllProfile, At, Answer, Idle, store, clock, history
<1>1. TypeOK'
  <2>1. req' \in [Requests -> Request]
    BY AnswerTyped DEF IInv
  <2> QED BY <2>1 DEF IInv, TypeOK, Request
<1>2. UncreatedIsBlank'
  BY DEF IInv, TypeOK, Request, UncreatedIsBlank
<1>3. CreatorOwnsNew'
  BY DEF IInv, TypeOK, Request, CreatorOwnsNew
<1>4. PresentedAreOwn'
  BY DEF IInv, TypeOK, Request, PresentedAreOwn
<1>5. BeforeIsClosed'
  BY DEF IInv, TypeOK, Request, BeforeIsClosed
<1>6. ClosedKeyIsGone'
  BY DEF IInv, TypeOK, Request, ClosedKeyIsGone, BeforeIsClosed
<1>7. ClosedRefreshRevoked'
  BY DEF IInv, TypeOK, Request, ClosedRefreshRevoked, BeforeIsClosed
<1>8. SuccessorReplacesParent'
  BY DEF IInv, TypeOK, Request, SuccessorReplacesParent
<1>9. HeldIsRecorded'
  BY DEF IInv, TypeOK, Request, HeldIsRecorded
<1> QED BY <1>1, <1>2, <1>3, <1>4, <1>5, <1>6, <1>7, <1>8, <1>9 DEF IInv

LEMMA AbortStep ==
    ASSUME IInv, NEW r \in Requests,
           Abort(r)
    PROVE  IInv'
<1> USE DEF Abort, At, Answer, Idle, store, clock, history
<1>1. TypeOK'
  <2>1. req' \in [Requests -> Request]
    BY AnswerTyped DEF IInv
  <2> QED BY <2>1 DEF IInv, TypeOK
<1>2. UncreatedIsBlank'
  BY DEF IInv, TypeOK, Request, UncreatedIsBlank
<1>3. CreatorOwnsNew'
  BY DEF IInv, TypeOK, Request, CreatorOwnsNew
<1>4. PresentedAreOwn'
  BY DEF IInv, TypeOK, Request, PresentedAreOwn
<1>5. BeforeIsClosed'
  BY DEF IInv, TypeOK, Request, BeforeIsClosed
<1>6. ClosedKeyIsGone'
  BY DEF IInv, TypeOK, Request, ClosedKeyIsGone
<1>7. ClosedRefreshRevoked'
  BY DEF IInv, TypeOK, Request, ClosedRefreshRevoked
<1>8. SuccessorReplacesParent'
  BY DEF IInv, TypeOK, Request, SuccessorReplacesParent
<1>9. HeldIsRecorded'
  BY DEF IInv, TypeOK, Request, HeldIsRecorded
<1> QED BY <1>1, <1>2, <1>3, <1>4, <1>5, <1>6, <1>7, <1>8, <1>9 DEF IInv

LEMMA RestartStep ==
    ASSUME IInv, Restart
    PROVE  IInv'
<1> USE DEF Restart, At, Idle, store, clock, history
<1>1. TypeOK'
  BY DEF IInv, TypeOK, Request, Steps, Carriers
<1>2. UncreatedIsBlank' /\ CreatorOwnsNew' /\ PresentedAreOwn' /\ BeforeIsClosed'
  BY DEF IInv, UncreatedIsBlank, CreatorOwnsNew, PresentedAreOwn, BeforeIsClosed
<1>3. ClosedKeyIsGone' /\ ClosedRefreshRevoked' /\ SuccessorReplacesParent' /\ HeldIsRecorded'
  BY DEF IInv, ClosedKeyIsGone, ClosedRefreshRevoked, SuccessorReplacesParent, HeldIsRecorded
<1> QED BY <1>1, <1>2, <1>3 DEF IInv

\* Time only takes keys and tokens away: nothing that is closed opens.
LEMMA AgeStep ==
    ASSUME IInv, Age
    PROVE  IInv'
<1> USE DEF Age, Expire, Lapse, Evict, At, store, clock, history
<1>1. TypeOK'
  BY DEF IInv, TypeOK
<1>2. UncreatedIsBlank' /\ CreatorOwnsNew' /\ PresentedAreOwn' /\ BeforeIsClosed'
  BY DEF IInv, UncreatedIsBlank, CreatorOwnsNew, PresentedAreOwn, BeforeIsClosed
<1>3. ClosedKeyIsGone' /\ ClosedRefreshRevoked' /\ SuccessorReplacesParent' /\ HeldIsRecorded'
  BY DEF IInv, ClosedKeyIsGone, ClosedRefreshRevoked, SuccessorReplacesParent, HeldIsRecorded
<1> QED BY <1>1, <1>2, <1>3 DEF IInv

LEMMA StutterStep ==
    ASSUME IInv, UNCHANGED vars
    PROVE  IInv'
<1> USE DEF vars, At, store, clock, history
<1>1. TypeOK'
  BY DEF IInv, TypeOK
<1>2. UncreatedIsBlank' /\ CreatorOwnsNew' /\ PresentedAreOwn' /\ BeforeIsClosed'
  BY DEF IInv, UncreatedIsBlank, CreatorOwnsNew, PresentedAreOwn, BeforeIsClosed
<1>3. ClosedKeyIsGone' /\ ClosedRefreshRevoked' /\ SuccessorReplacesParent' /\ HeldIsRecorded'
  BY DEF IInv, ClosedKeyIsGone, ClosedRefreshRevoked, SuccessorReplacesParent, HeldIsRecorded
<1> QED BY <1>1, <1>2, <1>3 DEF IInv

(***************************************************************************)
(* The theorems.                                                           *)
(***************************************************************************)

\* The inductive invariant: whatever the interleaving of the handlers, their
\* aborts, the restarts of the process and the passing of time.
THEOREM Inductive == Spec => []IInv
<1>1. Init => IInv
  BY DEF Init, IInv, TypeOK, UncreatedIsBlank, CreatorOwnsNew, PresentedAreOwn,
         BeforeIsClosed, ClosedKeyIsGone, ClosedRefreshRevoked,
         SuccessorReplacesParent, HeldIsRecorded, At, Idle, Request, Steps, Carriers
<1>2. IInv /\ [Next]_vars => IInv'
  <2> SUFFICES ASSUME IInv, [Next]_vars PROVE IInv'
    OBVIOUS
  <2>1. ASSUME NEW r \in Requests, Arrive(r) PROVE IInv'
    BY <2>1, LoginBeginStep, ResetBeginStep, RefreshBeginStep, AllBeginStep,
       LogoutBeginStep DEF Arrive
  <2>2. ASSUME NEW r \in Requests, Logout(r) PROVE IInv'
    BY <2>2, OutAccessStep, OutFindStep, OutSkipStep, OutRevokeStep,
       OutProfileStep DEF Logout
  <2>3. ASSUME NEW r \in Requests, LogoutAll(r) PROVE IInv'
    BY <2>3, AllRevokeStep, ScanBeginStep, UnlinkPageStep, ScanEndStep,
       AllProfileStep DEF LogoutAll
  <2>4. ASSUME NEW r \in Requests, Handle(r) PROVE IInv'
    BY <2>2, <2>3, <2>4, IssueStep, SaveStep, RotateStep, AbortStep
       DEF Handle, Refresh, Login
  <2> QED
    BY <2>1, <2>4, RestartStep, AgeStep, StutterStep DEF Next
<1> QED BY <1>1, <1>2, PTL DEF Spec

\* Every variable keeps its type.
THEOREM TypeCorrect == Spec => []TypeOK
BY Inductive, PTL DEF IInv

\* A refresh token covered by an answered logout, logout-all or password reset
\* is revoked for good.
THEOREM ClosedRefreshStaysRevoked == Spec => []ClosedRefreshRevoked
BY Inductive, PTL DEF IInv

\* A refresh token and its successor are never both usable.
THEOREM RotationReplaces == Spec => []SuccessorReplacesParent
BY Inductive, PTL DEF IInv

\* An access token covered by such an answer is refused while the
\* cache is on and answers.
THEOREM ClosedAccessStaysRefused == Spec => []ClosedAccessRefused
<1>1. IInv => ClosedAccessRefused
  BY DEF IInv, ClosedKeyIsGone, ClosedAccessRefused, AccessAccepted, SessionValid
<1> QED BY <1>1, Inductive, PTL

\* Both together: what an answered logout, logout-all or reset closed stays closed.
THEOREM ClosedIsForEver == Spec => []ClosedStaysClosed
BY ClosedRefreshStaysRevoked, ClosedAccessStaysRefused, PTL DEF ClosedStaysClosed

\* A client holds only pairs MongoDB has on record.
THEOREM DeliveredIsRecorded == Spec => []HeldIsRecorded
BY Inductive, PTL DEF IInv

(***************************************************************************)
(* Who may end a session.                                                  *)
(***************************************************************************)

\* The sessions of user u are served by some handler at this moment.
Served(p) == \E r \in Requests : req[r].user = owner[p] /\ ~At(r, "idle")

OnlyOwnStep == \A p \in Pairs :
                 \/ refresh[p] = "active" /\ refresh'[p] = "revoked"
                 \/ ~TimePasses /\ p \in access /\ p \notin access'
                 => Served(p)

\* A step that revokes a refresh token or removes a key is a step of a handler
\* running for the user of this token.
THEOREM SessionsEndForOwnRequests == Spec => OnlyOwnSessionsEnd
<1>1. IInv /\ [Next]_vars => OnlyOwnStep
  <2> SUFFICES ASSUME IInv, [Next]_vars PROVE OnlyOwnStep
    OBVIOUS
  <2> USE DEF OnlyOwnStep, Served, At, store, clock, history
  <2>1. ASSUME NEW r \in Requests, Arrive(r) PROVE OnlyOwnStep
    BY <2>1 DEF Arrive, LoginBegin, ResetBegin, RefreshBegin, AllBegin, LogoutBegin
  <2>2. ASSUME NEW r \in Requests, Save(r) PROVE OnlyOwnStep
    BY <2>2 DEF Save, IInv, TypeOK, CreatorOwnsNew
  <2>3. ASSUME NEW r \in Requests, Rotate(r) PROVE OnlyOwnStep
    BY <2>3 DEF Rotate, Revoke, IInv, TypeOK, PresentedAreOwn
  <2>4. ASSUME NEW r \in Requests, Logout(r) PROVE OnlyOwnStep
    BY <2>4 DEF Logout, OutAccess, OutFind, OutSkip, OutRevoke, OutProfile, Revoke,
                IInv, TypeOK, PresentedAreOwn
  <2>5. ASSUME NEW r \in Requests, LogoutAll(r) PROVE OnlyOwnStep
    BY <2>5 DEF LogoutAll, AllRevoke, ScanBegin, UnlinkPage, ScanEnd, AllProfile,
                Revoke, PairsOf, IInv, TypeOK
  <2>6. ASSUME NEW r \in Requests, NEW p \in Pairs, Issue(r, p) PROVE OnlyOwnStep
    BY <2>6 DEF Issue
  <2>7. ASSUME NEW r \in Requests, Abort(r) PROVE OnlyOwnStep
    BY <2>7 DEF Abort
  <2>8. CASE Restart
    BY <2>8 DEF Restart
  <2>9. CASE Age
    BY <2>9 DEF Age, Expire, Lapse, Evict
  <2>10. CASE UNCHANGED vars
    BY <2>10 DEF vars
  <2> QED
    BY <2>1, <2>2, <2>3, <2>4, <2>5, <2>6, <2>7, <2>8, <2>9, <2>10 DEF Next, Handle,
       Refresh, Login
<1> QED BY <1>1, Inductive, PTL DEF Spec, OnlyOwnSessionsEnd, OnlyOwnStep, Served
(***************************************************************************)
(* The refinement of SessionLedger.                                        *)
(***************************************************************************)

\* A session goes on only as a session of the same user.
ParentsAreOwn ==
    /\ \A p \in Pairs : parent[p] # None =>
         parent[p] \in Pairs /\ owner[parent[p]] = owner[p]
    /\ \A r \in Requests : At(r, "issue") /\ req[r].ref # None =>
         req[r].ref \in Pairs /\ owner[req[r].ref] = req[r].user

\* Only requests at "issue" matter, and these keep or lack what they present.
LEMMA ParentsKept ==
    ASSUME ParentsAreOwn, UNCHANGED <<owner, parent>>,
           \A s \in Requests : (req[s].pc = "issue")' =>
               req'[s] = req[s] \/ req'[s].ref = None
    PROVE  ParentsAreOwn'
BY DEF ParentsAreOwn, At

LEMMA ParentsStayOwn ==
    ASSUME IInv, ParentsAreOwn, [Next]_vars
    PROVE  ParentsAreOwn'
<1> USE DEF ParentsAreOwn, At, Answer, Goto, store, clock, history
<1>t. /\ owner \in [Pairs -> Users \cup {None}]
      /\ parent \in [Pairs -> Pairs \cup {None}]
      /\ req \in [Requests -> Request]
  BY DEF IInv, TypeOK
<1>1. ASSUME NEW r \in Requests, Arrive(r) PROVE ParentsAreOwn'
  <2>1. ASSUME NEW u \in Users, LoginBegin(r, u) PROVE ParentsAreOwn'
    BY <1>t, <2>1, ParentsKept DEF LoginBegin, Begin, Idle
  <2>2. ASSUME NEW u \in Users, ResetBegin(r, u) PROVE ParentsAreOwn'
    BY <1>t, <2>2, ParentsKept DEF ResetBegin, Begin, Idle
  <2>3. ASSUME NEW p \in Pairs, RefreshBegin(r, p) PROVE ParentsAreOwn'
    BY <1>t, <2>3, ParentsKept DEF RefreshBegin, Begin, Idle
  <2>4. ASSUME NEW p \in Pairs, NEW via \in {"cookie", "bearer"}, AllBegin(r, p, via)
        PROVE  ParentsAreOwn'
    BY <1>t, <2>4, ParentsKept DEF AllBegin, Begin, Idle
  <2>5. ASSUME NEW p \in Pairs, NEW via \in {"cookie", "bearer"},
               NEW q \in held \cup {None}, LogoutBegin(r, p, via, q)
        PROVE  ParentsAreOwn'
    BY <1>t, <2>5, ParentsKept DEF LogoutBegin, Begin, Idle
  <2> QED BY <1>1, <2>1, <2>2, <2>3, <2>4, <2>5 DEF Arrive
<1>2. ASSUME NEW r \in Requests, NEW p \in Pairs, Issue(r, p) PROVE ParentsAreOwn'
  <2>1. /\ At(r, "issue") /\ owner[p] = None
        /\ owner' = [owner EXCEPT ![p] = req[r].user]
        /\ parent' = [parent EXCEPT ![p] = req[r].ref]
        /\ \A s \in Requests : At(s, "issue")' => s # r /\ req'[s] = req[s]
    BY <1>t, <1>2 DEF Issue
  <2>2. \A q \in Pairs : parent[q] # p
    BY <2>1 DEF IInv, SuccessorReplacesParent, UncreatedIsBlank, TypeOK
  <2>3. \A s \in Requests : At(s, "issue") => req[s].ref # p /\ req[s].user \in Users
    BY <2>1 DEF IInv, PresentedAreOwn, UncreatedIsBlank
  <2> QED BY <1>t, <2>1, <2>2, <2>3
<1>3. ASSUME NEW r \in Requests, Save(r) PROVE ParentsAreOwn'
  BY <1>t, <1>3 DEF Save, Idle
<1>4. ASSUME NEW r \in Requests, Rotate(r) PROVE ParentsAreOwn'
  BY <1>t, <1>4 DEF Rotate, IInv, PresentedAreOwn
<1>5. ASSUME NEW r \in Requests, Logout(r) PROVE ParentsAreOwn'
  <2>1. CASE OutAccess(r) \/ OutFind(r) \/ OutSkip(r)
    BY <1>t, <2>1, ParentsKept DEF OutAccess, OutFind, OutSkip, Request
  <2>2. CASE OutRevoke(r) \/ OutProfile(r)
    BY <1>t, <2>2, ParentsKept DEF OutRevoke, OutProfile, Idle, Request
  <2> QED BY <1>5, <2>1, <2>2 DEF Logout
<1>6. ASSUME NEW r \in Requests, LogoutAll(r) PROVE ParentsAreOwn'
  <2>1. CASE AllRevoke(r) \/ ScanBegin(r) \/ ScanEnd(r)
    BY <1>t, <2>1, ParentsKept DEF AllRevoke, ScanBegin, ScanEnd, Request
  <2>2. CASE AllProfile(r) \/ \E page \in SUBSET Pairs : UnlinkPage(r, page)
    BY <1>t, <2>2, ParentsKept DEF AllProfile, UnlinkPage, Idle, Request
  <2> QED BY <1>6, <2>1, <2>2 DEF LogoutAll
<1>7. ASSUME NEW r \in Requests, Abort(r) PROVE ParentsAreOwn'
  BY <1>t, <1>7 DEF Abort, Idle
<1>8. CASE Restart
  BY <1>t, <1>8 DEF Restart, Idle
<1>9. CASE Age
  BY <1>t, <1>9 DEF Age, Expire, Lapse, Evict
<1>10. CASE UNCHANGED vars
  BY <1>10 DEF vars
<1> QED
  BY <1>1, <1>2, <1>3, <1>4, <1>5, <1>6, <1>7, <1>8, <1>9, <1>10
     DEF Next, Handle, Refresh, Login

\* A step that leaves the documents and the answers alone is no step of the ledger.
LEMMA OffTheLedger ==
    ASSUME IInv, UNCHANGED <<refresh, closedRefresh>>,
           \A p \in Pairs : refresh[p] # "none" =>
               owner'[p] = owner[p] /\ parent'[p] = parent[p]
    PROVE  UNCHANGED Ledger!ledger
BY DEF Life, Holder, Source, Ledger!ledger

\* Whatever Revoke ends belongs to one user: an End of the ledger.
LEMMA RevokeEnds ==
    ASSUME IInv, NEW u \in Users, NEW P \in SUBSET Pairs,
           Revoke(P), UNCHANGED <<owner, parent, closedRefresh>>,
           \A p \in P : owner[p] = u /\ refresh[p] # "none"
    PROVE  Ledger!End(u)
<1> DEFINE Q == {p \in P : refresh[p] = "active"}
<1>1. refresh' = [p \in Pairs |-> IF p \in P THEN "revoked" ELSE refresh[p]]
  BY DEF Revoke
<1>2. \A p \in Pairs : refresh[p] \in {"none", "active", "revoked"}
  BY DEF IInv, TypeOK
<1>3. Q \in SUBSET Ledger!Live(u)
  BY DEF Ledger!Live, Life, Holder
<1>4. Life' = [p \in Pairs |-> IF p \in Q THEN "over" ELSE Life[p]]
  BY <1>1, <1>2 DEF Life
<1>5. UNCHANGED <<Holder, Source, closedRefresh>>
  BY <1>1, <1>2 DEF Holder, Source
<1> QED BY <1>3, <1>4, <1>5 DEF Ledger!End

\* An answered closing request tells of sessions that are over: Tell.
LEMMA AnswerTells ==
    ASSUME IInv, NEW r \in Requests, ~At(r, "idle"), ~At(r, "all_revoke"),
           closedRefresh' = closedRefresh \cup req[r].before,
           UNCHANGED <<owner, parent, refresh>>
    PROVE  Ledger!Tell(req[r].user)
<1>1. \A p \in req[r].before : p \in Pairs /\ owner[p] = req[r].user /\ refresh[p] = "revoked"
  BY DEF IInv, BeforeIsClosed, TypeOK, Request
<1>2. req[r].before \in SUBSET Ledger!Over(req[r].user)
  BY <1>1 DEF Ledger!Over, Life, Holder
<1>3. UNCHANGED <<Life, Holder, Source>>
  BY DEF Life, Holder, Source
<1> QED BY <1>2, <1>3 DEF Ledger!Tell

\* A stored pair is a new entry: opened by a login, or exchanged by a refresh.
LEMMA SaveRecords ==
    ASSUME IInv, ParentsAreOwn, NEW r \in Requests, Save(r)
    PROVE  \E u \in Users, p \in Pairs : Ledger!Open(u, p) \/ Ledger!Exchange(u, p)
<1> DEFINE p == req[r].new
           u == owner[p]
<1>1. /\ p \in Pairs /\ u \in Users /\ refresh[p] = "none"
      /\ refresh' = [refresh EXCEPT ![p] = "active"]
      /\ UNCHANGED <<owner, parent, closedRefresh>>
      /\ refresh \in [Pairs -> {"none", "active", "revoked"}]
  BY DEF Save, IInv, CreatorOwnsNew, TypeOK, history
<1> HIDE DEF p
<1>2. Life[p] = "none" /\ Life' = [Life EXCEPT ![p] = "live"]
  BY <1>1 DEF Life
<1>3. Holder' = [Holder EXCEPT ![p] = u]
  BY <1>1 DEF Holder
<1>4. Source' = [Source EXCEPT ![p] = parent[p]]
  BY <1>1 DEF Source
<1>5. Ledger!Record(u, p, parent[p])
  BY <1>1, <1>2, <1>3, <1>4 DEF Ledger!Record
<1>6. CASE parent[p] = None
  BY <1>1, <1>5, <1>6 DEF Ledger!Open
<1>7. CASE parent[p] # None
  <2>1. /\ parent[p] \in Pairs /\ owner[parent[p]] = u
        /\ refresh[parent[p]] = "revoked"
    BY <1>1, <1>7 DEF ParentsAreOwn, IInv, SuccessorReplacesParent
  <2>2. parent[p] \in Ledger!Over(u)
    BY <2>1 DEF Ledger!Over, Life, Holder
  <2> QED BY <1>1, <1>5, <2>2 DEF Ledger!Exchange
<1> QED BY <1>6, <1>7

\* Every step of a handler is a step of the ledger or none.
LEMMA LedgerStep ==
    ASSUME IInv, ParentsAreOwn, [Next]_vars
    PROVE  [Ledger!Next]_Ledger!ledger
<1> USE DEF At, store, clock, history
<1>t. req \in [Requests -> Request]
  BY DEF IInv, TypeOK
<1>1. ASSUME NEW r \in Requests, Arrive(r) PROVE UNCHANGED Ledger!ledger
  BY <1>1, OffTheLedger
     DEF Arrive, LoginBegin, ResetBegin, RefreshBegin, AllBegin, LogoutBegin
<1>2. ASSUME NEW r \in Requests, NEW p \in Pairs, Issue(r, p)
      PROVE  UNCHANGED Ledger!ledger
  <2>1. /\ UNCHANGED <<refresh, closedRefresh>>
        /\ \A q \in Pairs : q # p => owner'[q] = owner[q] /\ parent'[q] = parent[q]
    BY <1>2 DEF Issue, IInv, TypeOK
  <2>2. refresh[p] = "none"
    BY <1>2 DEF Issue, IInv, UncreatedIsBlank
  <2> QED BY <2>1, <2>2, OffTheLedger
<1>3. ASSUME NEW r \in Requests, Save(r) PROVE Ledger!Next
  BY <1>3, SaveRecords DEF Ledger!Next
<1>4. ASSUME NEW r \in Requests, Rotate(r) \/ OutRevoke(r) PROVE Ledger!Next
  <2>1. /\ req[r].user \in Users /\ req[r].ref \in Pairs
        /\ owner[req[r].ref] = req[r].user /\ refresh[req[r].ref] # "none"
    BY <1>4 DEF Rotate, OutRevoke, IInv, PresentedAreOwn
  <2>2. Revoke({req[r].ref}) /\ UNCHANGED <<owner, parent, closedRefresh>>
    BY <1>4 DEF Rotate, OutRevoke
  <2>3. Ledger!End(req[r].user)
    BY <2>1, <2>2, RevokeEnds
  <2> QED BY <2>1, <2>3 DEF Ledger!Next
<1>5. ASSUME NEW r \in Requests, AllRevoke(r) PROVE Ledger!Next
  <2>1. req[r].user \in Users
    BY <1>5 DEF AllRevoke, IInv, PresentedAreOwn
  <2>2. Ledger!End(req[r].user)
    BY <1>5, <2>1, RevokeEnds DEF AllRevoke, PairsOf
  <2> QED BY <2>1, <2>2 DEF Ledger!Next
<1>6. ASSUME NEW r \in Requests, OutProfile(r) \/ AllProfile(r) PROVE Ledger!Next
  <2>1. req[r].user \in Users
    BY <1>6 DEF OutProfile, AllProfile, IInv, PresentedAreOwn
  <2>2. Ledger!Tell(req[r].user)
    BY <1>6, AnswerTells DEF OutProfile, AllProfile
  <2> QED BY <2>1, <2>2 DEF Ledger!Next
<1>7. ASSUME NEW r \in Requests,
             \/ OutAccess(r) \/ OutFind(r) \/ OutSkip(r) \/ ScanBegin(r) \/ ScanEnd(r)
             \/ \E page \in SUBSET Pairs : UnlinkPage(r, page)
             \/ Abort(r)
      PROVE  UNCHANGED Ledger!ledger
  BY <1>7, OffTheLedger
     DEF OutAccess, OutFind, OutSkip, ScanBegin, ScanEnd, UnlinkPage, Abort
<1>8. CASE Restart \/ Age \/ UNCHANGED vars
  BY <1>8, OffTheLedger DEF Restart, Age, Expire, Lapse, Evict, vars
<1> QED
  BY <1>1, <1>2, <1>3, <1>4, <1>5, <1>6, <1>7, <1>8
     DEF Next, Handle, Refresh, Login, Logout, LogoutAll

\* The session endpoints implement the ledger: what SessionLedger promises holds
\* whatever calls they are made of and however these fail and interleave.
THEOREM LedgerIsImplemented == Spec => ImplementsLedger
<1>1. Init => Ledger!Init /\ ParentsAreOwn
  BY DEF Init, Ledger!Init, Life, Holder, Source, ParentsAreOwn, At, Idle
<1>2. IInv /\ ParentsAreOwn /\ [Next]_vars => ParentsAreOwn'
  BY ParentsStayOwn
<1>3. IInv /\ ParentsAreOwn /\ [Next]_vars => [Ledger!Next]_Ledger!ledger
  BY LedgerStep
<1> QED BY <1>1, <1>2, <1>3, Inductive, PTL DEF Spec, ImplementsLedger, Ledger!Spec
=============================================================================
