--------------------------- MODULE NoteCacheProofs ---------------------------
(***************************************************************************)
(* Theorems of NoteCache, for any number of users, notes, requests, texts  *)
(* and faults: what is cached is the user's own and stale only for the     *)
(* four causes, a deleted note stays deleted, and an edit nothing         *)
(* overtook changes what it names.                                         *)
(***************************************************************************)
EXTENDS NoteCache, FiniteSetTheorems, TLAPS

USE IdentifiersDiffer DEF redis

(***************************************************************************)
(* The inductive invariant.  That a cached entry is the user's own and as  *)
(* old as its causes say depends on what the readers carry from MongoDB to *)
(* Redis: it is theirs, and current unless a write marked it late.         *)
(***************************************************************************)

Types ==
    /\ TypeOK
    /\ cache \in [Keys -> Entries] /\ req \in [Requests -> Request]

\* A note has an owner and fields from its creation on.
NoteOK(n) ==
    /\ owner[n] = None <=> status[n] = "none"
    /\ status[n] # "none" => doc[n] \in Docs

\* What a handler carries is of the user it runs for.
OwnOK(r) ==
    LET q == req[r] IN
    /\ q.pc # "idle" => q.user \in Users
    /\ q.pc \in {"find", "fill", "write", "delete", "drop_detail"} => q.note \in Notes
    /\ q.pc \in {"fill", "write", "delete", "drop_detail"} => owner[q.note] = q.user
    /\ q.pc \in {"fill", "write"} => q.doc \in Docs
    /\ q.pc \in {"page", "fill_list"} => q.page \in Page
    /\ q.pc = "fill_list" => \A row \in q.page.data : owner[row.note] = q.user

\* ... and it is current, unless a write marked it late.
CurrentOK(r) ==
    LET q == req[r] IN
    q.late = FALSE =>
        /\ q.pc = "fill" => q.note \in Active(q.user) /\ q.doc = doc[q.note]
        /\ q.pc = "page" => q.page.total = Cardinality(Active(q.user))
        /\ q.pc = "fill_list" =>
             q.page = [total |-> Cardinality(Active(q.user)), data |-> Rows(q.user)]
        /\ q.pc = "write" => \A f \in Fields \ q.named : q.doc[f] = doc[q.note][f]

OwnKey(k) ==
    cache[k] # Missing =>
        IF k[2] = List
        THEN cache[k] \in Page /\ \A row \in cache[k].data : owner[row.note] = k[1]
        ELSE owner[k[2]] = k[1]

StaleKey(k) == \/ cache[k] = Missing \/ k \in tainted \/ Fresh(k)
               \/ \E r \in Requests : k \in Owed(r)

IInv ==
    /\ Types
    /\ \A n \in Notes : NoteOK(n)
    /\ \A r \in Requests : OwnOK(r) /\ CurrentOK(r)
    /\ \A k \in Keys : OwnKey(k) /\ StaleKey(k)

(***************************************************************************)
(* Requests and pages.                                                     *)
(***************************************************************************)

LEMMA IdleRequest ==
    /\ Idle \in Request /\ Idle.pc = "idle" /\ Idle.late = FALSE
    /\ Idle.user = None /\ Idle.note = None
BY DEF Idle, Request, Steps

LEMMA ActiveCount ==
    ASSUME NEW u
    PROVE  Cardinality(Active(u)) \in 0..Cardinality(Notes)
<1>1. Active(u) \subseteq Notes
  BY DEF Active
<1>2. /\ Cardinality(Active(u)) \in Nat /\ Cardinality(Notes) \in Nat
      /\ Cardinality(Active(u)) <= Cardinality(Notes)
  BY <1>1, NotesAreFinite, FS_Subset, FS_CardinalityType
<1> QED BY <1>2

LEMMA RowsAreRows ==
    ASSUME \A n \in Notes : NoteOK(n), NEW u
    PROVE  /\ Rows(u) \in SUBSET [note : Notes, doc : Docs]
           /\ \A row \in Rows(u) : owner[row.note] = u
BY DEF Rows, Active, NoteOK

\* A page made of a count and of rows.
LEMMA PageIsPage ==
    ASSUME NEW count \in 0..Cardinality(Notes),
           NEW rows \in SUBSET [note : Notes, doc : Docs]
    PROVE  /\ [total |-> count, data |-> rows] \in Page
           /\ [total |-> count, data |-> rows].total = count
           /\ [total |-> count, data |-> rows].data = rows
BY DEF Page

LEMMA OwedKeys ==
    ASSUME Types, NEW r \in Requests, OwnOK(r)
    PROVE  Owed(r) \subseteq Keys
BY DEF Owed, At, OwnOK, Keys

(***************************************************************************)
(* A step of one request that writes to no store.                          *)
(***************************************************************************)

LEMMA Reading ==
    ASSUME IInv, NEW r \in Requests, UNCHANGED <<store, redis, faults, tainted>>,
           req' \in [Requests -> Request],
           \A s \in Requests \ {r} : req'[s] = req[s],
           Owed(r) = {}, OwnOK(r)', CurrentOK(r)'
    PROVE  IInv'
<1>1. Types'
  BY DEF IInv, Types, TypeOK, store
<1>2. ASSUME NEW n \in Notes PROVE NoteOK(n)'
  BY DEF IInv, NoteOK, store
<1>3. ASSUME NEW s \in Requests \ {r} PROVE OwnOK(s)' /\ CurrentOK(s)'
  BY DEF IInv, OwnOK, CurrentOK, Active, Rows, store
<1>4. ASSUME NEW k \in Keys PROVE OwnKey(k)' /\ StaleKey(k)'
  <2>1. OwnKey(k) /\ StaleKey(k)
    BY DEF IInv
  <2>2. OwnKey(k)'
    BY <2>1 DEF OwnKey, store
  <2>3. Fresh(k)' = Fresh(k)
    BY DEF Fresh, Active, Rows, store
  <2>4. \A s \in Requests : k \in Owed(s) => k \in Owed(s)'
    BY DEF Owed, At
  <2> QED BY <2>1, <2>2, <2>3, <2>4 DEF StaleKey
<1> QED BY <1>1, <1>2, <1>3, <1>4 DEF IInv

LEMMA NothingOwed ==
    ASSUME NEW r, req[r].pc \notin {"drop_detail", "drop_list"}
    PROVE  Owed(r) = {}
BY DEF Owed, At

LEMMA BackToIdle ==
    ASSUME Types, NEW r \in Requests, Done(r)
    PROVE  /\ req' \in [Requests -> Request] /\ req'[r] = Idle
           /\ \A s \in Requests \ {r} : req'[s] = req[s]
           /\ OwnOK(r)' /\ CurrentOK(r)' /\ Owed(r)' = {}
<1>1. /\ req' \in [Requests -> Request] /\ req'[r] = Idle
      /\ \A s \in Requests \ {r} : req'[s] = req[s]
  BY IdleRequest DEF Types, Done
<1> QED BY <1>1, IdleRequest DEF OwnOK, CurrentOK, Owed, At

(***************************************************************************)
(* The readers, up to their fill, and the first step of a write.           *)
(***************************************************************************)

LEMMA BeginStep ==
    ASSUME IInv, NEW r \in Requests, NEW q \in Request, Begin(r, q),
           q.pc \in {"find", "count", "write", "delete"}, q.user \in Users,
           q.late = FALSE,
           q.pc # "count" => q.note \in Notes,
           q.pc \in {"write", "delete"} => q.note \in Active(q.user),
           q.pc = "write" =>
             q.doc \in Docs /\ \A f \in Fields \ q.named : q.doc[f] = doc[q.note][f],
           UNCHANGED <<store, redis, faults, tainted>>
    PROVE  IInv'
<1>1. /\ req' \in [Requests -> Request] /\ req'[r] = q /\ req[r].pc = "idle"
      /\ \A s \in Requests \ {r} : req'[s] = req[s]
  BY DEF Begin, At, IInv, Types
<1>2. q.note \in Active(q.user) => owner[q.note] = q.user
  BY DEF Active
<1>3. OwnOK(r)'
  BY <1>1, <1>2 DEF OwnOK, store
<1>4. CurrentOK(r)'
  BY <1>1 DEF CurrentOK, store
<1>5. Owed(r) = {}
  BY <1>1, NothingOwed
<1> QED BY <1>1, <1>3, <1>4, <1>5, Reading

LEMMA GetMissStep ==
    ASSUME IInv, NEW r \in Requests, NEW u \in Users, NEW n \in Notes, GetMiss(r, u, n)
    PROVE  IInv'
<1> DEFINE q == [Idle EXCEPT !.pc = "find", !.user = u, !.note = n]
<1>1. /\ q \in Request /\ q.pc = "find" /\ q.user = u /\ q.note = n /\ q.late = FALSE
  BY DEF Idle, Request, Steps
<1>2. Begin(r, q) /\ UNCHANGED <<store, redis, faults, tainted>>
  BY DEF GetMiss
<1> HIDE DEF q
<1> QED BY <1>1, <1>2, BeginStep

LEMMA ListMissStep ==
    ASSUME IInv, NEW r \in Requests, NEW u \in Users, ListMiss(r, u)
    PROVE  IInv'
<1> DEFINE q == [Idle EXCEPT !.pc = "count", !.user = u]
<1>1. /\ q \in Request /\ q.pc = "count" /\ q.user = u /\ q.late = FALSE
  BY DEF Idle, Request, Steps
<1>2. Begin(r, q) /\ UNCHANGED <<store, redis, faults, tainted>>
  BY DEF ListMiss
<1> HIDE DEF q
<1> QED BY <1>1, <1>2, BeginStep

LEMMA EraseFindStep ==
    ASSUME IInv, NEW r \in Requests, NEW u \in Users, NEW n \in Notes, EraseFind(r, u, n)
    PROVE  IInv'
<1> DEFINE q == [Idle EXCEPT !.pc = "delete", !.user = u, !.note = n]
<1>1. /\ q \in Request /\ q.pc = "delete" /\ q.user = u /\ q.note = n /\ q.late = FALSE
  BY DEF Idle, Request, Steps
<1>2. Begin(r, q) /\ n \in Active(u) /\ UNCHANGED <<store, redis, faults, tainted>>
  BY DEF EraseFind
<1> HIDE DEF q
<1> QED BY <1>1, <1>2, BeginStep

LEMMA EditFindStep ==
    ASSUME IInv, NEW r \in Requests, NEW u \in Users, NEW n \in Notes,
           NEW fields \in SUBSET Fields, NEW d \in Docs, EditFind(r, u, n, fields, d)
    PROVE  IInv'
<1> DEFINE e == [f \in Fields |-> IF f \in fields THEN d[f] ELSE doc[n][f]]
           q == [Idle EXCEPT !.pc = "write", !.user = u, !.note = n, !.named = fields,
                   !.doc = e]
<1>1. n \in Active(u)
  BY DEF EditFind
<1>2. doc[n] \in Docs
  BY <1>1 DEF IInv, NoteOK, Active
<1>3. e \in Docs /\ \A f \in Fields \ fields : e[f] = doc[n][f]
  BY <1>2 DEF Docs
<1>4. Begin(r, q) /\ UNCHANGED <<store, redis, faults, tainted>>
  BY DEF EditFind
<1> HIDE DEF e
<1>5. /\ q \in Request /\ q.pc = "write" /\ q.user = u /\ q.note = n /\ q.late = FALSE
      /\ q.doc = e /\ q.named = fields
  BY <1>3 DEF Idle, Request, Steps
<1> HIDE DEF q
<1> QED BY <1>1, <1>3, <1>4, <1>5, BeginStep

LEMMA GetFindStep ==
    ASSUME IInv, NEW r \in Requests, GetFind(r)
    PROVE  IInv'
<1>1. /\ req[r].pc = "find" /\ UNCHANGED <<store, redis, faults, tainted>>
      /\ Owed(r) = {}
  BY NothingOwed DEF GetFind, At
<1>2. CASE Done(r)
  BY <1>1, <1>2, BackToIdle, Reading DEF IInv
<1>3. CASE /\ req[r].note \in Active(req[r].user)
           /\ req' = [req EXCEPT ![r].pc = "fill", ![r].doc = doc[req[r].note]]
  <2>1. OwnOK(r) /\ req[r] \in Request
    BY DEF IInv, Types
  <2>2. /\ req[r].note \in Notes /\ doc[req[r].note] \in Docs
        /\ owner[req[r].note] = req[r].user
    BY <1>1, <1>3, <2>1 DEF IInv, NoteOK, Active, OwnOK
  <2>3. req'[r] = [req[r] EXCEPT !.pc = "fill", !.doc = doc[req[r].note]]
    BY <1>3 DEF IInv, Types
  <2>4. /\ req'[r] \in Request
        /\ req'[r].pc = "fill" /\ req'[r].doc = doc[req[r].note]
        /\ req'[r].user = req[r].user /\ req'[r].note = req[r].note
    BY <2>1, <2>2, <2>3 DEF Request, Steps
  <2>5. /\ req' \in [Requests -> Request]
        /\ \A s \in Requests \ {r} : req'[s] = req[s]
    BY <1>3, <2>4 DEF IInv, Types
  <2>6. OwnOK(r)'
    BY <1>1, <2>1, <2>2, <2>4 DEF OwnOK, store
  <2>7. CurrentOK(r)'
    BY <1>1, <1>3, <2>4 DEF CurrentOK, Active, store
  <2> QED BY <1>1, <2>5, <2>6, <2>7, Reading
<1> QED BY <1>2, <1>3 DEF GetFind

LEMMA ListCountStep ==
    ASSUME IInv, NEW r \in Requests, ListCount(r)
    PROVE  IInv'
<1> DEFINE p == [total |-> Cardinality(Active(req[r].user)), data |-> {}]
<1>1. /\ req[r].pc = "count" /\ UNCHANGED <<store, redis, faults, tainted>>
      /\ req' = [req EXCEPT ![r].pc = "page", ![r].page = p]
      /\ Owed(r) = {}
  BY NothingOwed DEF ListCount, At
<1>2. p \in Page /\ p.total = Cardinality(Active(req[r].user))
  BY ActiveCount, PageIsPage
<1> HIDE DEF p
<1>3. OwnOK(r) /\ req[r] \in Request
  BY DEF IInv, Types
<1>4. req'[r] = [req[r] EXCEPT !.pc = "page", !.page = p]
  BY <1>1 DEF IInv, Types
<1>5. /\ req'[r] \in Request /\ req'[r].pc = "page" /\ req'[r].page = p
      /\ req'[r].user = req[r].user
  BY <1>2, <1>3, <1>4 DEF Request, Steps
<1>6. /\ req' \in [Requests -> Request]
      /\ \A s \in Requests \ {r} : req'[s] = req[s]
  BY <1>1, <1>5 DEF IInv, Types
<1>7. OwnOK(r)'
  BY <1>1, <1>2, <1>3, <1>5 DEF OwnOK, store
<1>8. CurrentOK(r)'
  BY <1>1, <1>2, <1>5 DEF CurrentOK, Active, store
<1> QED BY <1>1, <1>6, <1>7, <1>8, Reading

LEMMA ListPageStep ==
    ASSUME IInv, NEW r \in Requests, ListPage(r)
    PROVE  IInv'
<1> DEFINE u == req[r].user
           p == [total |-> req[r].page.total, data |-> Rows(u)]
<1>1. /\ req[r].pc = "page" /\ UNCHANGED <<store, redis, faults, tainted>>
      /\ req' = [req EXCEPT ![r].pc = "fill_list", ![r].page.data = Rows(u)]
      /\ Owed(r) = {}
  BY NothingOwed DEF ListPage, At
<1>2. OwnOK(r) /\ CurrentOK(r) /\ req[r] \in Request /\ req[r].page \in Page
  BY <1>1 DEF IInv, Types, OwnOK
<1>3. /\ p \in Page /\ p.data = Rows(u) /\ p = [req[r].page EXCEPT !.data = Rows(u)]
      /\ \A row \in p.data : owner[row.note] = u
  <2>1. Rows(u) \in SUBSET [note : Notes, doc : Docs] /\ \A row \in Rows(u) : owner[row.note] = u
    BY RowsAreRows DEF IInv
  <2>2. req[r].page.total \in 0..Cardinality(Notes)
    BY <1>2 DEF Page
  <2>3. p = [req[r].page EXCEPT !.data = Rows(u)]
    BY <1>2 DEF Page
  <2> QED BY <2>1, <2>2, <2>3, PageIsPage
<1>4. req[r].late = FALSE => p = [total |-> Cardinality(Active(u)), data |-> Rows(u)]
  BY <1>1, <1>2 DEF CurrentOK
<1>5. req'[r] = [req[r] EXCEPT !.pc = "fill_list", !.page = p]
  BY <1>1, <1>3 DEF IInv, Types, Request
<1> HIDE DEF p
<1>6. /\ req'[r] \in Request /\ req'[r].pc = "fill_list" /\ req'[r].page = p
      /\ req'[r].user = u /\ req'[r].late = req[r].late
  BY <1>2, <1>3, <1>5 DEF Request, Steps
<1>7. /\ req' \in [Requests -> Request]
      /\ \A s \in Requests \ {r} : req'[s] = req[s]
  BY <1>1, <1>6 DEF IInv, Types
<1>8. OwnOK(r)'
  BY <1>1, <1>2, <1>3, <1>6 DEF OwnOK, store
<1>9. CurrentOK(r)'
  <2>1. \A v : Active(v)' = Active(v) /\ Rows(v)' = Rows(v)
    BY <1>1 DEF Active, Rows, store
  <2> QED BY <1>4, <1>6, <2>1 DEF CurrentOK
<1> QED BY <1>1, <1>7, <1>8, <1>9, Reading

LEMMA AbortStep ==
    ASSUME IInv, NEW r \in Requests, Abort(r)
    PROVE  IInv'
BY NothingOwed, BackToIdle, Reading DEF Abort, IInv

(***************************************************************************)
(* The fills.                                                              *)
(***************************************************************************)

LEMMA Filling ==
    ASSUME IInv, NEW r \in Requests, NEW k \in Keys, NEW entry \in Entries,
           IF k[2] = List
             THEN entry \in Page /\ \A row \in entry.data : owner[row.note] = k[1]
             ELSE owner[k[2]] = k[1],
           req[r].late = FALSE =>
             IF k[2] = List
             THEN entry = [total |-> Cardinality(Active(k[1])), data |-> Rows(k[1])]
             ELSE k[2] \in Active(k[1]) /\ entry = doc[k[2]],
           Put(k, entry, req[r].late), Done(r),
           req[r].pc \notin {"drop_detail", "drop_list"}, UNCHANGED <<store, enabled, faults>>
    PROVE  IInv'
<1>1. /\ req' \in [Requests -> Request]
      /\ \A s \in Requests \ {r} : req'[s] = req[s]
      /\ OwnOK(r)' /\ CurrentOK(r)'
  BY BackToIdle DEF IInv
<1> SUFFICES ASSUME enabled PROVE IInv'
  <2>1. enabled \/ ~enabled
    OBVIOUS
  <2>2. CASE ~enabled
    <3>1. UNCHANGED <<store, redis, faults, tainted>>
      BY <2>2 DEF Put
    <3>2. Owed(r) = {}
      BY NothingOwed
    <3> QED BY <1>1, <3>1, <3>2, Reading
  <2> QED BY <2>1, <2>2
<1>2. /\ cache' \in [Keys -> Entries] /\ cache'[k] = entry
      /\ \A l \in Keys \ {k} : cache'[l] = cache[l]
  BY DEF Put, IInv, Types
<1>3. /\ tainted' \subseteq Keys
      /\ \A l \in Keys \ {k} : l \in tainted => l \in tainted'
      /\ k \notin tainted' => req[r].late = FALSE
  <2>1. req[r].late \in BOOLEAN /\ tainted \subseteq Keys
    BY DEF IInv, Types, TypeOK, Request
  <2>2. CASE req[r].late = TRUE
    BY <2>1, <2>2 DEF Put
  <2>3. CASE req[r].late = FALSE
    BY <2>1, <2>3 DEF Put
  <2> QED BY <2>1, <2>2, <2>3
<1>4. Types'
  BY <1>1, <1>2, <1>3 DEF IInv, Types, TypeOK, store
<1>5. ASSUME NEW n \in Notes PROVE NoteOK(n)'
  BY DEF IInv, NoteOK, store
<1>6. ASSUME NEW s \in Requests \ {r} PROVE OwnOK(s)' /\ CurrentOK(s)'
  BY <1>1 DEF IInv, OwnOK, CurrentOK, Active, Rows, store
<1>7. \A l : \A s \in Requests : l \in Owed(s) => l \in Owed(s)'
  <2>1. Owed(r) = {}
    BY NothingOwed
  <2> QED BY <1>1, <2>1 DEF Owed, At
<1>8. ASSUME NEW l \in Keys, l # k PROVE OwnKey(l)' /\ StaleKey(l)'
  <2>1. OwnKey(l) /\ StaleKey(l) /\ cache'[l] = cache[l]
    BY <1>2, <1>8 DEF IInv
  <2>2. Fresh(l)' = Fresh(l)
    BY <2>1 DEF Fresh, Active, Rows, store
  <2> QED BY <1>3, <1>7, <1>8, <2>1, <2>2 DEF OwnKey, StaleKey, store
<1>9. OwnKey(k)' /\ StaleKey(k)'
  <2>1. OwnKey(k)'
    BY <1>2 DEF OwnKey, store
  <2>2. req[r].late = FALSE => Fresh(k)'
    BY <1>2 DEF Fresh, Active, Rows, store
  <2> QED BY <1>3, <2>1, <2>2 DEF StaleKey
<1> QED BY <1>1, <1>4, <1>5, <1>6, <1>8, <1>9 DEF IInv

LEMMA GetFillStep ==
    ASSUME IInv, NEW r \in Requests, GetFill(r)
    PROVE  IInv'
<1> DEFINE k == <<req[r].user, req[r].note>>
<1>1. /\ req[r].pc = "fill" /\ Put(k, req[r].doc, req[r].late) /\ Done(r)
      /\ UNCHANGED <<store, enabled, faults>>
  BY DEF GetFill, At
<1>2. OwnOK(r) /\ CurrentOK(r)
  BY DEF IInv
<1>3. /\ req[r].user \in Users /\ req[r].note \in Notes /\ req[r].doc \in Entries
      /\ owner[req[r].note] = req[r].user
      /\ req[r].late = FALSE => /\ req[r].note \in Active(req[r].user)
                                /\ req[r].doc = doc[req[r].note]
  BY <1>1, <1>2 DEF OwnOK, CurrentOK, Entries
<1>4. k \in Keys /\ k[1] = req[r].user /\ k[2] = req[r].note /\ k[2] # List
  BY <1>3 DEF Keys
<1> HIDE DEF k
<1> QED BY <1>1, <1>3, <1>4, Filling

LEMMA ListFillStep ==
    ASSUME IInv, NEW r \in Requests, ListFill(r)
    PROVE  IInv'
<1> DEFINE k == <<req[r].user, List>>
<1>1. /\ req[r].pc = "fill_list" /\ Put(k, req[r].page, req[r].late) /\ Done(r)
      /\ UNCHANGED <<store, enabled, faults>>
  BY DEF ListFill, At
<1>2. OwnOK(r) /\ CurrentOK(r)
  BY DEF IInv
<1>3. /\ req[r].user \in Users /\ req[r].page \in Page /\ req[r].page \in Entries
      /\ \A row \in req[r].page.data : owner[row.note] = req[r].user
      /\ req[r].late = FALSE =>
           req[r].page = [total |-> Cardinality(Active(req[r].user)),
                          data |-> Rows(req[r].user)]
  BY <1>1, <1>2 DEF OwnOK, CurrentOK, Entries
<1>4. k \in Keys /\ k[1] = req[r].user /\ k[2] = List
  BY <1>3 DEF Keys
<1> HIDE DEF k
<1> QED BY <1>1, <1>3, <1>4, Filling

(***************************************************************************)
(* What ends a key, or the promise to delete one.                          *)
(***************************************************************************)

LEMMA Dropping ==
    ASSUME IInv, UNCHANGED store, faults' \in 0..MaxFaults, enabled' \in BOOLEAN,
           cache' \in [Keys -> Entries], tainted' \subseteq Keys,
           req' \in [Requests -> Request],
           \A k \in Keys : cache'[k] = Missing \/
             (cache'[k] = cache[k] /\ (k \in tainted => k \in tainted')),
           \A s \in Requests : req'[s] = req[s] \/ (OwnOK(s)' /\ CurrentOK(s)'),
           \A s \in Requests : \A k \in Owed(s) :
             k \in Owed(s)' \/ k \in tainted' \/ cache'[k] = Missing
    PROVE  IInv'
<1>1. Types'
  BY DEF IInv, Types, TypeOK, store
<1>2. ASSUME NEW n \in Notes PROVE NoteOK(n)'
  BY DEF IInv, NoteOK, store
<1>3. ASSUME NEW s \in Requests PROVE OwnOK(s)' /\ CurrentOK(s)'
  BY DEF IInv, OwnOK, CurrentOK, Active, Rows, store
<1>4. ASSUME NEW k \in Keys PROVE OwnKey(k)' /\ StaleKey(k)'
  <2>1. CASE cache'[k] = Missing
    BY <2>1 DEF OwnKey, StaleKey
  <2>2. CASE cache'[k] = cache[k] /\ (k \in tainted => k \in tainted')
    <3>1. OwnKey(k) /\ StaleKey(k)
      BY DEF IInv
    <3>2. Fresh(k)' = Fresh(k)
      BY <2>2 DEF Fresh, Active, Rows, store
    <3> QED BY <2>2, <3>1, <3>2 DEF OwnKey, StaleKey, store
  <2> QED BY <2>1, <2>2
<1> QED BY <1>1, <1>2, <1>3, <1>4 DEF IInv

LEMMA DropsKey ==
    ASSUME Types, NEW k \in Keys, Drop(k)
    PROVE  /\ cache' \in [Keys -> Entries] /\ tainted' \subseteq Keys
           /\ cache'[k] = Missing \/ (cache'[k] = cache[k] /\ k \in tainted')
           /\ \A l \in Keys \ {k} : cache'[l] = cache[l] /\ (l \in tainted => l \in tainted')
<1>1. cache \in [Keys -> Entries] /\ tainted \subseteq Keys /\ Missing \in Entries
  BY DEF Types, TypeOK, Entries
<1>2. CASE enabled
  BY <1>1, <1>2 DEF Drop
<1>3. CASE ~enabled
  BY <1>1, <1>3 DEF Drop
<1> QED BY <1>2, <1>3

\* From the deletion of the detail key to that of the list keys.
LEMMA NextDrop ==
    ASSUME Types, NEW r \in Requests, OwnOK(r), req[r].pc = "drop_detail",
           req' = [req EXCEPT ![r].pc = "drop_list"]
    PROVE  /\ req' \in [Requests -> Request]
           /\ \A s \in Requests \ {r} : req'[s] = req[s]
           /\ OwnOK(r)' /\ CurrentOK(r)'
           /\ Owed(r) = {<<req[r].user, req[r].note>>, <<req[r].user, List>>}
           /\ Owed(r)' = {<<req[r].user, List>>}
           /\ <<req[r].user, req[r].note>> \in Keys
<1>1. /\ req' \in [Requests -> Request]
      /\ \A s \in Requests \ {r} : req'[s] = req[s]
      /\ req'[r].pc = "drop_list" /\ req'[r].user = req[r].user
  BY DEF Types, Request, Steps
<1>2. req[r].user \in Users /\ req[r].note \in Notes
  BY DEF OwnOK
<1> QED BY <1>1, <1>2 DEF OwnOK, CurrentOK, Owed, At, Keys

LEMMA DropDetailStep ==
    ASSUME IInv, NEW r \in Requests, DropDetail(r)
    PROVE  IInv'
<1>1. /\ req[r].pc = "drop_detail" /\ Drop(<<req[r].user, req[r].note>>)
      /\ req' = [req EXCEPT ![r].pc = "drop_list"] /\ UNCHANGED <<store, enabled, faults>>
  BY DEF DropDetail, At
<1>2. Types /\ OwnOK(r)
  BY DEF IInv
<1>3. \A s \in Requests \ {r} : Owed(s)' = Owed(s)
  BY <1>1, <1>2, NextDrop DEF Owed, At
<1>4. faults' \in 0..MaxFaults /\ enabled' \in BOOLEAN
  BY <1>1, <1>2 DEF Types, TypeOK
<1>5. /\ req' \in [Requests -> Request] /\ \A s \in Requests \ {r} : req'[s] = req[s]
      /\ OwnOK(r)' /\ CurrentOK(r)'
      /\ Owed(r) = {<<req[r].user, req[r].note>>, <<req[r].user, List>>}
      /\ Owed(r)' = {<<req[r].user, List>>}
      /\ <<req[r].user, req[r].note>> \in Keys
  BY <1>1, <1>2, NextDrop
<1>6. /\ cache' \in [Keys -> Entries] /\ tainted' \subseteq Keys
      /\ \/ cache'[<<req[r].user, req[r].note>>] = Missing
         \/ /\ cache'[<<req[r].user, req[r].note>>] = cache[<<req[r].user, req[r].note>>]
            /\ <<req[r].user, req[r].note>> \in tainted'
      /\ \A l \in Keys \ {<<req[r].user, req[r].note>>} :
           cache'[l] = cache[l] /\ (l \in tainted => l \in tainted')
  BY <1>1, <1>2, <1>5, DropsKey
<1>7. \A s \in Requests : \A k \in Owed(s) :
        k \in Owed(s)' \/ k \in tainted' \/ cache'[k] = Missing
  BY <1>3, <1>5, <1>6
<1> QED BY <1>1, <1>4, <1>5, <1>6, <1>7, Dropping

LEMMA DropListStep ==
    ASSUME IInv, NEW r \in Requests, DropList(r)
    PROVE  IInv'
<1>1. /\ req[r].pc = "drop_list" /\ Drop(<<req[r].user, List>>) /\ Done(r)
      /\ UNCHANGED <<store, enabled, faults>>
  BY DEF DropList, At
<1>2. Types /\ OwnOK(r)
  BY DEF IInv
<1>3. /\ Owed(r) = {<<req[r].user, List>>} /\ <<req[r].user, List>> \in Keys
  BY <1>1, <1>2 DEF Owed, At, OwnOK, Keys
<1>4. \A s \in Requests \ {r} : Owed(s)' = Owed(s)
  BY <1>1, <1>2, BackToIdle DEF Owed, At
<1>5. faults' \in 0..MaxFaults /\ enabled' \in BOOLEAN
  BY <1>1, <1>2 DEF Types, TypeOK
<1> QED BY <1>1, <1>2, <1>3, <1>4, <1>5, BackToIdle, DropsKey, Dropping

LEMMA ExpireStep ==
    ASSUME IInv, NEW k \in Keys, Expire(k)
    PROVE  IInv'
<1>1. /\ cache' = [cache EXCEPT ![k] = Missing] /\ tainted' = tainted \ {k}
      /\ UNCHANGED <<store, enabled, req, faults>>
  BY DEF Expire
<1>2. /\ faults' \in 0..MaxFaults /\ enabled' \in BOOLEAN
      /\ req' \in [Requests -> Request] /\ tainted' \subseteq Keys
      /\ cache' \in [Keys -> Entries] /\ cache'[k] = Missing
      /\ \A l \in Keys \ {k} : cache'[l] = cache[l] /\ (l \in tainted => l \in tainted')
  BY <1>1 DEF IInv, Types, TypeOK, Entries
<1>3. \A s \in Requests : Owed(s)' = Owed(s)
  BY <1>1 DEF Owed, At
<1> QED BY <1>1, <1>2, <1>3, Dropping

LEMMA FaultInRange ==
    ASSUME Types, Fault
    PROVE  faults' \in 0..MaxFaults
BY FaultsAreBounded DEF Types, TypeOK, Fault

LEMMA DropFailsStep ==
    ASSUME IInv, NEW r \in Requests, DropFails(r)
    PROVE  IInv'
<1>1. Types /\ OwnOK(r) /\ faults' \in 0..MaxFaults /\ UNCHANGED <<store, redis>>
  BY FaultInRange DEF IInv, DropFails
<1>2. cache' \in [Keys -> Entries] /\ tainted \subseteq Keys /\ enabled' \in BOOLEAN
  BY <1>1 DEF Types, TypeOK
<1>3. CASE /\ At(r, "drop_detail")
           /\ tainted' = tainted \cup {<<req[r].user, req[r].note>>}
           /\ req' = [req EXCEPT ![r].pc = "drop_list"]
  <2>1. req[r].pc = "drop_detail"
    BY <1>3 DEF At
  <2>2. \A s \in Requests \ {r} : Owed(s)' = Owed(s)
    BY <1>1, <1>3, <2>1, NextDrop DEF Owed, At
  <2>3. /\ req' \in [Requests -> Request] /\ \A s \in Requests \ {r} : req'[s] = req[s]
        /\ OwnOK(r)' /\ CurrentOK(r)'
        /\ Owed(r) = {<<req[r].user, req[r].note>>, <<req[r].user, List>>}
        /\ Owed(r)' = {<<req[r].user, List>>}
        /\ <<req[r].user, req[r].note>> \in Keys
    BY <1>1, <1>3, <2>1, NextDrop
  <2>4. tainted' \subseteq Keys /\ tainted \subseteq tainted' /\ cache' = cache
    BY <1>1, <1>2, <1>3, <2>3
  <2>5. \A s \in Requests : \A k \in Owed(s) : k \in Owed(s)' \/ k \in tainted'
    BY <1>3, <2>2, <2>3
  <2> QED BY <1>1, <1>2, <2>3, <2>4, <2>5, Dropping
<1>4. CASE /\ At(r, "drop_list")
           /\ tainted' = tainted \cup {<<req[r].user, List>>} /\ Done(r)
  <2>1. req[r].pc = "drop_list"
    BY <1>4 DEF At
  <2>2. Owed(r) = {<<req[r].user, List>>} /\ <<req[r].user, List>> \in Keys
    BY <1>1, <2>1 DEF Owed, At, OwnOK, Keys
  <2>3. \A s \in Requests \ {r} : Owed(s)' = Owed(s)
    BY <1>1, <1>4, BackToIdle DEF Owed, At
  <2> QED BY <1>1, <1>2, <1>4, <2>2, <2>3, BackToIdle, Dropping
<1> QED BY <1>3, <1>4 DEF DropFails

LEMMA WriteUnansweredStep ==
    ASSUME IInv, NEW r \in Requests, WriteUnanswered(r)
    PROVE  IInv'
<1>1. /\ Types /\ OwnOK(r) /\ faults' \in 0..MaxFaults /\ UNCHANGED <<store, redis>>
      /\ Done(r) /\ tainted' = tainted \cup Owed(r)
  BY FaultInRange DEF IInv, WriteUnanswered
<1>2. cache' \in [Keys -> Entries] /\ tainted' \subseteq Keys /\ enabled' \in BOOLEAN
  BY <1>1, OwedKeys DEF Types, TypeOK
<1>3. \A s \in Requests \ {r} : Owed(s)' = Owed(s)
  BY <1>1, BackToIdle DEF Owed, At
<1> QED BY <1>1, <1>2, <1>3, BackToIdle, Dropping

LEMMA CrashStep ==
    ASSUME IInv, Crash
    PROVE  IInv'
<1>1. /\ Types /\ faults' \in 0..MaxFaults /\ enabled' \in BOOLEAN
      /\ UNCHANGED <<store, cache>>
      /\ tainted' = tainted \cup UNION {Owed(r) : r \in Requests}
      /\ req' = [r \in Requests |-> Idle]
  BY DEF IInv, Crash, Types, TypeOK
<1>2. \A r \in Requests : Owed(r) \subseteq Keys
  BY OwedKeys DEF IInv
<1>3. cache' \in [Keys -> Entries] /\ tainted' \subseteq Keys
  BY <1>1, <1>2 DEF Types, TypeOK
<1>4. \A r \in Requests : OwnOK(r)' /\ CurrentOK(r)'
  BY <1>1, IdleRequest DEF OwnOK, CurrentOK
<1>5. req' \in [Requests -> Request]
  BY <1>1, IdleRequest
<1> QED BY <1>1, <1>3, <1>4, <1>5, Dropping

(***************************************************************************)
(* The writes.  A write to note n of user u changes what n's owner should  *)
(* see under two keys, and the writer owes the deletion of both; whoever   *)
(* has read the note or the list is late.                                  *)
(***************************************************************************)

\* Request s of another handler after the write of user u to note n.
Marked(s, u, n) ==
    /\ req'[s].pc = req[s].pc /\ req'[s].user = req[s].user
    /\ req'[s].note = req[s].note /\ req'[s].doc = req[s].doc
    /\ req'[s].named = req[s].named /\ req'[s].page = req[s].page
    /\ req'[s].late = FALSE =>
         /\ req[s].late = FALSE
         /\ ~(req[s].pc \in {"page", "fill_list"} /\ req[s].user = u)
         /\ ~(req[s].pc \in {"fill", "write"} /\ req[s].note = n /\ status[n] # "none")

LEMMA OthersSee ==
    ASSUME NEW n \in Notes, NEW u, NEW v, v # u,
           owner'[n] = u, owner[n] \in {u, None}, v # None,
           \A m \in Notes \ {n} :
             owner'[m] = owner[m] /\ status'[m] = status[m] /\ doc'[m] = doc[m]
    PROVE  Active(v)' = Active(v) /\ Rows(v)' = Rows(v)
<1>1. Active(v)' = Active(v)
  BY DEF Active
<1>2. \A m \in Active(v) : doc'[m] = doc[m]
  BY DEF Active
<1> QED BY <1>1, <1>2 DEF Rows

LEMMA Writing ==
    ASSUME IInv, NEW r \in Requests, NEW u \in Users, NEW n \in Notes,
           TypeOK', req' \in [Requests -> Request],
           UNCHANGED <<cache, tainted>>,
           owner'[n] = u, owner[n] \in {u, None}, NoteOK(n)',
           \A m \in Notes \ {n} :
             owner'[m] = owner[m] /\ status'[m] = status[m] /\ doc'[m] = doc[m],
           req[r].pc \notin {"drop_detail", "drop_list"},
           OwnOK(r)', CurrentOK(r)',
           <<u, List>> \in Owed(r)',
           status[n] # "none" => <<u, n>> \in Owed(r)',
           \A s \in Requests \ {r} : Marked(s, u, n)
    PROVE  IInv'
<1>1. Types'
  BY DEF IInv, Types
<1>2. ASSUME NEW m \in Notes PROVE NoteOK(m)'
  BY DEF IInv, NoteOK
<1>3. ASSUME NEW s \in Requests \ {r} PROVE OwnOK(s)'
  <2>1. OwnOK(s) /\ Marked(s, u, n)
    BY DEF IInv
  <2>2. \A m \in Notes : owner[m] \in Users => owner'[m] = owner[m]
    BY DEF IInv
  <2>3. req[s].pc = "fill_list" =>
          \A row \in req[s].page.data : row.note \in Notes /\ owner[row.note] \in Users
    BY <2>1 DEF OwnOK, Page
  <2> QED BY <2>1, <2>2, <2>3 DEF OwnOK, Marked
<1>4. ASSUME NEW s \in Requests \ {r} PROVE CurrentOK(s)'
  <2> SUFFICES ASSUME req'[s].late = FALSE PROVE CurrentOK(s)'
    BY DEF CurrentOK
  <2>1. OwnOK(s) /\ CurrentOK(s) /\ Marked(s, u, n) /\ req[s].late = FALSE
    BY DEF IInv, Marked
  <2>2. CASE req[s].pc \in {"page", "fill_list"}
    <3>1. req[s].user # u /\ req[s].user # None
      BY <2>1, <2>2 DEF Marked, OwnOK
    <3>2. PICK v : v = req[s].user
      OBVIOUS
    <3>3. Active(v)' = Active(v) /\ Rows(v)' = Rows(v)
      BY <3>1, <3>2, OthersSee
    <3>4. req'[s].user = v /\ req'[s].pc = req[s].pc /\ req'[s].page = req[s].page
      BY <2>1, <3>2 DEF Marked
    <3> QED BY <2>1, <2>2, <3>2, <3>3, <3>4 DEF CurrentOK
  <2>3. CASE req[s].pc \in {"fill", "write"}
    <3>1. req[s].note \in Notes /\ owner[req[s].note] # None
      BY <2>1, <2>3 DEF OwnOK
    <3>2. req[s].note # n
      BY <2>1, <2>3, <3>1 DEF Marked, IInv, NoteOK
    <3>3. PICK v, m : v = req[s].user /\ m = req[s].note
      OBVIOUS
    <3>4. (m \in Active(v)' <=> m \in Active(v)) /\ doc'[m] = doc[m]
      BY <3>1, <3>2, <3>3 DEF Active
    <3>5. /\ req'[s].user = v /\ req'[s].note = m /\ req'[s].pc = req[s].pc
          /\ req'[s].doc = req[s].doc /\ req'[s].named = req[s].named
      BY <2>1, <3>3 DEF Marked
    <3> QED BY <2>1, <2>3, <3>3, <3>4, <3>5 DEF CurrentOK
  <2>4. CASE req[s].pc \notin {"page", "fill_list", "fill", "write"}
    BY <2>1, <2>4 DEF CurrentOK, Marked
  <2> QED BY <2>2, <2>3, <2>4
<1>5. \A s \in Requests : Owed(s) \subseteq Owed(s)'
  <2>1. Owed(r) = {}
    BY NothingOwed
  <2>2. ASSUME NEW s \in Requests \ {r} PROVE Owed(s)' = Owed(s)
    BY DEF Marked, Owed, At
  <2> QED BY <2>1, <2>2
<1>6. ASSUME NEW k \in Keys PROVE OwnKey(k)' /\ StaleKey(k)'
  <2>1. OwnKey(k) /\ StaleKey(k) /\ k[1] \in Users /\ k = <<k[1], k[2]>>
    BY DEF IInv, Keys
  <2>2. \A m \in Notes : owner[m] \in Users => owner'[m] = owner[m]
    BY DEF IInv
  <2>3. OwnKey(k)'
    BY <2>1, <2>2 DEF OwnKey, Page, Keys
  <2>4. CASE k \in Owed(r)'
    BY <2>3, <2>4 DEF StaleKey
  <2>5. CASE k \notin Owed(r)'
    <3>1. k[2] = List => k[1] # u
      BY <2>1, <2>5
    <3>2. Fresh(k) => Fresh(k)'
      <4>1. CASE k[2] = List
        BY <2>1, <3>1, <4>1, OthersSee DEF Fresh
      <4>2. CASE k[2] # List
        <5>1. k[2] \in Notes
          BY <4>2 DEF Keys
        <5>2. k[2] = n => k[1] # u \/ status[n] = "none"
          BY <2>1, <2>5
        <5>3. CASE k[2] = n
          BY <2>1, <4>2, <5>2, <5>3 DEF Fresh, Active
        <5>4. CASE k[2] # n
          BY <4>2, <5>1, <5>4 DEF Fresh, Active
        <5> QED BY <5>3, <5>4
      <4> QED BY <4>1, <4>2
    <3> QED BY <1>5, <2>1, <2>3, <3>2 DEF StaleKey
  <2> QED BY <2>3, <2>4, <2>5
<1> QED BY <1>1, <1>2, <1>3, <1>4, <1>6 DEF IInv

LEMMA AfterWriteMarks ==
    ASSUME IInv, NEW r \in Requests, NEW n \in Notes, AfterWrite(r, n, "drop_detail"),
           req[r].user \in Users, owner'[n] = req[r].user
    PROVE  /\ req' \in [Requests -> Request]
           /\ OwnOK(r)' /\ CurrentOK(r)'
           /\ Owed(r)' = {<<req[r].user, n>>, <<req[r].user, List>>}
           /\ \A s \in Requests \ {r} : Marked(s, req[r].user, n)
<1> DEFINE q == [Idle EXCEPT !.pc = "drop_detail", !.user = req[r].user, !.note = n]
<1>1. /\ q \in Request /\ q.pc = "drop_detail" /\ q.user = req[r].user /\ q.note = n
      /\ q.late = FALSE
  BY DEF Idle, Request, Steps
<1>2. ASSUME NEW s \in Requests
      PROVE  /\ req[s] \in Request /\ [req[s] EXCEPT !.late = TRUE] \in Request
  BY DEF IInv, Types, Request
<1>3. req'[r] = q
  BY DEF AfterWrite
<1>4. ASSUME NEW s \in Requests \ {r} PROVE req'[s] \in Request /\ Marked(s, req[r].user, n)
  <2>1. CASE \/ req[s].pc \in {"fill", "write"} /\ req[s].note = n
             \/ req[s].pc \in {"page", "fill_list"} /\ req[s].user = req[r].user
    <3>1. req'[s] = [req[s] EXCEPT !.late = TRUE]
      BY <2>1 DEF AfterWrite
    <3> QED BY <1>2, <3>1 DEF Marked, Request
  <2>2. CASE ~(\/ req[s].pc \in {"fill", "write"} /\ req[s].note = n
               \/ req[s].pc \in {"page", "fill_list"} /\ req[s].user = req[r].user)
    <3>1. req'[s] = req[s]
      BY <2>2 DEF AfterWrite
    <3> QED BY <1>2, <2>2, <3>1 DEF Marked
  <2> QED BY <2>1, <2>2
<1> HIDE DEF q
<1>5. req' \in [Requests -> Request]
  BY <1>1, <1>3, <1>4 DEF AfterWrite
<1>6. OwnOK(r)' /\ CurrentOK(r)'
  BY <1>1, <1>3 DEF OwnOK, CurrentOK
<1>7. Owed(r)' = {<<req[r].user, n>>, <<req[r].user, List>>}
  BY <1>1, <1>3 DEF Owed, At
<1> QED BY <1>4, <1>5, <1>6, <1>7

LEMMA EditWriteStep ==
    ASSUME IInv, NEW r \in Requests, EditWrite(r)
    PROVE  IInv'
<1>1. PICK n, u : n = req[r].note /\ u = req[r].user
  OBVIOUS
<1>2. /\ req[r].pc = "write" /\ AfterWrite(r, n, "drop_detail")
      /\ doc' = IF status[n] = "active" THEN [doc EXCEPT ![n] = req[r].doc] ELSE doc
      /\ UNCHANGED <<owner, status, redis, faults, tainted>>
  BY <1>1 DEF EditWrite, At
<1>3. n \in Notes /\ u \in Users /\ owner[n] = u /\ req[r].doc \in Docs
  BY <1>1, <1>2 DEF IInv, OwnOK
<1>4. /\ doc' \in [Notes -> Docs \cup {Missing}]
      /\ \A m \in Notes \ {n} : doc'[m] = doc[m]
      /\ doc'[n] = doc[n] \/ doc'[n] = req[r].doc
  BY <1>2, <1>3 DEF IInv, Types, TypeOK
<1>5. /\ req' \in [Requests -> Request] /\ OwnOK(r)' /\ CurrentOK(r)'
      /\ Owed(r)' = {<<u, n>>, <<u, List>>}
      /\ \A s \in Requests \ {r} : Marked(s, u, n)
  BY <1>1, <1>2, <1>3, AfterWriteMarks
<1>6. TypeOK'
  BY <1>2, <1>4, <1>5 DEF IInv, Types, TypeOK
<1>7. NoteOK(n)'
  BY <1>2, <1>3, <1>4 DEF IInv, NoteOK
<1> QED BY <1>2, <1>3, <1>4, <1>5, <1>6, <1>7, Writing

LEMMA EraseWriteStep ==
    ASSUME IInv, NEW r \in Requests, EraseWrite(r)
    PROVE  IInv'
<1>1. PICK n, u : n = req[r].note /\ u = req[r].user
  OBVIOUS
<1>2. req[r].pc = "delete" /\ UNCHANGED <<owner, doc, redis, faults, tainted>>
  BY DEF EraseWrite, At
<1>3. n \in Notes /\ u \in Users /\ owner[n] = u
  BY <1>1, <1>2 DEF IInv, OwnOK
<1>4. CASE Done(r) /\ UNCHANGED status
  BY <1>2, <1>4, NothingOwed, BackToIdle, Reading DEF IInv, store
<1>5. CASE /\ status[n] = "active" /\ status' = [status EXCEPT ![n] = "deleted"]
           /\ AfterWrite(r, n, "drop_detail")
  <2>1. /\ status' \in [Notes -> {"none", "active", "deleted"}] /\ status'[n] = "deleted"
        /\ \A m \in Notes \ {n} : status'[m] = status[m]
    BY <1>3, <1>5 DEF IInv, Types, TypeOK
  <2>2. /\ req' \in [Requests -> Request] /\ OwnOK(r)' /\ CurrentOK(r)'
        /\ Owed(r)' = {<<u, n>>, <<u, List>>}
        /\ \A s \in Requests \ {r} : Marked(s, u, n)
    BY <1>1, <1>2, <1>3, <1>5, AfterWriteMarks
  <2>3. TypeOK'
    BY <1>2, <2>1, <2>2 DEF IInv, Types, TypeOK
  <2>4. NoteOK(n)'
    BY <1>2, <1>3, <1>5, <2>1 DEF IInv, NoteOK
  <2> QED BY <1>2, <1>3, <2>1, <2>2, <2>3, <2>4, Writing
<1> QED BY <1>1, <1>4, <1>5 DEF EraseWrite

LEMMA CreateStep ==
    ASSUME IInv, NEW r \in Requests, NEW u \in Users, NEW n \in Notes, NEW d \in Docs,
           Create(r, u, n, d)
    PROVE  IInv'
<1> DEFINE q == [Idle EXCEPT !.pc = "drop_list", !.user = u]
<1>1. /\ req[r].pc = "idle" /\ status[n] = "none" /\ UNCHANGED <<redis, faults, tainted>>
      /\ owner' = [owner EXCEPT ![n] = u] /\ status' = [status EXCEPT ![n] = "active"]
      /\ doc' = [doc EXCEPT ![n] = d]
  BY DEF Create, At
<1>2. /\ owner' \in [Notes -> Users \cup {None}]
      /\ status' \in [Notes -> {"none", "active", "deleted"}]
      /\ doc' \in [Notes -> Docs \cup {Missing}]
      /\ owner'[n] = u /\ status'[n] = "active" /\ doc'[n] = d /\ owner[n] = None
      /\ \A m \in Notes \ {n} :
           owner'[m] = owner[m] /\ status'[m] = status[m] /\ doc'[m] = doc[m]
  BY <1>1 DEF IInv, Types, TypeOK, NoteOK
<1>3. q \in Request /\ q.pc = "drop_list" /\ q.user = u /\ q.late = FALSE
  BY DEF Idle, Request, Steps
<1>4. req'[r] = q
  BY DEF Create
<1>5. ASSUME NEW s \in Requests \ {r} PROVE req'[s] \in Request /\ Marked(s, u, n)
  <2>1. req[s] \in Request /\ [req[s] EXCEPT !.late = TRUE] \in Request
    BY DEF IInv, Types, Request
  <2>2. CASE req[s].pc \in {"page", "fill_list"} /\ req[s].user = u
    <3>1. req'[s] = [req[s] EXCEPT !.late = TRUE]
      BY <2>2 DEF Create
    <3> QED BY <2>1, <3>1 DEF Marked, Request
  <2>3. CASE ~(req[s].pc \in {"page", "fill_list"} /\ req[s].user = u)
    <3>1. req'[s] = req[s]
      BY <2>3 DEF Create
    <3> QED BY <1>1, <2>1, <2>3, <3>1 DEF Marked
  <2> QED BY <2>2, <2>3
<1> HIDE DEF q
<1>6. req' \in [Requests -> Request]
  BY <1>3, <1>4, <1>5 DEF Create
<1>7. OwnOK(r)' /\ CurrentOK(r)' /\ Owed(r)' = {<<u, List>>}
  BY <1>3, <1>4 DEF OwnOK, CurrentOK, Owed, At
<1>8. TypeOK'
  BY <1>1, <1>2, <1>6 DEF IInv, Types, TypeOK
<1>9. NoteOK(n)'
  BY <1>2 DEF NoteOK
<1> QED BY <1>1, <1>2, <1>5, <1>6, <1>7, <1>8, <1>9, Writing

(***************************************************************************)
(* Theorems.                                                               *)
(***************************************************************************)

LEMMA InitIInv == Init => IInv
<1> SUFFICES ASSUME Init PROVE IInv
  OBVIOUS
<1>1. Types
  BY FaultsAreBounded, IdleRequest DEF Init, Types, TypeOK, Entries
<1>2. ASSUME NEW n \in Notes PROVE NoteOK(n)
  BY DEF Init, NoteOK
<1>3. ASSUME NEW r \in Requests PROVE OwnOK(r) /\ CurrentOK(r)
  BY IdleRequest DEF Init, OwnOK, CurrentOK
<1>4. ASSUME NEW k \in Keys PROVE OwnKey(k) /\ StaleKey(k)
  BY DEF Init, OwnKey, StaleKey
<1> QED BY <1>1, <1>2, <1>3, <1>4 DEF IInv

LEMMA NothingStep ==
    ASSUME IInv, UNCHANGED vars
    PROVE  IInv'
<1>1. Types' /\ UNCHANGED store
  BY DEF IInv, Types, TypeOK, vars, store
<1>2. \A k \in Keys : cache'[k] = cache[k] /\ (k \in tainted => k \in tainted')
  BY DEF vars
<1>3. \A s \in Requests : req'[s] = req[s] /\ Owed(s)' = Owed(s)
  BY DEF vars, Owed, At
<1> QED BY <1>1, <1>2, <1>3, Dropping DEF Types, TypeOK

LEMMA NextIInv == IInv /\ [Next]_vars => IInv'
<1> SUFFICES ASSUME IInv, [Next]_vars PROVE IInv'
  OBVIOUS
<1>1. ASSUME NEW r \in Requests, Read(r) PROVE IInv'
  BY <1>1, ListMissStep, GetMissStep, GetFindStep, GetFillStep, ListCountStep,
     ListPageStep, ListFillStep DEF Read
<1>2. ASSUME NEW r \in Requests, Write(r) PROVE IInv'
  BY <1>2, CreateStep, EditFindStep, EraseFindStep, EditWriteStep, EraseWriteStep,
     DropDetailStep, DropListStep, DropFailsStep, WriteUnansweredStep DEF Write
<1> QED BY <1>1, <1>2, AbortStep, CrashStep, ExpireStep, NothingStep DEF Next

\* The inductive invariant of the note cache: what readers and editors carry
\* between MongoDB and Redis is their user's own, and current unless a write
\* marked it.
THEOREM Inductive == Spec => []IInv
BY InitIInv, NextIInv, PTL DEF Spec

\* Every variable of the note cache keeps its type.
THEOREM TypeCorrect == Spec => []TypeOK
<1>1. IInv => TypeOK
  BY DEF IInv, Types
<1> QED BY Inductive, <1>1, PTL

\* No key of a user ever holds a note of another, and an entry differs from
\* MongoDB only under a write that has still to delete it, after a fill that a
\* write overtook, or after a deletion that failed or that a process without
\* Redis skipped.
THEOREM CacheStaysSound == Spec => []CacheIsSound
<1>1. ASSUME IInv PROVE OnlyOwnNotesCached
  <2>1. \A u \in Users : <<u, List>> \in Keys /\ \A n \in Notes : <<u, n>> \in Keys
    BY DEF Keys
  <2>2. \A k \in Keys : OwnKey(k)
    BY <1>1 DEF IInv
  <2>3. ASSUME NEW u \in Users, NEW n \in Notes, cache[<<u, n>>] # Missing
        PROVE  owner[n] = u
    BY <2>1, <2>2, <2>3 DEF OwnKey
  <2>4. ASSUME NEW u \in Users, cache[<<u, List>>] # Missing
        PROVE  \A row \in cache[<<u, List>>].data : owner[row.note] = u
    BY <2>1, <2>2, <2>4 DEF OwnKey
  <2> QED BY <2>3, <2>4 DEF OnlyOwnNotesCached
<1>2. ASSUME IInv PROVE StaleOnlyByOverlap
  BY <1>2 DEF IInv, StaleKey, StaleOnlyByOverlap
<1>3. IInv => CacheIsSound
  BY <1>1, <1>2 DEF CacheIsSound
<1> QED BY Inductive, <1>3, PTL

\* Whatever an edit read before, no step changes or revives a deleted note.
THEOREM DeletedForEver == Spec => DeletedStaysDeleted
<1>1. ASSUME IInv, Next, NEW n \in Notes, status[n] = "deleted"
      PROVE  status'[n] = "deleted" /\ doc'[n] = doc[n]
  <2>1. status \in [Notes -> {"none", "active", "deleted"}] /\ doc \in [Notes -> Docs \cup {Missing}]
    BY <1>1 DEF IInv, Types, TypeOK
  <2>2. ASSUME NEW r \in Requests, NEW u \in Users, NEW m \in Notes, NEW d \in Docs,
               Create(r, u, m, d)
        PROVE  status'[n] = status[n] /\ doc'[n] = doc[n]
    BY <1>1, <2>1, <2>2 DEF Create
  <2>3. ASSUME NEW r \in Requests, EditWrite(r)
        PROVE  status'[n] = status[n] /\ doc'[n] = doc[n]
    BY <1>1, <2>1, <2>3 DEF EditWrite
  <2>4. ASSUME NEW r \in Requests, EraseWrite(r)
        PROVE  status'[n] = status[n] /\ doc'[n] = doc[n]
    BY <1>1, <2>1, <2>4 DEF EraseWrite
  <2>5. ASSUME NEW r \in Requests, Read(r) PROVE UNCHANGED store
    BY <2>5 DEF Read, ListMiss, GetMiss, GetFind, GetFill, ListCount, ListPage, ListFill
  <2>6. ASSUME NEW r \in Requests, Write(r)
        PROVE  status'[n] = status[n] /\ doc'[n] = doc[n]
    BY <2>2, <2>3, <2>4, <2>6 DEF Write, EditFind, EraseFind, DropDetail, DropList,
       DropFails, WriteUnanswered, store
  <2>7. ASSUME \/ \E r \in Requests : Abort(r)
               \/ Crash \/ \E k \in Keys : Expire(k)
        PROVE  UNCHANGED store
    BY <2>7 DEF Abort, Crash, Expire
  <2> QED BY <1>1, <2>5, <2>6, <2>7 DEF Next, store
<1>2. IInv /\ [Next]_vars =>
        [\A n \in Notes : status[n] = "deleted" =>
           status'[n] = "deleted" /\ doc'[n] = doc[n]]_vars
  BY <1>1
<1> QED BY Inductive, <1>2, PTL DEF Spec, DeletedStaysDeleted

\* An edit that no write overtook replaces the fields it names with what it was
\* given and the others with what they are.
THEOREM EditsKeepTheRest == Spec => OverlapFreeEditsKeep
<1>1. ASSUME IInv, NEW r \in Requests, EditWrite(r), ~req[r].late
      PROVE  \A f \in Fields \ req[r].named : doc'[req[r].note][f] = doc[req[r].note][f]
  <2>1. req[r].late = FALSE
    <3>1. req[r].late \in BOOLEAN
      BY <1>1 DEF IInv, Types, Request
    <3> QED BY <1>1, <3>1
  <2>2. \A f \in Fields \ req[r].named : req[r].doc[f] = doc[req[r].note][f]
    BY <1>1, <2>1 DEF IInv, CurrentOK, EditWrite, At
  <2>3. doc'[req[r].note] = req[r].doc \/ doc'[req[r].note] = doc[req[r].note]
    BY <1>1 DEF EditWrite, IInv, Types, TypeOK, OwnOK, At
  <2> QED BY <2>2, <2>3
<1>2. IInv /\ [Next]_vars =>
        [\A r \in Requests : EditWrite(r) /\ ~req[r].late =>
           \A f \in Fields \ req[r].named :
             doc'[req[r].note][f] = doc[req[r].note][f]]_vars
  BY <1>1
<1> QED BY Inductive, <1>2, PTL DEF Spec, OverlapFreeEditsKeep
=============================================================================
