------------------------------ MODULE NoteCache ------------------------------
(***************************************************************************)
(* Notes in MongoDB and their cache-aside copies in Redis.                 *)
(*                                                                         *)
(* GET reads the cache, then MongoDB, then writes the cache; PUT and PATCH *)
(* read a whole document, change it in memory and replace it; every write  *)
(* is followed by deletions in Redis whose errors are only logged.  None   *)
(* of this is atomic, so each call to a store is an action of its own.     *)
(*                                                                         *)
(* A cached entry is kept under the key of the user who asked.  List pages *)
(* are one key here: DelByPattern removes them all, and a page long enough *)
(* for every note shows everything a shorter one could.                    *)
(***************************************************************************)
EXTENDS Naturals, FiniteSets

CONSTANTS
    Users, Notes, Requests,
    Texts,      \* what a field of a note can hold
    None,
    List,       \* in place of a note: the key of a user's list
    MaxFaults   \* bound on failed deletions and unanswered writes

ASSUME IdentifiersDiffer == List \notin Notes /\ None \notin Users \cup Notes
ASSUME NotesAreFinite == IsFiniteSet(Notes)
ASSUME FaultsAreBounded == MaxFaults \in Nat

VARIABLES
    owner, status, doc,  \* the documents: user_id, active or deleted, fields
    cache,               \* the keys of Redis
    enabled,             \* cache.Service.enabled of the running process
    req,                 \* the local variables of every handler
    faults,
    tainted              \* history: keys a race, an error or a process
                         \* without Redis left behind

store == <<owner, status, doc>>
redis == <<cache, enabled>>
vars  == <<store, redis, req, faults, tainted>>

Fields  == {"title", "content"}
Docs    == [Fields -> Texts]
Keys    == Users \X (Notes \cup {List})
Page    == [total : 0..Cardinality(Notes), data : SUBSET [note : Notes, doc : Docs]]
Missing == [none |-> TRUE]
Entries == Docs \cup Page \cup {Missing}

Steps == {"idle", "find", "fill", "count", "page", "fill_list",
          "edit", "write", "erase", "delete", "drop_detail", "drop_list"}

\* "late": a write hit what this request has read since it read it.
Request == [pc : Steps, user : Users \cup {None}, note : Notes \cup {None},
            doc : Docs \cup {Missing},
            named : SUBSET Fields,          \* the fields an edit sets
            page : Page \cup {Missing}, late : BOOLEAN]
Idle == [pc |-> "idle", user |-> None, note |-> None,
         doc |-> Missing, named |-> {}, page |-> Missing, late |-> FALSE]

Init ==
    /\ owner = [n \in Notes |-> None]
    /\ status = [n \in Notes |-> "none"]
    /\ doc = [n \in Notes |-> Missing]
    /\ cache = [k \in Keys |-> Missing] /\ enabled \in BOOLEAN
    /\ req = [r \in Requests |-> Idle]
    /\ faults = 0 /\ tainted = {}

Active(u) == {n \in Notes : owner[n] = u /\ status[n] = "active"}
Rows(u)   == {[note |-> n, doc |-> doc[n]] : n \in Active(u)}

At(r, step) == req[r].pc = step
Done(r)     == req' = [req EXCEPT ![r] = Idle]
Begin(r, fields) == /\ At(r, "idle")
                    /\ req' = [req EXCEPT ![r] = fields]
\* The step after a write to note n: whoever has read it is late now.
AfterWrite(r, n, step) ==
    req' = [s \in Requests |->
              IF s = r THEN [Idle EXCEPT !.pc = step, !.user = req[r].user, !.note = n]
              ELSE IF \/ req[s].pc \in {"fill", "write"} /\ req[s].note = n
                      \/ req[s].pc \in {"page", "fill_list"} /\ req[s].user = req[r].user
                   THEN [req[s] EXCEPT !.late = TRUE]
                   ELSE req[s]]

Fault == faults < MaxFaults /\ faults' = faults + 1
\* Set and Del of the cache service: a process that started without Redis skips
\* them and reports no error.
Put(k, entry, late) ==
    IF enabled
    THEN /\ cache' = [cache EXCEPT ![k] = entry]
         /\ tainted' = IF late THEN tainted \cup {k} ELSE tainted \ {k}
    ELSE UNCHANGED <<cache, tainted>>
Drop(k) ==
    IF enabled
    THEN /\ cache' = [cache EXCEPT ![k] = Missing]
         /\ tainted' = tainted \ {k}
    ELSE /\ tainted' = tainted \cup {k}
         /\ UNCHANGED cache

-----------------------------------------------------------------------------
(* GET /notes/:id                                                          *)

\* A hit answers from the cache and changes nothing.  With no entry, with a Redis
\* error and without Redis the handler goes on to MongoDB.
GetMiss(r, u, n) ==
    /\ Begin(r, [Idle EXCEPT !.pc = "find", !.user = u, !.note = n])
    /\ UNCHANGED <<store, redis, faults, tainted>>

\* FindByID; 404 and 403 leave the cache alone.
GetFind(r) ==
    /\ At(r, "find")
    /\ IF req[r].note \in Active(req[r].user)
       THEN req' = [req EXCEPT ![r].pc = "fill", ![r].doc = doc[req[r].note]]
       ELSE Done(r)
    /\ UNCHANGED <<store, redis, faults, tainted>>

GetFill(r) ==
    /\ At(r, "fill")
    /\ Put(<<req[r].user, req[r].note>>, req[r].doc, req[r].late)
    /\ Done(r)
    /\ UNCHANGED <<store, enabled, faults>>

-----------------------------------------------------------------------------
(* GET /notes                                                              *)

\* As GetMiss.
ListMiss(r, u) ==
    /\ Begin(r, [Idle EXCEPT !.pc = "count", !.user = u])
    /\ UNCHANGED <<store, redis, faults, tainted>>

\* findPage: CountDocuments, then Find.
ListCount(r) ==
    /\ At(r, "count")
    /\ req' = [req EXCEPT ![r].pc = "page",
                 ![r].page = [total |-> Cardinality(Active(req[r].user)), data |-> {}]]
    /\ UNCHANGED <<store, redis, faults, tainted>>

ListPage(r) ==
    /\ At(r, "page")
    /\ req' = [req EXCEPT ![r].pc = "fill_list", ![r].page.data = Rows(req[r].user)]
    /\ UNCHANGED <<store, redis, faults, tainted>>

ListFill(r) ==
    /\ At(r, "fill_list")
    /\ Put(<<req[r].user, List>>, req[r].page, req[r].late)
    /\ Done(r)
    /\ UNCHANGED <<store, enabled, faults>>

-----------------------------------------------------------------------------
(* POST /notes, PUT and PATCH /notes/:id, DELETE /notes/:id                *)

Create(r, u, n, d) ==
    /\ At(r, "idle") /\ status[n] = "none"
    /\ owner' = [owner EXCEPT ![n] = u]
    /\ status' = [status EXCEPT ![n] = "active"]
    /\ doc' = [doc EXCEPT ![n] = d]
    /\ req' = [s \in Requests |->
                 IF s = r THEN [Idle EXCEPT !.pc = "drop_list", !.user = u]
                 ELSE IF req[s].pc \in {"page", "fill_list"} /\ req[s].user = u
                      THEN [req[s] EXCEPT !.late = TRUE] ELSE req[s]]
    /\ UNCHANGED <<redis, faults, tainted>>

\* Mutant of EditFind: a PATCH is applied to an empty note.
EditFindBlank(r, u, n, fields, d) ==
    /\ n \in Active(u)
    /\ Begin(r, [Idle EXCEPT !.pc = "write", !.user = u, !.note = n, !.named = fields,
                   !.doc = d])
    /\ UNCHANGED <<store, redis, faults, tainted>>

\* FindByID; 404 and 403 end the request.  PUT sets both fields, PATCH those
\* that are not empty.
EditFind(r, u, n, fields, d) ==
    /\ n \in Active(u)
    /\ Begin(r, [Idle EXCEPT !.pc = "write", !.user = u, !.note = n, !.named = fields,
                   !.doc = [f \in Fields |-> IF f \in fields THEN d[f] ELSE doc[n][f]]])
    /\ UNCHANGED <<store, redis, faults, tainted>>

\* Mutant of EditWrite: the filter of ReplaceOne is the id alone, and the
\* document that was read has no deleted_at.
EditWriteAnyway(r) ==
    /\ At(r, "write")
    /\ doc' = [doc EXCEPT ![req[r].note] = req[r].doc]
    /\ status' = [status EXCEPT ![req[r].note] = "active"]
    /\ AfterWrite(r, req[r].note, "drop_detail")
    /\ UNCHANGED <<owner, redis, faults, tainted>>

\* ReplaceOne of an active document; no match is not an error.
EditWrite(r) ==
    /\ At(r, "write")
    /\ doc' = IF status[req[r].note] = "active"
              THEN [doc EXCEPT ![req[r].note] = req[r].doc] ELSE doc
    /\ AfterWrite(r, req[r].note, "drop_detail")
    /\ UNCHANGED <<owner, status, redis, faults, tainted>>

EraseFind(r, u, n) ==
    /\ n \in Active(u)
    /\ Begin(r, [Idle EXCEPT !.pc = "delete", !.user = u, !.note = n])
    /\ UNCHANGED <<store, redis, faults, tainted>>

\* Mutant of EraseWrite: the delete marks the note with a state of its own.
EraseWriteMark(r) ==
    /\ At(r, "delete")
    /\ status' = [status EXCEPT ![req[r].note] = "trashed"]
    /\ AfterWrite(r, req[r].note, "drop_detail")
    /\ UNCHANGED <<owner, doc, redis, faults, tainted>>

\* The soft delete; a document that is no longer active is a 404.
EraseWrite(r) ==
    /\ At(r, "delete")
    /\ IF status[req[r].note] = "active"
       THEN /\ status' = [status EXCEPT ![req[r].note] = "deleted"]
            /\ AfterWrite(r, req[r].note, "drop_detail")
       ELSE Done(r) /\ UNCHANGED status
    /\ UNCHANGED <<owner, doc, redis, faults, tainted>>

\* Mutant of DropDetail: the deletion is forgotten.
DropDetailNothing(r) ==
    /\ At(r, "drop_detail")
    /\ req' = [req EXCEPT ![r].pc = "drop_list"]
    /\ UNCHANGED <<store, redis, faults, tainted>>

\* invalidateNoteCache, then invalidateNoteListCache.
DropDetail(r) ==
    /\ At(r, "drop_detail")
    /\ Drop(<<req[r].user, req[r].note>>)
    /\ req' = [req EXCEPT ![r].pc = "drop_list"]
    /\ UNCHANGED <<store, enabled, faults>>

DropList(r) ==
    /\ At(r, "drop_list")
    /\ Drop(<<req[r].user, List>>)
    /\ Done(r)
    /\ UNCHANGED <<store, enabled, faults>>

\* The key an invalidating request has not deleted yet.
Owed(r) == CASE At(r, "drop_detail") -> {<<req[r].user, req[r].note>>, <<req[r].user, List>>}
             [] At(r, "drop_list")   -> {<<req[r].user, List>>}
             [] OTHER                -> {}

\* Redis answers an error to a deletion: logged, and the handler goes on.
DropFails(r) ==
    /\ enabled /\ Fault
    /\ \/ /\ At(r, "drop_detail")
          /\ tainted' = tainted \cup {<<req[r].user, req[r].note>>}
          /\ req' = [req EXCEPT ![r].pc = "drop_list"]
       \/ /\ At(r, "drop_list")
          /\ tainted' = tainted \cup {<<req[r].user, List>>}
          /\ Done(r)
    /\ UNCHANGED <<store, redis>>

\* A MongoDB error before the write, or a Redis error at the fill.
Abort(r) ==
    /\ req[r].pc \notin {"idle", "drop_detail", "drop_list"}
    /\ Done(r)
    /\ UNCHANGED <<store, redis, faults, tainted>>

\* A write took effect and was answered with an error: nothing is deleted.
WriteUnanswered(r) ==
    /\ \/ At(r, "drop_detail")
       \/ At(r, "drop_list") /\ req[r].note = None
    /\ Fault
    /\ tainted' = tainted \cup Owed(r)
    /\ Done(r)
    /\ UNCHANGED <<store, redis>>

\* The process dies: what its requests had still to delete stays, and NewService
\* asks anew whether Redis answers.
Crash ==
    /\ enabled' \in BOOLEAN
    /\ tainted' = tainted \cup UNION {Owed(r) : r \in Requests}
    /\ req' = [r \in Requests |-> Idle]
    /\ UNCHANGED <<store, cache, faults>>

\* The TTL of a key ends.
Expire(k) ==
    /\ cache[k] # Missing
    /\ cache' = [cache EXCEPT ![k] = Missing]
    /\ tainted' = tainted \ {k}
    /\ UNCHANGED <<store, enabled, req, faults>>

-----------------------------------------------------------------------------
Read(r) == \/ \E u \in Users : ListMiss(r, u) \/ \E n \in Notes : GetMiss(r, u, n)
           \/ GetFind(r) \/ GetFill(r) \/ ListCount(r) \/ ListPage(r) \/ ListFill(r)

Write(r) ==
    \/ \E u \in Users, n \in Notes :
         \/ \E d \in Docs : \/ Create(r, u, n, d)
                          \/ \E fields \in SUBSET Fields : EditFind(r, u, n, fields, d)
         \/ EraseFind(r, u, n)
    \/ EditWrite(r) \/ EraseWrite(r) \/ DropDetail(r) \/ DropList(r) \/ DropFails(r)
    \/ WriteUnanswered(r)

Next == \/ \E r \in Requests : Read(r) \/ Write(r) \/ Abort(r)
        \/ Crash
        \/ \E k \in Keys : Expire(k)

Spec == Init /\ [][Next]_vars

-----------------------------------------------------------------------------
(* Properties                                                              *)

TypeOK ==
    /\ owner \in [Notes -> Users \cup {None}]
    /\ status \in [Notes -> {"none", "active", "deleted"}]
    /\ doc \in [Notes -> Docs \cup {Missing}]
    /\ \A k \in Keys : cache[k] \in Entries
    /\ enabled \in BOOLEAN
    /\ \A r \in Requests : req[r] \in Request
    /\ faults \in 0..MaxFaults
    /\ tainted \subseteq Keys

\* What a hit on key k should answer.
Fresh(k) ==
    IF k[2] = List
    THEN cache[k] = [total |-> Cardinality(Active(k[1])), data |-> Rows(k[1])]
    ELSE k[2] \in Active(k[1]) /\ cache[k] = doc[k[2]]

\* No user's key ever holds a note of another user: the 403 of GetByID is
\* decided before the fill, and a hit needs no second check.
OnlyOwnNotesCached ==
    \A u \in Users :
        /\ \A n \in Notes : cache[<<u, n>>] # Missing => owner[n] = u
        /\ cache[<<u, List>>] # Missing =>
             \A row \in cache[<<u, List>>].data : owner[row.note] = u

\* A stale entry has one of four causes: a write that has still to delete it, a
\* reader that filled it with what it read before a write, a deletion that
\* failed or died with its process, or a write by a process that had started
\* without Redis.  The last outlives the restart that brings Redis back.
\* Otherwise a hit answers what MongoDB holds, count and rows alike.
StaleOnlyByOverlap ==
    \A k \in Keys : \/ cache[k] = Missing \/ k \in tainted \/ Fresh(k)
                    \/ \E r \in Requests : k \in Owed(r)

\* Whatever the cache holds is the user's own and no older than its causes say.
CacheIsSound == OnlyOwnNotesCached /\ StaleOnlyByOverlap

\* A deleted note never comes back: an edit that read it before the delete
\* replaces only an active document.
DeletedStaysDeleted ==
    [][\A n \in Notes : status[n] = "deleted" =>
         status'[n] = "deleted" /\ doc'[n] = doc[n]]_vars

\* An edit that no other write overtook between its read and its ReplaceOne
\* changes the fields that the request names and no other.
OverlapFreeEditsKeep ==
    [][\A r \in Requests : EditWrite(r) /\ ~req[r].late =>
         \A f \in Fields \ req[r].named : doc'[req[r].note][f] = doc[req[r].note][f]]_vars
=============================================================================
