----------------------------- MODULE FileStore ------------------------------
(***************************************************************************)
(* Uploaded files: an object in MinIO, its metadata in MongoDB and a copy  *)
(* of the metadata in Redis (file_service.go).                             *)
(*                                                                         *)
(* No transaction spans the three stores.  An upload stores the object,    *)
(* then the metadata, and removes the object again when the metadata       *)
(* cannot be stored; a deletion marks the metadata, then drops the key and *)
(* the object and only logs their errors.  Every call is an action; a      *)
(* fault is a call that answers an error, whether or not it took effect,   *)
(* or the end of the process.                                              *)
(*                                                                         *)
(* What an upload accepts is the subject of module UploadStream.           *)
(***************************************************************************)
EXTENDS Naturals

CONSTANTS
    Users, Requests,
    Files,      \* the pool of identifiers uuid.New can return
    None,
    MaxFaults   \* bound on failed calls

ASSUME NoneIsNobody == None \notin Users \cup Files
ASSUME FaultsAreBounded == MaxFaults \in Nat

VARIABLES
    owner,     \* user_id and object key of an identifier, None: not generated
    meta,      \* the document: "none", "active" or "deleted" (deleted_at is set)
    objects,   \* objects of the bucket
    cache,     \* wp:files:{id}:meta; its value is the active document
    enabled,   \* cache.Service.enabled of the running process
    req,       \* the local variables of every handler
    faults,
    \* history
    known,     \* files whose upload was answered 201
    closed,    \* files whose deletion was answered 204
    leftover,  \* files whose object a failure may have left behind
    outlived   \* files whose cached metadata may have outlived the document

stores  == <<owner, meta, objects, cache>>
history == <<known, closed, leftover, outlived>>
vars    == <<stores, enabled, req, faults, history>>

Steps == {"idle", "create", "cleanup", "store",   \* Upload
          "find", "fill",                         \* GetMetadata
          "stat", "open",                         \* GetDownload
          "mark", "drop", "erase"}                \* Delete
Request == [pc : Steps, op : {"upload", "download", "delete", "none"},
            user : Users \cup {None}, file : Files \cup {None},
            after : BOOLEAN]     \* history: began after a 204 for its file
Idle == [pc |-> "idle", op |-> "none", user |-> None, file |-> None, after |-> FALSE]

Init ==
    /\ owner = [f \in Files |-> None]
    /\ meta = [f \in Files |-> "none"]
    /\ objects = {} /\ cache = {}
    /\ enabled \in BOOLEAN
    /\ req = [r \in Requests |-> Idle]
    /\ faults = 0
    /\ known = {} /\ closed = {} /\ leftover = {} /\ outlived = {}

At(r, step)   == req[r].pc = step
Goto(r, step) == req' = [req EXCEPT ![r].pc = step]
Answer(r)     == req' = [req EXCEPT ![r] = Idle]
Fault         == faults < MaxFaults /\ faults' = faults + 1

\* cache.Set and cache.Del do nothing without a cache.
Set(f) == cache' = IF enabled THEN cache \cup {f} ELSE cache
Del(f) == cache' = IF enabled THEN cache \ {f} ELSE cache

-----------------------------------------------------------------------------
(* POST /files                                                             *)

\* The content was accepted, and PutObject stored it under a fresh key.
Put(r, u, f) ==
    /\ At(r, "idle") /\ owner[f] = None
    /\ owner' = [owner EXCEPT ![f] = u]
    /\ objects' = objects \cup {f}
    /\ req' = [req EXCEPT ![r] = [Idle EXCEPT !.pc = "create", !.op = "upload",
                                              !.user = u, !.file = f]]
    /\ UNCHANGED <<meta, cache, enabled, faults, history>>

\* PutObject answers an error: 500 and no cleanup, although it may be stored.
PutFails(u, f) ==
    /\ Fault /\ owner[f] = None
    /\ owner' = [owner EXCEPT ![f] = u]
    /\ objects' \in {objects, objects \cup {f}}
    /\ leftover' = leftover \cup {f}
    /\ UNCHANGED <<meta, cache, enabled, req, known, closed, outlived>>

Create(r) ==
    /\ At(r, "create")
    /\ meta' = [meta EXCEPT ![req[r].file] = "active"]
    /\ Goto(r, "store")
    /\ UNCHANGED <<owner, objects, cache, enabled, faults, history>>

\* Mutant of CreateFails: the error is returned and the object forgotten.
CreateFailsForgotten(r) ==
    /\ At(r, "create") /\ Fault
    /\ meta' \in {meta, [meta EXCEPT ![req[r].file] = "active"]}
    /\ Answer(r)
    /\ UNCHANGED <<owner, objects, cache, enabled, history>>

\* InsertOne answers an error, perhaps after the document was stored.
CreateFails(r) ==
    /\ At(r, "create") /\ Fault
    /\ meta' \in {meta, [meta EXCEPT ![req[r].file] = "active"]}
    /\ Goto(r, "cleanup")
    /\ UNCHANGED <<owner, objects, cache, enabled, history>>

\* The object is removed, or the error is logged; 500 either way.
Cleanup(r) ==
    /\ At(r, "cleanup")
    /\ \/ /\ objects' = objects \ {req[r].file}
          /\ UNCHANGED <<faults, leftover>>
       \/ /\ Fault /\ leftover' = leftover \cup {req[r].file}
          /\ UNCHANGED objects
    /\ Answer(r)
    /\ UNCHANGED <<owner, meta, cache, enabled, known, closed, outlived>>

\* cache.Set, whose error is only logged, and 201.
Store(r) ==
    /\ At(r, "store")
    /\ \/ Set(req[r].file) /\ UNCHANGED faults
       \/ Fault /\ UNCHANGED cache
    /\ known' = known \cup {req[r].file}
    /\ Answer(r)
    /\ UNCHANGED <<owner, meta, objects, enabled, closed, leftover, outlived>>

-----------------------------------------------------------------------------
(* GetMetadata, the first call of GET and DELETE /files/{id}               *)

\* Where GetDownload and Delete go on.
Continue(op) == IF op = "download" THEN "stat" ELSE "mark"

\* The owner of the metadata, cached or found; anyone else is answered 403.
MayUse(u, f) == owner[f] = u

Begin(r, u, f, op, step) ==
    /\ At(r, "idle") /\ f \in known
    /\ req' = [req EXCEPT ![r] = [pc |-> step, op |-> op, user |-> u, file |-> f,
                                  after |-> f \in closed]]
    /\ UNCHANGED <<stores, enabled, history>>

Hit(r, u, f, op) ==
    /\ enabled /\ f \in cache
    /\ MayUse(u, f)
    /\ Begin(r, u, f, op, Continue(op))
    /\ UNCHANGED faults

\* No cache, no key, or an error of Redis that is only logged.
Miss(r, u, f, op) ==
    /\ \/ (enabled => f \notin cache) /\ UNCHANGED faults
       \/ Fault
    /\ Begin(r, u, f, op, "find")

\* FindByID: any error is a 404.
Find(r) ==
    /\ At(r, "find")
    /\ meta[req[r].file] = "active" /\ MayUse(req[r].user, req[r].file)
    /\ Goto(r, "fill")
    /\ UNCHANGED <<stores, enabled, faults, history>>

\* cache.Set of what was found, although it may have been deleted meanwhile.
Fill(r) ==
    /\ At(r, "fill")
    /\ \/ /\ Set(req[r].file)
          /\ outlived' = IF meta[req[r].file] = "deleted"
                         THEN outlived \cup {req[r].file} ELSE outlived
          /\ UNCHANGED faults
       \/ Fault /\ UNCHANGED <<cache, outlived>>
    /\ Goto(r, Continue(req[r].op))
    /\ UNCHANGED <<owner, meta, objects, enabled, known, closed, leftover>>

-----------------------------------------------------------------------------
(* GET /files/{id}                                                         *)

\* Mutant of Stat: Exists is left to the download.
StatNothing(r) ==
    /\ At(r, "stat")
    /\ Goto(r, "open")
    /\ UNCHANGED <<stores, enabled, faults, history>>

\* Exists; an object that is not there is a 404.
Stat(r) ==
    /\ At(r, "stat")
    /\ req[r].file \in objects
    /\ Goto(r, "open")
    /\ UNCHANGED <<stores, enabled, faults, history>>

\* GetObject is lazy: 200 is sent before the first byte of the object is read.
Serve(r) ==
    /\ At(r, "open")
    /\ Answer(r)
    /\ UNCHANGED <<stores, enabled, faults, history>>

-----------------------------------------------------------------------------
(* DELETE /files/{id}, and the previous avatar of POST /profile            *)

\* Mutant of Deletable: the filter loses "deleted_at" and matches again.
DeletableAgain(f) == meta[f] # "none"

\* activeFilter.
Deletable(f) == meta[f] = "active"

\* Mutant of Mark: the document is removed.
MarkByRemoval(r) ==
    /\ At(r, "mark")
    /\ Deletable(req[r].file)
    /\ meta' = [meta EXCEPT ![req[r].file] = "removed"]
    /\ Goto(r, "drop")
    /\ UNCHANGED <<owner, objects, cache, enabled, faults, history>>

\* repo.Delete matched.  No match is a 404 and changes nothing.
Mark(r) ==
    /\ At(r, "mark")
    /\ Deletable(req[r].file)
    /\ meta' = [meta EXCEPT ![req[r].file] = "deleted"]
    /\ Goto(r, "drop")
    /\ UNCHANGED <<owner, objects, cache, enabled, faults, history>>

\* The update took effect and was answered with an error: 500, nothing more.
MarkUnanswered(r) ==
    /\ At(r, "mark") /\ Fault
    /\ Deletable(req[r].file)
    /\ meta' = [meta EXCEPT ![req[r].file] = "deleted"]
    /\ leftover' = leftover \cup {req[r].file}
    /\ outlived' = outlived \cup {req[r].file}
    /\ Answer(r)
    /\ UNCHANGED <<owner, objects, cache, enabled, known, closed>>

\* invalidateFileCache: an error is logged, without a cache nothing happens.
Drop(r) ==
    /\ At(r, "drop")
    /\ \/ Del(req[r].file) /\ UNCHANGED faults
       \/ Fault /\ UNCHANGED cache
    /\ outlived' = IF req[r].file \in cache' THEN outlived \cup {req[r].file} ELSE outlived
    /\ Goto(r, "erase")
    /\ UNCHANGED <<owner, meta, objects, enabled, known, closed, leftover>>

\* objectStore.Delete: an error is logged; 204 either way.
Erase(r) ==
    /\ At(r, "erase")
    /\ \/ /\ objects' = objects \ {req[r].file}
          /\ UNCHANGED <<faults, leftover>>
       \/ /\ Fault /\ leftover' = leftover \cup {req[r].file}
          /\ UNCHANGED objects
    /\ closed' = closed \cup {req[r].file}
    /\ Answer(r)
    /\ UNCHANGED <<owner, meta, cache, enabled, known, outlived>>

-----------------------------------------------------------------------------
(* Failures and time                                                       *)

\* 403, 404, or a call that changed nothing answers an error.
Reject(r) ==
    /\ req[r].pc \in {"find", "stat", "mark"}
    /\ Answer(r)
    /\ UNCHANGED <<stores, enabled, faults, history>>

FilesAt(steps) == {req[r].file : r \in {s \in Requests : req[s].pc \in steps}}

\* The process ends and starts again, with or without Redis.
Restart ==
    /\ leftover' = leftover \cup FilesAt({"create", "cleanup", "drop", "erase"})
    /\ outlived' = outlived \cup FilesAt({"drop"})
    /\ req' = [r \in Requests |-> Idle]
    /\ enabled' \in BOOLEAN
    /\ UNCHANGED <<stores, faults, known, closed>>

Expire(f) ==
    /\ f \in cache
    /\ cache' = cache \ {f}
    /\ UNCHANGED <<owner, meta, objects, enabled, req, faults, history>>

-----------------------------------------------------------------------------
Upload(r) == \/ \E u \in Users, f \in Files : Put(r, u, f)
             \/ Create(r) \/ CreateFails(r) \/ Cleanup(r) \/ Store(r)

GetMetadata(r) == \/ \E u \in Users, f \in Files, op \in {"download", "delete"} :
                        Hit(r, u, f, op) \/ Miss(r, u, f, op)
                  \/ Find(r) \/ Fill(r)

Download(r) == Stat(r) \/ Serve(r)

Delete(r) == Mark(r) \/ MarkUnanswered(r) \/ Drop(r) \/ Erase(r)

Next == \/ \E r \in Requests : \/ Upload(r) \/ GetMetadata(r)
                               \/ Download(r) \/ Delete(r) \/ Reject(r)
        \/ \E u \in Users, f \in Files : PutFails(u, f)
        \/ \E f \in Files : Expire(f)
        \/ Restart

Spec == Init /\ [][Next]_vars

-----------------------------------------------------------------------------
(* Properties                                                              *)

\* Every variable has its type.
TypeOK ==
    /\ owner \in [Files -> Users \cup {None}]
    /\ meta \in [Files -> {"none", "active", "deleted"}]
    /\ objects \subseteq Files /\ cache \subseteq Files
    /\ enabled \in BOOLEAN
    /\ req \in [Requests -> Request]
    /\ faults \in 0..MaxFaults
    /\ known \subseteq Files /\ closed \subseteq Files
    /\ leftover \subseteq Files /\ outlived \subseteq Files

\* file_service.go Upload and Delete order their calls so that, wherever the
\* process fails, a file whose identifier a client has never loses its content
\* before its metadata; and an object without an active document belongs to a
\* handler that is about to store or remove it, or was left by one of the
\* failures that are only logged.
ContentMatchesMetadata ==
    /\ \A f \in known : meta[f] = "active" => f \in objects
    /\ \A f \in objects :
         \/ meta[f] = "active" \/ f \in leftover
         \/ \E r \in Requests : /\ req[r].file = f
                                /\ req[r].pc \in {"create", "cleanup", "drop", "erase"}

\* Of concurrent deletions of one file at most one passes repo.Delete, and
\* none after one was answered 204.
OneDeletionWins ==
    \A r \in Requests : req[r].pc \in {"drop", "erase"} =>
        /\ req[r].file \notin closed
        /\ \A s \in Requests \ {r} :
             req[s].pc \in {"drop", "erase"} => req[s].file # req[r].file

\* Cached or found, metadata lets nobody but the owner download; and a download
\* that begins after a 204 for its file is answered 200 only when two things
\* failed: the key outlived the document and the object was left.
ServedIsOwnAndLive ==
    [][\A r \in Requests : Serve(r) =>
         /\ owner[req[r].file] = req[r].user
         /\ req[r].after => req[r].file \in leftover \cap outlived]_vars
=============================================================================
