--------------------------- MODULE FileStoreProofs ---------------------------
(***************************************************************************)
(* Theorems of FileStore, for any number of users, files, requests and     *)
(* faults: the content outlives its metadata and never the other way round *)
(* without a trace, one deletion of a file wins, and downloads serve the   *)
(* owner.                                                                  *)
(***************************************************************************)
EXTENDS FileStore, TLAPS

USE NoneIsNobody

(***************************************************************************)
(* The inductive invariant.  What the three stores say of a file is only   *)
(* explained by the handlers that hold it: an upload holds its file alone  *)
(* because no client knows the identifier yet, a deletion because the      *)
(* filter of repo.Delete matched once.                                     *)
(***************************************************************************)

Uploads == {"create", "cleanup", "store"}
Deletes == {"drop", "erase"}
Pending == {"create", "cleanup", "drop", "erase"}

\* What the place of a request in its handler says of its file.
RequestOK(r) ==
    LET q == req[r] IN
    /\ q.pc = "idle" => q = Idle
    /\ q.pc # "idle" => q.file \in Files /\ q.user \in Users /\ owner[q.file] # None
    /\ q.pc \in Uploads => q.file \notin known
    /\ q.pc \notin Uploads \cup {"idle"} => q.file \in known
    /\ q.pc \in {"create", "store"} => q.file \in objects
    /\ q.pc = "create" => meta[q.file] = "none"
    /\ q.pc = "store" => meta[q.file] = "active"
    /\ q.pc \in Deletes => meta[q.file] = "deleted" /\ q.file \notin closed
    /\ q.pc \in {"fill", "stat", "open", "mark"} \cup Deletes => owner[q.file] = q.user

\* A request that began after the deletion of its file was answered: it got past
\* the metadata by a key that outlived the document, and past Exists by an object
\* that was left.
LateOK(r) ==
    req[r].after = TRUE =>
        /\ req[r].file \in closed
        /\ req[r].pc \in {"find", "stat", "open", "mark"}
        /\ req[r].pc # "find" => req[r].file \in outlived
        /\ req[r].pc = "open" => req[r].file \in leftover

\* What the three stores may say of a file together.
FileOK(f) ==
    /\ owner[f] = None => meta[f] = "none" /\ f \notin objects \cup cache \cup known
    /\ f \in known => meta[f] # "none"
    /\ f \in known /\ meta[f] = "active" => f \in objects
    /\ f \in closed => f \in known /\ meta[f] = "deleted"
    /\ f \in objects => \/ meta[f] = "active" \/ f \in leftover
                        \/ \E r \in Requests : req[r].file = f /\ req[r].pc \in Pending
    /\ f \in cache /\ meta[f] = "deleted" =>
         f \in outlived \/ \E r \in Requests : req[r].file = f /\ req[r].pc = "drop"

\* Uploads and deletions hold their file alone.
Exclusive ==
    \A r, s \in Requests :
        /\ r # s
        /\ req[r].pc \in Uploads \cup Deletes /\ req[s].pc \in Uploads \cup Deletes
        => req[r].file # req[s].file

IInv ==
    /\ TypeOK
    /\ \A r \in Requests : RequestOK(r)
    /\ \A r \in Requests : LateOK(r)
    /\ \A f \in Files : FileOK(f)
    /\ Exclusive

(***************************************************************************)
(* The local variables of a handler.                                       *)
(***************************************************************************)

LEMMA IdleRequest ==
    /\ Idle \in Request /\ Idle.pc = "idle" /\ Idle.file = None /\ Idle.after = FALSE
BY DEF Idle, Request, Steps

LEMMA Goes ==
    ASSUME TypeOK, NEW r \in Requests, NEW step \in Steps, Goto(r, step)
    PROVE  /\ req' \in [Requests -> Request]
           /\ req'[r].pc = step /\ req'[r].op = req[r].op /\ req'[r].user = req[r].user
           /\ req'[r].file = req[r].file /\ req'[r].after = req[r].after
           /\ \A s \in Requests \ {r} : req'[s] = req[s]
BY DEF TypeOK, Goto, Request

LEMMA Answers ==
    ASSUME TypeOK, NEW r \in Requests, Answer(r)
    PROVE  /\ req' \in [Requests -> Request] /\ req'[r] = Idle
           /\ \A s \in Requests \ {r} : req'[s] = req[s]
BY IdleRequest DEF TypeOK, Answer

LEMMA FaultsInRange ==
    ASSUME TypeOK, Fault \/ faults' = faults
    PROVE  faults' \in 0..MaxFaults
BY FaultsAreBounded DEF TypeOK, Fault

LEMMA Fields ==
    ASSUME TypeOK, NEW r \in Requests
    PROVE  /\ req[r] \in Request /\ req[r].pc \in Steps
           /\ req[r].file \in Files \cup {None} /\ req[r].user \in Users \cup {None}
           /\ req[r].after \in BOOLEAN
BY DEF TypeOK, Request

(***************************************************************************)
(* A step that reads: only the place of one request changes, and neither   *)
(* place holds a file.                                                     *)
(***************************************************************************)

LEMMA Reading ==
    ASSUME IInv, NEW r \in Requests, UNCHANGED <<stores, history>>,
           enabled' = enabled, faults' \in 0..MaxFaults,
           req' \in [Requests -> Request],
           \A s \in Requests \ {r} : req'[s] = req[s],
           req[r].pc \notin Uploads \cup Deletes,
           req'[r].pc \notin Uploads \cup Deletes,
           RequestOK(r)', LateOK(r)'
    PROVE  IInv'
<1>1. TypeOK'
  BY DEF IInv, TypeOK, stores, history
<1>2. ASSUME NEW s \in Requests \ {r} PROVE RequestOK(s)' /\ LateOK(s)'
  BY DEF IInv, RequestOK, LateOK, stores, history
<1>3. ASSUME NEW f \in Files PROVE FileOK(f)'
  <2>1. FileOK(f)
    BY DEF IInv
  <2>2. \A s \in Requests : req[s].pc \in Pending => s # r
    BY DEF Pending, Uploads, Deletes
  <2> QED BY <2>1, <2>2 DEF FileOK, Pending, stores, history
<1>4. Exclusive'
  BY DEF IInv, Exclusive
<1> QED BY <1>1, <1>2, <1>3, <1>4 DEF IInv

LEMMA BeginStep ==
    ASSUME IInv, NEW r \in Requests, NEW u \in Users, NEW f \in Files,
           NEW op \in {"download", "delete"}, Hit(r, u, f, op) \/ Miss(r, u, f, op)
    PROVE  IInv'
<1>1. PICK step \in {"find", "stat", "mark"} :
        /\ Begin(r, u, f, op, step)
        /\ step # "find" => f \in cache /\ owner[f] = u
  BY DEF Hit, Miss, Continue, MayUse
<1>2. /\ req'[r] = [pc |-> step, op |-> op, user |-> u, file |-> f, after |-> f \in closed]
      /\ req' \in [Requests -> Request]
      /\ \A s \in Requests \ {r} : req'[s] = req[s]
  BY <1>1 DEF Begin, IInv, TypeOK, Request, Steps
<1>3. /\ UNCHANGED <<stores, history, enabled>> /\ f \in known /\ req[r].pc = "idle"
  BY <1>1 DEF Begin, At
<1>4. faults' \in 0..MaxFaults
  BY FaultsInRange DEF IInv, Hit, Miss
<1>5. /\ req'[r].pc = step /\ req'[r].user = u /\ req'[r].file = f
      /\ req'[r].after = (f \in closed)
  BY <1>2
<1>6. FileOK(f)
  BY DEF IInv
<1>7. RequestOK(r)'
  BY <1>1, <1>3, <1>5, <1>6, NoneIsNobody DEF RequestOK, FileOK, Uploads, Deletes, stores, history
<1>8. LateOK(r)'
  <2>1. ASSUME f \in closed, f \in cache PROVE f \in outlived
    BY <1>6, <2>1 DEF FileOK, IInv, RequestOK, Deletes
  <2> QED BY <1>1, <1>3, <1>5, <2>1 DEF LateOK, stores, history
<1> QED BY <1>1, <1>2, <1>3, <1>4, <1>5, <1>7, <1>8, Reading DEF Uploads, Deletes

LEMMA FindStep ==
    ASSUME IInv, NEW r \in Requests, Find(r)
    PROVE  IInv'
<1>1. /\ UNCHANGED <<stores, history, enabled, faults>> /\ req[r].pc = "find"
      /\ meta[req[r].file] = "active" /\ owner[req[r].file] = req[r].user
      /\ Goto(r, "fill")
  BY DEF Find, At, MayUse
<1>2. /\ req' \in [Requests -> Request]
      /\ req'[r].pc = "fill" /\ req'[r].user = req[r].user
      /\ req'[r].file = req[r].file /\ req'[r].after = req[r].after
      /\ \A s \in Requests \ {r} : req'[s] = req[s]
  BY <1>1, Goes DEF IInv, Steps
<1>3. RequestOK(r) /\ LateOK(r) /\ req[r].file \in Files /\ FileOK(req[r].file)
  BY <1>1 DEF IInv, RequestOK
<1>4. RequestOK(r)'
  BY <1>1, <1>2, <1>3 DEF RequestOK, Uploads, Deletes, stores, history
<1>5. LateOK(r)'
  BY <1>1, <1>2, <1>3 DEF LateOK, FileOK
<1>6. faults' \in 0..MaxFaults
  BY <1>1 DEF IInv, TypeOK
<1> QED BY <1>1, <1>2, <1>4, <1>5, <1>6, Reading DEF Uploads, Deletes

\* cache.Set puts the file in the cache and nothing else.
LEMMA SetAdds ==
    ASSUME NEW f, Set(f) \/ cache' = cache
    PROVE  cache \subseteq cache' /\ cache' \subseteq cache \cup {f}
BY DEF Set

LEMMA FillStep ==
    ASSUME IInv, NEW r \in Requests, Fill(r)
    PROVE  IInv'
<1> DEFINE f == req[r].file
<1>1. /\ UNCHANGED <<owner, meta, objects, enabled, known, closed, leftover>>
      /\ req[r].pc = "fill" /\ Goto(r, Continue(req[r].op))
      /\ Set(f) \/ cache' = cache
      /\ outlived \subseteq outlived' /\ outlived' \subseteq outlived \cup {f}
      /\ meta[f] = "deleted" => f \in outlived' \/ cache' = cache
  BY DEF Fill, At
<1>2. PICK step \in {"stat", "mark"} : Goto(r, step)
  BY <1>1 DEF Continue
<1>3. /\ req' \in [Requests -> Request]
      /\ req'[r].pc = step /\ req'[r].user = req[r].user
      /\ req'[r].file = f /\ req'[r].after = req[r].after
      /\ \A s \in Requests \ {r} : req'[s] = req[s]
  BY <1>2, Goes DEF IInv, Steps
<1>4. RequestOK(r) /\ LateOK(r) /\ f \in Files /\ f \in known
  BY <1>1 DEF IInv, RequestOK, Uploads
<1>5. cache \subseteq cache' /\ cache' \subseteq cache \cup {f}
  BY <1>1, SetAdds
<1>6. faults' \in 0..MaxFaults
  BY FaultsInRange DEF IInv, Fill
<1>7. TypeOK'
  BY <1>1, <1>3, <1>4, <1>5, <1>6 DEF IInv, TypeOK
<1>8. RequestOK(r)' /\ LateOK(r)'
  BY <1>1, <1>3, <1>4 DEF RequestOK, LateOK, Uploads, Deletes
<1>9. ASSUME NEW s \in Requests \ {r} PROVE RequestOK(s)' /\ LateOK(s)'
  BY <1>1, <1>3 DEF IInv, RequestOK, LateOK
<1>10. ASSUME NEW g \in Files PROVE FileOK(g)'
  <2>1. FileOK(g)
    BY DEF IInv
  <2>2. \A s \in Requests : req[s].pc \in Pending => s # r
    BY <1>1 DEF Pending
  <2>3. owner[f] # None
    BY <1>1, <1>4 DEF RequestOK
  <2> QED BY <1>1, <1>3, <1>4, <1>5, <2>1, <2>2, <2>3 DEF FileOK, Pending
<1>11. Exclusive'
  BY <1>1, <1>3 DEF IInv, Exclusive, Uploads, Deletes
<1> QED BY <1>7, <1>8, <1>9, <1>10, <1>11 DEF IInv

LEMMA StatStep ==
    ASSUME IInv, NEW r \in Requests, Stat(r)
    PROVE  IInv'
<1>1. /\ UNCHANGED <<stores, history, enabled, faults>> /\ req[r].pc = "stat"
      /\ req[r].file \in objects /\ Goto(r, "open")
  BY DEF Stat, At
<1>2. /\ req' \in [Requests -> Request]
      /\ req'[r].pc = "open" /\ req'[r].user = req[r].user
      /\ req'[r].file = req[r].file /\ req'[r].after = req[r].after
      /\ \A s \in Requests \ {r} : req'[s] = req[s]
  BY <1>1, Goes DEF IInv, Steps
<1>3. RequestOK(r) /\ LateOK(r) /\ req[r].file \in Files /\ FileOK(req[r].file)
  BY <1>1 DEF IInv, RequestOK
<1>4. RequestOK(r)'
  BY <1>1, <1>2, <1>3 DEF RequestOK, Uploads, Deletes, stores, history
<1>5. ASSUME req[r].file \in closed PROVE req[r].file \in leftover
  <2>1. \A s \in Requests : req[s].pc \in Pending => req[s].file # req[r].file
    BY <1>3, <1>5 DEF IInv, FileOK, RequestOK, Pending, Uploads, Deletes
  <2> QED BY <1>1, <1>3, <1>5, <2>1 DEF FileOK
<1>6. LateOK(r)'
  BY <1>1, <1>2, <1>3, <1>5 DEF LateOK, stores, history
<1>7. faults' \in 0..MaxFaults
  BY <1>1 DEF IInv, TypeOK
<1> QED BY <1>1, <1>2, <1>4, <1>6, <1>7, Reading DEF Uploads, Deletes

LEMMA AnswerStep ==
    ASSUME IInv, NEW r \in Requests, Serve(r) \/ Reject(r)
    PROVE  IInv'
<1>1. /\ UNCHANGED <<stores, history, enabled, faults>> /\ Answer(r)
      /\ req[r].pc \notin Uploads \cup Deletes
  BY DEF Serve, Reject, At, Uploads, Deletes
<1>2. /\ req' \in [Requests -> Request] /\ req'[r] = Idle
      /\ \A s \in Requests \ {r} : req'[s] = req[s]
  BY <1>1, Answers DEF IInv
<1>3. RequestOK(r)' /\ LateOK(r)' /\ req'[r].pc \notin Uploads \cup Deletes
  BY <1>2, IdleRequest DEF RequestOK, LateOK, Uploads, Deletes
<1>4. faults' \in 0..MaxFaults
  BY <1>1 DEF IInv, TypeOK
<1> QED BY <1>1, <1>2, <1>3, <1>4, Reading

(***************************************************************************)
(* The steps of an upload.                                                 *)
(***************************************************************************)

\* Nobody and nothing speaks of a fresh identifier.
LEMMA FreshFile ==
    ASSUME IInv, NEW f \in Files, owner[f] = None
    PROVE  /\ meta[f] = "none" /\ f \notin objects /\ f \notin cache /\ f \notin known
           /\ f \notin closed
           /\ \A r \in Requests : req[r].file # f
<1>1. FileOK(f)
  BY DEF IInv
<1>2. ASSUME NEW r \in Requests PROVE req[r].file # f
  BY IdleRequest, NoneIsNobody DEF IInv, RequestOK
<1> QED BY <1>1, <1>2 DEF FileOK

LEMMA PutStep ==
    ASSUME IInv, NEW r \in Requests, NEW u \in Users, NEW f \in Files, Put(r, u, f)
    PROVE  IInv'
<1>1. /\ req[r].pc = "idle" /\ owner[f] = None
      /\ owner' = [owner EXCEPT ![f] = u] /\ objects' = objects \cup {f}
      /\ UNCHANGED <<meta, cache, enabled, faults, known, closed, leftover, outlived>>
  BY DEF Put, At, history
<1>2. /\ req' \in [Requests -> Request]
      /\ req'[r].pc = "create" /\ req'[r].user = u
      /\ req'[r].file = f /\ req'[r].after = FALSE
      /\ \A s \in Requests \ {r} : req'[s] = req[s]
  BY DEF Put, Idle, IInv, TypeOK, Request, Steps
<1>3. /\ meta[f] = "none" /\ f \notin cache /\ f \notin known
      /\ \A s \in Requests : req[s].file # f
  BY <1>1, FreshFile
<1>4. /\ owner' \in [Files -> Users \cup {None}] /\ owner'[f] = u /\ u # None
      /\ \A g \in Files \ {f} : owner'[g] = owner[g]
  BY <1>1, NoneIsNobody DEF IInv, TypeOK
<1>5. TypeOK'
  BY <1>1, <1>2, <1>4 DEF IInv, TypeOK
<1>6. RequestOK(r)' /\ LateOK(r)'
  BY <1>1, <1>2, <1>3, <1>4 DEF RequestOK, LateOK, Uploads, Deletes
<1>7. ASSUME NEW s \in Requests \ {r} PROVE RequestOK(s)' /\ LateOK(s)'
  <2>1. RequestOK(s) /\ LateOK(s) /\ req'[s] = req[s] /\ req[s].file # f
    BY <1>2, <1>3 DEF IInv
  <2> QED BY <1>1, <1>4, <2>1 DEF RequestOK, LateOK
<1>8. ASSUME NEW g \in Files PROVE FileOK(g)'
  <2>1. FileOK(g)
    BY DEF IInv
  <2>2. \A s \in Requests : req[s].pc \in Pending => s # r
    BY <1>1 DEF Pending
  <2> QED BY <1>1, <1>2, <1>3, <1>4, <2>1, <2>2 DEF FileOK, Pending
<1>9. Exclusive'
  BY <1>2, <1>3 DEF IInv, Exclusive
<1> QED BY <1>5, <1>6, <1>7, <1>8, <1>9 DEF IInv

LEMMA PutFailsStep ==
    ASSUME IInv, NEW u \in Users, NEW f \in Files, PutFails(u, f)
    PROVE  IInv'
<1>1. /\ owner[f] = None /\ owner' = [owner EXCEPT ![f] = u]
      /\ objects \subseteq objects' /\ objects' \subseteq objects \cup {f}
      /\ leftover' = leftover \cup {f}
      /\ UNCHANGED <<meta, cache, enabled, req, known, closed, outlived>>
  BY DEF PutFails
<1>2. /\ meta[f] = "none" /\ f \notin cache /\ f \notin known
      /\ \A s \in Requests : req[s].file # f
  BY <1>1, FreshFile
<1>3. /\ owner' \in [Files -> Users \cup {None}] /\ owner'[f] = u /\ u # None
      /\ \A g \in Files \ {f} : owner'[g] = owner[g]
  BY <1>1, NoneIsNobody DEF IInv, TypeOK
<1>4. faults' \in 0..MaxFaults
  BY FaultsInRange DEF IInv, PutFails
<1>5. TypeOK'
  BY <1>1, <1>3, <1>4 DEF IInv, TypeOK
<1>6. ASSUME NEW s \in Requests PROVE RequestOK(s)' /\ LateOK(s)'
  <2>1. RequestOK(s) /\ LateOK(s) /\ req[s].file # f
    BY <1>2 DEF IInv
  <2> QED BY <1>1, <1>3, <2>1 DEF RequestOK, LateOK
<1>7. ASSUME NEW g \in Files PROVE FileOK(g)'
  BY <1>1, <1>2, <1>3 DEF IInv, FileOK
<1>8. Exclusive'
  BY <1>1 DEF IInv, Exclusive
<1> QED BY <1>5, <1>6, <1>7, <1>8 DEF IInv

\* The documents of two steps: Create stores one, CreateFails may.
LEMMA CreateStep ==
    ASSUME IInv, NEW r \in Requests, Create(r) \/ CreateFails(r)
    PROVE  IInv'
<1> DEFINE f == req[r].file
<1>1. PICK step \in {"store", "cleanup"} :
        /\ Goto(r, step) /\ req[r].pc = "create"
        /\ \/ meta' = [meta EXCEPT ![f] = "active"]
           \/ step = "cleanup" /\ meta' = meta
        /\ UNCHANGED <<owner, objects, cache, enabled, known, closed, leftover, outlived>>
  BY DEF Create, CreateFails, At, history
<1>2. /\ req' \in [Requests -> Request]
      /\ req'[r].pc = step /\ req'[r].user = req[r].user
      /\ req'[r].file = f /\ req'[r].after = req[r].after
      /\ \A s \in Requests \ {r} : req'[s] = req[s]
  BY <1>1, Goes DEF IInv, Steps
<1>3. /\ RequestOK(r) /\ LateOK(r) /\ f \in Files /\ f \notin known
      /\ meta[f] = "none" /\ owner[f] # None /\ f \in objects
  BY <1>1 DEF IInv, RequestOK, Uploads
<1>4. faults' \in 0..MaxFaults
  BY FaultsInRange DEF IInv, Create, CreateFails
<1>5. /\ meta' \in [Files -> {"none", "active", "deleted"}]
      /\ meta'[f] = "active" \/ (step = "cleanup" /\ meta'[f] = "none")
      /\ \A g \in Files \ {f} : meta'[g] = meta[g]
  BY <1>1, <1>3 DEF IInv, TypeOK
<1>6. TypeOK'
  BY <1>1, <1>2, <1>4, <1>5 DEF IInv, TypeOK
<1>7. RequestOK(r)' /\ LateOK(r)'
  BY <1>1, <1>2, <1>3, <1>5 DEF RequestOK, LateOK, Uploads, Deletes
<1>8. ASSUME NEW s \in Requests \ {r} PROVE RequestOK(s)' /\ LateOK(s)'
  <2>1. RequestOK(s) /\ LateOK(s) /\ req'[s] = req[s]
    BY <1>2 DEF IInv
  <2>2. req[s].pc \in Uploads \cup Deletes => req[s].file # f
    BY <1>1 DEF IInv, Exclusive, Uploads
  <2> QED BY <1>1, <1>5, <2>1, <2>2 DEF RequestOK, LateOK, Uploads, Deletes
<1>9. ASSUME NEW g \in Files PROVE FileOK(g)'
  <2>1. FileOK(g)
    BY DEF IInv
  <2>2. CASE g = f
    BY <1>1, <1>2, <1>3, <1>5, <2>1, <2>2 DEF FileOK, Pending
  <2>3. CASE g # f
    BY <1>1, <1>2, <1>5, <2>1, <2>3 DEF FileOK, Pending
  <2> QED BY <2>2, <2>3
<1>10. Exclusive'
  BY <1>1, <1>2 DEF IInv, Exclusive, Uploads, Deletes
<1> QED BY <1>6, <1>7, <1>8, <1>9, <1>10 DEF IInv

\* The two steps that remove an object: of a file that is not known, or that is
\* deleted.
LEMMA ObjectGone ==
    ASSUME IInv, NEW r \in Requests, req[r].pc \in {"cleanup", "erase"}, Answer(r),
           \/ objects' = objects \ {req[r].file} /\ leftover' = leftover
           \/ objects' = objects /\ leftover' = leftover \cup {req[r].file},
           \/ closed' = closed
           \/ req[r].pc = "erase" /\ closed' = closed \cup {req[r].file},
           Fault \/ faults' = faults,
           UNCHANGED <<owner, meta, cache, enabled, known, outlived>>
    PROVE  IInv'
<1> DEFINE f == req[r].file
<1>1. /\ req' \in [Requests -> Request] /\ req'[r] = Idle
      /\ \A s \in Requests \ {r} : req'[s] = req[s]
  BY Answers DEF IInv
<1>2. /\ RequestOK(r) /\ f \in Files /\ closed' \subseteq closed \cup {f}
      /\ closed \subseteq closed' /\ leftover \subseteq leftover'
      /\ leftover' \subseteq leftover \cup {f}
      /\ objects' \subseteq objects /\ \A g \in objects \ {f} : g \in objects'
      /\ f \in objects' => f \in leftover'
  BY DEF IInv, RequestOK
<1>3. req[r].pc \in Uploads \cup Deletes
  BY DEF Uploads, Deletes
<1>4. \A s \in Requests \ {r} : req[s].pc \in Uploads \cup Deletes => req[s].file # f
  BY <1>3 DEF IInv, Exclusive
<1>5. TypeOK'
  BY <1>1, <1>2, FaultsInRange DEF IInv, TypeOK
<1>6. RequestOK(r)' /\ LateOK(r)'
  BY <1>1, IdleRequest DEF RequestOK, LateOK, Uploads, Deletes
<1>7. ASSUME NEW s \in Requests \ {r} PROVE RequestOK(s)' /\ LateOK(s)'
  <2>1. RequestOK(s) /\ LateOK(s) /\ req'[s] = req[s]
    BY <1>1 DEF IInv
  <2> QED BY <1>2, <1>4, <2>1 DEF RequestOK, LateOK, Uploads, Deletes
<1>8. ASSUME NEW g \in Files PROVE FileOK(g)'
  <2>1. FileOK(g)
    BY DEF IInv
  <2>2. CASE g = f
    <3>1. /\ f \in known => meta[f] = "deleted"
          /\ f \in closed' => f \in known /\ meta[f] = "deleted"
      BY <1>2, <2>1, <2>2 DEF RequestOK, FileOK, Uploads, Deletes
    <3>2. owner[f] # None
      BY <1>2 DEF RequestOK
    <3>3. \A s \in Requests : req[s].file = f /\ req[s].pc = "drop" => s # r
      OBVIOUS
    <3> QED BY <1>1, <1>2, <2>1, <2>2, <3>1, <3>2, <3>3 DEF FileOK
  <2>3. CASE g # f
    <3>1. \A s \in Requests : req[s].file = g => s # r
      BY <2>3
    <3> QED BY <1>1, <1>2, <2>1, <2>3, <3>1 DEF FileOK
  <2> QED BY <2>2, <2>3
<1>9. Exclusive'
  BY <1>1, IdleRequest DEF IInv, Exclusive, Uploads, Deletes
<1> QED BY <1>5, <1>6, <1>7, <1>8, <1>9 DEF IInv

LEMMA CleanupStep ==
    ASSUME IInv, NEW r \in Requests, Cleanup(r)
    PROVE  IInv'
BY ObjectGone DEF Cleanup, At

LEMMA StoreStep ==
    ASSUME IInv, NEW r \in Requests, Store(r)
    PROVE  IInv'
<1> DEFINE f == req[r].file
<1>1. /\ req[r].pc = "store" /\ known' = known \cup {f} /\ Answer(r)
      /\ Set(f) \/ cache' = cache
      /\ UNCHANGED <<owner, meta, objects, enabled, closed, leftover, outlived>>
  BY DEF Store, At
<1>2. /\ req' \in [Requests -> Request] /\ req'[r] = Idle
      /\ \A s \in Requests \ {r} : req'[s] = req[s]
  BY <1>1, Answers DEF IInv
<1>3. /\ f \in Files /\ owner[f] # None /\ f \in objects /\ meta[f] = "active"
  BY <1>1 DEF IInv, RequestOK
<1>4. cache \subseteq cache' /\ cache' \subseteq cache \cup {f}
  BY <1>1, SetAdds
<1>5. faults' \in 0..MaxFaults
  BY FaultsInRange DEF IInv, Store
<1>6. TypeOK'
  BY <1>1, <1>2, <1>3, <1>4, <1>5 DEF IInv, TypeOK
<1>7. RequestOK(r)' /\ LateOK(r)'
  BY <1>2, IdleRequest DEF RequestOK, LateOK, Uploads, Deletes
<1>8. ASSUME NEW s \in Requests \ {r} PROVE RequestOK(s)' /\ LateOK(s)'
  <2>1. RequestOK(s) /\ LateOK(s) /\ req'[s] = req[s]
    BY <1>2 DEF IInv
  <2>2. req[s].pc \in Uploads \cup Deletes => req[s].file # f
    BY <1>1 DEF IInv, Exclusive, Uploads
  <2> QED BY <1>1, <2>1, <2>2 DEF RequestOK, LateOK, Uploads, Deletes
<1>9. ASSUME NEW g \in Files PROVE FileOK(g)'
  <2>1. FileOK(g)
    BY DEF IInv
  <2>2. CASE g = f
    BY <1>1, <1>3, <2>1, <2>2 DEF FileOK
  <2>3. CASE g # f
    <3>1. \A s \in Requests : req[s].file = g => s # r
      BY <2>3
    <3> QED BY <1>1, <1>2, <1>4, <2>1, <2>3, <3>1 DEF FileOK
  <2> QED BY <2>2, <2>3
<1>10. Exclusive'
  BY <1>2, IdleRequest DEF IInv, Exclusive, Uploads, Deletes
<1> QED BY <1>6, <1>7, <1>8, <1>9, <1>10 DEF IInv

(***************************************************************************)
(* The steps of a deletion.                                                *)
(***************************************************************************)

\* repo.Delete matched an active document: whoever else is about to delete the
\* file comes too late.
LEMMA MarkStep ==
    ASSUME IInv, NEW r \in Requests, Mark(r)
    PROVE  IInv'
<1> DEFINE f == req[r].file
<1>1. /\ req[r].pc = "mark" /\ meta[f] = "active" /\ Goto(r, "drop")
      /\ meta' = [meta EXCEPT ![f] = "deleted"]
      /\ UNCHANGED <<owner, objects, cache, enabled, faults, known, closed, leftover, outlived>>
  BY DEF Mark, At, Deletable, history
<1>2. /\ req' \in [Requests -> Request]
      /\ req'[r].pc = "drop" /\ req'[r].user = req[r].user
      /\ req'[r].file = f /\ req'[r].after = req[r].after
      /\ \A s \in Requests \ {r} : req'[s] = req[s]
  BY <1>1, Goes DEF IInv, Steps
<1>3. /\ RequestOK(r) /\ LateOK(r) /\ f \in Files /\ f \in known /\ FileOK(f)
      /\ f \notin closed
  <2>1. RequestOK(r) /\ LateOK(r) /\ f \in Files /\ f \in known /\ FileOK(f)
    BY <1>1 DEF IInv, RequestOK, Uploads
  <2> QED BY <1>1, <2>1 DEF FileOK
<1>4. /\ meta' \in [Files -> {"none", "active", "deleted"}] /\ meta'[f] = "deleted"
      /\ \A g \in Files \ {f} : meta'[g] = meta[g]
  BY <1>1, <1>3 DEF IInv, TypeOK
<1>5. TypeOK'
  BY <1>1, <1>2, <1>4 DEF IInv, TypeOK
<1>6. RequestOK(r)' /\ LateOK(r)'
  BY <1>1, <1>2, <1>3, <1>4 DEF RequestOK, LateOK, Uploads, Deletes
<1>7. \A s \in Requests \ {r} : req[s].pc \in Uploads \cup Deletes => req[s].file # f
  BY <1>1, <1>3 DEF IInv, RequestOK, Deletes
<1>8. ASSUME NEW s \in Requests \ {r} PROVE RequestOK(s)' /\ LateOK(s)'
  <2>1. RequestOK(s) /\ LateOK(s) /\ req'[s] = req[s]
    BY <1>2 DEF IInv
  <2> QED BY <1>1, <1>4, <1>7, <2>1 DEF RequestOK, LateOK, Uploads, Deletes
<1>9. ASSUME NEW g \in Files PROVE FileOK(g)'
  <2>1. FileOK(g)
    BY DEF IInv
  <2>2. CASE g = f
    BY <1>1, <1>2, <1>3, <1>4, <2>1, <2>2 DEF FileOK, Pending, RequestOK
  <2>3. CASE g # f
    BY <1>1, <1>2, <1>4, <2>1, <2>3 DEF FileOK, Pending
  <2> QED BY <2>2, <2>3
<1>10. Exclusive'
  BY <1>2, <1>7 DEF IInv, Exclusive
<1> QED BY <1>5, <1>6, <1>8, <1>9, <1>10 DEF IInv

LEMMA MarkUnansweredStep ==
    ASSUME IInv, NEW r \in Requests, MarkUnanswered(r)
    PROVE  IInv'
<1> DEFINE f == req[r].file
<1>1. /\ req[r].pc = "mark" /\ meta[f] = "active" /\ Answer(r)
      /\ meta' = [meta EXCEPT ![f] = "deleted"]
      /\ leftover' = leftover \cup {f} /\ outlived' = outlived \cup {f}
      /\ UNCHANGED <<owner, objects, cache, enabled, known, closed>>
  BY DEF MarkUnanswered, At, Deletable
<1>2. /\ req' \in [Requests -> Request] /\ req'[r] = Idle
      /\ \A s \in Requests \ {r} : req'[s] = req[s]
  BY <1>1, Answers DEF IInv
<1>3. /\ f \in Files /\ f \in known /\ owner[f] # None /\ f \notin closed
  <2>1. f \in Files /\ f \in known /\ owner[f] # None /\ FileOK(f)
    BY <1>1 DEF IInv, RequestOK, Uploads
  <2> QED BY <1>1, <2>1 DEF FileOK
<1>4. /\ meta' \in [Files -> {"none", "active", "deleted"}] /\ meta'[f] = "deleted"
      /\ \A g \in Files \ {f} : meta'[g] = meta[g]
  BY <1>1, <1>3 DEF IInv, TypeOK
<1>5. faults' \in 0..MaxFaults
  BY FaultsInRange DEF IInv, MarkUnanswered
<1>6. TypeOK'
  BY <1>1, <1>2, <1>3, <1>4, <1>5 DEF IInv, TypeOK
<1>7. RequestOK(r)' /\ LateOK(r)'
  BY <1>2, IdleRequest DEF RequestOK, LateOK, Uploads, Deletes
<1>8. \A s \in Requests \ {r} : req[s].pc \in Uploads \cup Deletes => req[s].file # f
  BY <1>1, <1>3 DEF IInv, RequestOK, Deletes
<1>9. ASSUME NEW s \in Requests \ {r} PROVE RequestOK(s)' /\ LateOK(s)'
  <2>1. RequestOK(s) /\ LateOK(s) /\ req'[s] = req[s]
    BY <1>2 DEF IInv
  <2> QED BY <1>1, <1>4, <1>8, <2>1 DEF RequestOK, LateOK, Uploads, Deletes
<1>10. ASSUME NEW g \in Files PROVE FileOK(g)'
  <2>1. FileOK(g)
    BY DEF IInv
  <2>2. CASE g = f
    BY <1>1, <1>3, <1>4, <2>1, <2>2 DEF FileOK
  <2>3. CASE g # f
    <3>1. \A s \in Requests : req[s].file = g => s # r
      BY <2>3
    <3> QED BY <1>1, <1>2, <1>4, <2>1, <2>3, <3>1 DEF FileOK
  <2> QED BY <2>2, <2>3
<1>11. Exclusive'
  BY <1>2, IdleRequest DEF IInv, Exclusive, Uploads, Deletes
<1> QED BY <1>6, <1>7, <1>9, <1>10, <1>11 DEF IInv

LEMMA DropStep ==
    ASSUME IInv, NEW r \in Requests, Drop(r)
    PROVE  IInv'
<1> DEFINE f == req[r].file
<1>1. /\ req[r].pc = "drop" /\ Goto(r, "erase")
      /\ cache' \subseteq cache /\ \A g \in cache \ {f} : g \in cache'
      /\ outlived \subseteq outlived' /\ outlived' \subseteq outlived \cup {f}
      /\ f \in cache' => f \in outlived'
      /\ UNCHANGED <<owner, meta, objects, enabled, known, closed, leftover>>
  BY DEF Drop, At, Del
<1>2. /\ req' \in [Requests -> Request]
      /\ req'[r].pc = "erase" /\ req'[r].user = req[r].user
      /\ req'[r].file = f /\ req'[r].after = req[r].after
      /\ \A s \in Requests \ {r} : req'[s] = req[s]
  BY <1>1, Goes DEF IInv, Steps
<1>3. RequestOK(r) /\ LateOK(r) /\ f \in Files
  BY <1>1 DEF IInv, RequestOK
<1>4. faults' \in 0..MaxFaults
  BY FaultsInRange DEF IInv, Drop
<1>5. TypeOK'
  BY <1>1, <1>2, <1>3, <1>4 DEF IInv, TypeOK
<1>6. RequestOK(r)' /\ LateOK(r)'
  BY <1>1, <1>2, <1>3 DEF RequestOK, LateOK, Uploads, Deletes
<1>7. ASSUME NEW s \in Requests \ {r} PROVE RequestOK(s)' /\ LateOK(s)'
  <2>1. RequestOK(s) /\ LateOK(s) /\ req'[s] = req[s]
    BY <1>2 DEF IInv
  <2> QED BY <1>1, <2>1 DEF RequestOK, LateOK
<1>8. ASSUME NEW g \in Files PROVE FileOK(g)'
  <2>1. FileOK(g)
    BY DEF IInv
  <2>2. CASE g = f
    BY <1>1, <1>2, <2>1, <2>2 DEF FileOK, Pending
  <2>3. CASE g # f
    BY <1>1, <1>2, <2>1, <2>3 DEF FileOK, Pending
  <2> QED BY <2>2, <2>3
<1>9. Exclusive'
  BY <1>1, <1>2 DEF IInv, Exclusive, Uploads, Deletes
<1> QED BY <1>5, <1>6, <1>7, <1>8, <1>9 DEF IInv

LEMMA EraseStep ==
    ASSUME IInv, NEW r \in Requests, Erase(r)
    PROVE  IInv'
BY ObjectGone DEF Erase, At

(***************************************************************************)
(* Restart and the expiry of a key.                                        *)
(***************************************************************************)

LEMMA RestartStep ==
    ASSUME IInv, Restart
    PROVE  IInv'
<1>1. /\ leftover \subseteq leftover' /\ outlived \subseteq outlived'
      /\ \A r \in Requests : req[r].pc \in Pending => req[r].file \in leftover'
      /\ \A r \in Requests : req[r].pc = "drop" => req[r].file \in outlived'
      /\ UNCHANGED <<stores, faults, known, closed>>
      /\ \A r \in Requests : req'[r] = Idle
  BY DEF Restart, FilesAt, Pending
<1>2. TypeOK'
  <2>1. FilesAt(Pending) \subseteq Files /\ FilesAt({"drop"}) \subseteq Files
    BY DEF FilesAt, IInv, RequestOK, Pending
  <2>2. leftover' \subseteq Files /\ outlived' \subseteq Files
    BY <2>1 DEF Restart, Pending, IInv, TypeOK
  <2>3. req' \in [Requests -> Request]
    BY IdleRequest DEF Restart
  <2>4. enabled' \in BOOLEAN
    BY DEF Restart
  <2> QED BY <1>1, <2>2, <2>3, <2>4 DEF IInv, TypeOK, stores
<1>3. ASSUME NEW r \in Requests PROVE RequestOK(r)' /\ LateOK(r)'
  BY <1>1, IdleRequest DEF RequestOK, LateOK, Uploads, Deletes
<1>4. ASSUME NEW f \in Files PROVE FileOK(f)'
  BY <1>1 DEF IInv, FileOK, stores
<1>5. Exclusive'
  BY <1>1, IdleRequest DEF Exclusive, Uploads, Deletes
<1> QED BY <1>2, <1>3, <1>4, <1>5 DEF IInv

LEMMA ExpireStep ==
    ASSUME IInv, NEW f \in Files, Expire(f)
    PROVE  IInv'
<1>1. /\ cache' \subseteq cache
      /\ UNCHANGED <<owner, meta, objects, enabled, req, faults, known, closed, leftover, outlived>>
  BY DEF Expire, history
<1>2. TypeOK'
  BY <1>1 DEF IInv, TypeOK
<1>3. ASSUME NEW r \in Requests PROVE RequestOK(r)' /\ LateOK(r)'
  BY <1>1 DEF IInv, RequestOK, LateOK
<1>4. ASSUME NEW g \in Files PROVE FileOK(g)'
  BY <1>1 DEF IInv, FileOK
<1>5. Exclusive'
  BY <1>1 DEF IInv, Exclusive
<1> QED BY <1>2, <1>3, <1>4, <1>5 DEF IInv

LEMMA NothingStep ==
    ASSUME IInv, UNCHANGED vars
    PROVE  IInv'
<1>1. TypeOK'
  BY DEF IInv, TypeOK, vars, stores, history
<1>2. ASSUME NEW r \in Requests PROVE RequestOK(r)' /\ LateOK(r)'
  BY DEF IInv, RequestOK, LateOK, vars, stores, history
<1>3. ASSUME NEW g \in Files PROVE FileOK(g)'
  BY DEF IInv, FileOK, vars, stores, history
<1>4. Exclusive'
  BY DEF IInv, Exclusive, vars
<1> QED BY <1>1, <1>2, <1>3, <1>4 DEF IInv

(***************************************************************************)
(* Theorems.                                                               *)
(***************************************************************************)

LEMMA InitIInv == Init => IInv
<1> SUFFICES ASSUME Init PROVE IInv
  OBVIOUS
<1>1. TypeOK
  BY FaultsAreBounded, IdleRequest DEF Init, TypeOK
<1>2. ASSUME NEW r \in Requests PROVE RequestOK(r) /\ LateOK(r)
  BY IdleRequest DEF Init, RequestOK, LateOK, Uploads, Deletes
<1>3. ASSUME NEW f \in Files PROVE FileOK(f)
  BY DEF Init, FileOK
<1>4. Exclusive
  BY IdleRequest DEF Init, Exclusive, Uploads, Deletes
<1> QED BY <1>1, <1>2, <1>3, <1>4 DEF IInv

LEMMA NextIInv == IInv /\ [Next]_vars => IInv'
<1> SUFFICES ASSUME IInv, [Next]_vars PROVE IInv'
  OBVIOUS
<1>1. ASSUME NEW r \in Requests, Upload(r) PROVE IInv'
  BY <1>1, PutStep, CreateStep, CleanupStep, StoreStep DEF Upload
<1>2. ASSUME NEW r \in Requests, GetMetadata(r) PROVE IInv'
  BY <1>2, BeginStep, FindStep, FillStep DEF GetMetadata
<1>3. ASSUME NEW r \in Requests, Download(r) PROVE IInv'
  BY <1>3, StatStep, AnswerStep DEF Download
<1>4. ASSUME NEW r \in Requests, Delete(r) PROVE IInv'
  BY <1>4, MarkStep, MarkUnansweredStep, DropStep, EraseStep DEF Delete
<1>5. ASSUME NEW r \in Requests, Reject(r) PROVE IInv'
  BY <1>5, AnswerStep
<1> QED BY <1>1, <1>2, <1>3, <1>4, <1>5, PutFailsStep, ExpireStep, RestartStep,
           NothingStep DEF Next

\* The inductive invariant of the file store: what MongoDB, MinIO and Redis hold
\* of a file agrees up to what the handlers that hold it are about to do and what
\* the failures left behind.
THEOREM Inductive == Spec => []IInv
BY InitIInv, NextIInv, PTL DEF Spec

\* Every variable of the file store keeps its type.
THEOREM TypeCorrect == Spec => []TypeOK
<1>1. IInv => TypeOK
  BY DEF IInv
<1> QED BY Inductive, <1>1, PTL

\* Wherever an upload or a deletion is cut short, the content of a file a client
\* knows is there as long as its document, and no object stays behind but by a
\* failure that is only logged.
THEOREM ContentIsKept == Spec => []ContentMatchesMetadata
<1>1. ASSUME IInv PROVE ContentMatchesMetadata
  <2>1. known \subseteq Files /\ objects \subseteq Files
    BY <1>1 DEF IInv, TypeOK
  <2> QED BY <1>1, <2>1 DEF IInv, FileOK, ContentMatchesMetadata, Pending
<1> QED BY Inductive, <1>1, PTL

\* However deletions of a file overlap, one gets past repo.Delete, and none after
\* a 204.
THEOREM DeletionIsWonOnce == Spec => []OneDeletionWins
<1>1. ASSUME IInv PROVE OneDeletionWins
  BY <1>1 DEF IInv, RequestOK, Exclusive, OneDeletionWins, Uploads, Deletes
<1> QED BY Inductive, <1>1, PTL

\* Cached or found, metadata lets only the owner download, and a download that
\* began after the 204 of a deletion is served only if the key outlived the
\* document and the object was left.
THEOREM DownloadsAreOwnAndLive == Spec => ServedIsOwnAndLive
<1>1. ASSUME IInv, NEW r \in Requests, Serve(r)
      PROVE  /\ owner[req[r].file] = req[r].user
             /\ req[r].after => req[r].file \in leftover \cap outlived
  <2>1. RequestOK(r) /\ LateOK(r) /\ req[r].pc = "open"
    BY <1>1 DEF IInv, Serve, At
  <2> QED BY <2>1 DEF RequestOK, LateOK
<1>2. IInv /\ [Next]_vars =>
        [\A r \in Requests : Serve(r) =>
           /\ owner[req[r].file] = req[r].user
           /\ req[r].after => req[r].file \in leftover \cap outlived]_vars
  BY <1>1
<1> QED BY Inductive, <1>2, PTL DEF Spec, ServedIsOwnAndLive
=============================================================================
