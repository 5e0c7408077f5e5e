# Web Labs API: verification development

TLA+ specifications, TLC configurations and TLAPS proofs for the Go service in `src/`: a REST API with JWT sessions,
notes, files, profiles and a registration mail queue over MongoDB, Redis, MinIO, RabbitMQ and SMTP. The repository has no
tests; the reference for every definition is the code, and each definition names the lines it stands for in
`PROJECT.json`.

Paths below are relative to `src/internal/` unless they start with `src/`.

## 1. Inventory

| Part | State | Operations | Correct when |
|---|---|---|---|
| Sessions (`users/service/auth_service.go`, `users/repository/token_repository.go`, `users/middleware/auth.go`) | access JTIs as Redis keys, refresh token documents in MongoDB, cookies at the client | login, refresh, logout, logout-all, the session part of reset-password, validation of every private request | what an answer said is closed stays closed; a refresh replaces its token; nobody ends another user's session |
| Registration (`auth_service.go` Register, `users/handler/auth_handler.go`) | `users` collection with a unique index on email | find, insert, publish | one account per email; 201 only when the event was taken |
| Mail queue (`queue/client.go`, `queue/consumer.go`, `mailer/mailer.go`) | durable queue, dead letter queue, the unacknowledged delivery | deliver, send, acknowledge, republish, requeue, dead-letter | no event lost; every event mailed or dead-lettered; retries bounded |
| Publisher (`queue/client.go` publish) | one AMQP channel, its mutex, the Go channel of confirmations | publish, wait for a confirmation | success means the broker took the message; every call returns |
| Notes (`notes/`) | note documents, cached notes and lists | six endpoints | a hit answers what is stored and only to the owner; deleted stays deleted |
| Users and profiles (`users/service/profile_service.go`, `users/repository/user_repository.go`, `auth_service.go` ForgotPassword and ResetPassword) | user documents, cached profiles, the avatar's file | read, update, forgot, reset, link an OAuth account | a handler changes its own fields; a reset token serves once; the cached profile is the stored one |
| OAuth (`users/oauth/yandex.go`, `auth_handler.go`) | `stateStore`, a Go map in the process; the Yandex link of user documents | start, callback, find, link or create the user | a state serves once; one user per Yandex account and email; an account reaches only users of its email |
| Files (`storage/`) | metadata in MongoDB, objects in MinIO, cached metadata | upload, download, delete | a file that a client knows has its content; only its owner acts; it is deleted once; an accepted upload is whole and within the limit |
| Cache service (`cache/cache.go`) | the Redis client and the flag `enabled` | Get, Set, Del, DelByPattern | |
| Rules (`notes/validator/validator.go`, `config/config.go`) | none | pagination, titles, durations | |
| Rest | `src/main.go`, `database/database.go`, DTOs, generated docs, deployment | start, indexes, wiring | |

How they interact. Every private request passes AuthMiddleware, which asks the session service, which asks Redis.
Handlers run in one goroutine per request and share nothing but the stores, the publisher's mutex and `stateStore`; no
transaction and no version number is used anywhere, so the unit of atomicity is one call to a store. Register publishes
to RabbitMQ; the consumer goroutine of the same process takes the event and publishes retries through the same client.
Profile updates call the file service. All services share one `cache.Service`, which probes Redis once, at the start.

What is hard. (1) Handlers read, decide and write in separate calls, so their steps interleave: refresh beside
logout-all, SCAN beside new keys, read-through fills beside invalidations, whole documents replaced from memory.
(2) Calls fail one by one: an error after the first of several writes, a write that took effect but was answered with an
error. (3) The process dies between SMTP and acknowledgement, or starts again without Redis. (4) Confirmations arrive
late and carry no name. `PROJECT.json` lists the hazards at their lines with the properties that cover them.

## 2. Modules

```
SessionLedger <── AuthSessions ── AuthSessionsProofs,  MCAuthSessions      (Ledger == INSTANCE SessionLedger WITH ...)
PublisherConfirms ── PublisherConfirmsProofs,  MCPublisherConfirms
Registration ── RegistrationProofs,  MCRegistration        (its constant Outcomes stands for what PublisherConfirms shows)
NoteCache ── NoteCacheProofs,  MCNoteCache
UserDocument ── UserDocumentProofs,  MCUserDocument
OAuthLogin ── OAuthLoginProofs,  MCOAuthLogin
FileStore ── FileStoreProofs,  MCFileStore
UploadStream ── UploadStreamProofs,  MCUploadStream
```

An `MC` module extends a specification with the symmetry set of its model values; the `.cfg` files give the constants.
An operator whose comment starts with "Mutant of" is a faulty variant of the definition after it; no specification uses it. It
documents which slip of the code each property would notice. A `Proofs` module extends a specification with its inductive
invariant and the theorems of section 5; it adds nothing to the specification.

### AuthSessions

A *pair* is one access JWT with its JTI key and one refresh JWT with its document; CreateTokens makes both together.
`access` is the set of pairs whose key is in Redis, `refresh` the state of their documents, `held` what clients received,
`req` the local variables of each handler (`pc` names the next call). `closedAccess` and `closedRefresh` record what a 200 told a
client is over.

| Action | Code |
|---|---|
| LoginBegin, Issue, Save | Login, CreateTokens + saveAccessSession, saveToken + setCookies |
| RefreshBegin, Rotate, Issue, Save | RefreshTokens: findMatchingToken, RevokeByID, then as login |
| LogoutBegin, OutAccess, OutFind / OutSkip, OutRevoke, OutProfile | AuthMiddleware and Logout; OutSkip is the ignored error of findMatchingToken |
| AllBegin, AllRevoke, ScanBegin, UnlinkPage, ScanEnd, AllProfile | LogoutAll: RevokeAll, DelByPattern page by page |
| ResetBegin and the same tail | ResetPassword after the new password is stored |
| Abort, Restart, Expire, Lapse, Evict | an error return, a new process, exp of the JWTs and documents, TTL of keys |

`SessionValid` follows validateAccessSession: without a cache, and when Redis answers an error, the key is not asked for; the
middleware actions admit such requests. SCAN is modelled by its guarantee: a key present from the first call to the
last is returned (`todo`), keys written meanwhile may be. A pair is one identifier because JTIs are random
UUIDs and a bcrypt comparison finds the presented token only.

### SessionLedger

The abstract specification of the session endpoints: a ledger in which a session is opened for one user, ends once and
for good, may be exchanged for a new one of the same user after its end, and in which whoever is told that sessions are
over can rely on it. It knows no requests, keys or failures. AuthSessions implements it with `life` taken from
the state of the refresh documents (`Life`), `holder` and `source` from owner and parent of those that were stored (`Holder`,
`Source`), `told` from what a 200 covered.

### Registration

`Find`, `Create`, `PublishEvent` are the three calls of Register. The consumer has one delivery (`unacked`, prefetch 1)
and a `step`; `Deliver`, `Reject`, `SendOk`, `SendFail`, `GiveUp`, `Republish`, `Requeue` and `Ack` are the calls of
handleUserRegistered and retryOrDeadLetter. `Crash` is the end of the process (a closed connection ends it in
`src/main.go`, the container restarts it), `LoseConsumer` a channel that closes alone: handleDeliveries returns and
nobody calls Start again. A message that does not decode may be in the queue at the start. `Outcomes` says how a
publish may end: stored or not, told or not. The run takes every outcome except "misconfirmed" (not stored, told it
is): PublisherConfirms shows that this needs a timeout before it, and with it NoEventLost does not hold.

### PublisherConfirms

`Lock`, `Send`, `Read`, `ReadClosed`, `Timeout` and `SendFails` are the steps of publish; `outcome[n]` is the broker's
answer to the n-th message of the channel. External, modelled from its use: the broker answers in any order (`Answer`), the
library hands confirmations over in the order of the messages (`Ready`, `Push`) through a channel of capacity one
and blocks while it is full, and the channel may close (`Close`).

### NoteCache

The steps of GetByID, GetAll, Create, Update, Patch and Delete, one action per call. `enabled` is
cache.Service.enabled: `Crash` ends the process, and the next one may start with Redis or without. Without it `Put` and `Drop` do nothing and
report no error, so a key may be stale when a later process has Redis again. `tainted` is a history variable: the keys
that a late fill, a failed or skipped deletion, an unanswered write or a crash left behind. It separates the stale entries the design accepts
from those it would not. A user's list pages are one key, since DelByPattern removes them together and a page long enough for all notes
contains what shorter ones show. A read that Redis answers with an error is a miss beside an entry (`GetMiss`, `ListMiss`).

### UserDocument

The document has the fields that handlers change: password, reset token, Yandex link, name (display name and bio), avatar, and
UpdatedAt, which every write sets (`Stamped`) and the public profile shows. `req[r].copy` is the
document in memory and `Replace` is user_repository Update, used by all four writers. `enabled`, `Put`, `Drop`, `late` and `tainted` work as in
NoteCache. `behind` records the profiles whose document was written by a handler that deletes no key (forgot-password, link, a reset that did
not get to its last call); `issued` and `used` what reset tokens were made for and exchanged for; `revived` the tokens that
a late writer put back. The file service appears as `files` and
`fileOwner`; its metadata cache as the freedom of AvatarCheck to accept a file that was just deleted. A reset
makes three calls after its write, `ResetRevoke`, `ResetKeys` and `ResetClose`; what the first two do to sessions, beside logins, refreshes and
OAuth callbacks, is the subject of AuthSessions, and here they are the time during which the profile is not yet deleted.

### OAuthLogin

`InitBegin`, `Put`, `Sweep` are OAuthInit with cleanupState; `CallbackBegin`, `Look`, `Take`, `Identify` and `Login` the
callback, `FindById` to `Create` the calls of FindOrCreateUser, where every failure of a lookup falls through to the next
step as in the code. `Unique` is the two unique indexes; `RegisterFind` and `RegisterCreate` compete for emails. `UpdateFind` and `UpdateWrite`
are the other handlers that replace a whole user document (profile, forgot-password, reset-password): of what they write only yandex_id matters here, and they write
the one they read (`copy`).
stateStore is used without a lock. `Race` is a conflicting use: the write is lost and the handler goes on, so that a callback
is let in with a state that stays in the map; the other outcome the Go runtime can produce, the end of the process, is
`Restart`. `taken` records the states callbacks were let in with, by `Take` or by `Race`. `Identify`
takes any account with any email, because the owner of a Yandex account may change its address between two logins.

### FileStore

One action per call to MinIO, MongoDB or Redis of Upload, GetMetadata, GetDownload and Delete. `meta`, `objects` and
`cache` are the three stores, `enabled` is cache.Service.enabled, fixed at a start. `known` and `closed` record what a
201 and a 204 told; `leftover` and `outlived` the files whose object or key a failure kept. A failed call may have taken effect
(`PutFails`, `CreateFails`, `MarkUnanswered`).

### UploadStream

The chain of readers of POST /files, byte by byte of length: `PartRead` is what a Read of the multipart part may return
(a short count, the end with or after the last bytes, the body limit, a broken connection), `Want` and `Outcome` are
maxSizeReader.Read, `Sniff` is sniffReader with isAllowedImageMime, `Fill` and `Finish` are PutObject of an unknown size, which fills
a part of the object before it looks at an error. The client library may take a body that was cut off
(io.ErrUnexpectedEOF) for its end; the model leaves both outcomes open. `Record` is the insertion of the metadata, and `StoreFails` an error
of PutObject or of that insertion, after which `faulty` is set and the answer is 500. `Close` is the deferred part.Close, which reads and drops what
is left of the part, up to the limit of the body.

## 3. Runs

All bounds are in the `.cfg` files. Two requests are enough for every race named above: each needs one
overtaking and one overtaken handler, and handlers that finish make room for others, so histories of any length with two
at a time are explored. A restart is always possible in `AuthSessions` and an abort or an arrival in the others, so deadlock is checked there.

| Run | Shows | Bounds |
|---|---|---|
| AuthSessions_users | the refinement of SessionLedger, types, closed access and refresh tokens stay closed, a refresh replaces its token, clients hold recorded pairs, only own sessions end | 2 users, 2 pairs (a token and its successor, or one pair per user), 2 requests, all endpoints, no expiry |
| AuthSessions_time | closed access and refresh tokens under expiry and eviction | 1 user, 2 sessions, login and logout (the handler that looks at the age of what it closes); the proofs cover the others under expiry |
| Registration_faults | no event lost that the broker took or a 201 told of, one account per email, attempts were failures, every event is mailed or dead-lettered | 2 registrations, 2 emails, 2 faults: a failed republish and a crash after it |
| PublisherConfirms_calls | the lag of confirmations, how old an ack nil may speak of, when the reader blocks, every call returns | 2 publishers, 4 calls: two timeouts and two publishes after them |
| NoteCache_two_users | owners, staleness, deletion, no field lost without an overlap | 2 users, 1 note, 2 texts, 1 fault, any number of restarts with and without Redis |
| UserDocument_profile | staleness of profiles, no field lost without an overlap, avatars are the user's own | 1 user and the files of another, all five endpoints, 2 files, 1 reset token, 2 writes of the document, 1 fault, any number of restarts |
| UserDocument_recovery | passwords stay with their user, a token is spent twice only by an overlap | 2 users, forgot, reset and link, 2 reset tokens, 1 new password, 4 writes of a document (a token, the link, two resets), no fault: errors and crashes still end a request |
| OAuthLogin_races | identities stay apart, an account reaches only users of its email, a state admits once, links move only by an overlap | 2 users, 2 accounts, 2 emails that either account may have, 2 states, 2 requests |
| FileStore_faults | content outlives metadata, causes of orphans, one deletion, content only for its owner, what a deleted file needs to be served | 2 users, 2 files, 2 requests, 2 failed calls |
| UploadStream_sizes | reasons of 201, 400 and 500, where the upload and its close stop reading, every upload is answered | maxima 0 to 6 around the sniffing buffer (3), the signature (2) and an object part (4), files of 0 to 9 bytes, forms with more in front of the file than the slack |

In UploadStream a unit stands for a byte with all buffers scaled down; the order of the sizes relative to each other is what the
readers tell apart, and `UploadStreamProofs` covers every size.

`CHECK_DEADLOCK FALSE` is set for Registration and PublisherConfirms: there the work really ends, when all requests are
answered, the queue is empty and the bounds are spent. The runs that check liveness use no symmetry.

Two further runs state what a comment or `src/README.md` says and find that the code does otherwise; the findings in
`PROJECT.json` quote both.

| Run | The sentence | What happens |
|---|---|---|
| AuthSessions_refresh_race | logout-all ends all sessions | a refresh between RevokeByID and saveToken survives it |
| PublisherConfirms_stale | a failed publish is a 500 | after a timeout an older confirmation is read |

Behaviours of the code that the models contain without a run of their own:

- sessions: a logout authenticated by the Authorization header keeps the key of its access token (OutAccess); a logout
  whose lookup fails keeps the refresh token (OutSkip);
- registration: two simultaneous registrations of one email answer 201 and 500, not 409 (Create); a crash or a failed
  republish makes an event fail more than three times (Requeue, Crash);
- notes: a reader fills the cache with what it read before a write whose invalidation has passed, and the entry stays
  until its TTL (GetFill with `late`); what a process without Redis changes stays in the cache for a later process (Drop); two PATCH requests undo each other's fields (EditFind, EditWrite);
- users: a profile update or a link that was read before a reset brings the old password and the used token back
  (Replace with `late`); the avatar deleted as the previous one may be the one another update has written back
  (AvatarDelete); two simultaneous resets with one token both succeed (ResetFind, ResetWrite); forgot-password and a link change
  updatedAt and delete no key, so the cached profile shows the older one (Replace with `behind`);
- OAuth: a state older than fifteen minutes is accepted until the next OAuthInit sweeps it (Look); two accounts of one
  email that log in at once overwrite each other's link (Link with `late`); a profile update that was read before a link removes
  it, and the next callback of another account with this email is then linked (UpdateWrite with `late`); two callbacks that both looked a state
  up before either deleted it are both let in (Look, Take);
- uploads: after a refusal the rest of the part is still read from the connection (Close);
- files: InsertOne may take effect and be answered with an error, and the cleanup then leaves active metadata without an
  object, of a file no client knows (CreateFails, Cleanup); an object whose removal fails stays for good (Erase); a first
  read shorter than the signature refuses a valid image (Sniff).

## 4. Fairness

Safety runs need none. `Registration` assumes weak fairness of the consumer's calls to RabbitMQ (`WF_vars(Deliver \/ Reject \/ ...)`): the
goroutine is scheduled and publish has a timer. The mailer sets no deadline, so nothing is assumed of SMTP; instead `EveryEventSettles` has the
condition that the server answers something (`[]<>(step # "send")`), beside a consumer that keeps its channel in the end. Nothing is assumed of handlers, nor that a mail is ever
accepted: after three failures the dead letter queue settles the event. `PublisherConfirms` assumes that a publisher which may send does (WF), that
its timer fires (WF on Timeout, `time.After`), and strong fairness of Lock, because a Go mutex hands itself to a
waiter after one millisecond of starvation. Nothing is assumed of the broker. `UploadStream` assumes weak fairness of the handler of
an upload: its goroutine is scheduled, and its connection brings bytes or breaks; `StoreFails` is not among the steps that have to come. The server sets no read timeout, so a
client that keeps the connection open and silent is outside of EveryUploadIsAnswered.

## 5. Proofs

Every safety invariant and every action property that a run checks, and the refinement of SessionLedger, is a theorem of the
specification for every value of the constants: any number of users, requests, notes, files, tokens, messages and faults.
Each `Proofs` module has the same layout: the inductive invariant `IInv`, checked by TLC on the instances of section 3
before it was proved; lemmas about what a handler's local variables become; lemmas for a whole class of actions (a step
that only reads, a step after a write, a write); one lemma per action; `Inductive`; and the theorems that follow from it.

The assumptions are those of the specifications and all of them are evaluated by the runs: None is no identifier, operations are
endpoints, bounds are natural numbers, the buffers of UploadStream are not empty. NoteCache assumes in addition that there are finitely many
notes (`NotesAreFinite`), because a list shows how many there are. One theorem has a hypothesis of its own: `EventsAreKept` needs a
publisher that never reports a success that is none (`"misconfirmed" \notin Outcomes`). Without it the
property is false, as the end of the section on Registration says; `TruthfulUntilTimeout` is the part of the hypothesis that the
publisher delivers, until its first timeout.

`AuthSessionsProofs`:

- `Inductive`. The checked properties are not inductive. `ClosedAccessRefused` says nothing while the cache is off,
  so `ClosedKeyIsGone` says that a closed pair has no key and is finished (no handler will write its key again);
  `BeforeIsClosed` carries what a running logout-all has achieved so far, between its revocation, its pages and its answer;
  `PresentedAreOwn` and `CreatorOwnsNew` tie each handler's tokens to its user; `UncreatedIsBlank` makes fresh pairs fresh.
- from it `TypeCorrect`, `ClosedRefreshStaysRevoked`, `ClosedAccessStaysRefused` and with both `ClosedIsForEver`,
  `RotationReplaces`, `DeliveredIsRecorded`, and the action property `SessionsEndForOwnRequests`.
- `LedgerIsImplemented`: Init implies the ledger's Init under the mapping, and every step is a step of the ledger or leaves it
  as it is. It needs one more invariant, `ParentsAreOwn` (a pair and the one it replaced belong to one user), which is
  proved beside `IInv`.

`PublisherConfirmsProofs`: `Inductive` (the holder of the mutex is the only one past Lock; each message was read for
or timed out), `TypeCorrect`, `LagIsTimeouts`, `OkIsNeverOlder`, `TruthfulUntilTimeout` and `ReaderNeedsTwoTimeouts`.

`RegistrationProofs`: `IInv` adds to the types that the consumer holds a delivery exactly when it is at work (`Shape`), that events
and mails belong to users in the collection (`Known`), that no two stored users share an email and each one's handler is past its
insert (`OnePerEmail`), and that the attempts a message claims, the one being made included, are failures that happened (`Counted`). From
it `TypeCorrect`, `EmailsAreUnique` and `DeadLettersWereTried`. `EventsAreKept` uses a second invariant, `Kept`: a stored
event that has no mail is in the queue, in the consumer's hand or in the dead letter queue, and a 201 speaks of a stored
event. The lemmas in front say what Append, Tail and concatenation do to the set of messages in a queue.

`FileStoreProofs`: what the three stores say of a file is explained only by the handlers that hold it. `RequestOK` ties
the place of a handler to the state of its file, `FileOK` says what MongoDB, MinIO and Redis may say together, and
`Exclusive` that uploads and deletions hold their file alone, which is why a deletion is won once. `LateOK` follows a download
that began after the 204. From it `TypeCorrect`, `ContentIsKept`, `DeletionIsWonOnce` and the action property
`DownloadsAreOwnAndLive`.

`NoteCacheProofs`: an entry in the cache was carried there by a reader, so `OwnOK` says that what handlers carry is of their
user and `CurrentOK` that it is what MongoDB holds unless a write marked the reader late; `OwnKey` and `StaleKey` say the
same of the keys. From it `TypeCorrect`, `CacheStaysSound`, and the action properties `DeletedForEver` and `EditsKeepTheRest`.

`UserDocumentProofs`: whatever is true of documents has to be true of the copies that four handlers can still write back
(`CopyOK`: the avatar is the user's own unless it is still to be checked, the password is known except to a reset before its write).
A reset token belongs to nobody else until it is answered (`TokenOK`), and a copy no write overtook is the document but for its handler's own fields
(`Fresh`). `SpentOK` says of a token that bought a password that no document has it, unless a late writer put it back. The lemma `Replacing` shows once, for all four writers, that ReplaceOne keeps the invariant: the other copies of the user become late, and a
late copy taints the profile and may revive a token. From it `TypeCorrect`, `AvatarsAreOwn`, `PasswordsAreRecovered`,
`ProfilesAreFresh` and the action properties `TokensAreSpentOnce` and `LostOnlyByOverlap`.

`OAuthLoginProofs`: a callback carries an email its account has had and then a user with such an email (`CallbackOK`); since the
email of a stored user never changes, the account stays one that may be logged in as this user. A state is nobody
else's until it is issued (`StateOK`), so that none comes back into the map after it was taken. The lemma `Storing` covers the
four writes and rests on the unique indexes; a copy that is not late has the link of the document (`CopyOK`). From it `TypeCorrect`, `IdentitiesAreApart`, `AccountsReachOwnEmails`, and the action
properties `StatesAdmitOnce` and `LinksMoveByOverlap`.

`UploadStreamProofs`, for every maximum, every size of the buffers and files, every form and every sequence of
reads: `Inductive`, whose part `Accounted` counts each byte of the file (still at the client, in the sniffing buffer, or
passed on to the object), and from it `TypeCorrect`, `VerdictsAreTrue` and `ReadsAlwaysStop`. It rests on the lemmas
`PartReadGives` (what a Read may return) and `ReadMoves` (what the chain makes of it).

Only model-checked: the three liveness properties (`EveryEventSettles`, `EveryCallReturns`, `EveryUploadIsAnswered`), which
with fairness and ENABLED are outside what the prover does. The two runs that expect a violation state what is not true of the
code, and there is nothing to prove.

## 6. Not modelled

Cryptography (tokens match themselves only), JSON and HTTP formats, logging, configuration, generated documentation, the
connection set-up. Reads that change nothing and answer at once (cache hits, 401, 403, 404) are guards, not
actions. User deletion does not exist in the code. The input rules (titles, pagination, durations) are checks of one value without
state; a title is measured in bytes although its message speaks of characters. Yandex itself, which OAuthCallback asks over HTTP
without a timeout, is external: a callback that waits for ever is a request that takes no step. A negative
MAX_FILE_SIZE, which maxSizeReader does not expect, is no value of `Maxima`.

## 7. Plan

1. One abstract specification of a publish (stored or not, told or not) that PublisherConfirms implements and that the
   `Outcomes` of Registration instantiate, so that the hypothesis of `EventsAreKept` is a theorem about the publisher until
   its first timeout.
2. Safety lemmas towards the liveness properties: what bounds the retries of an event, and that a publisher which waits
   has a timer; the last step, from there to "eventually", stays with TLC.
3. Abstract specifications of the read-through cache and of a file (absent, stored, deleted) that NoteCache and FileStore
   implement up to their tainted keys and leftovers.
