# Bifrost Docs: formal models

TLA+ models of Bifrost Docs, an IT documentation platform: a FastAPI service
(`api/src`), an arq worker in the same code base, PostgreSQL with pgvector,
Redis, a React client (`client/src`) and a tool that migrates data from IT Glue
(`tools/itglue-migrate`). Paths below are relative to `src/`.

The models are about what tests of this code hardly reach: requests, background
jobs and transactions that overlap, jobs and imports that die and come back,
messages that meet no listener, keys that expire, tokens that outlive the row
they were made from.

| module | what it is |
| --- | --- |
| `ReindexContract` | what a bulk reindex promises about the index and the job's answer |
| `ReindexJob` | the bulk reindex: admin requests, Redis, arq, worker, transactions |
| `ReindexJob_proofs` | its proofs |
| `SearchIndex` | the index rows of single entities: requests, index jobs, transactions |
| `SearchIndex_proofs` | its proofs |
| `UserRoles` | roles, access tokens, and the requests that change roles |
| `UserRoles_proofs` | its proofs |
| `Catalogue` | organizations, types, entities, relationships, attachments, favorites and the audit log, under concurrent requests |
| `Catalogue_proofs`, `CatalogueRaces_proofs` | its proofs |
| `Exports` | the row, the background task and the archive of an export |
| `Stream` | a chat from its background task through Redis and the websocket to the window |
| `Session` | the page's calls and the token pair they share and renew |
| `Accounts` | accounts and credentials: passwords, passkeys, API keys, provider links, second factors |
| `Web` | `Exports`, `Stream`, `Session` and `Accounts` composed: one API process and a page |
| `Web_proofs` | the proofs of its parts and of the whole |
| `ImportServer` | the export of IT Glue, the server's copies of its rows, and what a create call can come to |
| `Migration` | `itglue-migrate preview` and `run` |
| `Sync` | `itglue-migrate sync` |
| `Import` | both tools composed over one server, with users who edit and disable |
| `Import_proofs` | its proofs |
| `PageCache` | the client's queries and mutation hooks, and the cache between them |
| `Columns` | a table's choices of columns: screen, cache, timer and row |
| `Pages` | the two, one entry of the cache at a time |
| `Pages_proofs` | its proofs |
| `MC*` | the instances TLC checks |

## 1. Inventory

For each component: its state, its operations, whom it talks to, what is hard
about it, and what makes it correct.

**Bulk reindex** (`services/reindex_state.py`, `routers/admin.py` 550-860,
`worker.py` 177-385). *State:* in Redis a JSON state per job, a pointer to the
current job and a cancel flag per job, all with a TTL; the arq job; the worker's
open transaction. *Operations:* start, status, cancel, force cancel, the
background enqueue, the run. *Hard:* every state change is a GET, an edit and a
SETEX with no lock; the worker, two admins and the key expiry interleave; one
transaction spans the whole run; a failed flush poisons the session; arq runs a
job again after a crash but not after an exception. *Correct when:* a job that
says completed has its rows in the database, a cancelled job stops at the next
entity, a job that ended does not run, and nothing blocks the next start for
ever.

**Per-entity search indexing** (`services/search_indexing.py`,
`indexing_queue.py`, `embeddings.py` 128-385, `worker.py` 29-175). *State:*
`embedding_index`, the arq queue, the indexing switch. *Operations:* enqueue
from create, update, delete and batch toggle; index job; remove job. *Hard:*
the job is enqueued before the transaction it is about commits; up to ten jobs
run at once, also on one entity; a job reads the entity, waits seconds for the
embedding and then writes; enqueue errors are swallowed; ordinary exceptions
are not retried. *Correct when:* the index holds committed text of the right
entity only, disabled and deleted entities leave it, and what went wrong is put
right by the next job that runs undisturbed.

**Entity CRUD** (`routers/passwords.py`, `documents.py`, `configurations.py`,
`locations.py`, `custom_assets.py`). *State:* one table each. *Operations:*
create, read, update, delete, batch toggle; documents also clean-up and batch
path. *Hard:* the ORM writes only the columns that changed, so two updates of
one row merge; everything in a handler happens before its commit.

**User administration** (`routers/admin.py` 250-545, `repositories/user.py`,
`main.py` 98-150). *State:* `users`. *Operations:* create, remove, change role,
transfer ownership, first registration, default user. *Hard:* roles are read,
counted and written by separate statements at READ COMMITTED; the actor's role
comes from a token, not from the row. *Correct when:* an owner remains, only
owners make and unmake owners, a removed user stays removed.

**Authentication** (`routers/auth.py`, `core/auth.py`, `core/security.py`,
`routers/oauth_sso.py`). *State:* JWTs at the client, `users`, links to the
subjects of providers, the providers' settings. *Operations:* login, refresh,
register, OAuth callback, link and unlink, configure. *Hard:* stale roles in
tokens; a callback looks for the account and the link, and inserts them later;
the audit row of a failed login is in a transaction that is rolled back.
*Correct when:* one proof of identity opens one account.

**MFA, passkeys and API keys** (`routers/mfa.py`, `passkeys.py`, `api_keys.py`
and their services). *State:* rows of methods, passkeys and keys, challenges in
Redis. *Operations:* set up, verify, use, remove. *Hard:* a ceremony is two
requests with the user between them; a credential is read, then deleted by
another request, then used; the use and what follows from it are two
transactions. *Correct when:* no use of a credential is recorded after its
deletion has committed.

**Database sessions** (`core/database.py`). `get_db` commits after the handler
has returned and rolls back on an exception; `get_db_context` does so at the end
of a block. Every module here rests on it.

**Pub/sub and websockets** (`core/pubsub.py`, `routers/websocket.py`). *State:*
connections and channel subscriptions in each API process, Redis channels.
*Operations:* connect, subscribe, unsubscribe, disconnect, publish. *Hard:*
delivery to whoever is connected now; a publication that Redis refuses is
only logged; reconnects; several API processes.
*Correct when:* a subscriber gets a channel's messages in order and a stream's
end arrives.

**Chat and semantic search** (`routers/search.py`, `services/ai_chat.py`, the
mutation services). A request returns an id and a background task streams the
answer half a second later; a mutation proposed by the model is applied by a
second request. *Hard:* subscribing in time; a mutation applied to a row that
has changed since the preview.

**Exports** (`routers/exports.py`, `services/export_service.py`). A row
`PENDING -> PROCESSING -> COMPLETED | FAILED`, revocation and expiry; processing
in the API process itself. *Hard:* the process dies; a revocation meets a
completion.

**Organizations, types, relationships** (their routers and repositories).
*State:* rows under unique constraints and foreign keys. *Operations:* create,
update, deactivate, delete; a type that is in use is not deleted. *Hard:* every
check precedes its write by a round trip; cascades; the values of a custom asset
are one column and its type's fields another row. *Correct when:* nothing exists
twice, secrets are encrypted, an edit keeps what it was not asked to change.

**Attachments and file storage** (`routers/attachments.py`,
`services/file_storage.py`). A row first, the object by the client's own upload;
deletion in the other order. *Hard:* the two are never written together, and the
address for the upload is answered before the row is committed.

**Audit log** (`services/audit_service.py`): a row in the transaction of what it
records. *Correct when:* it is true, and complete.

**Preferences, favorites, access tracking** (`routers/preferences.py` and
others). The preferences of a table are one row, written whole by an upsert.

**Views, monitoring, diagrams**, **rate limiting**, **AI settings and LLM
clients**: small state machines or none.

**Web client.** `lib/api-client.ts`: two HTTP clients that share a token pair in
localStorage, refresh it on expiry and on 401, and queue requests meanwhile; a
third refresh belongs to the websocket. *Correct when:* every call is answered
and none is executed twice. `services/websocket.ts`: connection, reconnection
with backoff, subscriptions. `hooks/useChat.ts`: the messages of a window, kept
partly in refs that React's updaters read later. *Correct when:* the window
shows what was published. `AISettings.tsx`: the reindex page.

**Web client: pages** (`hooks/use*.ts`, `services/oauth-config.ts`, the settings
pages). *State:* one cache of query results, an entry for each list, page of
details and setting; a table's columns also in a ref and a timer. *Operations:*
mutations, each naming the entries it makes stale; choices of columns. *Hard:*
an answer can precede its commit (`get_db`), requests cross, an entry is made
stale while it is being read, pages close in between, a request stores fields
its user never touched. *Correct when:* a page shows what its user has changed,
and a row holds what its user has chosen.

**IT Glue migration** (`cli.py`, `state.py`, `id_map.py`, `importers.py`,
`sync_*.py`). *State:* a state file and an id map, written after each phase.
*Operations:* preview, run, dry run, resume, clear failures, sync. *Hard:* a
crash inside a phase or between the two files; a call that times out after it
was executed; a plan executed on a state that has moved on;
lists of which the server answers a hundred rows. *Correct when:* what
a tool calls done is there, what it creates twice has a cause it could not know
of, and exit code 0 means complete.

How they interact: requests and jobs share the database under READ COMMITTED,
and Redis without transactions; requests reach the worker through arq; worker
and background tasks reach the client through Redis channels and websockets.

## 2. Plan

In this order, the most important first:

1. `ReindexJob`, with `ReindexContract` as what it implements. *Done, proved.*
2. `SearchIndex`. *Done, proved.*
3. `UserRoles`. *Done, proved.*
4. `Session`, `Stream`, `Exports`, `Accounts`, composed as `Web`. *Done,
   proved.*
5. `Migration` and `Sync`, composed as `Import` over one server. *Done, proved.*
6. `Catalogue`. *Done, proved.*
7. `PageCache` and `Columns`, as `Pages`. *Done, proved.*
8. Left: `SearchIndex` composed with `ReindexJob` over one `embedding_index`, if
   the state space allows it; the audit log's clean-up.

The abstract specification worth stating was the contract of a bulk reindex
(`ReindexContract`). The other components promise invariants, not a protocol,
and are specified by those.

## 3. The modules and the code

### ReindexJob, ReindexContract

One action per Redis command or per database statement that others can see.

| state | code |
| --- | --- |
| `state`, `current`, `cancel` | `reindex:state:{id}`, `reindex:current_job`, `reindex:cancel:{id}` |
| `arq`, `tries` | the arq job and its attempts (`WorkerSettings.max_tries`) |
| `run[j]` | the locals of `reindex_task` and its session: rows inserted and not committed, and whether a failed flush has poisoned it |
| `indexed` | entities with a committed row |
| `req[a]` | an admin request between two awaits |
| `told`, `saved`, `late` | history: terminal events, or that one was lost; committed jobs; entities begun after the cancel flag |

`Start*`, `Enqueue*`, `Cancel*`, `Ask*`, `Force*` are `start_reindex`,
`_enqueue_reindex`, `cancel_reindex`, `request_cancel` and `force_cancel`;
`Run*` is `reindex_task` with `complete_job`, `fail_job` and the timeout and
crash of an attempt; `Tell` publishes, and with the trouble "publish" the event
may be lost without anybody's noticing, since `_publish_to_redis` catches every
exception; `Expire*` is Redis reaching a TTL; `IndexOne` and
`RemoveOne` are the per-entity jobs, the other writers of the index.

Left out: text and hashes (an entity has a row or has not), the set of enabled
entities changing under a run, progress events, counts other than processed and
errors. Job ids are a finite set: `StartBound` ends a request that finds none.

`ReindexContract` is the promise in a page: a job's rows
become visible together or not at all, an entity never has two, and `completed`
is announced only for a job whose rows are committed. `ReindexJob` implements it
with `batch <- run[j].inserted`, for each job.

### SearchIndex

| state | code |
| --- | --- |
| `row[e]` | the committed row of an entity: `is_enabled` and its searchable text |
| `index[e]` | its committed row in `embedding_index`, with the insert it stems from |
| `req[r]` | a request: what it read, what it will write, the row lock it holds |
| `job[j]` | an arq job and the locals of its attempt |
| `ever`, `settled` | history: texts committed so far; entities last put right by a job that was alone |

A request reads, flushes (row lock), enqueues and commits, in this order, as
handlers do under `get_db`; the batch toggles commit first. A job checks
`is_enabled`, reads the text, compares hashes, waits for the embedding, flushes
and commits. A text stands for itself and its hash. Organizations are left out.
The statements of a batch toggle's UPDATE and commit are one step, since
nothing of the handler comes between them. The per-entity step of a bulk
reindex is an index job whose check was made when the type was listed. A request
that finds no job id left waits; job ids are the bound of an instance.

### UserRoles

| state | code |
| --- | --- |
| `role[u]` | the committed row in `users` |
| `claims[u]` | the roles in the user's unexpired access tokens |
| `req[r]` | a request: roles read, role wanted, and whether another commit has changed the owners meanwhile (`fresh`, history) |
| `gone`, `owned` | history: removed users; users that have been owners |

A request begins with a token and the rows it reads, counts the owners if the
code does, flushes (row locks, and a look at the row: `StaleDataError`) and
commits. A transfer takes its two row locks in one step: every session updates
rows in the order of their ids, so nobody waits in a circle. Emails, and with
them 409 answers, are left out: they change nothing.

### Catalogue

| state | code |
| --- | --- |
| `rows`, `used` | the committed rows of all tables by uuid; every uuid that ever named one |
| `audit` | `audit_logs`, of the entities of an organization |
| `objects`, `uploaded`, `handed` | the attachments' objects in the file storage; those ever uploaded; those whose upload address has been answered |
| `work[s]` | the unit of work of request `s` between its checks and its commit: what it has seen, what it was asked to change, what it will write |
| `retyped`, `excuse` | history: the kinds every field has had; rows and objects lost or left for a stated reason |

An endpoint is two steps. The action that bears its name reads and checks (what
a 404, 409 or 422 ends is no step); `Commit` flushes and commits, or the
constraints refuse and `Rollback` undoes. Unique indexes, `ON DELETE CASCADE`
and `SET NULL` are those of the ORM tables; the row lock a flush waits for is in
the order of the commits. The address for an upload goes out with the answer
(`HandOut`), before the commit: from then on the client may upload (`PutObject`),
before the commit, after it, or after it has failed. An attachment's object is deleted in the first step
and its row in the second, as in `delete_attachment`. Left out: names and
metadata of entities, default and sort values, required fields, the
deduplication and order of favorites, the audit log's clean-up. Two starts, one
with types in use and one with a document and an attachment, make every
operation possible within three requests.

### Exports, Stream, Session, Accounts, Web

| state | code |
| --- | --- |
| `exports`, `tasks`, `stored` | the row (`status`, `revoked_at`, `s3_key`), the background task with the row it has in hand, the archive |
| `announced`, `withdrawn`, `links` | history: published events, confirmed revocations, links handed out |
| `stream`, `spoken` | what `_process_chat` has still to publish, and what it has published |
| `conns`, `subs`, `asks` | a websocket, the connection manager's channels of it, the messages of the page under way |
| `service`, `hook`, `phase` | the fields of `WebSocketService`, the state and refs of `useChat`, how far `sendMessage` is |
| `token`, `calls`, `isRefreshing`, `sharedRefresh`, `socketRefresh` | the pair in localStorage, each call's progress, the three refreshes |
| `accounts`, `passkeys`, `identities`, `keys`, `mfa`, `settings`, `domain` | the tables |
| `challenge`, `requests` | ceremonies in Redis; requests between first look, second look or row lock, and commit |

*Exports.* One step per table of `_fetch_*`, one for the upload, one for the
completion with its event; the task's copy of the row is the one it read, so a
revocation meets the completion. An error of the database aborts the very
transaction that should record the failure, and the row stays as it is.

*Stream.* Publishing and delivery to the connections of the moment are one step.
`WebSocketService` has a connection attempt, a retry counter, pending channels
and the channels of its URL; a URL's channels are what the server knows after a
reconnect. The page uses one instance of the service, the exported one.
The server publishes citations as a message of type `delta`, and the client looks
for them elsewhere; to the window that message is an empty delta.
`useChat` keeps the current text in refs; React may run an updater after the
handler has emptied them (`blanked`). A text that goes on after a proposed change
goes on in the bubble of that change, so `FinishedIsWhole` speaks of all bubbles
of a chat: their texts are in order, each goes on after the one before or repeats
it from its start (`Follows`), and nothing published is missing (`Complete`).
Every chat that fails takes the last bubble away, its own or not (`GiveUp`).
Channel permissions are left out.

*Session.* `AxiosRequest` and `FetchRequest` are the request interceptors,
`*Unauthorized` their answer to a 401, `*Renewed` and `*NotRenewed` the end of a
refresh with what it does to the queue. A token near its end is renewed before
the call, one that has ended may be refused. The redirect to the sign-in page is
not modelled: the calls must settle without it.

*Accounts.* A request has a first look, a second look or a row lock, and a
commit; a ceremony starts one request earlier with its challenge. A sign-in by
passkey commits the use (`CommitUse`) and then issues the tokens in another
transaction (`IssueTokens`), before which the passkey may be deleted. Nothing in the
API sets `is_active` to false, so a refresh fails when the account is gone. An
account that has any credential row cannot be removed: its relations in the ORM
have no cascade, and would set foreign keys to NULL that are not nullable.

*Web.* The four meet in three places. Removing an account takes its exports and
makes the server reject its tokens (`RemoveUser`). A websocket refused at the
first attempt may be refused for its token, so the service renews the pair
before it tries again (`RefuseSocket`, `ReconnectSocket`). A restart of the
process ends tasks, transactions, streams and connections at once (`Restart`).
The platform starts empty, or in use with an owner who has a credential of each
kind.

### ImportServer, Migration, Sync, Import

| state | code |
| --- | --- |
| `server[i]` | the copies the server holds of row `i` of the export; a copy's number stands for its uuid |
| `hidden` | organizations somebody has disabled: the listing leaves them out |
| `plan` | the plan file: which organizations it calls matched |
| `disk` | the state file and the id map beside it, each absent, torn or whole |
| `run` | the memory of `itglue-migrate run`: phase, position, marks, id map |
| `sync` | the memory of `itglue-migrate sync`: fetched state, plan of the organization, step, what it has made |
| `excuse` | history: how often the creation of a row was forgotten |
| `Places` | a constant: how many rows the server's answer to a list has room for, for the rows of the export (in the code a hundred for all) |

A call that creates a row is answered, conflicts, is refused, or is lost after
the server has done its work (`Post`). `Migration` has the nine phases in the
order of `run_migration`, one call a step; `SaveState` and `SaveMap` write the
two files one after the other, and `Die` can tear the one being written.
`Sync` fetches an organization, makes the plan of it once (`Plan`, from the
differ) and executes the plan in its order with the ids it has made on the way. A
step of the plan is a set of rows, gone through in the order of the export
(`Before`, `Item`), as the differ's loops keep it.

*Lists.* The server answers a list with a hundred rows at the most. Nobody asks
for the rest of the organizations and of the types; the rows of an organization
are read page by page with an offset, custom assets in no order and the others in
one that is not unique, while users commit. Of a list with more copies than
`Places` (`Crowded`), `Listed` and `Picks` leave open which rows are missing. That
is more than the code can do in two ways, both harmless to what is shown: how many
rows are missing is left open too, and disabled organizations count towards a list
that leaves them out. A sync takes the pages of an organization in one step: what
commits in between them is a row that is missing or found.

*Scope.* `run --all` is for all organizations and `run --org` for one (`scope`):
the rows of the others are left out of every phase (`LeaveOut`), and what an
earlier run has marked of them stays. Types belong to no organization.

*Cells.* The value of a cell password is written into an asset that the sync has
created itself, and never into one that it has found: the executor looks for
`type_id`, and the API answers `custom_asset_type_id` (`ExecuteCellWrites`).

One tool runs at a time: there is no lock, and the documentation of neither
promises more. Users edit and disable between the calls of a sync; between those
of a run it would make no difference, because a run reads neither the
listing of organizations nor a field. Fields are one text; users edit only fields the differ compares.

`Import` takes a call that was answered for committed.

### PageCache, Columns, Pages

| state | code |
| --- | --- |
| `query` | the query a behaviour follows, one of the table `Queries` |
| `entry` | its entry in the cache: has data, showing which changes; is stale; has a page that shows it |
| `fetch` | its request: not sent, sent, or with the changes it has read |
| `calls` | the user's mutations: committed or not, answered or not |
| `stored` | the row of `user_preferences` |
| `columns`, `read`, `seen`, `pending`, `saves` | `useColumnPreferences`: its entry, the request for the row, the preferences of the last render, `pendingPreferencesRef` with its timer, the requests that store |
| `last`, `moved`, `excused` | history: the last choices; those an answer has replaced on the screen; those lost for a stated reason |

The first half of `PageCache` is two tables, taken hook by hook from the client:
what each query reads of the database (from the endpoint it asks, with the counts
that it adds to its rows), with its key,
and what each mutation changes, with the keys it refreshes or removes. `Attended`
states of these two tables, without any state, that every change which a page
follows refreshes its entry or removes it; TLC evaluates it, and the proofs rest
on it. A key matches by its beginning,
as in TanStack Query. Facts are coarse: which rows a table has, which are
enabled, what is in them. An entity "x" stands for the one the page of details
is about; a list is one filter and page of it. `early` are the endpoints that
commit in the handler (batch toggles, document paths, exports, passkeys,
provider settings, the creation of users, applying the chat's proposals);
everywhere else FastAPI runs the commit of `get_db` after the handler, and the
answer may be out first.

The second half is one entry's life. Its actions are those of TanStack Query 5,
as the hooks rely on them: an entry that a page shows is requested again when a
hook names it, and the request under way is forgotten - unless there is no data
yet, when it must do; an answer makes the entry fresh, whatever was said since
it was asked for; a failed request is tried twice. Entries do not meet, so
`Pages` follows one. Changes of other users are left out: no hook promises them.

`Columns` is a table of its own kind, because the hook writes the entry itself.
A choice merges over the preferences of the last render, waits 300 ms for
another, and is sent whole; unmounting sends it at once, closing the window does
not. Column widths are kept in the row and never chosen.

## 4. What TLC checks

| run | instance | shows |
| --- | --- | --- |
| `reindex_faults` | 1 job, 2 entities, every trouble but time-outs, lost events too | types; `CompletedIsDurable`, `CancelBoundary`, `NoSilentEnd`, `FinishedNotRunning`; `BlockedOnlyForATime` |
| `reindex_two_jobs` | 2 jobs, 2 entities, time-outs | `EveryJobEnds`, with the waits of one transaction for another |
| `reindex_rows` | 2 jobs, 1 entity, per-entity tasks | refinement: `ContractSpec` |
| `reindex_resume` | 1 job, 2 entities, one exception | *violated:* `PartialWorkSurvives`, finding 1 |
| `search_faults` | 1 entity, 2 texts, 2 jobs, every trouble | types; `LoneJobRepairs`, `CommittedTextOnly` |
| `search_enabled` | 1 entity, 1 request, 2 jobs, no trouble | *violated:* `QuietOnlyEnabled`, finding 2 |
| `user_roles` | 3 ids, 2 requests, 1 token at a time | types; `RemovedForGood`, `LastOwnerGuarded`, `OwnersDecide` |
| `user_last_owner` | 2 ids, 2 requests, 2 tokens | *violated:* `OwnerRemains`, finding 3 |
| `catalogue` | 2 requests at a time, 3 in all, 1 fault, two starts | types; `NothingTwice`, `SecretsEncrypted`, `AuditIsTrue`, `ObjectsHaveRows`; `EditsKeepOthers`, `DeletionSparesReferrers` |
| `web` | 2 things started, 2 faults; 1 export, 2 chats of 3 scripts, 2 sockets, 1 retry, 2 calls of each client, 3 accounts, 2 requests | types; `LinksAreGood`, `FinishedIsWhole`, `CredentialsSound`; `ExportsEnd`, `CallsSettle` |
| `import` | 2 organizations, 1 row of most kinds, 3 documents, 3 passwords and links; no room in the lists of types, room for 1 in those of organizations, documents and passwords; 3 tools, 1 fault | types; `CompletedIsThere`, `DuplicatesHaveCause`, `SuccessIsComplete`, `FailuresHaveCause`, `SyncFailuresHaveCause`, `ReferencesResolve`; `SyncIsComplete`, `SyncCreatesOnce`, `EditsSurvive` |
| `pages` | every query with any 2 mutations that concern it and 1 trouble; 3 choices of columns and 1 mishap | `OwnChangesShow`, `ChoicesKept` |

The exact constants are in the `.cfg` files. Why the bounds are enough: a hazard
here needs two actors on one item, or one actor and one failure. Two jobs, two
requests and two attempts (a first one that dies, a second that meets what it
left) give each of these; a second entity is there where the order of entities
or the wrong entity matters. `user_roles` has one unexpired token at a time,
which is enough for a stale one: it is issued, the role changes, it is used;
`user_last_owner` has two. `reindex_faults` has 2.4 million states. `catalogue`
(523 thousand) lets two requests
meet a third that has committed between their checks and their writes. `web`
(637 thousand) has two things that users start and two things that go wrong, of
any of its four components: with three started there are more than 11 million
states, and no case is added in which the components meet. `import` (1.4
million) has three tools, so that a run can die, a second can resume it, and a
sync can come before, between or after; documents with one name and without a
body, passwords that belong to a row, to a cell and to neither, are the cases the
tools tell apart. Its lists are too long from their first or second row on, as
they are in production from the hundred and first; since of such a list anything
can be shown, all of it too, what the tools do with short lists is among what the
run covers. One fault is enough for each of its properties to need its excuse; the
theorems are for any number. `pages` (4 million) has two mutations, of which one can be
answered while the refetch of the other is read, and three choices of columns:
one that is being stored, one that waits and one that is merged over them.
Symmetry is used only in runs without liveness.

`CHECK_DEADLOCK FALSE` stands in five passing runs, where an instance stops by
running out of what its bounds count: user ids in `user_roles`, requests in
`catalogue`, tools and faults in `import`, things started in `web`, choices in
`pages`.

**Fairness.** `ReindexJob`: weak fairness of the worker's and arq's steps - a
worker polls the queue, calls to Redis, the database and the embedding service
return or raise - of a request that has begun, for the same reason, and of the
expiry of Redis keys nobody renews. None for the arrival of a request (`Arrive`:
a user need not come) and none for failures. `Web`: weak fairness of an export's
background task, and of the answers to the page's calls and refreshes - a call
is answered or fails, and what it awaits is in one process with it. None for
users, faults or the websocket. `SearchIndex`, `UserRoles`, `Catalogue`,
`Import` and `Pages` have safety properties only: nothing in that code promises
progress, an import ends where its process does, and a page may be closed.

**Findings**

1. `worker.py` 188-189 says a reindex that fails partway picks up where it left
   off when it is run again; one transaction spans the run, so what the failed
   run wrote is gone.
2. `embeddings.py` 399-401 says the index holds enabled entities only. An index
   job enqueued by the request that disables an entity can run before that
   request commits: it sees the old row, and nothing enqueues another.
3. `update_role` and `remove_user` say the last owner cannot be removed. Two
   requests that overlap remove it: both decide on rows read earlier.

**What else the models showed.** Disagreements between what one would expect and
what the code does, each of which shaped a property or an excuse in one:

- A reindex whose last event Redis refuses ends without anybody's being told:
  `_publish_to_redis` logs and goes on. The record in Redis still says how it ended.
- The address for uploading an attachment is answered before its row is committed.
  When that commit fails, the client can still upload, and no row will ever name
  the object.
- A passkey can be deleted between the commit of its use and the issue of the
  tokens. Its time of use is always written before the deletion.
- No window ever holds citations: the server sends them with type `delta` and
  `data.type` "citations", and `websocket.ts` waits for `data.chunk_type`
  "citation".
- The importing tools take the first hundred rows of a list for all. An organization
  that is not among them is created again, refused with a 409 and passed over by
  a sync that ends with exit code 0; a type is created again and counted as a
  failure, and a run's rows fail or go without it (after a dry run also the
  configurations, which then name its placeholder); a row that the pages of a
  sync have missed is created twice.
- Values of cell passwords reach only assets of the same sync; nothing says so.
- `run --org` ends with exit code 0 whatever is left of the other organizations.
- A sync looks up a configuration's type in the state fetched before the types
  of the same plan were created: such configurations stay without a type.
- A resumed run believes the plan about which organizations exist; one that the
  interrupted run created ends in a 409, and its rows fail for want of its id.
- A sync that ends with exit code 0 was complete when it ended. A later run may
  create rows without their relationships; so completeness is a property of the
  step that ends a sync (`SyncIsComplete`), not of every state after it.
- A field of an asset type that is turned from text to password leaves plain
  values, which the next update takes for encrypted ones; a client that leaves
  out the ids of fields orphans their values.
- The deletion of an organization takes its own audit rows with it.
- Of two concurrent edits of different values of one custom asset one is lost.
- A database error during an export leaves the row `PROCESSING`. The archive of
  an export is never removed, though `export_service.py` names a scheduled job.
- Signing out while a refresh is under way stores the new tokens again; a
  network failure of a refresh signs the user out.
- A call held in the request interceptor is executed by the queue, and its
  caller is told an error.
- Closing the chat window while a message is being posted mixes the next
  chat's text with this one's; a websocket that opens after its time-out stays
  as a second one and doubles the text; channels asked for during the backoff of
  a reconnect are forgotten; a lost `done` leaves the window streaming; a tool
  call of the OpenAI client becomes a `mutation_error` and repeats the text from its start, because that client announces
  no change and so nothing empties the ref.
- A `mutation_error` replaces the latest pending bubble of the window, whichever
  chat it belongs to.
- The settings of a provider have no unique constraint: two first
  configurations make every later read raise. Two unlinkings at once, or the
  deletion of the last passkey, leave no way to sign in. Setting up a second
  factor again deletes the active one and leaves `mfa_enabled`; login never asks
  for it. A user with any credential row cannot be deleted.
- Two first registrations at once make two owners.
- Some pages do not show what their user has just changed, until they are opened
  again five minutes later (`Overlooked` lists exactly the pairs of a query and a
  mutation for which the tables leave this open): the star of an entity after
  `useAddFavorite`, the page of an organization after its update, the counts of
  the sidebar after a creation, a page of details after a batch toggle in the
  list, a configuration after its type was renamed, the numbers of configurations and of
  assets beside their types in the settings, by which a deletion is offered or
  withheld, the folders, the search, the
  audit log and the global lists after anything, and whatever the chat has
  changed - for assets because the hook's test asks for a path no page has.
- A mutation that is answered before its commit can be overtaken by the refetch
  it causes: the page keeps the old rows, and takes them for fresh.
- A save of columns that overtakes an earlier one is taken back by it. Choosing
  one field while the table shows an older value of the other, because an answer
  has replaced it, stores the older value. Closing the window within 300 ms of a
  choice loses it.

## 5. What is proved

For every value of the constants, by TLAPS (SMT, Zenon, and LS4 for the last,
temporal step). The proofs use no assumption but these, which TLC evaluates in
every run of their module: `ConstAssumption` of `ReindexJob`, `SearchIndex` and
`UserRoles`; for `Accounts` `EnrolledAssumption` (the platform that is taken over
has no two accounts with one address, no credential twice and none without an
account), `EnrolledTypesAssumption` (its rows have the types of their columns, and
the ids of an account's second factors have a greatest) and `EmailOfAssumption`
(`oauth_callback` turns a subject without an address away); for `Stream`
`StreamAssumption` (no uuid is a chat's and a job's, sockets are finitely many,
`Null` is none of them) and `ScriptAssumption` (what an answer can consist of);
for `Session` `ClientsAssumption` (a call is made by one of the two clients); for
`Web` `BoundsAssumption` (the bounds are numbers); for `Catalogue` `TablesAssumption` (no uuid is in two tables),
`StartsAssumption` (the rows taken over keep the constraints, no relationship has
lost an end yet, every value is written as its field asks), `BoundsAssumption`
and `IdleAssumption` (a request without a unit of work can be told from one that
deletes an attachment); for `Import` `ExportAssumption` (each row is in one sheet
of the export, once, and what it names is there), `PlacesAssumption` (how long a
list can be is a number) and `BoundsAssumption`; for
`Pages` `Attended` (section 3).

**ReindexJob_proofs.** `TypeCorrect`, `DurableCompletion`, `CancellationStops`,
`Implementation` (the refinement), `NobodyEndsSilently`, `FinishedStaysFinished`,
`ProgressIsWithin`. `TypeOK` is not inductive alone: `WellFormed`
ties a run's program counter to its locals. `Durable` says which rows are
committed at each step of an ending, `Boundary` where in the loop a cancelled
run can be, and `Fresh` that a job id not drawn yet has left no trace.
`Announced` and `Over` say what holds between the recording
of an ending and arq's record of it. `Over` needs `Placed`: a job id is drawn
once, one request has it in hand until it is queued, and only a job that arq
calls running has a run; so the "running" a request writes meets no finished
job. `Counts` splits the entities into those a run has counted and those it has
still to come to (`Rest`), and says that every copy of the record, the
worker's, a request's and Redis', stems from such a run.

**SearchIndex_proofs.** `TypeCorrect`, `TextIsCommitted`, `Repair`. First the
locks: one transaction writes a row at a time and an UPDATE still finds the row
it flushed on (`RowLocks`, `IndexLocks`). `Texting` follows a text from the
entity's row through a job into the index. `LoneJobs` says what a job that has
its entity for itself has established at each step, up to the commit that makes
the index right.

**UserRoles_proofs.** `TypeCorrect`, `RemovalIsFinal`, `LastOwner`, `Ownership`.
`Inserting` and `Locks` keep what a transaction has flushed as it was.
`Current` is about requests no commit has overtaken: what they read of their
target still holds, and one that takes ownership away has counted another owner,
so the commit cannot be the last owner's. `Chiefs` carries "has been an owner"
from the row to the token, to the request and to the rows it writes.

**Web_proofs.** `WebIsItsParts`, and through it `WebTypes`, `WebLinksGood`,
`WebFinishedIsWhole`, `WebCredentialsSound`, `WebCallsOnce` and
`WebNobodyLeftBehind` for `Spec` of `Web`. The first is the composition: a step of `Web` is, for each of the four parts, one of its own steps
or a stutter, also where one part makes another act (the removal of an account,
a refused websocket, a restart). So what is proved of a part holds of the whole.

- *Exports* (`ExportsTypes`, `LinksGood`). `LinksAreGood` is not inductive: the
  proof needs, for every export, that a row not created has no task, no archive
  and no event (`Unborn`), that a confirmed revocation is in the row whatever the
  task has in hand (`Revoked`), that a task about to complete has stored its
  archive (`Archived`) and that a row announced as complete is complete (`Told`).
  The one delicate step is the completion: the ORM writes the columns it has set,
  so the task's older copy takes nothing back.
- *Stream* (`StreamTypes`, `StreamWhole`). The invariant has three parts beside
  the types. `UnheardInv`: until the page goes on with a chat, no websocket is or
  will be subscribed to its channel but the one opened for it, so no message can
  arrive before its callback is there. `EndsInv`: the last message of an answer is
  its only end, so a chat that has finished has nothing left to come. `WindowInv`:
  a chat that is under way and not excused is the only one under way (`Alone`),
  and either its window was closed before anything of it was shown or the last
  bubble is its own and the next message goes there (`Writing`). `Texts` says how
  its bubbles divide the pieces published so far and where the ref begins
  (`Base`, `Fits`); it needs that the last bubble shows what the ref holds from
  its start, or nothing. One lemma for each kind of message shows what it does to
  `Texts`, with prompt and with late updaters (`DeltaText`, `PendingText`,
  `ReplaceText`, `DoneText`). When the end arrives, `Writing` gives `Whole`, and
  that lasts (`WholeKept`): later chats write, or take back, only a last bubble of
  their own. Where that fails - a second chat sent while the first goes on in a
  closed window - the chats it concerns are in `disturbed`.
- *Accounts* (`AccountsTypes`, `CredentialsStaySound`). The types need that a
  request has in hand what its kind works on (`Purposeful`: a callback a subject,
  a sign-in a passkey, a setup of a second factor an account), because its commit
  uses it without looking, and that the ids of the second factors have a bound
  (`Numbered`): a new one is the greatest plus one, and there must be a greatest.
  What the rows promise is inductive through the unique columns alone
  (`SoundAccounts`). That no deleted credential is used needs `InUse`: the row of a
  passkey or a key that a request has updated is still there at the request's first
  commit, because whoever deletes it waits for the lock; and `Shaped`, so that a
  request that moves on keeps the row it has in hand.
- *Session* (`CallsOnce`, `CallsNotLeftBehind`). The server executes a call at
  most once: a call that was executed has left every queue and is never sent
  again, whichever refresh held it, renewed it or failed. `NobodyLeftBehind` is
  inductive as it stands: whoever takes the lock found it free, so nobody else
  renews (`LockTaken`), and whoever releases it is the only one who renewed and
  empties the queue in the same turn (`QueueEmptied`); a fetch call that renews
  after its 401 has no part in the lock, which is what `ClientsAssumption` is for.

**Catalogue_proofs.** `TypeCorrect`, `NothingIsEverTwice`. The committed rows are
`InOrder`: columns, foreign keys, unique indexes, and the ends of a relationship
stored in their order. A unit of work in flight is `Prepared`: an insert has a
uuid of its own that never named a row, an update only columns that may be
edited. The check before an insert may be stale by then; it is the index that
refuses, and for relationships the index alone would let the other direction
pass. That a relationship stays within its organization needs that its ends have
`used` uuids (`Joins`): they are plain columns, so an end may go, but no other
entity ever takes its place.

**CatalogueRaces_proofs.** `AuditStaysTrue`, `ObjectsKeepRows`,
`SecretsStayEncrypted`, `DeletionsSpareReferrers`, `EditsLeaveOthersAlone`. Every
endpoint begins alike (`Began`): with a unit of work that is `Careful` - its audit
row tells of what it does and of nothing else, a type it deletes had no referrers,
the values it writes back are those it read and are written as the fields asked
then - and with the attachment's object gone, or excused. `InHand` says that this
stays true of a request until its end, whatever others commit: an entity never
changes its organization, nor an asset its type. `Logged`, `Matched` and `Sealed`
strengthen the three invariants; `Sealed` speaks of every kind a field ever had,
because the fields of a type can change under an asset that keeps its values. The
two action properties follow where a request ends, from what it has in hand.

**Import_proofs.** All ten properties of the run `import`: `ImportTypes`,
`CompletedThere`, `DuplicatesCaused`, `SuccessComplete`, `FailuresCaused`,
`References`, `SyncFailuresCaused`, and the action properties `SyncOnce`,
`EditsKept`, `SyncComplete`, for any export, any number of tools, one after the
other, and any number of failures. One invariant carries them all (`ImportInv`),
because the tools meet on the server. The length of the lists is a constant, so
the theorems hold with lists that are never too long and with lists that always
are; what they except is a row that is `Crowded`, and a crowded list stays crowded
because copies are never taken away (`CrowdedStays`).

- `ServerInv`: the rows have their types, organizations and types are there once
  (`OnlyOne`), and what a copy refers to is there (`Resolves`). Copies are never
  taken away, so all that follows survives whatever else is created (`Lasting`).
- `RunInv`: what the memory and the two files believe is there is there
  (`Believed`); the files follow the memory, state first, map second (`Saved`); a
  row has as many copies by a run as it has marks and forgotten creations, a link
  only one, since its ends keep their uuids (`Counted`). `Behind` speaks of the
  rows that the run has passed: each is completed, failed, or a document that is
  passed over without a word, and a failure in a run that met no trouble has its
  cause in the id map as it stands - which works because in such a run the map
  only gains what a later phase needs. At the last save `Behind` becomes `Ended`.
- `SyncInv`: a plan has in each step only rows of its kind and organization
  (`Shape`); what is ahead in it is still missing on the server, because nobody
  else creates while a sync runs (`Known`, and `Alone`: one tool at a time). The
  argument for `SyncIsComplete` is `Complete`: while a sync has met no failure,
  each row of the organization in hand is there, passed over, or ahead in the
  plan; each relationship between rows that are there and in no crowded
  list is ahead too or exists,
  and the step of relationships comes after those that create their ends; so an
  organization that the sync leaves with nothing ahead is `Whole`, and stays so.

**Pages_proofs.** `PagesShow`, `TableKeepsChoices`, for any number of mutations
and choices.

- `CacheInv`: what a page follows its hook reports (`Reported`, from `Attended`),
  and every change answered, not undone and not excused (`Owed`) is in the entry
  if that is fresh, in what the page shows unless a request is under way or a
  reordering has suspended one (`Suspended`), and in what a request has read
  (`Shows`).
- `ColumnsInv`: no copy of the preferences has a choice that was not made
  (`AllMade`), and of every field that is not excused the last choice is in what
  waits for the timer (`Waiting`), in the cache unless an answer has replaced it
  on the screen (`Cached`), and either still to be sent (`Unsent`) or sure to be
  in the row once the requests under way have committed (`Sure`).

**Only model-checked:** liveness (`BlockedOnlyForATime`, `EveryJobEnds`, `ExportsEnd`,
`CallsSettle`), which is out of the prover's reach; the safety
part of `CallsSettle` is proved: `WebCallsOnce`, and `WebNobodyLeftBehind`, by
which every wait has a refresh to end it. Every invariant and every action property that a
passing run checks is a theorem. The three violated properties are false and
have none.

## 6. Not modelled

Data: texts, embeddings, ranking, encryption, validation, rendering, prompts.
Pure I/O and third-party code: S3, OAuth providers, LLM calls, the rate limiter,
PostgreSQL and arq themselves (their locks, isolation and delivery are modelled
as the code relies on them, and marked external in the map). Deployment and
schema migrations have no program logic. Views, monitoring, diagrams and headers
read and render; of the client's pages only what they show of the cache is
modelled, not forms, editors and local state. The conversion of documents and the
inference of fields are sequential and keep no state. The reindex page shows
what `ReindexJob` says of the server. AI search streams like a chat, through a
hook no page uses. The race of two first registrations is listed as a hazard
without a property: the code promises at least one owner, not one owner. The
audit row of a failed login is lost in the rollback by design of `get_db`, in
one step and always, which a test shows.
