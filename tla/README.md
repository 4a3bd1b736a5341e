# OtterWorks: specifications

TLA+ models of the parts of OtterWorks where order, failure and concurrency
decide whether the program is right, with the TLC runs that check them and the
TLAPS proofs that hold for every instance. Paths are relative to the
repository; `PROJECT.json` maps every definition to the lines it models.

## 1. The system

OtterWorks is a document and file platform built from services that share
nothing but HTTP, a message topic and their own stores.

| component | state it keeps | operations | talks to |
|---|---|---|---|
| api-gateway (Go) | one circuit breaker per backend, token buckets | proxy, rate limit, JWT check | every service over HTTP |
| collab-service (TypeScript) | Y.Docs in memory, awareness maps, Socket.IO rooms; full states in Redis | join, leave, update, idle sweep, periodic save, shutdown | clients over WebSocket, Redis |
| document-service (Python) | documents, version rows, comments (PostgreSQL), rendered exports | create, update, patch, delete, restore a version, roll-up | SNS topic after commit |
| file-service (Rust) | file, folder, version and share items (DynamoDB), objects (S3) | upload, delete, trash, restore, rename, move, share | S3, DynamoDB, SNS topic |
| search-service (Python) | MeiliSearch indexes and the task queue in front of them | consume events, query, reindex | SQS queue fed by the topic, MeiliSearch, the listings of the services |
| notification-service (Kotlin) | notifications and preferences (DynamoDB), WebSocket sessions | consume events, mark read, delete, push | SQS queue, clients |
| auth-service (Java) | users, refresh tokens (PostgreSQL) | register, login, refresh, change password, logout | gateway clients |
| audit-, analytics-, admin-, report-service | append-only events, aggregates, CRUD, reports | consume, archive, query | queue, own stores |
| demo platform (TypeScript, shell) | tenant leases as Kubernetes annotations, jobs, tickets | check out, extend, pin, wake, reap, suspend | Kubernetes, AWS |
| etl (Python, Airflow) | none | weekly reindex of the search index, sync and quality jobs | MeiliSearch, the listings of the services, S3 |
| migration job (Python) | run, ranges, staging, verdicts, archive and purge audit in the target; its own purge audit in the source | the verbs extract, load, validate, purge, reconcile, all | source and target databases |

What is hard, by component:

- **collab-service**: every handler is cut by awaits, and between the cuts other
  sockets join, leave and edit, Redis commands of several origins (update,
  eviction, loop, shutdown) are on their way, the idle sweep runs, and the
  process may stop. Right means: no accepted update is lost, whoever joins sees
  the newest state, memory is given back, presence agrees with rooms.
- **circuit breaker**: a request is counted in two critical sections with the
  proxied call between them; state changes and counter resets fall into that gap,
  and a call may leave it by a panic. Right means: a recovering backend gets a
  bounded number of probes and half-open comes to a verdict.
- **file-service, document-service and the search index**: each change is a
  sequence of calls to separate stores followed by an event that may be lost,
  repeated or overtaken; several consumers turn events into tasks that MeiliSearch
  executes later, also after the consumer has given up; two kinds of reindex
  clear the index under them. Right means: what is indexed is what is listed,
  wherever the code has a chance to know.
- **document versions**: read, change and write in overlapping transactions, and an
  event after each. Right means: the history explains the document, no deletion is undone, every
  change is told.
- **demo platform**: a lease extended while the reaper decides to delete it.
- **migration job**: every call commits on its own, an operator may run any
  stage again after a crash, the delete at the source and its record at the
  target are in two databases, and the guards of the purge compare counts. Right
  means: what is deleted is archived, the two records agree, a closed report is
  true.

`PROJECT.json` lists each hazard at its line with the properties that cover it.

## 2. Modules

| module | what it is |
|---|---|
| `DurableDocument` | abstract: a document is a growing set of updates, part of it stable; a crash keeps the stable part, and nothing is accepted until the restart |
| `CollabService` | the collab-service process over Redis |
| `MCCollabService` | its small instances for TLC |
| `CollabService_proofs` | TLAPS proofs about it: types, awareness maps, loads, presence and rooms, documents without users |
| `CollabService_writes` | TLAPS proofs about what is stored: the order of writes, losses, the refinement of `DurableDocument` |
| `CircuitBreaker` | one breaker of the api-gateway |
| `CircuitBreaker_proofs` | TLAPS proofs about it |
| `VersionLog` | abstract: a document over an append-only log of versions |
| `DocumentService` | overlapping requests of document-service on documents, version rows, events and cached exports |
| `MCDocumentService` | its small instances for TLC |
| `DocumentService_proofs` | TLAPS proofs about it, the refinement of `VersionLog` included |
| `SafeArchive` | abstract: a row is copied once and after its parent, deleted once and, while the operator is careful, only with its copy in the archive |
| `MigrationJob` | the five stages of the migration job over the source and the target database |
| `MCMigrationJob` | its small instance for TLC |
| `MigrationJob_proofs` | TLAPS proofs about it: types, the two purge audits, the guards, what may be deleted at all |
| `MigrationJob_archive` | TLAPS proofs about it: what is archived before it is deleted, the closed books, the refinement of `SafeArchive` |
| `SearchIndex` | documents and files, their events, the consumers of search-service, MeiliSearch and the two reindexes |
| `SearchIndex_proofs` | TLAPS proofs about it: types, who waits for which task, what an entry may change to, and that what is gone stays gone |
| `SearchIndex_settled` | TLAPS proofs that an entry is right or its event is to come, and that a settled index is right |

`SearchIndex` is the composition of four components (two services that write,
the consumers, the reindex) over two queues, one of messages and one of tasks;
its parts share only those, so one module with a section for each says more than
four and a fifth to put them together.

A definition named after a mutation and preceded by a comment that begins
"Mutant:" is a plausible mistake in the definition that follows it. It is part of
no specification; checking a run with the mistaken definition in place shows
that the property can tell the difference.

### CollabService

Node runs one callback at a time, so an action is the code between two awaits.

| code | model |
|---|---|
| `documents`, `documentInitPromises`, `cleaningUp` (collaboration.ts 34-36) | `documents`, `initPromises`, `cleaningUp` |
| `AwarenessService.states`, `socketToDocument`, `lastActive` (awareness.ts) | `users`, `socketToDocument`, `active` |
| Socket.IO rooms and connections | `rooms`, `conn` |
| a join suspended at `await socket.join`, at `await getOrCreateDoc` | `entering`, `waiting` |
| commands issued on the one Redis connection, the state key | `pipe`, `redis` |
| `handleJoinDocument` in three pieces | `JoinDocument`, `JoinLoaded` or `JoinWaits`, `LoadDone` or `LoadFails` |
| `handleLeaveDocument`, `handleDisconnect`, `handleDocumentUpdate` | `LeaveDocument`, `Disconnect`, `DocumentUpdate` |
| `persistAndCleanupDocument` around its await | `StartCleanup` (a part of the action that calls it), `CleanupDone` or `CleanupFails` |
| `saveDocumentState` executed or rejected | `RedisSet`, `RedisSetFails` |
| presence interval, persistence loop | `SweepStaleUsers`, `PersistPeriodically` |
| `shutdown`, `stop`, forced exit, crash | `BeginStop`, `StopFlush`, `CloseServer`, `Exit`, `Crash`, `Restart` |

Abstractions. A Y.Doc is the set of updates it has absorbed: Yjs merges commute
and are idempotent, and `encodeStateAsUpdate` encodes all of them. The metadata
commands after the SET matter only to a cleanup, which must wait for them
(`cleaningUp = "wrote"`). Time is whether a user has been active within
`maxIdleMs`. `await socket.join(room)` yields for a microtask only, so between
it and the resumption nothing but packets of the same transport payload is
handled (`Quiet`, `Receives`). Of the writes of a document that are on their way
when the process dies, Redis executes a prefix. Left out: cursors, typing,
comments, snapshots and history, which the document does not depend on, the
separate y-websocket endpoint, which keeps documents of its own, and expiry of
the Redis key.

Clients. `Patient` sockets wait for the acknowledgement of a join before they
send anything else. That is a hypothesis: the server does not ask for it, and the
only Socket.IO client in the repository,
`tests/api/test_websocket_collaboration_flow.py`, does not wait
(`frontend/client-app` lists `socket.io-client` as a dependency and never
imports it). What is said of patient clients is said of no others, and
`collab_leak` shows what an impatient one can do.

### CircuitBreaker

The breaker is one record and each function of `circuitbreaker.go` an operator
on it. `Admit` is `Execute` up to `ServeHTTP`; `Succeeds`, `Fails` and `Aborts`
are the ways the proxied request ends, the last being the `http.ErrAbortHandler`
panic of `httputil.ReverseProxy` when a response body breaks off, which skips
the second half of `Execute`. `Observe` is every other call that brings the state
up to date. The clock is reduced to whether the expiry is unset, ahead or behind.
Three history fields say what the counters stand for: `own` (requests in flight
that they counted), `lost` (those that ended by a panic) and `aged` (they are
older than `Interval`). `consecutiveFailures` is left out: nothing reads it.
Nothing makes a proxied request end (see "Fairness"), so a request may stay in
`inFlight` for ever.
Breakers of different backends share nothing.

### DocumentService

A request is a session of its own. The actions are its reads, its commit and its
event; everything else in the handler is between two of them and touches only
the session's copy of the document.

| code | model |
|---|---|
| rows of `documents`, their `is_deleted`, `document_versions` | `row`, `deleted`, `history` |
| the handler's `get`, the session's identity map | `Fetch`, `seen` |
| the service's second `get`, the assignments | `Put`, `Patch`, `Restore`, `Delete`; `edit` |
| `commit` | `CommitEdit`, `CommitDelete`; `Create` |
| `refresh`, building the event | `Refresh`, `covers` |
| `publish`, or its swallowed failure | `Publish`, `PublishDeleted`, `LosesEvent` |
| 403, 404, empty patch, client gone, rollback | `GivesUp` |
| `GET .../export` with the cache flag on | `Export`, `rendered` |

What the libraries contribute. SQLAlchemy hands out the object it has loaded when
the same row is selected again in a session, so the second `get` re-evaluates
only `is_deleted` (`Checked`); a flush writes the columns whose value differs
from the one loaded (`Written`); PostgreSQL at READ COMMITTED makes the flush
atomic and does not object to a row changed in between. Names not in the body of
a PATCH keep the loaded value, which is the same as naming that value; so `Put`
and `Patch` differ only in what is promised. Left out: content type, folder and
word count, which follow the text; owners (a request of another owner ends in
`GivesUp`); the payload of an event, of which `announced` keeps how much of the
history it covered.

### MigrationJob

One process at a time. Every driver call commits on its own, so every call that
changes a database is an action, and the process may stop between any two.

| code | model |
|---|---|
| selected rows of the source tables, `MIGAUDIT.PURGE_AUDIT` | `source`, `migAudit` |
| `mig.key_ranges`: `extract_status`, `load_status`; range files | `ext`, `load`, `unload` |
| `stg.*`, `mig.rejects`, verdicts and hashes | `staged`, `rejects`, `validation`, `bad` |
| `arch.*` | `arch` |
| `mig.purge_audit`, `mig.run_ledger`, `mig.runs` | `audit`, `ledger`, `status` |
| `prepare_run`, `execute` and a failing call | `Start`, `MarkFailed`, `Stop` |
| `extract.py` | `PlanRanges`, `UnloadRange`, `ExtractDone` |
| `load.py` | `LoadRefused`, `BeginRange`, `DropRejects`, `LoadBatch`, `WriteLoadRejects`, `FinishRange`, `LoadDone` |
| `validate.py` | `BeginValidate`, `JudgeBatch`, `SecondPass`, `FlipBatch`, `ClearRejects`, `RecordRejects`, `Promote`, `ValidateDone` |
| `purge.py` | `SkipReferences`, `Guard`, `DryRun`, `BeginPurge`, ..., `PurgeDone` |
| `reconcile.py` | `Closes`, `DoesNotClose`, `CleanUp`, `Close` |
| the application at the source, a repaired hash | `TouchRow`, `RemoveRow`, `Repair` |

Abstractions. A row is its key; a copy of it is the copy in its range file, which
never changes once the range is done. Two different sets of rows, or a row whose
charge differs, give different sums. PENDING, RUNNING and FAILED ranges are all
"open": a rerun treats them alike. `LoadBatch` is one insert with the bisection
that finds the rows to reject; the Spark engine writes the same batches in
another order. The ledger rows of all reference tables, which the purge skips, are
written in one step. Left out: stage log, report files, sessions,
class totals as stored, and the drivers for other databases, which implement the
same interface.

Assumptions: one process per run (an operator starts it, nothing locks); a row
the application touches no longer matches the selection and never does again; a
new image between verbs repairs a hash expression and breaks none.

`partial` is history: it says that VALIDATE once began on staging that did not
hold exactly the unloaded rows (`Whole`). The code does not look, and what the
counts prove depends on it; see "What the passing runs leave open" below.

### SearchIndex

| code | model |
|---|---|
| rows of document-service, items of file-service | `state`, `content` |
| SQS queue, messages hidden by a receive | `queue`, `visible` |
| `_poll_loop`, `_process_message` of each worker process | `batch`, `current`, `step` |
| MeiliSearch task queue, index | `tasks`, `index` |
| `POST /reindex`, `search_reindex_weekly.py` | `crawl`, `weekly`, `at`, `left`, `fetched` |
| handlers of the services, with their event | `CreateItem`, `UpdateItem`, `MoveFile`, `TrashFile`, `RestoreFile`, `DeleteItem`; `Announce` |
| receive, visibility timeout | `Receive`, `Reappears` |
| `index_document`, `index_file`; `delete_document` | `IndexItem`, or `RejectEvent` for a file without a name; `LookUp`, `RemoveItem` |
| repair of a failed file add (meilisearch_client.py 304-310) | `RemoveEntry`, `AddAgain` |
| `delete_message`, after success or a `ValueError` | `Acknowledge` (from `"ack"` or `"drop"`) |
| exceptions that leave the message | `TimesOut`, `NoAnswer`, `CallFails`, `Fails` |
| failures that delete it (sqs_consumer.py 180-187, meilisearch_client.py 321) | `Misread`, `UnreadableFirst`, `Unreadable`; `GivenUp` |
| process death | `Crash` |
| `Indexer.reindex`, `MeiliSearchService.reindex`, the script's loop | `BeginCrawl`, `FetchPage`, ..., `FillIndex`, `NothingToFill`, `Cleared`, `Filled` |
| execution of a task | `Succeeds`, `Fails` |

Abstractions. What an item contains is the number of the change that made it. A
handler writes, reads back and publishes; a queue without order cannot tell
whether another handler came in between, so write and event are one action, and
a failure between them is the lost event. An item a page leaves out while other
changes shift the offsets is left out only after a change during the reindex
(`missed`). An index that does not exist between its deletion and its creation is
an empty one. A file's name matters only in being empty (`nameless`): an upload
accepts that (handlers.rs 78), a rename does not (407), and document titles have a
minimum length.

What the code does that the model keeps. A trashed file can be renamed and is
then indexed again; a move carries no metadata and is skipped, so the new folder
never reaches the index; `delete_file` may fail after the metadata is gone and
then announces nothing; events carry no version, so overlapping changes of one
item may be indexed in the wrong order; a change during a reindex may be undone by
it. Nor is every failure of the consumer followed by a retry. A look-up that
MeiliSearch answers with any API error (500, 503, 403) counts as "not found", and
the deletion is acknowledged (`Misread`); an answer that is not JSON raises a
`ValueError`, which drops the event (`Unreadable`, `UnreadableFirst`); and the event
of a file uploaded with an empty name is dropped because the indexer asks for one
(`RejectEvent`), so the file is listed and not indexed.
None of this is repaired before the next reindex. So the promise of the
properties is limited to items about which the code can be right, and two history
variables say which they are: `sure` holds the items whose last change was
announced while nothing else of the item was on its way, no reindex ran and the
event was the fitting one; `calm` holds, during a reindex, the items that were
sure or quiet when it began, as long as nothing changes and nothing fails. A
reindex that goes by makes the calm items sure, those with an empty name
included, which it adds without asking for one. Three faults take sureness away:
the two failures the consumer takes for success (`GivenUp`), and a removal of a
file's entry, to be replaced, while another consumer has, or has acknowledged, the
same event: a crash before the second half would then lose the entry for good.

Left out: retention of messages (a day, `infrastructure/terraform`), a
dead-letter queue (there is none), filter policies of the subscription, two
reindexes at a time, queries and suggestions.

## 3. Runs

| run | instance | question |
|---|---|---|
| `collab_faults` | 2 sockets, 1 document, 2 updates, 2 failing commands, 1 crash or shutdown | what can overlapping saves, evictions, reloads and the end of the process lose? |
| `collab_refines` | 2 sockets, 2 documents, 1 update, no failing command, 1 crash or shutdown | do maps, rooms and presence agree, is a document that everybody has left on its way out, and is the service a `DurableDocument`? |
| `collab_liveness` | 2 patient sockets, 1 document, 1 failing command, 1 restart | are joins answered, states stored and empty documents evicted? |
| `collab_lost_update` | 1 socket, 1 failing command | violated: one rejected save can lose an accepted update |
| `collab_leak` | 1 impatient socket, 2 documents | violated: overlapping joins leave a document in memory for ever |
| `breaker` | 3 requests at a time, 2 probes, 6 requests a period, 1 abort | bounded probes, a verdict, conserved counts, a shielded backend |
| `breaker_wedge` | the same | violated: a panic in a probe leaves half-open stuck |
| `documents` | 4 requests, 1 document, 2 titles, 2 contents, 1 lost event | what do overlapping edits keep of the history, of each other, of deletions and events; is the whole a `VersionLog`? |
| `documents_replace` | the same | violated: a PUT does not replace the whole document |
| `documents_export` | 5 requests, no lost event | violated: a cached export of another edit with the same number |
| `migration` | 3 tables, 4 rows, batches of 2, 1 retry, 2 crashes, failures or changed rows | do the records of the two databases agree, is what is purged archived, are closed books true, is the whole a `SafeArchive`, whichever verbs are run again? |
| `search` | 1 file, 2 consumers, 2 changes, 1 reindex, 2 faults | is a settled index right, does what is gone stay gone, and does the index get there? |

Why the bounds suffice. Two sockets are the fewest that can race on one document
and two documents the fewest a socket can switch between; two updates let one be
saved while another is not; a first failing command makes memory and Redis
differ and a second hits the recovery. Three requests, two of them probes, leave
one from before the counters were cleared; six requests a period exceed the
minimum sample of five. `collab_refines` has no failing command, because with one
updates are lost (`collab_lost_update`), but it has a crash or shutdown, whose
losses the abstract specification limits to what was not stable. Its second socket
does not wait for acks, so `EmptyIsLeaving`, which speaks of clients that do, says
there what becomes of `s1` moving between the two documents before `s2` connects;
the theorem holds for any number of such clients. Of the four
requests of `documents` one creates the document and three overlap: two that
load the same version and a third that meets what they leave (a deletion, an
export, an event); the stale export needs a fifth. Documents do not interact, so
one is enough. The four rows of `migration` are one policy, two documents in one
range, one of which may fail its hash and differ in a summed column, and one file
audit row that refers to the other document and may be rejected or touched:
every guard can fail and every foreign key restrict; two faults let one recovery
be interrupted (1.7 million states). In `search`, two consumers are what
gunicorn runs, two changes let one event follow another, and two faults let a
task be given up and its retry fail; a file rather than a document, because only
files are repaired, moved, trashed and nameless (0.9 million states). A receive
returns one message (`MaxMessages` is 1): of one item two messages in one batch are
processed in an order a second consumer can produce as well, and the theorems hold
for every value. Items meet only in
the order of tasks, and what a reindex does to two kinds is left to the proofs,
which hold for any documents and files.

Deadlock is not checked where the instance itself comes to an end: socket ids
are never reused, the breaker's counters are bounded, each document request is
made once, the migration job has nothing to do when its run is closed, and
changes and reindexes of the search instance are bounded.

Fairness. In `CollabService` the event loop reaches each callback that is due
and timers keep firing; strong fairness is used because a callback is not due
while a join is between its two microtasks. Clients, failures and restarts
promise nothing, except that a stop that has begun goes on. The sweep is owed
only to sockets that are gone: others may be active each time it fires. In
`CircuitBreaker` nothing is fair: the server's `WriteTimeout` does not end a handler
blocked on its backend, the transport has no `ResponseHeaderTimeout`, and an
upgraded `/socket.io` connection stays inside `Execute` as long as its socket lives.
`FullHalfOpenDecides` therefore has the premise that no request is out for ever,
written in the property; `breaker_wedge` adds `RequestsEnd`, the hypothesis that each
proxied request ends, to show that its counterexample does not rest on one that
hangs. In `SearchIndex` each consumer keeps polling and
processing, a message that nobody holds reappears after its visibility timeout, and
MeiliSearch executes its tasks. The last is a hypothesis about MeiliSearch, and so is
that it answers a call or refuses it: its client is given no timeout. Reindexes are
not fair, because the weekly script calls the services without a timeout and may
hang; `Converges` has as a premise that none does. Changes, reindexes and faults
promise nothing, and the faults are bounded, so that some attempt in the end meets
none (or the event is dropped by a fault, which `sure` records).

### What the violated runs show

- `collab_lost_update`. A user leaves, which starts a save of the empty document;
  another joins and edits while that save is on its way; the edit's own save is
  rejected and its author leaves before the first save is answered. The cleanup
  looks at the user count only (collaboration.ts 480) and evicts the only copy of the edit. Its
  comment promises that the periodic loop will bring the edit to Redis.
- `collab_leak`. A socket asks to join `d1` and, before the answer, `d2`. Neither
  join sees the other; the one that finishes last moves the awareness entry
  (awareness.ts 88) and nobody looks at the document it was moved away from, which stays in memory.
- `breaker_wedge`. Even if every proxied request ends: `Execute` counts the request and has no deferred clean-up, so
  a panic out of the proxy leaves the slot taken. Half-open has no timeout: once
  `MaxRequests` slots are gone, the backend stays cut off until a restart.
- `documents_replace`. One request changes the title while a PUT that keeps the
  old title and brings new content has already loaded the document. The PUT
  writes only the content (document_service.py 129): the document has the title
  of one and the content of the other, a pair nobody asked for and no version
  row has.
- `documents_export`. Two edits load version 1 and both commit version 2. An
  export taken between the commits is cached under 2 (render_cache.py 21) and
  found again after the second, whose text it does not show.

### What the passing runs leave open

`PurgedRowsArchived` and `ClosedBooks` carry the premise `~partial`. Without it
TLC finds a counterexample with two faults and a repaired hash: VALIDATE is run by
itself on staging that is no longer whole, promotes and writes its counts before it
compares them (validate.py 312), and a later purge accepts what the verdicts of
two passes add up to. Other histories the model contains, and no property forbids,
because the code promises nothing: a crash between the emptying of staging and the
mark CLOSED leaves a run that the verb `all` can never close although
`src/migration/job/README.md` calls it re-runnable; a child that failed validation
stays at the source and restricts its parent's deletion at each attempt; a row
touched after its extract is deleted by key all the same.

In `search`, `SettledMeansIndexed` and `Converges` speak of the items in `sure`.
Without `GivenUp` taking items out of it TLC finds both violated with one fault: a
file is deleted in peace, its look-up is answered with an error, the event is
acknowledged, and the file stays in the index with nothing on its way. Nothing in
the code notices; the next undisturbed reindex repairs it and makes the item sure
again, which the same properties check. The same holds of an event dropped for
an answer that is not JSON, and of a file with an empty name, which is missing until
it is renamed or a reindex adds it.

A half-open breaker whose probes hang (a blocked backend, a live WebSocket) admits
nothing as long as they do. `ProbesDecide` says that a full half-open waits for such
a probe or has lost one, and no property says that the wait ends.

`NoAcceptedUpdateLost` starts afresh when the process ends: from then on it speaks of
what Redis has. What the end itself takes is the subject of `EndLosesOnlyInFlight`
and, without failed commands, of `AcceptedIsKept` in `CollabService_writes`: updates
whose write was issued and not yet executed, which a crash does lose although their
authors saw them accepted.

## 4. Proofs

Proved with TLAPS, for all values of the constants that satisfy the
assumptions of the modules (`ConstantsOK`, `SettingsOK`, `ParametersOK`, `ManifestOK`, `BoundsOK`,
`SearchOK`):

- `CollabService_proofs`: `TypeOK` is inductive and `AwarenessAgrees`,
  `TrackedInMemory` and `OneLoad` are each inductive given it. The reasons are in
  the lemmas: the awareness maps are only ever changed together
  (`AwarenessRemoved`, `AwarenessAdded`); users are added only to a document that
  is in memory at that moment, and a cleanup evicts only after it has looked
  again; a load stays listed until it is over. `PresenceMatchesRooms` speaks of
  clients between joins only; `PresenceInv` adds those that are joining: of a
  client that waits for its acks one join is under way at most (`OneJoin`), and it is in
  the room of the document it is tracked in and of the one it joins, which differ
  only before it is tracked (`RoomsFollowJoins`). What failed loads and the sweep need is
  that nobody is tracked in a document somebody waits for (`AwaitedIsUntracked`): it
  would have to be in memory, and it is being loaded. The run for this
  property has no failing commands; the theorem covers them.
  `EmptyIsLeaving` needs all of this. Leaves, disconnects, switches and sweeps start
  the cleanup of what they empty (`LeavingEmptied`); but a join that moves a user away
  from a document looks at nothing, and a load that ends after its last waiter has
  gone leaves a document nobody uses. The first does not happen to a client
  that waits for its acks (`RoomsFollowJoins`), and a load always has a waiter (the third part
  of `OneLoad`). A cleanup found at `"writing"` has a write to wait for, which the other
  writes of the document do not displace (`IssuedKept`, `IssuedPopped`).
- `CircuitBreaker_proofs`: the properties are not inductive by themselves. The
  inductive invariant `BreakerInv` says that the counters account for every
  request they admitted (`Accounts`): in half-open the slots given away are at
  most the consecutive successes, the probes still out and those lost, and the
  successes are too few to close. Each function of the breaker has a lemma on
  accounts; a request that has returned is owed (`Accounts(c, 1)`) until its result
  is counted. `OpenShields` follows from the types; `PeriodsAreCyclic` from
  `PeriodEnds`: after the first trip, counts that are too old have an expiry behind, so
  the next admission sees it. `StateAdvances` says which edges the state machine has and
  that half-open closes with the success that completes `MaxRequests` in a row;
  `WedgeNeedsAborts` that a stuck half-open has lost to panics exactly the slots it is short
  of (`LossIsAbort`). The gateway accepts `CB_MAX_REQUESTS=0`, and so do the
  assumptions; only `ProbesDecide` and `WedgeNeedsAborts` ask for more than 0.
  `NoProbesNoEnd` says what happens at 0: half-open admits nothing, and once no earlier
  request is out the breaker never changes again.

- `CollabService_writes`: what Redis holds. Of all the states of a document, the
  one in Redis, those of the writes on their way in their order, and the one in
  memory form a growing chain; `WritesOrdered` is that invariant, and no property
  below is inductive without it, because the command that executes next may have been
  issued by an update, an eviction, the loop or the shutdown. To keep the many actions
  apart from this argument, `StepKinds` reduces each step to what it does to a
  document (`Same`, `Saves`, `Takes`, `Loads`, `Evicts`, `Executes`, `Rejects`,
  `Ends`), and the lemmas below it see only these. `RedisNeverShrinks`, `UnsavedOnlyByFailure`,
  `LossNeedsFailedWrite` and `EndLosesOnlyInFlight` follow; an accounting invariant
  (`LossInv`) explains each missing update by a rejected write. With
  `MaxFaults = 0` nothing accepted is lost while the process lives, its end takes only
  what was in a write still on its way (`NoLossCorrect`: every step is held against
  what was accepted before it, so that the accounting that starts afresh with the
  process excuses nothing), and `Spec => ImplementsDurable`.
- `DocumentService_proofs`: `Typed` says what each stage of a request knows of its
  session and of the rows. `Explained` adds that a loaded document and a cached export
  are the version row their number names, while numbers are distinct. The key
  step is `EditExplained`: an edit takes the number after the one it has loaded,
  so an edit of anything but the last version repeats a number that is there;
  conversely, distinct numbers mean every edit saw the last one. The events need
  that announcements never run ahead of the history (`EventsOK`). `LogCorrect`
  maps a commit to one step of `VersionLog` and everything else to none.
  `SerialEditsReplaceCorrect` and `SerialServesCorrect` are what is true instead of the two
  violated properties: an edit that repeats no number was made of the row it
  replaces, and while numbers are distinct a cached export is the document read.
- `MigrationJob_proofs`: types; `AuditsAgree` from an invariant on where the batch
  in hand stands between the two records; `PurgedForGood` because the rows still to do are
  never marked; `GuardStopsEverything` because nothing after the guards of all
  tables and before the end of the loop writes a verdict or a count of VALIDATE.
  `OnlyWhatMayGo`: the deleting step is reached only through `BeginPurge`, which asks for
  the overlay's flag, and over the purge-safe rows of a data table (`PurgeEntered`).
- `MigrationJob_archive`: the guard compares two numbers, and the theorem is about
  sets. The bridge is `Firm`: of each table, the purge-safe rows that are archived
  and that VALIDATE, begun again, would validate again. Unless VALIDATE began on
  incomplete staging, no firm row ceases to be one and the `validated` count never
  exceeds their number; so when the guard finds as many purge-safe rows as were
  validated, all of them are firm, hence archived. Around it stand invariants on the
  two passes (`FreshPass`, `VerdictsSound`), on the order of tables
  (`ParentsFirst`, which gives `ArchiveHasParents`) and on the counts of EXTRACT and
  LOAD (`ExtractCounted`, `LoadSets`, which with `BooksStand` give `ClosedBooks`).
  `ArchiveStep` puts them together: a promotion is an `Archive` step of `SafeArchive` because
  of `ParentsFirst`, a committed delete, its answer lost or not, a `Purge` step because of
  `Firm` and the source's foreign keys, the application's changes are its own steps, a
  VALIDATE begun on incomplete staging is `LoseCare`, and the rest stutters
  (`SourceFrame`). `ArchiveCorrect` follows.
- `SearchIndex_proofs`: `TaskStep` reduces every step to what it does to the
  task queue (nothing, submit, disown, take out), and shows that who waits owns at
  most the one task it waits for (`Owned`, `OneEach`), and at least that one
  (`Waited`): nobody polls a task that does not exist (`NobodyWaitsInVain`). `Agrees` and `Harmless`
  say that of an item changed in peace one message is on its way, however often it is delivered, and that
  every task and every fetched page writes what the service lists or removes.
  With that, the entry of such an item only moves to what is listed now, or out
  (`NoStaleContent`), and nothing can bring back what is gone (`GoneStaysGone`).
- `SearchIndex_settled`: a removal may be under way for an item that is listed, as
  the first half of a repair, so the index alone is not enough of an invariant.
  `RemovedInQueue`: then the event is still in the queue. `AddedLast`: no removal
  follows the add a consumer waits for or has seen done, so an acknowledged event
  leaves the item right. `RightOrInQueue`: outside the stretch of a reindex in which
  the item is cleared and not yet filled (`Gap`), it is right or its event is to come.
  `Refills`: in that stretch the reindex has fetched, or will fetch, what it needs.
  `GivenUpGone`: where the consumer takes a failure for success it keeps none of
  the promises, and the item is no longer sure; the theorems are about the others.
  `RightOrToCome` says this without a premise about tasks and consumers, and
  `SettledMeansIndexed` is the case of an empty queue and no reindex.

Each violated run has a theorem that says what is true instead: `collab_lost_update`
has `NoLossCorrect` (without a rejected write only the end of the process loses
anything, and only writes still on their way), `collab_leak` has
`EmptyIsLeavingCorrect` (clients that wait for their acks leak nothing),
`breaker_wedge` has `WedgeNeedsAborts`, and `documents_replace` and `documents_export` the two
serial theorems.

Only model-checked: the liveness properties (`EmptyDocumentEvicted`,
`EventuallyPersisted`, `JoinsSettle`, `FullHalfOpenDecides`, `Converges`), which are out of
the prover's reach. Several theorems are their safety core: that a cleanup under way has
a write to be answered, that whoever waits for a task has one, and that an item which
is not right has an event to come leave to fairness only that what is due is done.

## 5. Not modelled

- **Demo platform.** The leases of tenants (check out, extend, pin, wake against
  reaper and idle suspension) and the dispatch of otter-projects tickets have real races; both are
  worth a module and neither has one. Their shared state is Kubernetes annotations
  and the bodies of remote jobs, most of it behind `kubectl` and shell.
- **notification-service, audit-service, analytics-service** consume the same
  kind of queue as search-service and store one record per event; nothing in the
  system reads the records to decide anything.
- **file-service** appears as far as the search index sees it. The order of its
  S3 and DynamoDB calls is modelled where an announcement depends on it; that
  objects are left behind without metadata, or versions without a file, is not.
- **auth-, admin-, report-service, billing, legacy portal, industry solutions**:
  requests against one database each, in short transactions, or calculations that
  the repository tests against each other.
- **api-gateway** outside the breaker keeps one token bucket per client and
  nothing else between requests.
- **Front ends** appear as the clients of `CollabService`.
- **incident, security, compliance, cloudworker, other etl jobs, scripts,
  infrastructure**: harnesses and scripts that run once, and declarative
  configuration. The other drivers of the migration job implement the interface that
  `MigrationJob` models, one database at a time.

`PROJECT.json` lists these with their status, and the hazards that no property covers with the reason.
