# Know-Gate: a verification project

TLA+ modules for Know-Gate, a service that copies documents from Google Drive and Notion,
indexes them in PostgreSQL and Qdrant, and answers questions over them within the groups a
user belongs to, and for its command line client.  The modules follow the code, not its
documentation; where the two disagree, a run of its own or the list of contradictions in
section 4 says so.

Paths below are relative to `src/backend/app` unless they start with `src/`, `docs/` or `cli/`
(which is `src/cli/knowgate_cli`).

## 1. Inventory

| Component | State it keeps | Operations | Hard behaviour | What makes it correct | Module |
|---|---|---|---|---|---|
| **Sync engine** `sources/sync.py`, `tasks/sync.py`, `api/v1/sources.py`, `webhooks.py`, `sync_jobs.py` | `sources` (status, cursor, last_sync_at), `sync_jobs`, messages | trigger, Beat, webhook, retry, `run_sync`, PATCH/DELETE of a source | overlapping runs, retries as new job rows, workers killed between transactions, rate limits | no change is passed over; every change is dealt with in the end | `SyncEngine` |
| **Feed of documents** loop body of `run_sync`, `storage/uploader.py` | MinIO objects, `documents` rows, `ingest_doc` messages | tombstone, fetch (two requests), upload, upsert, enqueue | runs in different places of one loop; a step that fails after another took effect | the row is not ahead of its bytes; no document waits without a task | `DocumentFeed` |
| **Ingestion** `pipeline/indexer.py`, `tasks/ingest.py`, `vector/indexer.py` | document status, `chunks`, Qdrant points | load, mark, prepare, upsert batches, persist chunks, mark active, retry | killed and repeated deliveries; two stores without a common transaction; the row changes under the task | chunk rows have points; an active document shows its bytes; tasks end | `Ingestion` |
| **Reembedding** `tasks/ingest.py` | Qdrant points | `reembed_all`, `reembed_one` | writes what it read before, beside ingests | points are of the text there is, while only one version of it is being written | `Retrieval` |
| **Documents API** `api/v1/documents.py` | `documents`, `document_groups` | PATCH, DELETE, listing | beside ingests and syncs | a listing is whole | `Documents`, `Paging` |
| **Groups** `api/v1/groups.py` | `groups`, `user_groups`, `document_groups` | create, rename, delete, add, remove, invite | members join between a count and a deletion | a membership ends by its removal only | `Groups` |
| **Users, roles, permissions** `api/v1/users.py`, `roles.py`, `auth/permissions.py` | users, roles, `user_roles` | invite, suspend, delete, assign, revoke, rename | check then write in every handler | an administrator remains | `Administration` |
| **Sign-in and sessions** `api/v1/auth.py`, `auth/*.py` | users, links and revoked token ids in Redis | register, login, refresh, logout, magic link | concurrent first users; rights that change under a session; whole seconds | one first user; a logged out token stays out; rights end | `Administration`, `Sessions` |
| **Command line client** `cli/client.py`, `cli/auth.py` | keyring, index of accounts, tokens in memory | login, logout, any request with renewal | terminals share two stores, written one after the other | every account keeps its own tokens; nobody renewable is turned away | `CommandLine` |
| **Query pipeline, semantic cache, hybrid search** `retrieval/*.py` | cached answers for 24 h | look up, two searches, fuse, rank, answer, store | documents, groups and points change under a query and under the cache | nothing is cited that was not granted to the asker's groups | `Retrieval` |
| **LLM client, circuit breaker** `llm/*.py` | breaker state, in-flight probe | `model_to_call`, `record_success`, `record_failure` | results out of order, cancelled probes | one probe per cool-down; traffic resumes by the probe's success; never half open for good | `CircuitBreaker` |
| **Rate limit** `cache/helpers.py` | sorted sets with an expiry | four Redis calls a request | the calls of several requests interleave | not too many, and nobody for requests long past | `RateLimit` |
| **Progress stream** `sources/progress.py`, `api/v1/sync_jobs.py` | job row, Redis channels, open streams | publish, snapshot, subscribe, poll, close | the job ends in between; events go to another channel | a stream of a finished job ends and tells the truth | `JobStream` |
| **Connectors** `sources/google_drive.py`, `notion.py` | provider cursors, token bucket | `list_changes`, `fetch_doc`, `acquire` | edits while a listing turns pages; equal minutes | every edit is in some listing; requests keep a pace | `NotionListing`, `TokenBucket`, `SyncEngine` |
| **Listings** `api/pagination.py` | none | six endpoints, page by page | rows come, go and change between pages; equal times | what was there all along is listed, once | `Paging` |
| **Parsing, chunking, embedding** `pipeline/*.py` | none | `chunk_by_sections` | nested separators, overlap, trimming | chunks read one after the other are the text, within the cap, where pieces are | `Chunker` |
| Settings, feedback, audit, HTTP plumbing, storage clients | single rows | insert, update | none | | see "Not modelled" |
| Observability, frontend, deployment | none that the server relies on | counting, rendering, configuration | none | | see "Not modelled" |

How they interact: API handlers and Beat put `sync_source` messages at the broker; a worker's
`run_sync` calls a connector, writes MinIO and `documents`, publishes progress and puts
`ingest_doc` messages; a worker's `ingest_document` reads MinIO and `document_groups` and writes
Qdrant, `chunks` and `documents`; administrators write the same rows through the API; the query
pipeline reads both indexes, within the groups the asker has, and Redis.  All workers run the
same image (`src/deploy/docker-compose.yml:185`, two processes).  Nothing but PostgreSQL
transactions, at READ COMMITTED, and single Redis commands is atomic across them.

The table schema comes from `src/backend/alembic` because `app/db/models` is not in the
repository; Celery, the broker, the providers, Redis, the keyring and the clock are external.

## 2. The modules

| Module | Models |
|---|---|
| `Documents` | one operator per transaction or call on the shared storage, and the API handlers |
| `DocumentFeed` | the loop body of `run_sync` over one listed document, one action per await |
| `Ingestion` | `ingest_doc_task` and `ingest_document`, one action per transaction or call |
| `KnowledgeBase` | the three over one storage, with the API; their properties |
| `SyncEngine` | one source: triggers, tasks, runs, cursor, job row, source status |
| `Retrieval` | queries, cache and both searches over storage that ingests, reembeddings and administrators change |
| `Clock` | the clock of the timed components, with its bound |
| `CircuitBreaker`, `AbstractBreaker` | one breaker with the calls that share it, as its docstring says they do, and what that docstring promises |
| `RateLimit` | `rate_limit_incr` for one key, one action per Redis call |
| `TokenBucket` | the pace of Notion requests |
| `JobStream` | the run of a job and the SSE streams that watch it |
| `Paging` | the six cursor-paginated listings while the table is written |
| `NotionListing` | `list_changes` of Notion, page by page, run after run |
| `Chunker` | `chunk_by_sections` |
| `Standalone` | the seven above that share no state, for one run |
| `Administration` | users, roles, grants and the first user; read and commit are two steps |
| `Groups` | groups and the users and documents in them |
| `CommandLine` | the accounts of one workstation and the commands of its terminals |
| `Identity` | these three, which share no state, for one run |
| `Sessions`, `Authority` | the tokens of one user, to the half second, and what `Administration` takes for granted of them |
| `MC...` | symmetry, a view and small functions for TLC |
| `...Proofs` | theorems and proofs |

`Documents` is extended by `DocumentFeed` and `Ingestion`, and both by `KnowledgeBase`: the
three write the same rows.  `SyncEngine` stands beside them: it takes the loop body as one
step (`Handle`), because the cursor, the job row and the source's status never meet the
document's row.  `Retrieval` has of the ingest the three steps a query can tell apart, and
adds the reembedding.  `Administration` knows of sessions that a claim was once made of a grant;
`Sessions` is shown to implement that assumption, `Authority`, which is no promise of the
repository: it leaves open whether a token ends with the role (section 4).

How state corresponds to the code:

* A document's bytes, metadata and chunks are represented by a *version* (in `Retrieval`,
  *edition*) number: 0 is nothing stored, and each edit at the provider is the next one.  A
  chunk or point holds the version it was cut from.  Text, vectors and titles do not appear.
* `rows[d]` is the `documents` row: status, whether `indexed_at` is set, and
  `source_modified_at`.  `UpsertDocument` leaves `indexed` alone, as the SET list of the
  statement does (`sources/sync.py:308`).
* `tasks[d][n]` and `queue[n]` count messages by the retries behind them.  Order at the broker
  does not matter to any property: two workers and a retry delay reorder them anyway.
* A worker's `pc`, a query's or a stream's step is its next await.  `try`, `raw`, `groups`,
  `from`, `upto`, `seen`, `pair` are the local variables that outlive an await, which is where
  stale reads come from.
* In `Administration` and `Groups` a handler reads, decides (`request`, `edit`) and later
  commits what it decided (`Write...`).  What PostgreSQL checks at the commit (unique names and
  emails, foreign keys) is checked again there, and nothing else is.  A refusal changes nothing
  and is no step.
* In the document modules an ORM update that selects and then commits is one step at the
  commit.  Between the two the code decides nothing on what it read, except in `Load`, which is
  a step of its own.
* In `Sessions` tokens are slots with timers in half seconds: `exp` is counted in whole seconds
  from `int(now)`, and so is the life of a revoked token id, while Redis counts on.  In
  `CommandLine` a pair of tokens is the number it was issued under, and `owner`
  who it was issued to.
* In `RateLimit` a member of the sorted set is its time, since the part behind the colon is the
  id of a builtin and the same for all (`cache/helpers.py:79`).
* In `Chunker` a section is a sequence of tokens, and a character has a weight: a letter is one
  token, with a `more` behind it for each further one it takes.  Three kinds of separator stand
  for the eight of the code.  A text cut out of a section is the set of its places: splitting,
  joining, trimming and the overlap never change an order nor take a place twice.  What is
  measured (`Fits`, `TrimToTokens`, `TailForOverlap`) is measured in tokens, and the last resort
  (`HardCut`) takes characters, as the code does.  Encoding a piece behind the tail of the one
  before may take up to `Seam` tokens more than the two did.  Abstracted are characters that
  share a token, which a cut by characters makes lighter and never heavier, and that joining the
  pieces of one flush changes a count.  `splits` is the stack of calls of the generator
  `_split_recursive`, each with what it has not looked at yet; a piece is taken as it is yielded.
* `BodyIsAsync` says which library stores the bytes.  boto3's body cannot be entered with `async
  with`, so that `download_doc` raises each time (`storage/uploader.py:55`) and an ingest goes no
  further than that: FALSE is the code as it stands.  TRUE is the code with that line mended,
  which is what the steps behind it can be asked about; the proofs are for both.
* In `Retrieval` `ingest[d]` has the ingests of a document that are under way: nothing in
  `ingest_document` or its task locks one out (`tasks/ingest.py:52-72`), and each has the bytes it
  found.  It is the code with the download mended, as above.
* In `Paging` `listed` counts how often each row was received; the order within a page, which is
  that of the statement, is left out.
* `abandoned`, `raced`, `done`, `skipped`, `lost`, `probes`, `slipped`, `late`, `steady`,
  `moved`, `gaps`, `stale`, `overlapped`, `joined`, `kept`, `mixed`, `refused`, `shared`,
  `since`, `uneven`, `probing`, `overfull` are histories: no guard of an action reads them.  `reported` is the union of
  the `error_log` columns of finished job rows, `ended` (of `SyncEngine`) the set of their
  statuses, which `RetryJob` reads.
* Failures that leave no trace are free.  Kills, repeated deliveries and sync runs that raise
  cost one of `MaxFaults`, since without a bound they could fill the broker.

`MarkDocFailed` is not nondeterministic: the attribute it reads does not exist, so it
always raises.

## 3. The runs

### KnowledgeBase

The three `KB` runs ask about an ingest that gets past its download (`BodyIsAsync = TRUE`, section
2); `V_indexing` is about the code as it stands.

| Run | Instance | Question |
|---|---|---|
| `KB_one` | 1 document, 2 versions (1 and 2 chunks), batches of 1, 1 run, 1 worker, 1 retry, 1 fault, archiving | `NothingStuck`, `MetadataNotAhead`, `ContentNeverRegresses`, the types, and with fair workers `EveryTaskEnds` |
| `KB_workers` | 2 workers, 1 group, no retry, 1 fault | `ChunksHavePoints`, `IndexedHasChunks`, `WorkerProgress`, `NothingStuck`, `UndisturbedIsCurrent` under overlapping ingests |
| `KB_runs` | 2 sync runs, 1 worker, a version that shrinks | `UndisturbedIsCurrent` when two runs overwrite each other |

*Why these bounds.*  Documents share nothing but workers, so one document and the workers that
may come to it give every interleaving that a property over one document can see.  Two versions
distinguish old from new; two chunks with a batch of one split `upsert_chunks_bulk`, and make
growing and shrinking documents different.  One retry separates a first from a last attempt.
One fault reaches every crash point; a second would hit a state the first already reaches
from fresh.  `KB_workers` does without retries because a second message does what a retry does.
All runs have `CHECK_DEADLOCK FALSE`: when the bound of edits is used up and everything
is indexed, the system rightly rests.

What the invariants exclude is part of what they say.  `UndisturbedIsCurrent` leaves out
documents whose bytes were replaced under an ingest (`raced`): there the property fails, as
`UpdatesReachTheIndex` shows (section 4).  `NothingStuck` leaves out documents that were given up (`abandoned`):
retries used up, an error text taken for "nothing to do", or a feed that failed after a write.
It says nothing, then, of a document that a feed left behind (`sources/sync.py:164`) or whose
enqueue failed (`sources/sync.py:178`).
`ContentNeverRegresses` and `MetadataNotAhead` are claims for one worker and one run and are
checked there; with two runs neither holds.

### SyncEngine

| Run | Instance | Question |
|---|---|---|
| `Sync_one` | 1 fair worker, 2 changes, 1 retry, 2 faults, a provider whose first sync lists everything, administrators who pause, archive and restore | `NothingPassedOver`, `EveryChangeSettled` and the types |
| `Sync_two` | 2 workers, 2 changes, 1 fault, first sync at the head | `NothingPassedOver` when runs overlap |

`NothingPassedOver` is what `sync_cursor` is for: no later run lists a change before it, so
each must have been handled, be named in a job row, be made before a Drive source's first sync,
or be lost in one window: a failure recorded in memory by a run that has stored the cursor and
not yet its job row.  Overlapping runs may store cursors out of order; the run shows that this
repeats work and loses none.  Two changes and two workers give a run that lists one change
while another lists two, in both orders of storing.  `MaxQueue = 1` lets a message wait behind
every running task; more waiting messages start runs that the model already has.
`Patches = {}` in `Sync_two` fixes the status, which no action of a run reads.

### Standalone

Seven components that see nothing of each other.  `part` says which one a behaviour is of, and
the others rest in one initial state: interleaving what shares no state adds states and no
behaviour, so that one run asks what seven would.

| Property | Instance | What it says |
|---|---|---|
| `OneProbe`, `KeepsPromise`, `HalfOpenEnds` | 3 calls, threshold 2, cool-down 2, clock to 4 | a call sent before the breaker opened, one during, one late: the primary gets one probe per cool-down; each step is one of `AbstractBreaker`, where only the probe's success resumes traffic, or the one exception it names, the report of another call in a half-open breaker (`Meddle`); a probe that never reports does not hold it half open while other calls are answered |
| `LimitKept` | 3 requests, limit 1, window 2 | requests that trim, add, expire and count in any order: at most the limit is admitted per window, apart from requests that share an instant or whose key expires between ZADD and EXPIRE (`slipped`), and who is refused met more than the limit |
| `PaceAtMostDoubled` | 2 requests per 4 ticks, 8 requests | over every stretch of time at most the burst and *twice* the rate, since time slept is earned again by the next refill: once, and no idle time is.  It is what the code does, not what it promises: `V_pace` asks for the rate and fails |
| `ToldTheTruth`, `StreamEnds` | 2 streams, 2 events | what a stream was told is what the row says for good, and its channel is left; the stream of a completed or failed job ends, by the row it polls |
| `ListedRight` | 3 rows, 2 times, pages of 1, all six endpoints | rows that stay are listed, and once, whatever is inserted, renamed or deleted between pages, except where a page held one document of several groups (`squeezed`) |
| `NothingSkipped` | 3 Notion pages, one per response, 3 minutes, 4 edits | the last edit of a page was handed over or is newer than the cursor, except for edits in the cursor's own minute and during a listing (`gaps`) |
| `ChunkedRight` | every document of two sections and 6 tokens, cap 3, overlap 2, seam 1 | chunks stay within the cap, each goes on where those before it end but for the overlap, and together they have every letter of the text, except in a section with a piece that is more than the cap (`overfull`): cut by characters of several tokens, or full before its seam took more.  Both fail there, as `CapIsHard` and `NoLetterTrimmed` show (section 4) |

Three calls or requests are one before, one at and one after the interesting moment; a clock to
four lets a cool-down or a window of two end twice.  `MaxEvents`, `MaxEdits`, `MaxMinute` and
`MaxRequests` bound counters; each is larger than the number of steps the longest scenario above
takes.  Six tokens hold a first piece that is
too heavy, and one that its seam makes so; a later piece that is too heavy needs seven, which the
proof covers.  `Counted` in `BreakerNext` bounds the failures counted above any value they are compared
with.

### Identity

| Property | Instance | What it says |
|---|---|---|
| `AdminRemains` | 2 users, 2 roles with 3 names, 2 requests at once | once somebody registered, an active user holds admin, unless a removal was written on a count that another had outrun (`overlapped`) |
| `OneBootstrap` | the same | registration makes one user, unless two requests saw none at once |
| `MembershipsKept` | 2 groups, 2 names, a user and a document, 2 requests | a membership ends by its removal only; deleting a group takes none but those made after its count was zero |
| `OwnTokens`, `RenewableServed`, `IndexBacked` | 2 accounts, 2 terminals, 3 token pairs | no pair is stored under another account; no command whose pair can be renewed is turned away; an account of the index has tokens, unless changes ran across each other (`mixed`) |

Two of everything: every hazard here is between two requests over one or two rows, and the
proofs of section 5 are for any number.  Three pairs let an account's tokens be renewed twice,
by both terminals, and the other account sign in.  `SYMMETRY` permutes the two users, the two
processes and the two free names; no constant formula names one of them.  `VIEW MCView` leaves
out what is recorded of token pairs that are neither stored nor in a command's memory: no action
and no property looks at such a pair, and none ever comes back.

### Sessions

Two access and two refresh tokens, two requests, lifetimes of 1 and 2 seconds in half seconds.
`LoggedOutStaysOut` needs the half second: the revocation lasts `exp - int(now)`, and cutting
the rest of the token's life to whole seconds would let it back in at its end.
`ClaimsFollowRights` is the refinement `Sessions => Authority`.  `RightsEnd` is
liveness: although refresh tokens can be exchanged again and again, when a user stays suspended
no token is left in the end, and when the grant stays revoked no claim is.  Two slots of each
kind let a session be refreshed before the old token ends, for ever; when no slot is free the
answer is lost (`Unminted`).

### Retrieval

One document with one group, one user, two queries, two ingests, a cached answer of two ticks,
two editions.  `CitedWasGranted`: what an answer cites, computed or cached, was granted to a group
the asker had when asking: by keyword search within the life of a cached answer, by vector search
at some time, since a point keeps the groups of its ingest.  `PointMatchesText`: at rest, a point
is of the text its document has, however many ingests and reembeddings of one version overlapped.
Excepted (`uneven`) are documents of which, since an ingest last began alone, one was cut short or
two writers held different versions: there the stores do disagree for good (one ingest writes
both between the two writes of an older one), and `LeftConsistent` shows it (section 4).  `AtWork`
lets two queries and ingests be at work at once, of either kind, and a reembedding beside them: a
query sees of an ingest one write, and ingests of each other theirs.  Groups are a set and a document's groups are read as a whole, so one group separates
"in common" from "nothing in common"; two queries let one store what another reads.  `TopK = 1`
makes the ranking drop something.  Time passes when no query is under way (`Later`): a
query takes seconds and an answer lives a day.

### Fairness

* Workers are a service that restarts (`src/deploy/docker-compose.yml:185`), prefetch one
  message and run it to its end, so their receiving and their steps are weakly fair.  Beat
  fires every five minutes (`tasks/beat_schedule.py`): `SyncAllSources` is weakly fair.
  `EveryChangeSettled` asks for a source that is active from some time on: a paused, archived
  or refused one is not synced, by design.  `EveryTaskEnds` holds because retries are counted
  and faults are finite.
* `StreamFairness`: the event loop runs a generator whose browser still reads.  Browsers, runs
  and publishers owe nothing.
* `SessionFairness`: time passes, and a request that has begun goes on.  No user owes a step.
* `HalfOpenEnds` assumes in its own text that calls go on being answered.
* Nothing is assumed of people, of providers, of webhooks or of faults, and a step that may
  fail may fail each time.

## 4. Contradictions

Three runs check one sentence of the repository each, quoted in `PROJECT.json`, and fail:

| Run | What the code does |
|---|---|
| `V_indexing` | every ingest fails at its download (`storage/uploader.py:55`) and leaves `indexing` for ever: `DocumentStatus` has no FAILED |
| `V_pace` | requests are sent to Notion at twice its rate: time slept is counted again |
| `V_lockout` | two administrators who remove each other at once leave none |

Others are stated as definitions that no run checks.  To see one fail, name it in a
configuration of its module:

* `KnowledgeBase!UpdatesReachTheIndex` (`BodyIsAsync = TRUE`): an edit synced during an ingest is
  marked active by the old task and skipped by its own; `docs/system-architecture.md:109` has a
  sync discover each updated document and enqueue its ingest.
* `KnowledgeBase!DiscoveredIsEnqueued` (with `SyncSpec`, one worker): a failed enqueue is not
  repeated, as the cursor has moved on; `sources/sync.py:178` says the next sync re-enqueues.
* `KnowledgeBase!LayersAgree` (with a group, `BodyIsAsync = TRUE`): group changes never reach the `group_ids` of points.
* `SyncEngine!FullFirstSync` (`StartsAtHead = TRUE`): a first Drive sync lists nothing that was
  there before; `sources/base.py` calls a first sync full.
* `SyncEngine!NoJobLeftQueued`: job rows of rate-limited and crashed runs stay `queued`.
* `SyncEngine!AdminUnarchives`: a run in flight writes `auth_failed` over `archived`.
* `Administration!FirstUserOnly`: two first users at once both become administrators;
  `api/v1/auth.py:123` has one.
* `CircuitBreaker!PromiseKept`: any success closes a half-open breaker, and any failure opens it,
  be it of an older call or of one sent to the fallback; `llm/circuit_breaker.py:5` and `:20` let
  one request through and resume if it succeeds, and lines 106 and 107 speak of the primary as
  proven healthy.
* `Chunker!CapIsHard` and `Chunker!NoLetterTrimmed`: a text without separators is cut into as many
  *characters* as a chunk may have tokens (`pipeline/chunker.py:163-173`).  Where these take
  several tokens each, the first piece exceeds the cap that line 67 calls hard, and the later
  ones lose letters to a trim that line 120 says is of the overlap.  A seam that takes more
  tokens than its sides did costs letters too.
* `Sessions!RoleChangeEndsSession`: nothing ends a session when a role is granted or revoked; the
  access token and its claims live on to their end, and refreshing goes on after it;
  `docs/system-architecture.md:191` invalidates the session "On logout / role change".
* `Sessions!RefreshOnce`: a refresh token can be exchanged as often as one likes; its token id
  is revoked and never looked up; `api/v1/auth.py:386` says it is used once.
* `Paging!DocumentsListed`: the document listing joins before its LIMIT, so that a document
  of several of the caller's groups can end the listing early; `api/v1/documents.py:150`
  says the extra row detects more.
* `Retrieval!LeftConsistent`: an ingest that fails after Qdrant and before PostgreSQL leaves a
  point of a version the chunk row has not; `pipeline/indexer.py:23` says the two are "left
  consistent".  Two ingests of different versions, or one and a reembedding, do the same.
* `Retrieval!CacheFollowsIndex`: nothing invalidates a cached answer on re-index;
  `docs/system-architecture.md:194` says so.

More are visible in one action of a model, or keep a part of the code from running at all:

* `storage/uploader.py:55` (`Download`): `async with` is applied to the body that boto3 returns,
  which is synchronous and raises, so that no document is ever indexed; line 48 says the function
  returns the bytes.  `V_indexing` shows where this ends.
* `retrieval/answer_generator.py:67` and `retrieval/pipeline.py:345`: each query builds a pipeline
  and with it a breaker of its own, which never sees a second call;
  `llm/circuit_breaker.py:8` says that "a single app instance has one breaker", and
  `docs/project-changelog.md:96` calls it a singleton.  `CircuitBreaker` is of one that is shared.
* `sources/google_drive.py:118` and `:245`: with a folder set, an error while asking for a file's
  parents is taken for "not in the folder".  The change is dropped without a trace while the cursor
  moves past it; the filter is not in the model, so that `NothingPassedOver` does not see it.
* `pipeline/indexer.py:91` (`Load`): a row deleted after its task was sent is ingested and made
  active; line 6 says "status must be DISCOVERED / OUTDATED".
* `pipeline/indexer.py:163`: a point's `chunk_id` is never filled in, so what vector search finds
  is neither merged with the keyword candidates nor given its text (`Sources` in `Retrieval`).
* `tasks/ingest.py` (`ReembedWrite`): reembedding writes no `group_ids`, and the document leaves
  the vector search.
* `retrieval/hybrid_search.py` (`SearchKeyword`, `SearchVector`): neither search looks at the
  status of the document row, so deleted documents are still cited.
* `sources/sync.py:308` (`UpsertDocument`): no condition on the timestamp; line 307 says "if the
  source timestamp is newer".  With two runs the older metadata may be written last.
* `sources/sync.py:194` (`SetSourceCursor` before `FinalizeJob`): a worker killed between the
  two loses the failures of its run (`lost`); `docs/system-architecture.md:109` has them in the
  other order.
* `api/v1/sources.py:203` (`TriggerSync`): the 30 seconds count from the end of the last
  finished sync; line 182 says "at most one manual trigger per source per 30 seconds".
* `sources/sync.py:92`: the status is not read, so a queued message or a webhook syncs a
  source whose credentials failed; `docs/project-changelog.md:183` says `auth_failed`
  "short-circuits future syncs".
* `api/v1/sync_jobs.py:219` (`StreamChannel`): the stream listens to a channel that
  `sources/progress.py:20` does not publish to, and does not take `partial` for an end, which
  lines 15 to 17 name as one.
* `pipeline/chunker.py:181` (`SplitOn`): the separator at a flush goes into neither piece, so
  marks at chunk ends are lost and the overlap is joined to the next piece without a space;
  the comment says it is "re-attached".
* `api/v1/query.py`: the handler passes `window_seconds` to a helper that has no such parameter,
  so a query fails before the pipeline is called; on a cache hit it would read attributes of
  plain dictionaries; and a cached answer carries the query id of who asked first.
* `api/v1/auth.py`: the OAuth callback reads its state back as JSON, which the stored provider
  name is not, and is refused each time.  Login reads the status and the roles in two sessions,
  so that a user suspended between them still gets tokens.
* `cli/auth.py:192`: the account of the last login is to be the active one; the first of
  the index is (`First`).  A command that runs while its account logs out stores renewed tokens
  again, and a login refused with a 401 first renews the active account and asks again.

## 5. What is proved

For every value of the constants, under the assumptions named `...Assumption` in the modules
(that bounds and lifetimes are numbers, and that a value for "none" is not a member of the set it
stands beside).  Every invariant and every action property that a passing run checks is stated by
a theorem of the specification the run checks; what follows is the invariant each needs.

* `KnowledgeBaseProofs`
  * `TypeCorrect`; `ChunksFound`, `IndexedIsSearchable`, `WorkersRely`, that is
    `ChunksHavePoints`, `IndexedHasChunks` and `WorkerProgress`.  The first two are not
    inductive: that `PersistChunks` finds points and `MarkDocActive` finds chunks depends on what
    the worker did several steps ago and what others did since.  Their conjunction with
    `WorkerProgress` (`IndexInv`) is inductive, because no action removes a point or a chunk row
    (`Grows`).
  * `NothingIsStuck`.  `NothingStuck` counts a worker that has only its message left to
    acknowledge as busy with the document, so that it may be left with nobody by the next step;
    `NoneLost` leaves such workers out and is inductive.
  * `UndisturbedShowsCurrent`, for any number of runs and workers.  `Undisturbed`: a worker on a
    document outside `raced` has read the bytes that are there, and the points it has counted, and
    later the chunks, are of them.
  * `MetadataIsStored`, with one run at a time (`OneRun`, a hypothesis of the theorem).
    `StoredFirst`: what a run has in hand lies between what is stored and what the provider has,
    for each step of the loop body.
  * `ContentOnlyNewer`, with one run and one worker (`OneRun`, `OneWorker`).  `OneAhead`: no
    chunk or point is of a version newer than the bytes, nor newer than what the worker on its
    document has in hand.  Both hypotheses are needed: the document modules show how two
    runs or two workers break these promises, and the runs check them with one of each.
* `SyncEngineProofs`: `SyncTypeCorrect` and `ChangesAccountedFor` (`NothingPassedOver`).  The
  strengthening `RunsOK` says of each run what it owes: before its listing, all up to `from` is
  covered; in its loop, all up to `at` is covered or among its own errors; and the job row has
  errors only once they were written.  `CoveredGrows` shows that covered changes stay covered,
  so that a stale cursor is still a sound place to start.
* `RetrievalProofs`: `RetrievalTypeCorrect`, `CitationsGranted`, `PointsMatchTexts`.  What was
  granted is noted for good (`GrantsNoted`), which is enough for vector search.  For keyword
  search the time since the grant ended has to be carried along: a candidate is `Fit` for n more
  ticks, n being the whole life of a cached answer while the query runs (`QueriesFit`) and what is
  left of it in the cache (`CacheFits`).  `SameEdition`, for a document that is not `uneven`: all
  ingests at work on it hold one edition, which a reembedding has read too; an ingest between its
  two writes finds the point of that edition, whoever wrote it last; and with no ingest at work
  the point, the text and what a reembedding has read are the same.
* `AdministrationProofs`: `AdministrationTypeCorrect`, `AnAdminRemains`, `OneFirstUser`.
  `AdminInv` adds to the properties: every grant and claim goes back to a registration
  (`Origin`); the seeded row keeps the name admin while somebody must hold it (`Seat`), which
  holds because its holder keeps `DeleteRole` away and its name `UpdateRole`; what a request that
  nothing has outrun has read is still so (`Pending`).  `AnAdminRemains` follows: a removal that
  is not stale leaves the others it counted.
* `IdentityProofs`: `GroupsTypeCorrect` and `MembershipsLast`, with `LateJoiners` (all members of
  a group whose deletion is decided joined since); `TokensStayOwn`, `RenewableAreServed`,
  `IndexIsBacked`; `IdentityTypeCorrect` and `IdentitySafe`, the same for the specification the
  run checks.  `CommandsApt` says what a command's local variables are worth at each of its steps,
  above all that the pair in its memory was issued to the account it runs as.  `Backed` adds to
  `IndexBacked` who is about to make it true: a logout that has still to strike out the account
  it cleared, and a login whose tokens are stored before the account is listed.
* `SessionsProofs`: `SessionsTypeCorrect`, `LogoutLasts` and the refinement
  `SessionsImplementAuthority`.  `Outlives`: the timer of a revoked token id is never below that
  of its token, since `int(now)` is not later than now.
* `StandaloneProofs`: one theorem for each of the seven components, `StandaloneTypeCorrect`, and
  `RestInv` which joins their invariants.
  * `OneProbePerCoolDown`, `BreakerImplementsPromise`: `OneProbe` with the types is inductive, and
    every step maps to a step of `AbstractBreaker`, to a stutter under it or, if it is the
    report of a call other than the probe, to `Meddle`.  That the last is an exception and no
    part of the promise is what `PromiseKept` shows (section 4).  `AbstractBreaker` asks more than
    `OneProbe`: its `Close` takes the answer of the request last let through.
  * `StreamsTellTheTruth`: a run ends once.
  * `LimitsAreKept`: a request of the last window has its member still, since the key outlives it
    (`MembersStay`), and members are no older than a window for those that have trimmed, unless
    they came late (`MembersFresh`).
  * `PaceIsBounded`: what was let through since any tick, together with what is at hand, is at most
    the burst and twice what was earned (`PaceAwake`, `PaceAsleep`); tokens come in whole units of
    the rate (`WholeTokens`), so that rounding cuts no wait short.
  * `NothingIsSkipped`: the results are in the order of the edits (`LastFirst`), and while a
    listing turns, what it owes is found already or yet to come (`FoundOrAhead`).
  * `ListingsAreWhole`: a row that stayed was received once if the cursor is past it and not at
    all if it is not.
* `ChunkerProofs`, used by `StandaloneProofs` for `ChunksAreTheText`: what the calls have left is
  in order and behind what is chunked (`InOrder`); in a section that is not `overfull` no letter is
  outside both (`NothingLost`), and the tail has the last letters chunked (`TailIsLast`).  A piece
  that fits with its seam loses nothing but letters of the tail to the trim (`PieceFacts`,
  `FittingPiece`).  That the first or last n places of a text
  are n at most needs a least or greatest number (`LeastNumber`), which follows from the library's
  theorem on well-founded orders and stands in for induction.

Only model-checked: liveness (`EveryTaskEnds`, `EveryChangeSettled`, `StreamEnds`,
`HalfOpenEnds`, `RightsEnd`), which with fairness and ENABLED is out of this prover's reach; and
the three runs that are violated, whose counterexamples are TLC's.

## 6. Not modelled

* Settings, feedback, query log, audit log: one row is inserted or updated, and nothing happens
  between the steps.  Of the audit log the listing is in `Paging`.  The audit log, the query log
  and its history are best-effort and decide nothing.
* Parsing, tokenizing, language detection, embedding, password hashing, signing: libraries.  Their
  calls are part of a step that succeeds or fails.
* Scores, prompts, costs and the answer's text: `Retrieval` allows any ranking, and the
  generator may fail.  That citations carry numbers is a matter of text.
* The OAuth exchange, since its callback never gets past its state; the preview of a
  document, which reads and changes nothing.
* Drive's folder filter (section 4 says what it does to an error) and credentials, the creation of a source (one insert).
* Storage, vector and database clients, HTTP plumbing, observability, the web frontend,
  deployment: set up once, or read back by nothing that decides.
* `delete_chunks_for_doc`, `mark_doc_status`, `track_query`, `get_hot_queries`: no callers.

## 7. Plan

What is left, in this order:

1. An abstract `Index` (a document is absent, pending or shown at a version) that
   `KnowledgeBase` with one worker and one run implements: `StoredFirst`, `OneAhead` and
   `Undisturbed` are the invariant the mapping needs.
2. The same for the cache: `Retrieval` as a query over what was granted, with answers that are
   late by at most the life of a cached one.
3. The parts of the API listed under "Not modelled" that come to decide something, should they.
