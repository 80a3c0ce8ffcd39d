# A TLA+ model of the backend templates

The repository holds two Python services that share one Valkey. `litestar_backend` (in
`src/litestar_backend`) is an HTTP backend over PostgreSQL; `event_microservice` (in
`src/event_microservice`) is a worker without an HTTP side. Their running example is a video: a
client uploads its metadata, the backend announces it on the `video_uploaded` stream, the worker
fans it out into three jobs, and the outcome returns on the `video_status` stream, moves
`videos.status` and reaches browsers over a live feed. Around it the backend has accounts and
tokens, an admin surface with a log viewer, and the commands that start and stop its servers.

```
 POST /videos                video_uploaded                      SAQ queue
  UploadVideoUC --> outbox --> OutboxRelay ==========> handler --> 3 jobs --> join record
   (PostgreSQL)                                         (inbox)                  |
                                                                                 v
 videos.status <-- MarkXxxUC <-- VideoStatusConsumer <========================= publisher
  ^    ^    |                               video_status
  |    |    +--> videos channel --> GET /videos/feed, one SSE stream per client
  |    +-- DELETE /videos/{id}
  +------- POST /videos/{id}/cancel

 browser tabs, scripts --> AuthMiddleware --> resolvers --> guard --> pages, API
   (shared cookie)            users, API keys, denylist
                                                            log file --> follow, page, export
 start_litestar, --nohup, --stop --> port, pidfile --> server: migrate, start, serve, stop
```

| module | models | checked by | proved in |
|---|---|---|---|
| `VideoUpload` | upload, idempotency key, outbox, relay, sweeper | `MCVideoUpload` | `VideoUploadProofs` |
| `MediaProcessing` | upload handler, jobs, join, failure hook | `MCMediaProcessing` | `MediaProcessingProofs` |
| `VideoStatus` | consumer group, status use cases, cancel, delete | `MCVideoStatus` | `VideoStatusProofs` |
| `VideoLifecycle` | the abstract status machine `VideoStatus` implements | through `VideoStatus` | `VideoStatusProofs` |
| `VideoFeed` | the SSE streams and their limiter | `MCVideoFeed` | `VideoFeedProofs` |
| `TokenLifecycle` | token pairs: login, refresh, revoke, denylist, deactivation | `MCTokenLifecycle` | `TokenLifecycleProofs` |
| `Accounts` | the tables of users and API keys, keyset pages | `MCAccounts` | `AccountsProofs` |
| `AdminSession` | credentials, middleware, guard, login form, shared cookie | `MCAdminSession` | `AdminProofs` |
| `LogViewer` | the log's writers and rotation; follow, page, export | `MCLogViewer` | `AdminProofs` |
| `ServerProcess` | start, `--nohup`, `--stop`, lifespan, migrations | `MCServerProcess` | `ServerProcessProofs` |

## 1. Inventory

For each component: its state, its operations, what it talks to, what is hard in it, and what
makes it correct. Paths are relative to `src/litestar_backend/src` and `src/event_microservice/src`.

**media_processing** (event service). *State*: the `video_uploaded` consumer group's pending
entries, an inbox of processed event ids with a TTL, SAQ jobs with their attempts, and a join
record per video (a Valkey set of job kinds with a TTL). *Operations*: handle an upload, run a job,
complete a job, handle a job's failure. *Interactions*: reads `video_uploaded`, writes
`video_status`; nothing is transactional across inbox, queue, join and stream. *Hard*: every await
is a place to interleave or die; the backend's relay may append an upload twice; two fan-outs on
one join record; an entry that fails is never read again; retries against the record's TTL; a hook nobody retries. *Correct*: no acked upload is
lost; `video_processed` only after all work; the last job always notices that it is the last;
`video_processing_failed` only when a job has no attempt left.

**media_example, upload side**. *State*: tables `videos`, `outbox_messages`, `idempotency_keys`.
*Operations*: upload, relay cycle, purge. *Interactions*: one transaction over three tables, row
locks between relays, the stream. *Hard*: two requests with one key at once; the purge between a
lost claim and the lookup; a relay cycle that fails half way. *Correct*: one video per key, the
right replay, marked implies published, everything committed is announced.

**media_example, status side**. *State*: `videos.status` and `deleted_at`, the consumer group.
*Operations*: claim stale entries, read new ones, apply one, ack it; cancel; delete.
*Interactions*: stream, table and feed. *Hard*: read-modify-write without a lock; an entry that is
retried after its successors; takeover of entries by another consumer; loss of the group; a
consumer task that ends before its first cycle. *Correct*: the status machine, at-least-once, finality of a delete.

**SSE feed and limiter**. *State*: a counter of open slots per process, a subscription per stream.
*Operations*: take a slot, subscribe, deliver, heartbeat, end, be cancelled. *Hard*: a slot is
taken before the generator that frees it starts; the heartbeat's timeout cancels the iterator it
waits for; a client leaves at any await. *Correct*: slots in use are streams open; every client
gets an interval of the events; a client that leaves frees its slot.

**auth, tokens**. *State*: users, and a denylist of token ids with TTLs in Valkey; a token itself
is stateless. *Operations*: login, issue, refresh, revoke, resolve a bearer token, deactivate.
*Hard*: refresh is check-then-act over two stores; deactivation and revocation race it; lives in
whole seconds on one side and instants on the other. *Correct*: a revoked token is refused until
it expires by itself; a deactivated user gets no further pair.

**auth, users and API keys; keyset listing**. *State*: two tables with soft deletion, a partial
unique index on the active addresses, an outbox. *Operations*: register, deactivate, mint and
revoke a key, list page by page. *Hard*: requests that race on one address or one row inside open
transactions; timestamps that tie or become visible late; rows deleted between two pages.
*Correct*: one active account per address, an event for each account, one deleter per row, a walk
through the pages that lists nobody twice and misses nobody who was there all along.

**auth, middleware and guards; admin login and dashboard**. *State*: the browser's cookie, which
its tabs share. *Operations*: resolve a credential, guard a path, redirect to the form, log in,
log out. *Hard*: other tabs change the cookie between two requests; a credential is revoked or
expires under way; a store cannot be reached; the page a user wanted passes through a form field.
*Correct*: nobody but an administrator is shown a guarded page; a user lands where they wanted.

**admin log viewer**. *State*: a position in a file that others append to, truncate and rotate.
*Operations*: follow, newest page, older page, export. *Hard*: partial lines, lines in two
writes, offsets of an earlier file, a path that changes between stat, open and read. *Correct*:
each reader gets the complete lines of its range, once and in order.

**server process, lifespan, migrations**. *State*: the port, the pidfile, the metric shards, the
migration lock and log, the managers' tasks. *Operations*: start in the foreground or detached,
stop, migrate, start and stop the managers in order. *Hard*: every check is apart from what it
guards; two commands at once; a death with the lock or with a stale pidfile. *Correct*: each
migration once; commands one after the other keep port, pidfile and shards in line; every start
ends.

**db_example_litestar; the rest of the shared kernel; composition; deployment; site**: library
calls, wiring and formatting, without state of their own between two requests.

`PROJECT.json` lists every component with its status, and every hazard at its line.

## 2. How the modules follow the code

The rule for atomicity is the same everywhere: one `await` on Valkey, PostgreSQL or SAQ is one
step, since the event loop, another process or a crash can come between any two. What runs between
two awaits is part of the step. A PostgreSQL transaction is one step when nothing inside it can be
observed, and several when a lock it holds makes others wait. Synchronous code in separate
processes is cut at each system call another process can see. Exceptions and crashes are steps of
their own that spend one of `MaxFaults`. Variables marked "history" record the past for the
properties and guard nothing.

**`MediaProcessing`.** `Delivery` is one execution of `on_video_uploaded`, and goes by the position
of its stream entry: the subscriber (`StreamSub` with a group, no `min_idle_time`) reads new entries
only, so each is handed out once (`Receive`), in order among those that wait (`Deliverable`). An
event is handled twice when `Upload` appends it twice, as the relay may. `handler[d]` is a
delivery's program counter through `OnVideoUploadedUC`: `CheckInbox` (`seen`), `Enqueue` once per
`JobKind`, `PublishStarted`, `MarkProcessed`, `Ack`. `Raise` is a `PortError` or the death of the
process in any of these; the entry stays pending for ever. `job[d][k]` is the counter of one SAQ job
through `Work`, `AddToJoin` (the MULTI of SADD, EXPIRE, SCARD), `PublishProcessed`, `ClearJoin` and
`Finish`. `JobRaises` decides between retry and the `after_process` hook as `saq_worker.py` does,
`WorkerDies` as SAQ's sweep does; the hook is `HookPublish`, `HookClear`, and the two ways its work
can get lost. `worked`, `dropped` and `forgotten` are history. An exception in `finish` stands for a
Valkey call that took effect while its reply was lost.

**`VideoUpload`.** `step[r]` follows `UploadVideoUC`: `Claim` (INSERT ... ON CONFLICT DO NOTHING,
which waits for an uncommitted insert of the same key), `Commit`, `ReplyCreated`, or `Find` after
a lost claim. `Fail` rolls an open transaction back. The relay is `ClaimRows` (FOR UPDATE SKIP
LOCKED), one `Publish` per row, `MarkSent`; `DrainFails` is the rollback. `Expire` and `Purge` are
the key's `expires_at` and the sweeper. A video id is fresh, so a request stands for its video.

**`VideoStatus`.** `owner` and `stale` are the group's pending entries list with its idle times
reduced to "longer than `claim_idle_ms`". A consumer alternates the two halves of `drain_once`
(`ClaimStale`, `ReadGroup`); `RecreateGroup` and `ReadWithoutGroup` are the NOGROUP paths. An
entry goes `LoadEntry` (read the row, move the copy), `Save` (commit), `Broadcast`, `Ack`, or
`SkipEntry` (DomainError, AppError) or `DropUnusable`. `Raise` abandons the rest of the batch, as
`run_forever` does by logging and starting a new cycle. Before the loop there is nobody to catch
one: if `ensure_group` raises, the task is over (`StartFails`, "stopped") while its process lives
on and keeps its place among the `Workers`. A cancel request runs the same `Load`, `Save`,
`Broadcast`. `Delete` is one UPDATE. Of the history variables, `overtaken` has whoever is about to
save a copy of a video that somebody else has saved since (`Overtake`).

**`VideoLifecycle`** is what the rest of the system may assume of the status column: each video
moves along `_ALLOWED`, one edge at a time, except while it is `contested`, that is while a stale
copy of it is about to be saved; then it moves by one edge from some status that it has had
(`Overwrite`). `VideoStatus` implements it with `state <- status`, the committed rows,
`had <- reached`, and `contested` the videos of `overtaken` copies. A save that nobody has raced
always is a plain `Transition`.

**`VideoFeed`.** `stream[c]` follows one GET /videos/feed: `Acquire` (the limiter, taken in the
handler), `Subscribe` (the generator's first step), `Deliver`, `Heartbeat` (the keep-alive after a
`TimeoutError`) and `EndAfterHeartbeat`: `wait_for` cancelled the iterator's `__anext__`, which
finishes the subscription, so the stream ends with the next poll. `Close` is the `finally`,
`Disconnect` the cancellation, `FailToSubscribe` a channel that raises. A response that is never
iterated has a generator that never starts, so its `finally` never runs: `NeverStart`. `active` is
the counter of the limiter, apart from the streams it should equal. `Publish` appends to the
backlog of every subscriber.

**`TokenLifecycle`.** A request of `step[r]` is one call of login, issue, refresh, revoke or the
bearer resolver. Verification is synchronous, so it is part of the arrival (`Login`, `Refresh`,
`Authenticate`, `Revoke`); `Lookup` and `CheckDenylist` are `denylist.contains`, `CheckActive` is
`is_active`, `MeasureLife` the second reading of the clock, `AddToDenylist` the SET with EX,
`IssuePair` the answer, `Fail` a PortError or an aborted request. `clock` counts ticks, `Ticks` to
a second: `ExpiresAt` cuts `exp` to whole seconds as the JWT does, `Seconds` is the `math.ceil` of
the denylist's TTL, and `Tick` can come between any two steps. One clock serves the backend and
Valkey. `late` and `revoked` are history: what had been withdrawn when a request came in.

**`Accounts`.** Rows of both tables are in one `status`: "inserted" is a row that only its own
transaction sees, `holder` the transaction that has written the row. A registration is `Register`,
`Insert` or `RefuseTaken` (the violation of `ix_users_active_email`), and `Commit`, which reveals
the user and the event together; the index makes an insert wait while an open transaction may add
or remove an entry (`MustWait`). `DeactivateUser` and `RevokeKey` are `SoftDelete`: `Update` is
`UPDATE ... WHERE deleted_at IS NULL`, which waits for another writer and looks again,
`UpdateNothing` its rowcount 0, `CommitDelete` the commit. `created` is `now()`, the beginning of
the transaction, so rows become visible in another order than they are stamped. `NextPage` is one
query with the keyset predicate over `(created_at, id)`; a full page carries a cursor, also when
nothing is left behind it. `Fail` rolls back, or loses only the answer.

**`AdminSession`.** An actor is a tab or a script; a request is `Visit` (extraction of the
credential, and the verification of a token, before the first await), `Lookup` (the resolvers in
their order, with the look at the denylist; a `PortError` makes the request anonymous), `Guard` (the
role, and the two handlers of what it raises), `LoginForm` after the redirect with its `next` field,
`Submit`, then `Throttle` (the rate limiter), `RejectLogin`, or `VerifyLogin` and `CheckLogin` (the
two halves of `authenticate`), and `LoggedIn`, the cookie and the redirect to `_safe_next`. `cookie`
is shared by the tabs and may be there at the start. `Revoke` puts a token on the denylist or
deletes a key, `Expire` ends a token's life, at any time. A denylist entry lives as long as its
token, so of one that has expired it may be there or not (`Denied`). `Logout` clears the cookie and
revokes nothing, as in the code. `was` is history: what the credential was when the request came in.

**`LogViewer`.** A file is a sequence of pieces; a line is one piece or two, its newline in the
last. A writer stats the path and opens it anew when its inode has changed (`Reopen`), then writes
a line at once (`WriteLine`) or, when it is larger than the stream's buffer, in two calls
(`WriteFirst`, `WriteRest`). `Rename`, `Create` and `Truncate` are logrotate and operators.
`follow` is `FollowInode`, `FollowSize`, then cycles of `Poll` (one `os.stat`), `DrainStat` and
`Drain` (what is left of a file that was rotated), `ReadDelta`; `carry` is its partial line. The
pager is `TailInode`, `TailRead`, then `CheckInode` and `OlderRead` per page; `PageStart` is the
reverse reading in chunks. The export is `Open` and one `ExportChunk` per chunk of the file it
holds open. `disturbed` says whether the path changed, and whether between two reads or during
one.

**`ServerProcess`.** `start[p]` is the launcher, `server[p]` the process it launches, `cmd[c]` a
`--stop`. A detached start is `LaunchDetached` (the look at the port, and the runtime directories,
which it may fail to make), `Spawn`, `OpenPidfile`, which empties the file, and `WritePidfile`,
which writes to nobody if the file was unlinked in between. A server is `CheckPort`, `Bootstrap`
(wipe the shards), `TakeLock` or `LockTimeout`, one `Apply` per migration, `StartTasks` and
`StartDbExample` in the order of the managers, `Bind`; then `Shutdown`, `Drained`, one `StopManager`
per manager, `Close`. A stop is `LookForPidfile`, `ReadPidfile`, `Kill`, `Unlink`, or `ProbePort`
when there is none. `Signal` ends a server that has not yet installed uvicorn's handler and asks a
later one. `Die` can come anywhere and leaves the lock and the pidfile behind; `Recycle` gives its
pid to a foreign process. `Probed` is `ss`, whose failure reads as a free port to whoever looks
(`Misread`): launcher, server or stop.

Outside `src/`, and so modelled from how it is used: SAQ (a job is started at most `job_retries`
times; a sweep requeues or aborts what a dead worker held), Valkey's consumer groups (XREADGROUP,
XAUTOCLAIM, XACK, XGROUP), PostgreSQL's unique index and row locks, FastStream, which without a
`min_idle_time` reads a group's new entries and nothing else, `asyncio.wait_for` and generators,
uvicorn's order of lifespan, listening and signals, yoyo's lock table, logrotate.

## 3. Runs

| run | instance | shows |
|---|---|---|
| `media_processing_races` | 1 video, 2 kinds, 2 entries handled at once, 1 attempt per job, 1 fault | `AckedIsDone`; `CompletionNotLost` |
| `media_processing_liveness` | 1 video, 2 kinds, 2 entries, one consumer, 2 attempts, 2 faults, fair | types; `ProcessedMeansAllWorked`; `FailedMeansExhausted`; `EveryUploadSettles` |
| `video_upload` | 2 requests, 1 key, 2 payloads, 2 relays, 2 faults, fair | types; `Idempotency`; `OutboxDelivers`; `EveryVideoIsAnnounced`; `EveryRequestIsAnswered` |
| `video_status_races` | 2 videos, 2 live consumers, 1 cancel, deletes, 1 fault | types; `AckedIsSettled`; `DeleteIsFinal`; `Lifecycle` |
| `video_status_lifecycle` | 1 video, 1 live consumer with 2 successors, deletes, 2 faults, fair | `AppliedInOrder`; `EveryEntryIsAcked` |
| `video_feed` | 3 clients, 2 slots, 3 events, fair | types; `SlotsAreStreams`; `FeedIsContiguous`; `SlotsComeBack` |
| `token_lifecycle` | 4 requests, 1 user, 2 ticks per second, 1 fault | types; `RevokedUntilExpiry`; `WithdrawnIsRefused`; `DeactivationEndsTheChain` |
| `accounts` | 4 requests, 3 users, 1 key, 2 addresses, pages of 1, 2 instants, 1 fault | types; `OneAccountPerEmail`; `DeletedOnce`; `WalkListsEachOnce` |
| `admin_session` | 2 tabs, 1 script, 4 paths, 3 credentials, 3 visits, 1 fault | types; `AdminsOnly`; `LandsOnGoal` |
| `log_viewer` | 2 writers, 4 lines, 2 files, 1 truncation, each reader in turn, fair | types; `ReadersAreExact`; `PagesWalkTheFile`; `SurvivesRotation` |
| `follow_replays_history` | 1 writer, 3 lines, one of them torn, no rotation | violated: `HistoryNotReplayed` |
| `server_process` | 2 servers, 1 stop, 3 migrations in 2 contexts, 2 faults, fair | types; `MigratedOnce`; `OneAtATime`; `EveryStartEnds` |

**Bounds.** Two entries are the least with which an upload is fanned out twice, at once or one after
the other. One video is enough where videos share no state (join record, inbox mark and row are per
video); two share a batch in `video_status_races`. Two kinds are enough to have a first and a last
job, two attempts are a first and a last one (the setting is 3), two faults exhaust a job, or fail a
handler and lose something afterwards; where two consumers work at once a job has one attempt, so
that one fault exhausts it and its hook runs, or gets lost, which costs no further fault. Two
requests with one key are the least that conflict, two relays and two consumers the least that
compete; two successors let a worker die twice. `Streams` are sequences `MediaProcessing` can
produce. One client more than slots meets a full feed, three events pass a heartbeat on either side.
Four token requests log in, refresh, revoke what came of it and present it; two ticks per second are
the least in which a life falls between whole seconds, and three ticks outlast every token of the
first second. Four account requests are three writers and a walk, or a race for one row with a walk;
pages of one row make every page full and every boundary a place to lose something, two instants
make ties and inversions. Two tabs are the least that share a cookie; the three credentials are the
static token, an administrator's JWT and a user's API key, so that all three resolvers, both roles
and a token that an administrator revokes are there; the four paths are two pages, an API path and
one that takes no cookie. Four lines, three of them long, one of these malformed, exceed a page, a
chunk and a buffer; two files are a rotation. Two servers and a stop are the least that race for
port, pidfile and lock. TTLs expire at any moment, but each expiry is a fault, and `Expire` in
`VideoUpload` is free.

`log_viewer` lets long lines reach a pager and an export torn, a follower only whole (`TornFor`):
what a torn line does to a follower is the finding of `follow_replays_history`, and with it no
property of the follower holds.

**Fairness.** A step that is enabled and is not a fault is eventually taken: the event loops and
commands run as long as their process, and `docker-compose.yml` restarts the services (`restart:
unless-stopped`). In `MediaProcessing` it is one condition over all that consumers and workers do
(`Progress`): something is done while anything can be. Each of the others has its own: requests and
relays in `VideoUpload`; starting, polling, handling and `Elapse`, the passage of time, in
`VideoStatus`, where a start may fail instead and nobody repeats it; the generators in `VideoFeed`;
the polling loop of `LogViewer`; launchers, servers and stops in `ServerProcess`. Users' and
operators' actions (uploads, deletes, clients that come or leave, rotations, commands), expiries and
all faults are not fair. Faults are finite, that is, the dependencies recover.

**Deadlock** is not checked: every part is idle once everything is handled, and in the bounded
instances once every name is used up. The liveness properties say instead that nothing waits for
ever.

## 4. What the code does otherwise than it says

`follow_replays_history` has a run. `_read_delta` (`log_file_source.py:190`) adds to the position
the bytes of a partial line that it had counted when they were read, so when the rest comes, the
position is past the end of the file; the next poll takes that for a file that shrank and yields
it all from the start. `i_log_follower.py:13-14` says that history is not replayed.

The following came up in reading and in models that were not turned into runs:

1. `docs/contract/video_status.md:76-78` says `video_processing_started` always precedes
   `video_processed`. The handler enqueues the jobs first (`on_video_uploaded_uc.py:17`), so three
   quick jobs can finish before; the consumer then refuses `video_processed` and acks it.
2. `status_consumer.py:84-85` calls an acked DomainError "permanently inapplicable". After a
   transient failure the start waits to become stale while the next cycle reads the terminal
   event, refuses and acks it (line 173); the video stays in `processing`.
3. `video_controller.py:98-99` promises 409 for a terminal video. `MarkFailedUC`
   (`status_ucs.py:47`) reads, checks and upserts with nothing held in between, so a cancel can
   overwrite a DONE committed meanwhile, and so can a second consumer: compose runs two workers
   (`docker-compose.yml:53`, the image one). `Lifecycle` is checked with both and says how far the
   damage goes: only while a stale copy is under way, and by one edge from a status the video has
   had. `OneWorkerIsNotOvertaken` says what it takes.
4. `refresh_tokens_uc.py:37` calls a refresh token one-time, but the denylist is read at line 22:
   two refreshes with one token can both return a pair.
5. A token that expires between its verification and the look at the denylist is not found there
   any more, so a revoked one is accepted once; `WithdrawnIsRefused` and `AdminsOnly` exclude exactly
   that, and both runs have the case.
6. `error_handlers.py:21-22` says the user lands on the page they intended; the query of its URL
   is dropped, so `LandsOnGoal` is about paths.
7. The follower reads lines twice when the file is exchanged between a poll's stat and its read, or
   when a truncated file grows again before it is drained; `AtMostOnce` excludes both. A page that
   is read across a rotation takes an offset of the old file for one of the new
   (`file_log_reader.py:28`), which `PagesWalkTheFile` excludes. A page whose lines are all
   malformed is empty and ends the walk though history is left, which `StopIsTheEnd` excludes. An
   export has lines that were appended after it was opened (`i_log_reader.py:52-54`). Rows between
   the tail page and the start of the stream are in neither.
8. A feed stream ends after its first keep-alive: `wait_for` cancels the `__anext__` it waits for.
   A response whose generator is never started keeps its slot; `SlotsComeBack` excludes it.
9. Detached starts that overlap leave the pid of the loser in the pidfile and wipe the shards of
   the server that runs; `--stop` in the middle of a write unlinks the file. `OneAtATime` is about
   commands that do not overlap. A server killed with the migration lock blocks later starts, and a
   stale pidfile whose pid was given away makes `--stop` signal a foreign process.
10. `uploaded_consumer.py:37-40` leaves a failed upload "un-acked for redelivery", and
   `app/interfaces.py:102` and the inbox are built on it. The subscriber at lines 26-28 has no
   `min_idle_time`, so it reads new entries only, and no code claims or reads pending ones: after
   a handler has raised, the upload stays pending for ever and its jobs may be half enqueued. Work
   is repeated only when the backend's relay appends an entry again. `EveryUploadSettles` is about
   the entries whose handlers do not raise. On the other stream `status_consumer.py` does claim.
11. `status_consumer.py:90` claims at-least-once delivery "across restarts and worker replacement".
   Line 69 awaits `ensure_group` outside the loop that catches: if Valkey is out of reach when the
   backend starts, the task ends, `lifespan_manager.py:27-31` does not look at it again, and the
   process serves requests without a consumer until it is restarted. `EveryEntryIsAcked` excludes
   only that this happened to every worker.

## 5. Proofs

Eight modules of proofs establish `Spec => []P` (or `[][A]_vars`) for any values of the constants
that satisfy the module's `ASSUME`. Hardly any `P` is inductive; each follows from a
strengthening, proved by one lemma per conjunct or per kind of step, with one case per action.

**`MediaProcessingProofs`**: any numbers of videos, kinds, deliveries, replicas, attempts and
faults. `JobOrder` enumerates the finite non-empty `JobKind`; `Malformed` is not a video.

- `TypeCorrect`: `TypeInv` adds to `TypeOK` what a delivery knows at each step (`HandlerControl`:
  which jobs it has not enqueued yet, which video it decoded) and that a queued job has an attempt
  left (`JobControl`). Without these, `next` and `attempts` could leave their range.
- `ProcessedOnlyWhenWorked`: `WorkedInv` follows the evidence: a job past `Work` has worked, the
  join record holds only kinds that have worked, so a full count (a set of kinds as large as
  `JobKind` is `JobKind`) means that all have.
- `LastJobAnnounces`: `CompletionInv` says that unless the record was dropped or the video is
  announced, every job that returned is still in the record, and of some kind no job has returned:
  that kind's job will find the record full. A record is cleared only after the publication.
- `AckedIsFannedOut`, `AckedIsInInbox`, `AckedStaysDone`: `FanOutInv` carries the facts from the
  handler to the inbox mark (marked or forgotten means fanned out) and from the mark to the ack.
- `FailedOnlyWhenExhausted`: `ExhaustedInv` says that a job in the hook or failed has used all
  attempts, and that a published failure has such a job behind it.

**`VideoUploadProofs`**: any numbers of requests, keys, payloads, relays and faults, any batch
size; `Request` is finite and `None` is no stored row.

- `UploadTypeCorrect`: adds what a transaction holds and what a relay has claimed (`Locked`: rows
  that are unsent and no other relay's).
- `KeysAreIdempotent`: `UploadInv` follows the key. One that an open transaction inserted is held
  by that transaction only and has no committed row (`Held`); a stored answer is that of the video
  its request created, and stays until the sweeper deletes it (`Stored`, `Kept`); a replay repeats
  it (`Replied`).
- `RowsAreDelivered`: `OutboxInv` says that what a relay has published or the table has marked is
  in the stream (`Done`, `Marked`), and that as long as no cycle failed the stream holds each row
  once, and only rows that are marked or still claimed (`Accounted`).

**`VideoStatusProofs`**: any numbers of videos, consumers, cancel requests and faults, any batch
size, any streams; `Consumer` is finite and `None` is not in it.

- `StatusTypeCorrect`: `InHand` adds that a consumer at work has an entry in its batch, which is
  what makes `Current` one, and that who saves has a copy. That the next entries of a read close up
  with those read before is an argument about the cardinality of an interval (`NextEntries`).
- `AckedEntriesAreSettled`: `OnEntry` says that the copy in "save" is what the current entry asks
  for and that after the save the entry is settled. What is settled stays so, as the stream, the
  refusals and the statuses reached only grow.
- `DeletesAreFinal`, an action property: whoever is about to save was so before or loads now
  (`SavesComeFromLoads`), and a load meets no deleted row.
- `StreamIsAppliedInOrder`: `OrderInv` says that a single worker which has met no fault and no
  cancel request holds exactly the last entries it has read, and that the rows are what the entries
  up to the current one lead to (`AtWork`), its copy one step ahead (`Ahead`). `Outcome` is a
  recursion over the stream; that it exists is proved (`OutcomeDef`), and after that only its step
  from one entry to the next is used.
- `StatusImplementsLifecycle`, the refinement, for all constants: `Traced` says of whoever is about
  to save that the copy is one edge from a status the video has had, and, unless the copy has been
  overtaken, from the one the row still has. So a save is a `Transition`, or an `Overwrite` of a
  contested video (`SaveMoves`). What another's save does to a copy is that it becomes overtaken
  (`OvertakenChanges`); only saves, exceptions, deaths and failed requests take one off the set.
- `OneWorkerIsNotOvertaken`, for `Workers = 1` and `Canceller = {}`: at most one consumer is alive
  (`Single`), whoever saves is alive, and nobody overtakes itself.

**`TokenLifecycleProofs`**: any numbers of users, requests and ticks per second and any lifetimes;
`Request` is finite and `None` is neither a user nor a token.

- `TokenTypeCorrect`: `TypeInv` adds that a request at work presents an issued token; the bound on
  the number of pairs is an argument about cardinality (`Counted`).
- `RevokedStaysDenied`: `RevocationInv` says that what a request measured covers the rest of its
  token's life (`Measured`, from a lemma on rounding up), and that a revoked token's entry lasts to
  its expiry, or the token is over (`Listed`).
- `LateTokensAreRefused`, `LateUsersAreRefused` and both together, `LateIsRefused`: the token of a
  late request stays revoked (`LateToken`), and a late request is not past the look at the users
  (`LateUser`).
- `ChainEnds`, an action property: `NobodyPast` is kept by every step, and a pair is appended only
  for nobody or for the user of a request in `issue`.

**`AccountsProofs`**: any numbers of users, keys, addresses and requests, any page size.

- `AccountsTypeCorrect`: a row's holder and the request that holds it agree (`Locked`, `Locks`).
- `EmailsAreUnique`: `OneEntry` says that an address has at most one row that is inserted or
  active, committed or not; an insert finds none, and a rollback or a deletion only removes one.
  `Staged` carries the event with the row.
- `WalksListEachOnce`: `WalkInv` says of each walk that its pages descend in the keyset order
  (`InOrder`) and that the cursor cuts the users in two: whoever was listed is at it or above it,
  and whoever was committed before the first page and is active still is listed or below it
  (`Cut`). This needs the order to be total (`OlderOrder`), which is why the code sorts by creation
  and id; a row that is committed late above the cursor is in nobody's `witness`.
- `RowsAreDeletedOnce`: `Deleted` says of a request that was told so that its row is deleted, and
  of two requests that their rows differ; only a holder commits, and a deleted row has none.

**`AdminProofs`, about `AdminSession`**: any tabs, scripts, paths and credentials. The inductive
parts are `Sound`, `InBrowser` and `OnTheWay`.

- `SessionTypeCorrect`: adds that a tab presents what is an administrator's, or nothing, so it
  never meets a 403.
- `OnlyAdminsAreShown`: a role of "admin" at the guard comes from an administrator's credential
  that was not expired when it was verified, and that the look at the store did not find revoked,
  unless it is a token that has expired since (`RolesOfAdmins`, `Presented`). What was revoked
  stays so, hence what came in revoked and is let through is such a token.
- `EveryoneLandsOnGoal`: the `next` of a form and the path of the request agree with the goal at
  every stop of the way through the form.

**`AdminProofs`, about `LogViewer`**: any numbers of writers, lines, files and truncations, any set
of long and of malformed lines, any chunk and page sizes. The inductive invariant is `LogInv`:
`FileInv` and, unless a follower meets lines in two halves, `ReaderInv`.

- `FileInv` is about the file, whoever reads it: each piece is in it once and only of lines that
  were begun (`Pieces`), the end of a line that is half written is in no file yet (`Halves`), and
  what a follower sees are whole lines, in order (`Whole`). Without the first, no bound on a
  position could be proved, as the length of a file is bounded by counting pieces (`SizeBound`).
- Two lemmas say what anybody else can do to a reader between two of its steps: a writer makes one
  file longer (`Appended`), a rename, removal or truncation disturbs (`Exchanged`). So each reader's
  invariant has one lemma per step of its own and these two.
- `LogTypeCorrect` and `WhatReadersGetIsExact`. For a follower: what it can still be sent was not
  there before it came, wherever its poll, drain and read are (`Unknown`); as long as no exchange
  falls behind a poll, what can still be read is later than what was sent (`Forward`); and while
  nothing is exchanged it is in one file, at the end of a line, and has been sent the entries from
  `start` to `pos` (`Exact`). For an export: what is carried over is the piece of the file in front
  of the offset, so a chunk boundary inside a line changes nothing (`ExportInv`). Both theorems
  assume `"follow" \notin TornFor`, which the code does not guarantee: with torn lines they are
  false, which is the finding `follow_replays_history`.
- `HistoryIsWalked` assumes nothing: `PageInv` adds to `PagesWalkTheFile` that a cursor is always
  the beginning of the file or just behind a newline, also when the tail ended in a torn line.
  `PageStartFacts` is about the reverse reading in chunks: it stops at the beginning of the file or
  right behind the newline with `Limit` more newlines from there to the cursor, whatever the chunk
  size. What the walk leaves out is then behind a page of `Limit` lines that are all malformed.
- The lines of a sequence are a recursive function over its positions. That lines and entries of
  a concatenation are those of its parts (`RawConcat`, `EntriesConcat`, the latter if the first part
  ends with a line), that they increase and how many they are is proved by induction in the form
  of a least counterexample (`Minimum`, `Climb`).

**`VideoFeedProofs`**: any numbers of clients, slots and events; `Client` is finite.

- `FeedTypeCorrect`, `SlotsAreCounted`: the counter is the cardinality of the holders, so it is
  positive whenever one of them releases, and the `max(0, ...)` of the limiter never hides anything.
- `FeedHasNoGaps`: `InOrder` per client, through arithmetic on the lengths of the two sequences.

**`ServerProcessProofs`**: any numbers of servers, commands, migrations and faults.

- `ServerTypeCorrect`: adds that a stop that is about to signal has read a pid.
- `MigrationsRunOnce`: who applies migrations has the lock, and its plan is exactly what has not
  been executed (`Locked`), whoever died with the lock before. What has been executed is closed
  under the migrations before it (`Closed`), so the oldest of a plan comes last in its context.

- `CommandsOneAtATime`: `AlwaysInv` says of any behaviour which pid can be in the pidfile and who
  can have been signalled; `AloneInv`, as long as no two commands overlap, that a server comes up on
  a free port, with its shards in the directory and its name in the pidfile (`OwnTraces`), and what
  a stop on its way can still find (`StopFacts`). The history variable `alone` is never set again, so
  the second part may be assumed of the state before.

Every invariant and every action property that a run checks is proved. Only model-checked: all
liveness, as the prover has no rules for fairness (`EveryUploadSettles`, `EveryVideoIsAnnounced`,
`EveryRequestIsAnswered`, `EveryEntryIsAcked`, `EveryStartEnds`, `SlotsComeBack`,
`SurvivesRotation`); and that `HistoryNotReplayed` is violated for torn lines, which is a
counterexample and no theorem.

## 6. Not modelled

Within the modelled components: which rows the relay takes first (`created_at` is the
transaction's start, so commit order may differ), validation of request bodies, an upload entry
without a payload field, read-only queries, passwords, hashes and signatures, CSRF tokens, filters
and rendering of the log viewer, more than one worker per server (`APP_WORKERS`) and the reloader.
An event stream that was authenticated once runs on after its credential is withdrawn; no model
relates the two. `EXPIRE` of the inbox and the join is an event without a clock.

- *db_example_litestar*: each operation is one call of an advanced-alchemy service in a transaction
  of its own; what it does is decided by that library. Its manager is in `ServerProcess`.
- *Health and readiness* probe and answer; metrics, logging and DTOs count and format.
- *Composition and configuration* run once, before anything concurrent; the settings the models
  need are their constants.
- *Video listing* uses the same keyset predicate as users and is walked there.
- *Deployment and site*: only the rotation of the log has behaviour, in `LogViewer`.

Some hazards are listed without a property, as the code does not guard against them and there is no
promise to check: an upload entry that is never read again, a failed job that clears a record which
others are filling (the consumer takes whichever terminal event comes first), status events out of
order after a retry, a page of the log read across a rotation, and a stale pidfile whose pid is
somebody else's. The models have these behaviours, and section 4 says what they lead to. One more is
outside the models: two readiness probes share one file, and the one that comes second to unlink it
reports a healthy log directory as down (`health_controller.py:23`).

## 7. What could come next

1. The safety half of the liveness properties as theorems: a measure of what is left to do that every
   fair step lowers and no other step raises but for a new request or a fault.
2. `MediaProcessing` and `VideoStatus` composed over `video_status`, so that the streams the
   consumer meets are exactly those the worker produces.
3. Several workers per server, which share the migration lock, the port and the log file.
