# Network Log Server: formal models, checks and proofs

Network Log Server takes syslog records of NAT sessions from routers, buffers
them in Redis, writes them to ClickHouse in batches and serves a web interface
to search them. This directory holds TLA+ models of its core, the TLC instances
that check them and the TLAPS proofs about them. Paths below are relative to
the repository's `src/`; `b/` stands for `backend/app/`.

    routers --UDP/TCP--> receiver --RPUSH--> Redis queue --claim--> worker --INSERT--> ClickHouse
                            ^                    ^  in-flight lists --/                    |
                        allow-list set           '--- maintenance (orphans, archives) <----'
                            ^
                  API (SQLite routers table) <-- web frontend, command line

## 1. Inventory

For each part: its state, its operations, whom it talks to, what is hard about
it, and what makes it correct.

**Receiver ingest** (`b/services/receiver.py:117-382`), one event loop per
process, several processes. State: `_buffer`, `_pushing`, `_paused_until`.
`handle` (callback, may not await) parses and appends; a full buffer or the
flusher's tick creates a `_push` task, which swaps the buffer and awaits one
RPUSH; `_check_backpressure` looks at the queue's depth and sheds for five
seconds; SIGTERM cancels the flusher, closes the sockets, pushes once more and
ends. Hard: the flag that keeps pushes apart, RPUSH failures of unknown effect,
the drain beside a running task and open TCP connections. Correct if every
accepted record is pushed or counted, in order, and none waits for ever.

**Redis queue** (`b/queue/redis_queue.py`). State: the list `nls:queue` and one
list per worker id, `nls:inflight:<id>`. Two Lua scripts move entries between
them in chunks of 1000, RPUSH adds and DEL acknowledges. Hard: index
arithmetic, LPUSH's reversal, lost replies. Correct if entries are moved
exactly once and in order.

**Batch worker** (`b/services/worker.py`). State: the claimed batch, the event
`_stop`, and its in-flight list in Redis. `run` releases its list, then claims
and inserts with retries, acknowledges, and hands back on a stop. It is
restarted by systemd. Hard: each await may fail with unknown effect, a kill
may come between insert and ack, the id changes with the pid. Correct if
nothing is lost, claims are exclusive, duplicates are confined, and everything
is stored in the end.

**Maintenance** (`b/services/maintenance.py`, a daily timer). Orphan recovery
lists pids, scans the in-flight keys and requeues those of dead workers, while
workers run. Archiving exports closed months to files, records them in SQLite
and optionally drops the partition; pruning deletes old files. Hard: the list
of live pids ages during the scan; rows may arrive between export and drop; a
failing step after the run was marked a success. Correct if it takes nothing
from a live worker, and drops only what a file holds.

**Router allow-list** (`b/api/routers_api.py`, `RouterRegistry` in
`b/services/receiver.py:45-114`, `b/database/meta.py:139-202`,
`b/cli.py:84-93`). State: the routers table in SQLite, the Redis set published
from it, each receiver's own set, refreshed periodically with SQLite as the
fallback. Hard: two API processes publish concurrently with receivers; failed
publications; a cache that is old but not empty. Correct if receivers follow
the table.

**Metadata store** (`b/database/meta.py`): users, routers, settings and archive
history in SQLite, each call one transaction. Correct with its callers.

**Metrics** (`b/metrics.py`): counters in memory, flushed to Redis every two
seconds, folded back if that fails; a last flush at stop; rates from counter
differences. Hard: a partly executed pipeline, a cancelled flush, a reset.

**Authentication** (`b/auth`, `b/api/auth_api.py`, `b/api/deps.py`): login with a
failure counter in Redis, signed cookies, password changes. Hard: check and
increment are separate, several processes, a login that writes the row after
awaits. Correct if the throttle holds and ends, and the password set last stays.

**Search** (`b/api/search_api.py`, `b/database/clickhouse.py:65-191`): a query of
one page plus one row in a thread pool over a shared client. Hard: two limits
that interact, a client that one thread closes while another uses it. Correct if
paging shows every row once, and one request's failure is not the next one's.

**Settings** (`b/api/settings_api.py`, `b/cli.py:128-139`): retention in
ClickHouse's TTL and in SQLite, the logo's file and its name in SQLite. Hard:
two stores, one of which may fail; concurrent changes.

**Parser** (`b/parser`): regular expressions over one line. **TCP framing**
(`b/services/receiver.py:220-261`): a byte buffer cut into lines, bounded.
**Configuration** (`b/config.py`): YAML with bounds. **Command line**
(`b/cli.py`). **System status** (`b/api/system_api.py`): reads.
**Frontend** (`frontend/assets/app.js`): one page, asynchronous requests.
**Deployment** (`install.bash`, `systemd/`, `docker/`, `nginx/`).

`PROJECT.json` lists the same parts under `components`, and under `hazards`
what is hard to test in each, with the properties that cover it.

## 2. Plan

1. **Delivery** (done): `Delivery` (what is promised), `BatchWorker` (queue,
   workers, orphan recovery; implements `Delivery`), `QueueScripts` (the Lua
   scripts `BatchWorker` takes as atomic).
2. **Receiver** (done): `Ingest`.
3. **Composition** (done): `Pipeline`, in which `Ingest` feeds the queue of
   `BatchWorker` and its depth makes the receiver shed.
4. **Allow-list** (done): `AllowList`.
5. **Archive** (done): `archive_partition`, `prune_archives` and `run` against
   late inserts, failures at every step and kills.
6. **Search** (done): `SearchPage`, the browser's pager, the endpoint and the
   query of one page.
7. **Accounting** (done): `TcpFraming` and `Metrics`, which `Accounting`
   composes: what a receiver makes of a TCP stream and tells of it.
8. **Settings** (done): TTL, settings, logo files.
9. **Web requests** (done): `Login` and `ClickHouseClient`, which `Api` composes.
10. **Proofs** (done): `BatchWorkerProofs`, `PipelineProofs` (which proves
    about `Ingest` too), `QueueScriptsProofs`, `ArchiveProofs`, `AdminProofs`
    (`Settings` and `AllowList`), `ApiProofs`, `SearchPageProofs`,
    `AccountingProofs`.

What could follow: several `Ingest` processes in front of one queue; a reboot
that loses the last second of Redis's log; an archive run of the timer beside one
started with `nls-admin archive`, which use the same temporary file.

## 3. The modules and the code

### BatchWorker

State: `queue` and `inflight[w]` are the Redis lists; `stored` and `dup` the
rows of the table, once and more than once; `pc[w]`, `batch[w]` and `stop[w]` a
process of worker id `w`; `todo` and `live` the maintenance run's scan;
`arrived` numbers the records in the order of the push. `window` is a history
variable: records whose insert takes effect without an ack that deletes them.
An id is not a process: with pids in ids a restart is a start of another id.

| Action | Code |
|---|---|
| `Push` | `push_many`, RPUSH of a batch |
| `Start`, `Kill` | systemd's restart, SIGKILL; `Kill` during an insert may store any part of it |
| `Recover`, `RecoverFail` | the release at the head of `run`, outside any try |
| `Signal` | the handler sets `_stop` |
| `Claim`, `ClaimReplyLost` | the claim script with and without its answer; an empty answer and a claim that failed unexecuted change nothing |
| `BeginInsert`, `InsertOk`, `InsertFail` | `asyncio.to_thread(insert_rows)`; a failing insert may have stored the rows of one monthly partition |
| `Ack`, `AckFail` | DEL of the list by name; a failure ends the process |
| `HandBack`, `HandBackFail`, `Shutdown` | the stop while retrying, and at the end |
| `MaintStart`, `MaintVisit`, `MaintAbort` | `recover_orphaned_claims`: the ids once, then the keys in any order |

Specifications: in `Spec` every claim is answered; `LossySpec` adds
`ClaimReplyLost`, after which records are lost (section 5); `WorkersSpec` is
`LossySpec` without maintenance runs. `Pipeline` takes the worker's steps with
lost replies.

Abstracted: payloads are record numbers, `Undecodable` the ones `decode`
rejects; metrics, logging and sleeping (a sleep only delays the next test of
`_stop`). `wait_for_redis` gives up after thirty attempts, which is a start that
has not happened.

### QueueScripts

One step per `redis.call` or loop iteration; `src`, `dst`, `items`, `i` are the
scripts' keys and locals, `at` the line. `Chunk` is 1000 in the code. Redis
commands are modelled as the scripts use them. `ListsInOrder` at `at = "done"`
is what `ClaimScript` and `Requeue` of `BatchWorker` take for granted.

### Ingest

A step is what runs between two awaits. `buffer`, `pushing` and `paused` are the
fields; `created` counts push tasks that exist and have not started, `sending`
holds the batches of those that wait for Redis, `draining` the batch of
`_serve`'s own `_push`; `mode` is where `_serve` is; `redis`, `shed` and `failed`
tell where each record went. `loop` is the event loop
`_run_once` found: uvloop's `wait_closed()` returns at once, asyncio's of Python
3.12 (the version of `docker/Dockerfile`) waits for open connections. Records
that `handle` rejects reach no other step and are not numbered.

`Exit` is the end of `_serve` and of `asyncio.run()`, which cancels the push tasks
that are left. One that waits for the reply to its RPUSH is not counted, and Redis
may have executed the command or not (`Landings`). Two history variables name what
may then be in neither Redis nor a counter, `LostAtStop`: `cut`, the records of
those batches, and `late`, the records uvloop reads after the drain has taken the
buffer. No property excepts them before the process has ended. A process that
is killed loses its buffer, as `docs/architecture.md` says; it is not modelled.
`Pause` may happen at any time here; `Pipeline` ties it to the queue.

### Pipeline

`Pipeline` extends `Ingest` and instantiates `BatchWorker` over the list the
receiver pushes to: `redis` of `Ingest` is the sequence of all pushes, and the
worker's record `k` is `redis[k]` (`Appended`). `Measure` and `HeedDepth` are
`_check_backpressure` up to its await and after it, so that the depth is old when
it is used; `FlusherTick` waits for it, since both are the flusher's. A receiver
step leaves the worker alone and the other way round. `unanswered` remembers the
records of claims whose reply was lost. The worker's id is fixed
(`NLS_WORKER_ID`, `b/services/worker.py:165`) and unknown to the maintenance
run, so that nobody else takes from its list; `maint` covers the
other ids. What `BatchWorker` keeps for properties that are not asked here (`dup`,
`window`) is fixed in the instance.

### AllowList

`table` is the set of enabled addresses in SQLite, `redis` the published set
(empty means no key), `allowed[v]` a receiver's set. A request is three steps
(commit, read, publish): the API runs in two processes, and within a process
requests interleave at the await of the publication. A receiver's refresh is an
SMEMBERS, the use of the reply, and in the fallback a publication of its own.
A published MULTI that raises may have been executed.

### Archive

A row is its timestamp, the clock counts units of which `UnitsPerMonth` make a
month, and a month is `year * 12 + month - 1`, so that `Stem` and `Cutoff` are
the code's arithmetic over the turn of a year. `table` is what ClickHouse holds,
`file[m]` the rows in a month's archive file, `record[m]` the status of its
latest run in SQLite; `pc`, `drop`, `todo`, `part` and `export` are the run.

| Action | Code |
|---|---|
| `Insert`, `Expire`, `Tick` | workers, the table's TTL, time |
| `Start`, `ClosedPartitions` | `run` up to its loop; the partitions of earlier months without a success |
| `Begin`, `Count`, `Stream`, `Replace`, `Finish`, `DropPartition` | `archive_partition`, cut where another program may come between: `start_archive`, the count, the export to the temporary file, its renaming, `finish_archive`, the drop |
| `Fail`, `DropReplyLost` | its `except`; a drop may be executed and raise |
| `Prune` | `prune_archives` and the end of `run` |
| `Kill` | SIGKILL, systemd's timeout, an exception of SQLite outside the `try` |

`late` and `unsure` are history variables, the rows and months of the two
exceptions `DroppedOnlyIfFiled` makes. `RetentionMonths` stands for two settings the
code keeps apart: the table's TTL, which the web page changes, and
`retention.retention_months` of the configuration file, which `prune_archives`
reads; if they differ, files and rows end at different times. An export that does
not raise is taken for complete: `archive_partition` does not compare what it wrote
with the count before.

### SearchPage

A row has a `Key`, its value in the sorted column, which need not be its own:
`ORDER BY` names one column, and timestamps are whole seconds. `Orders` are the ways
ClickHouse may then order the table, and each query takes one of them. `offset`, `limit` and
`descending` are fields of the page's `state`, the four flags its buttons and
the pager, `call[c]` a request: sent, answered, failed. `RunSearch` is
`runSearch` up to its await, `Render` and `RenderFail` the rest; `Search` is the
endpoint with the query, evaluated at one moment, as ClickHouse does. The
history variables `smooth`, `still`, `wanted`, `seen` and `again` follow one
search from its first page on; `wanted` are the rows that were there then, still
are, and have not shared their key with another meanwhile. Filters do not change.

### TcpFraming, Metrics, Accounting

`TcpFraming` has no state: its operators are the steps of `data_received` and
`_strip_octet_count` on a sequence of bytes, of which only line feed, carriage
return, space and digit are told apart. `Metrics` is the counter buffer: `counts`
and `pending` are dicts as sequences in the order of insertion, since a flush
sends its commands in that order without MULTI and may fail after any of them;
`hash` is `nls:metrics`; `task` the flush task, then `stop`. Its actions are
`Flush` (up to the await), `FlushOk`, `FlushFails`, `Stop`, `LastFlush`.

`Accounting` composes the two. `sent` is a connection's stream of lines, each
with or without an octet count and a carriage return; `DataReceived` takes any
chunk of it, hands the payloads (a fold of `Handle` over the lines) to `handle`,
and counts each twice, as received
and as parsed, rejected or of an unknown router (`Disallow` is a refresh that no
longer finds the router, whose connection stays open). `handled` and `outcomes`
remember what was counted; `cut` is a history variable, the lines of which the
bound of the buffer took bytes out before they were read, and `told` another: what
had been counted when `stop` took the counts for its last flush. `DataReceived` goes
on beside that flush and after it, as uvloop leaves the connection open. Gauges, the rates and
the count of bytes are left out.

### Settings

One request per element of `Request`, and one step per call on SQLite,
ClickHouse or the directory: `Upload`, `Process`, `ReadPrevious`, `SetLogo`,
`Unlink` (`upload_logo`; `Clear` joins at `ReadPrevious`), `SetRetention`,
`Alter`, `SetHot`, `SetMonths` (`set_retention`), `ApplyRetention`, `ReadHot`,
`ReadMonths` (`cmd_apply_retention`). `ProcessFails`, `UnlinkFails`,
`AlterRefused`, `AlterReplyLost` and `Fails` are what may go wrong at each, the
process's end included. Within one API process a request runs from one await to
the next; interleaving at every call is what several processes do. A logo is
named after the request that uploads it, as its name is random. `smooth`,
`alone` and `agreed` are history variables that say when the two stores are
expected to agree.

### Requests, Login, ClickHouseClient, Api

`Requests` declares the requests that may be under way together, in any of the
API's processes. `Login` is one account from one address: `failures` and
`expires` are the counter in Redis and whether it has a time to live, `account`
the row in SQLite with the password and whether its hash has outdated
parameters, `session` the browser's token. Passwords are numbered in the order
they were set. `Client` is a name that is used again when nobody refers to it.

| Action | Code |
|---|---|
| `Check`, `Verify`, `RecordFailure`, `Clear`, `SignIn` | `login`, cut at its awaits and at SQLite: `check`, `get_user` with the verification, `record_failure` (one MULTI), `clear`, then rehash, `touch_login` and cookie |
| `BeginChange`, `ChangePassword`, `CreateAdmin`, `Logout`, `Expire` | `change_password` before and after hashing, `nls-admin create-admin`, `logout` or the end of a token, Redis's TTL |
| `BeginQuery`, `TestClient`, `BuildClient`, `ReadClient` | `run_in_threadpool` and the property `client`, whose attribute is read twice |
| `QueryOk`, `QueryOnClosedFails`, `ClickHouseFails`, `FailsOnly` | the query, and what endpoints do that leave the client alone: the health check and the change of the retention |
| `TestClose`, `CloseClient`, `UnsetClient` | `close()` of search, count, partitions and status, on the event loop beside other threads |
| `Restart` | the process ends with its requests and its client; a new release may have other hash parameters |

`Api` composes the two: a request signs in, changes a password, or queries, for
which it needs the session. `unchecked`, `overtaken` and `disturbed` are history
variables that say when a property makes an exception: a throttle check without
an answer from Redis, a password set while a login that will rehash is under way,
a request during which ClickHouse failed it or another one closed the client.

### Delivery

The abstract specification: records are accepted, held, delivered and forgotten,
the last only once delivered or if nobody can decode them. `BatchWorker`
implements it with `accepted` the pushed records, `held` everything on any list
and `delivered` the rows.

Operators commented "Mutation:" are variants of the definition after them, each
with a plausible mistake; no specification uses them. They show that the
property they are paired with in `PROJECT.json` notices the mistake.

## 4. What is checked

| Run | Specification | Shows |
|---|---|---|
| `pipeline` | `FairPipeline`, every failure of receiver and worker, lost claim replies | `AccountedFor`, `OnePush`, `ArrivalOrder`, `BufferDrained`, `BacklogOrder`, `CountedOrKept`, `Settles`, `TypeOK` |
| `maint` | `FairSpec`, two workers, maintenance, every failure but lost claim replies | `NoLoss`, `ClaimInv`, `HeldOnce`, `DuplicateOnlyInWindow`, `ImplementsDelivery`, and `EventuallyStored` across ids, once failures are over |
| `scripts` | `Spec` | `ListsInOrder`, `LoopsAdvance` |
| `allowlist` | `FairAllowList` | `GoodCacheStays`, `RefreshCatchesUp`, `AllowListTypeOK` |
| `archive` | `FairSpec`, failures at every step | `DroppedOnlyIfFiled`, `ArchivedIsComplete`, `EventuallyArchived` |
| `search` | `FairSpec` | `NothingSkipped`, `NothingTwice`, `SearchButtonReturns`, `TypeOK` |
| `accounting` | `FairSpec` | `FramedAsSent`, `CountsKept`, `StopReports`, `OutcomesWithinReceived`, `Reported`, `TypeOK` |
| `settings` | `Spec`, every failure | `LogoExists`, `OldLogosGo`, `RetentionAgrees` |
| `api` | `Spec`, failures of Redis and ClickHouse, restarts | `FewFailures`, `LastPasswordStays`, `FailureContained`, `LockoutEnds`, `TypeOK` |
| `claim_reply_lost`, `silent_stop`, `pruned_early` | `WorkersSpec`, `PipelineSpec`, `Spec` | the disagreements of section 5 |

`BatchWorker`, `Archive` and `Settings` have no `TypeOK` in this table: it is proved for
every value of their constants (section 6), as is `AckSafe`, which follows from
`ClaimInv`.

**Bounds.** `NumRecords`, `MaxEdits` and the lengths in `QueueScripts` bound
counters and nothing else. In `maint` two records that arrive one by one or together
are claimed as one batch or as two, by one process or by two; two worker ids give a
claim taken over by another process, a pid that was reused and an id the maintenance
run does not know, and a dead process's claim beside a record still waiting. Records
that cannot be decoded are left to the proofs, which are for any set of them: a
third record that is one is within TLC's reach for the invariants (set `NumRecords =
3`, `Undecodable = {2}`, and take `Spec`), not for liveness. In `pipeline` three
records with a batch of two fill the receiver's buffer once and leave one for the
flusher, the drain or shedding; a limit of one makes a full batch exceed it, and the
worker brings the queue back below it while the depth that was read is still to be
used. Lists of five with chunks of two have no, one and two full chunks with and
without a rest. Two addresses and two changes let a receiver hold a set that is
neither the table nor empty. December to February in halves, with two months of
retention, cross a year, let rows expire and files be pruned; two rows of one month
let one come late. Three rows, two of them with one key, on pages of one or two,
with offsets up to three, let the edge of a page fall between the two, and make up
to three pages and a size that changes between them; two requests can overtake each
other. Two lines, of which any may be longer than `MAX_LINE`, in chunks of up to six
bytes put every cut before, in and after count, content, carriage return and line
feed, and let a chunk overrun the buffer; four counters and two failing flushes let
a flush stop after each command, be folded back over newer counts, and fail again.
Three requests let two changes of the retention, or two logos, meet while a third
comes between. In `api` two requests with a limit of two failures can both pass the
check below the limit; two passwords, one of `create-admin` and one change, give a
login that was verified against the first; with three clients one is in use, one
closed and one being built. `MaxCounted` bounds only the failures that logins add
which Redis did not check. `scripts`, `pipeline`, `accounting` and `settings` do not
check for deadlock: the script, the process or the requests come to an end there.

**Fairness.** `QuietFairness` asks that systemd restarts a worker when none is up
(`Restart=always`; under which pid is left open) and that what can go on goes on, after the last failure and
the last signal; maintenance runs keep starting (the timer), not
every one finds another program on a dead worker's pid, and not every one is
aborted before it reaches that worker's key. Without the end of failures the
claim could be taken from each new process by a run whose list of pids is older,
for ever. `FairPipeline` asks that the receiver's event loop runs its ready tasks,
that an RPUSH, and the reading of the depth, end in a reply or an exception, that
the flusher ticks now and then between its looks at the depth (strongly, since it
does not tick while it waits for one), and that a pause of five seconds ends. The
receiver's failures need not end: an RPUSH that fails is counted and not retried.
The worker's kills and failures come to an end, as in `QuietFairness`, and then it
goes on. A drain that waits for connections which routers keep open is excepted in
`Settles`. `AllowList` asks that a request goes on
and that a receiver's refreshes do not all fail. `Archive` asks that the timer
starts runs for ever and that no step fails or is killed each time it is tried:
strong fairness, since a kill keeps the next step from being enabled all along.
`SearchPage` asks that a request is answered or fails and that its continuation
runs. `Accounting` asks that the timer's flush starts (weakly) and that not every
flush that is tried fails (strongly). `Api` asks only that Redis ends what it gave
a time to live (`WF` of `Expire`). Each failed login renews that time, so someone
who keeps failing without being checked keeps a lockout going; `MaxCounted` bounds
these, and checked logins add none at the limit.

## 5. Where the code and its documentation disagree

Each is a counterexample TLC finds; the details are in `PROJECT.json`.

1. `claim_reply_lost`: a claim whose reply is lost stays in the in-flight list,
   is in nobody's hands, and is deleted by the ack of the next batch
   (`b/services/worker.py:73-77,114`). `NoLoss` and what it rests on are
   therefore claimed of `Spec`, in which claim replies arrive, not of `LossySpec`.
2. `silent_stop`: a stop finds the buffer empty while a push task waits for its
   RPUSH, does not wait for it, and `asyncio.run()` cancels it: its batch is in
   neither Redis nor a counter, while the stop is to "flush whatever is buffered
   before exiting" and `docs/architecture.md:84` rules out silent loss
   (`b/services/receiver.py:174,334,379`).
3. `pruned_early`: the cutoff of `prune_archives` is one month late, since it
   counts months from one and turns them back as if from zero: files are deleted
   up to a month before their rows' retention ends
   (`b/services/maintenance.py:107`).

The models also hold behaviours that are no contradiction of a text, or a weaker
one, and that the properties name as exceptions:

* A worker that starts between the listing of pids and the scan has its claim
  requeued while it inserts it, and rows are doubled although nothing failed
  (`b/services/maintenance.py:135-142`; in `DuplicateOnlyInWindow`, `window`).
* Under uvloop lines of open TCP connections that arrive after the drain's flush
  are lost and not counted as dropped (`b/services/receiver.py:331-337`; `late` in
  `LostAtStop`). With the batches of `silent_stop` (`cut`) they are all that
  `AccountedFor`, `CountedOrKept` and `Settles` except of a stop.
* What such lines add to the counters beside or after the last flush of `stop` is
  never reported (`b/metrics.py:62-76`; `told` in `StopReports`).
* Pages may repeat and skip rows that share their value in the sorted column, also
  in a table that does not change: the query has no tie-breaker
  (`b/database/clickhouse.py:155-160`; `Tied` in `NothingTwice`, `wanted` in
  `NothingSkipped`). TLC refutes `still => again = {}` in the run `search`.
* Publications of two requests may be executed in the other order than their
  reads of the table (`b/api/routers_api.py:38-47`; `Current` in
  `GoodCacheStays`).
* After one failed publication receivers keep the old set until the next change
  of the table: they read SQLite only if the set is missing or Redis does not
  answer, while a comment says that they "fall back to reading SQLite directly,
  so this is not fatal" (`b/services/receiver.py:75`, `b/api/routers_api.py:49`;
  `CacheGood` in `GoodCacheStays`).
* A chunk that, with what is left of the line before, exceeds `MAX_LINE` loses
  its first bytes, whole short lines among them, and nothing counts them: the
  buffer is cut before its lines are taken out (`b/services/receiver.py:243`;
  `cut` in `FramedAsSent`). asyncio and uvloop hand over up to some 256 KB at a
  time, `MAX_LINE` is 64 KiB.
* `stop` cancels a flush under way, whose counts are neither folded back nor
  known to be executed, since `CancelledError` is no `Exception`
  (`b/metrics.py:62-86`; `unsent`). A flush that fails after some of its commands
  counts them twice (`CountsKept` asks for "at least").
* Two changes of the retention that overlap may leave the TTL of one and
  settings of the other, or of both (`b/api/settings_api.py:153-163`; `alone`),
  and two uploads that overlap leave a file nothing names (`smooth`).
* Rows that come after the export of their month go with its partition, if it is
  dropped; after a drop that was executed and raised, they lead to a second
  export over the file of the first (`late`, `Overwritten`).
* A page that fails is skipped by the next click of Next, since the offset has
  advanced (`frontend/assets/app.js:264`; `smooth`).
* A login that finds the hash's parameters outdated hashes the typed password
  again after an await: a password set in between is replaced by the old one
  (`b/api/auth_api.py:57-58`; `overtaken`).
* `set_password` always clears the row's `must_change`, also when a login rehashes
  or `create-admin --force` runs (`b/database/meta.py:128`); the flag is not in the
  model.
* The throttle lets one failure more pass for each request that is under way
  (`FewFailures`), and any number while Redis does not answer, by design
  (`b/auth/ratelimit.py:37-40`; `unchecked`).
* A request whose query fails because another closed the client closes the next
  client in its turn, so that a failure is handed on as long as requests overlap
  (`b/database/clickhouse.py:100-105`; `disturbed`).
* With `max_result_rows` below the page's size the first page says it is the
  last (`b/database/clickhouse.py:152`): set `MaxResultRows = 1` in the run
  `search`, and `NothingSkipped` fails. The default is far above the sizes the
  page offers.

## 6. What is proved

`BatchWorkerProofs`, for every number of records and workers, every batch size
and every combination of failures:

* `TypeCorrect`: `LossySpec => []TypeOK`, inductive as it is.
* `ClaimsInHand`: `Spec => []ClaimInv`: claim replies arrive. `ClaimInv` is
  the inductive core: the list is empty when the worker comes to claim, so a
  claim puts exactly the batch on it; whatever others take from it, it never
  holds more than the batch in hand; and a batch that is in hand is in Redis or
  in the table, since another worker can only forget what it has stored. It is
  proved worker by worker (`ClaimInvOf`), own steps and others' steps apart.
* `AcknowledgedOnly`: `[]AckSafe`, from `ClaimInv`.
* `Implements`: `Spec => ImplementsDelivery`. Each action maps to `Accept`,
  `Deliver`, `Forget` or a stutter; `ClaimInv` gives the premises of `Deliver`
  and `Forget`. The lemmas `ReleaseHeld`, `ClaimHeld`, `DeleteHeld` and
  `PushHeld` say what each list operation does to what Redis holds.
* `NothingIsLost`: `[]NoLoss`, from `Implements` and the inductive invariant
  `NothingLost` of `Delivery`.

And for lost claim replies besides:

* `HeldAtOnePlace`: `LossySpec => []HeldOnce`, and `DuplicatesOnlyInTheWindow`:
  `[]DuplicateOnlyInWindow`. They are proved from one inductive invariant,
  `OnceInv`. A record that is pushed is on no list yet (`Arrived`), so that lists
  stay apart; and (`Windowed`) what is in Redis and already a row is in `window`,
  but for the list a worker is about to delete, while what a worker has in hand
  is in its own list unless a maintenance run took it, which opens the window.
  Without the second half an insert of a batch somebody else has requeued could
  double a row outside the window.

`PipelineProofs`, about `Ingest`, for every number of records, every batch size,
both event loops and any failing RPUSH:

* `TypeCorrect`, `AllAccountedFor`, `OnePushAtATime`, `InOrderOfArrival`,
  `DrainLeavesNothing`: `[]` of `TypeOK`, `AccountedFor`, `OnePush`,
  `ArrivalOrder`, `BufferDrained`, from the inductive `IInv`. `TasksCounted`
  counts push tasks against `_pushing`, where the drain's own push is one more
  and resets the flag under a task's feet, so that a second one may start:
  that bounds `created`, which is no part of the types. `BatchesApart` keeps
  records in one batch; `InOrder` puts Redis before the batch under way before
  the buffer. `AccountedFor` has no exception while the process runs; when it has
  ended, `LostAtStop` is what may be at no place, and no record of it that was cut
  has been counted besides.

and about `Pipeline`, for every limit, batch size, worker and failure:

* `ReceiverInPipeline`: a behaviour of `PipelineSpec` is one of `Ingest`'s
  `Spec`, so that the above holds in the pipeline.
* `NothingUncounted`: `PipelineSpec => []CountedOrKept`, which excepts `unanswered`
  and, after the receiver's end, `LostAtStop`; from `AccountedFor` and
  the inductive `Kept`: every pushed record is on a list, in the table or
  `unanswered`, and (`InHand`) what a worker is about to delete is a row or
  `unanswered`, without which the DEL would lose it.
* `BacklogInOrder`: `PipelineSpec => []BacklogOrder` if there is one worker. The
  inductive `Backlog` says that lists rise and claimed records are below waiting
  ones; that new ones are above all of them comes from its bound on what the
  lists hold.

`QueueScriptsProofs`, for lists, claims and chunks of every size:

* `ScriptsCorrect`: `Spec => []ListsInOrder`. The loop invariant is part of
  `ListsInOrder`; `AtLoops` adds where `i` ranges and the state before the loop.
* `ScriptsEnd`: `Spec => LoopsAdvance`, which also bounds the arguments of each call.

`AdminProofs`, for every set of requests and every combination of failures:

* `TypeCorrect`: `Spec => []TypeOK`, inductive as it is.
* `LogoIsThere`: `[]LogoExists`. `LogoSafe` says that what a request has found,
  and may remove, is a file whose own request has already named it, and by the
  time it removes it is not the one named now; the file of a request that has
  still to name it is therefore safe.
* `RetentionIsAgreed`: `[]RetentionAgrees`. `RetentionSafe` says that the request
  that altered the TTL alone is the only one under way, that the TTL is what it
  asked for, and what of it the settings hold at each of its steps.
* `NoFileIsLeft`: `[]OldLogosGo`. `NoOldFiles` says, as long as all is smooth, which
  files may be there at each step of the one request that is under way
  (`OneAtATime`): the named one, the one it has found, and its own.

The same module extends `AllowList`, for any number of API requests and receivers:

* `NothingLeftOver`: `AllowListSpec => []AllowListTypeOK`, which says also that what
  one request or refresh has read is gone when it ends; inductive as it is.
* `GoodCacheIsKept`: `AllowListSpec => GoodCacheStays`, an action property: of a step that
  leaves the table alone, the premise is inductive given the types, since
  whatever is published was read from the table as it still is.

`ArchiveProofs`, for every calendar, retention and combination of failures:

* `TypeCorrect`, `ArchivesComplete`, `DroppedRowsAreFiled`: `[]` of `TypeOK`,
  `ArchivedIsComplete` and `DroppedOnlyIfFiled`, from the inductive `AInv`. A row
  of a young month is in the table until the month is recorded as a success
  (`StillThere`) and in the file, or late, from the renaming on (`Filed`, and
  `Exporting` for the temporary file); `Positions` ties the run's place to the
  record in SQLite; `OnlyLate` says that a month whose drop seemed to fail is
  exported again only for late rows, and then counts as overwritten. The
  lemmas on months (`MonthsLater` and others) are the arithmetic that keeps rows
  of young months from expiring.

`ApiProofs`, for any number of requests, clients, passwords and failures:

* `TypeCorrect`, `FailuresAreFew`, `ChangeIsKept`, `FailureStaysContained`: `[]` of
  `TypeOK`, `FewFailures`, `LastPasswordStays`, `FailureContained`. `LoginInv` adds
  that a login which will rehash has the password of the row until one is set
  under it (`PasswordHeld`). `ClientInv` adds that at most one request is closing
  (it runs on the event loop), and that a closed client, or none, is only left to
  requests that were under way when it was closed.

`SearchPageProofs`, for every size of table and page, and any number of requests:

* `TypeCorrect`: `Spec => []TypeOK`; the lemmas on the query bound an answer by
  the page (whatever order the query took, there are as many rows in a range of
  places as places).
* `NoRowTwice`: `[]NothingTwice`. What both theorems rest on is that every order a
  query may take gives a row whose key is its own the same place (`PlaceOfUntied`):
  the number of rows ahead of it. While a search is smooth there is one request in
  progress at most (`OneRequest`), and (`OnceShown`) what was shown is, in a table
  that does not change, before the page asked for, an answer within it.
* `NoRowSkipped`: `[]NothingSkipped`, if no choice of rows per page is larger than
  `MaxResultRows` (`PagesAreWhole`; section 5 says what happens otherwise).
  `PassedShown` says that all that is before the page asked for has been shown, so
  that rows inserted before it only move shown rows to later pages.

`AccountingProofs`, for every stream of lines, every size of chunks and of the
buffer, and any number of failures. Its invariant is `Inv`, which says where the
counts are at each point of a flush or a stop (`Counted`) and that every dict has
the receipts first and as many outcomes as receipts (`Balanced`):

* `TypeCorrect`: `Spec => []TypeOK`.
* `NothingLost`: `[]CountsKept`, which is inductive given `Counted`.
* `StopReportsAll`: `[]StopReports`. `Telling` says that what a stop in order took is
  in its flush, and that flush or Redis holds at least `told` until the end, whatever
  is counted beside it.
* `ReceiptsFirst`: `[]OutcomesWithinReceived`: a flush that fails after some commands
  has executed the receipts' before any other, of `counts`, of `pending`, and of
  what is folded back into either.
* `EveryLineFramed`: `[]FramedAsSent`, for every size of chunks, from the inductive
  `Framed`: the buffer holds what has arrived from some byte on (`Buffered`), no
  line ends in it, and if that byte lies within a line then bytes of that line were
  cut. What a chunk does is told along the code. A line's end is a line feed and
  no other byte is one (`WireOfForm`, `FeedsAreEnds`); of the buffer with the chunk
  the last `MAX_LINE` bytes remain (`BytesKept`); they fall into the rest of one
  line and whole ones (`LinesOf`, `Pieces`), of which an empty rest is skipped
  (`PayloadsOf`) and carriage return and count are taken off (`ReturnStripped`,
  `CountStripped`, `Handed`); the lines that lost bytes are `cut`, and no line that
  was handled before is (`CutByChunk`); so the lines of the payloads go on
  where they were (`MoreFramed`).
* `NoneCutIfChunksFit`: `[](cut = {})`, if each line but its last byte and a chunk
  are within `MAX_LINE` together: then the exception in `FramedAsSent` is never made.
  The hypothesis is about the traffic; the code neither checks nor ensures it.

What incr(), handle() for a chunk and the folding back of a flush do to every
counter (`IncrAdds`, `CountAllAdds`, `FoldBackAdds`) are lemmas about folds.
The induction they need is over a set of numbers (`EveryNumber`, from the library's
well-founded induction, which takes no operator), on a function that is shown to
satisfy what the fold is defined by (`FoldExists`).

The assumptions are the `ASSUME`s of the modules: batch sizes, the chunk, the
failures allowed and the length of a month are positive (`b/config.py` asks for at
least 1, and 100 for batches), local ids are ids, faults are of the kinds named,
the defaults of the settings are among the values allowed, requests are finitely
many (their number bounds the failures), `None` is no client, and rows are of
the months of the model, whose first lies a retention after zero.

The hypothesis `PagesAreWhole` of `NoRowSkipped` is met by the defaults; the
configuration allows other values.

Only model-checked is liveness: the prover has no rules for fairness of such
specifications, nor for ENABLED. Every invariant and every action property of a
passing run is proved for all values of the constants (`BacklogOrder` for one
worker, `NothingSkipped` where pages are whole).

## 7. Not modelled

Left out are several receiver processes in front of one queue, the gauges, rates and
reset of the metrics, `must_change` and `last_login` of users, the company name of
the settings, the translation of filters to SQL, and of the frontend all but the
search page. The parser's regular expressions, password hashing and tokens are
computations on text without state. Configuration, installation, and the programs
beside this one (nginx, vector, Grafana) keep no state of the system. No module
covers Redis running out of memory (a hazard in `PROJECT.json`), or the second of
writes its log may lose at a reboot.
