# Formal models of the Databricks SDK for Python

TLA+ modules of the parts of `databricks.sdk` that hold state across requests,
threads or failures, the TLC configurations that check them on small instances,
and proofs, checked by TLAPS, that the most important properties hold whatever
the values of the constants.  Everything under `databricks/sdk/service` is
generated, one HTTP request per method, except for its waiters and its data plane
clients; what the models are about is these, and the code written by hand around
them: `oauth.py`, `data_plane.py`, `dbutils.py`, `retries.py`, `_base_client.py` and
`mixins/`.

`PROJECT.json` names, for every definition that models code, the lines it
stands for, and lists the runs, the hazards of the code and the theorems.

## 1. The system

A program creates a `WorkspaceClient` or `AccountClient`.  Its `Config` collects
attributes from arguments, environment and profile file and picks a credential
strategy, which yields the headers of every request; strategies that use OAuth
keep a token in a `Refreshable`.  Every service method makes its request with
`_BaseClient.do`, which retries.  On top of the services, the mixins are
protocols of several requests: uploads and downloads of files of any size,
moves between file systems, waiting for a cluster.

| Component | State | Operations | Interacts with | What is hard |
|---|---|---|---|---|
| Refreshable token cache (`oauth.py:223-336`) | `_token`, `_is_refreshing`, `_refresh_err`, `_lock`; a thread pool shared by all instances | `token()`; the background refresh | called by every request of every thread; calls the token endpoint through `refresh()` | threads against workers, a refresh that ends late or fails, the age of what is returned |
| Retries (`retries.py`, `_base_client.py:142-300`, `errors/customizer.py`, `mixins/files.py:1287-1312`) | attempt, deadline, last error, position of the body's stream | `do()`, `_retry_idempotent_operation()` | under every request of every other component | rewinding, deadlines, errors that came after the server acted |
| Multipart upload (`mixins/files.py:792-944`) | buffer, part number, ETags, URLs of the batch, retry count | request URLs, PUT a part, complete, abort | Retries; cloud storage | expired URLs, short reads, lost answers |
| Resumable upload (`mixins/files.py:1028-1197`) | buffer, offset, retry count | PUT a chunk, ask for the status, abort | cloud storage | chunks stored in part, chunks that go on being stored after the client gave up |
| Choice of the protocol (`mixins/files.py:727-790`) | the pre-read | `upload()` | the two protocols | a first read that is short |
| Resilient download (`mixins/files.py:1353-1495`, `_base_client.py:338-420`) | buffer, offset, recovery counts, the current response | `read`, iteration, `close` | Files API | connections that break, files replaced meanwhile |
| Moves, copies, deletes (`mixins/files.py:300-690`) | none but the file systems | `copy`, `move_`, `delete`, `list` | DBFS, volumes, local files | failure between copy and delete; trees |
| File handles (`mixins/files.py:44-297`) | handle or buffer, offset | `read`, `write`, `close` | copies | what a broken write leaves behind |
| Data plane token sources (`data_plane.py`, `service/serving.py:4852-5000`) | table of `Refreshable`s, lock; details of each endpoint | `query()`, `token()` per endpoint | Refreshable; control plane, token endpoint | double-checked locking; endpoints deployed anew; requests without an answer |
| Sessions, token file, browser login (`oauth.py:430-600`, `739-797`, `credentials_provider.py:208-258`) | refresh token, a file shared by processes, a port | refresh, save, load, consent | Refreshable; the user's browser | two processes, a file half written, callbacks that are another's |
| Configuration and strategies (`config.py`, `credentials_provider.py`) | attributes, chosen strategy | construction | everything | order of precedence |
| Model serving credentials (`credentials_provider.py`) | token read from a file, with its own expiry | token lookup | requests | staleness |
| Waits for long-running operations (`wait_...` of the services, `service/_internal.py:52-72`) | attempt, deadline | `Wait.result()` | the object waited for | an object that settles late, or in a state nobody waits for |
| Cluster life cycle (`mixins/compute.py:247-280`) | the cluster's state at the server | `ensure_cluster_is_running` | waits; other users | the cluster changes between get and start |
| Remote dbutils (`dbutils.py:210-260`, `372-454`) | a command context, a lock | remote calls | cluster, waits | threads that need the context first; contexts that have died |
| Jobs pagination (`mixins/jobs.py`) | none | `get`, `get_run` | server | pages of an object that changes |
| Errors, node selection, user agent, widgets, logging, OIDC and Azure lookups | none | pure functions | | nothing over several steps |

What makes each of them correct:

- **Refreshable.** A returned token is one the server accepts; a caller blocks for
  a refresh only when it must; a background refresh that is under way is known to
  be, and one that has ended, however it ended, is not in the way of the next;
  every call returns.
- **Retries.** Each attempt sends the caller's whole body; what cannot be sent
  again is sent once; nothing is sent after the deadline; the call returns.
- **Uploads.** What is published is the stream, whole and in order; until then
  the old file is there; success is reported only afterwards; the upload ends.
- **Downloads.** The caller gets the bytes of one version, each once, in order;
  the end of the stream is the end of the file; every read returns.
- **Moves.** A file is at the source until it is, whole, at the destination; nothing
  is replaced unless asked for; a move that succeeds leaves nothing behind.
- **Data plane.** One token source per endpoint and details; what a query is sent with
  belongs together; endpoints do not hold up each other.
- **Sessions.** A process saves the session its own user made for it; a saved session is
  used for as long as the server renews it; a start ends.
- **Waits.** What has settled is noticed soon, whatever came before; a wait ends.
- **Remote dbutils and clusters.** The cluster has been running when its start is
  reported; threads share one context; no thread is left waiting for the lock.

The hazards behind these, each at its line, are in `PROJECT.json`.

## 2. Modules

| Module | Models | Checked in | Proved in |
|---|---|---|---|
| `Refreshable` | class `Refreshable`, on callers' threads and workers | `MCRefreshable` | `RefreshableProofs` |
| `AtomicUpload` | abstract: what `upload()` promises | as a property of the next two | as a theorem of the next two |
| `MultipartUpload` | `_perform_multipart_upload` and the storage it talks to | `MCMultipartUpload` | `MultipartUploadProofs` |
| `ResumableUpload` | `_perform_resumable_upload` and the storage it talks to | `MCResumableUpload` | `ResumableUploadProofs` |
| `ResilientDownload` | `_StreamingResponse` over `_ResilientResponse` and `_ResilientIterator` | `MCResilientDownload` | `ResilientDownloadProofs` |
| `RetriedRequest` | `retried` under its two users | `MCRetriedRequest` | `RetriedRequestProofs` |
| `FileMove` | `DbfsExt.move_` with `copy`, `delete`, recursive `list` | `MCFileMove` | `FileMoveProofs` |
| `DataPlane` | `ServingEndpointsDataPlaneAPI.query` over `DataPlaneTokenSource` | `MCDataPlane` | `DataPlaneProofs` |
| `Waiters` | the table of the generated waiters: the states of each object, those that end its wait | with the next two | |
| `Waiter` | the loop of the waiters under `Wait.result()` | `MCWaiter` | `WaiterProofs` |
| `RemoteDbUtils` | remote calls of `RemoteDbUtils` over `ensure_cluster_is_running` | `MCRemoteDbUtils` | `WaiterProofs` |
| `SessionLogin` | `external_browser` with `TokenCache` and `Consent` | `MCSessionLogin` | `RefreshableProofs` |

A module of proofs EXTENDS the modules it is about.  `WaiterProofs` is about two, which
share the table of the waiters, and so is `RefreshableProofs`: both are of `oauth.py`.  The
second one of each pair has its own name in those definitions that all modules have:
`LoginSpec`, `LoginNext`, ... in `SessionLogin`, `DbUtilsSpec`, `DbUtilsNext`, ... in
`RemoteDbUtils`.

Definitions called "Faulty" in a comment are variants of the one they precede, each
with a bug that code of this kind may well have.  They belong to no specification:
they are there to show that the properties notice such bugs (`mutants` in
`PROJECT.json`).

### Refreshable

The variables are the attributes (`token`, `isRefreshing`, `refreshErr`,
`disableAsync`), the owner of the lock, a program counter per caller, and the
background refreshes, each queued, waiting for its answer, or about to store it.  A
step of a caller goes from one point where another thread can get in, or where time
matters, to the next; inside `with self._lock` these are kept apart because time
passes there and because workers fetch tokens without the lock.  `JobCommit`, the
locked end of a worker, waits for nothing and is one step.

A token has two expiries: the server's (`real`) and the client's belief (`expiry`),
which is later by the time between minting and the arrival of the answer
(`retrieve_token` adds `expires_in` to `datetime.now()`).  `Tick` advances the clock,
but not past the moment an answer, or the return of a caller, is due: these are the
assumptions `Latency` and `Pause`.  `ClockFallsBack` is the end of summer time, once:
the code uses local time without a zone.  The background pool is shared, with
`PoolSize` workers; refreshes of one source only are modelled, so a pool of one
worker is the interesting one.

Left out: tokens without an expiry (fresh for ever), and `submit()` raising while the
interpreter ends.

### MultipartUpload, ResumableUpload, AtomicUpload

A byte is its position in the stream.  The client's buffer is then an interval that
ends where the reader stands, and the parts and the content of the server are intervals
and functions of positions; whether something was skipped, repeated or exchanged
remains visible.  The server is modelled from what the client relies on: a part is
stored under its number before or after the client learns of it, a completed upload
becomes the object at any time after it was asked for, a resumable session stores some
prefix of a chunk, a chunk whose request was given up may be stored later (`LateChunk`),
and a status may be that of an earlier moment (`StatusAnswered`), which is what the check
of the confirmed range is there for.  `_retry_idempotent_operation` inside a multipart upload is inlined
(`PutFails`, `Retry`), with the number of attempts bounded by `MaxAttempts` in place of
the deadline, which `RetriedRequest` treats.

`AtomicUpload` is the promise of `upload()`: old file, then in one step the new
one, success only after that.  Both protocols are shown to implement it; the refinement
mapping sends a published object that is not the stream to "mixed", which the abstract
specification has no step to.

Left out: the one-shot upload of small files, the request that opens the session (both
planned), `KeyboardInterrupt`.

### ResilientDownload

A byte is a version of the file and a position.  `read(n)` and iteration are broken
into the taking of what is buffered, the arrival of a chunk, the end, a break, and the
outcome of the recovery, in the order of the code, so that the file can be replaced
(`Overwrite`) anywhere in between.  The recovery asks for bytes from `_offset` on if
the file was not modified since the first response: `Answers` says when the server
serves that, with versions that have a time of modification in whole seconds.  A
response serves the version that was current when it began.  A body that ends early
raises, as `requests` does when a length was announced.

Left out: `close()` before the first read (an `AttributeError`), and callers that
iterate after a `read` that left part of a chunk in the buffer: `__iter__` returns the
iterator and ignores the buffer (`_base_client.py:415-416`), so that they skip bytes.

### RetriedRequest

One call of `_BaseClient.do`, or of `_retry_idempotent_operation`, with the body absent,
seekable (at any initial position) or a plain stream.  Errors are the classes the
retrying code tells apart.  Time is in seconds; `random()` is taken to be positive.

Left out: the allow-list form `retried(on=...)`.

### FileMove

The source is the sets of its directories and files, the destination a function from
paths to what is there: an old file, part of a copy, a whole copy.  The listing queue,
the list of files to be copied and the calls of `_VolumesPath.delete` that wait for
their entries are as in the code; entries come in any order.  Everything may fail
anywhere, and another user may put files into the source (`Arrive`).

Left out: moves within DBFS (one request), and moves within the volumes into the source
itself.

### DataPlane

Two levels as in the code: `_data_plane_info_query` keeps URL and authorization details
of each endpoint, asking the control plane without a lock in between (`Query`,
`GetAnswered`, `StoreDetails`), and `DataPlaneTokenSource` keeps a token source per key,
looked up first without the lock and then with it (`Lookup`, `Lock`, `CheckAgain`,
`Create`).  A
token source is what `Refreshable` promises, one level up: its token is valid or not,
and who finds it invalid waits for a new one inside its lock (`Acquire` to `Retrieved`).
The details of an endpoint are its name and a version, which `Deploy` raises; the token
endpoint may never answer for some endpoints (`Unanswered`).

Left out: answers of the data plane itself (a query ends, however it goes), and a
control plane token that is never answered, which all endpoints depend on.

### Waiters, Waiter

`Waiters` is a table: for each generated `wait_...` the states of its object, and
`target_states` and `failure_states`.  `Waiter` is the loop with any row of it: the object
changes as it likes, also to a state the SDK has no name for (`_enum` makes `None` of it);
the poll takes time, the pauses grow by one second to ten at most.

### RemoteDbUtils

Threads that call remote `dbutils`: `Call` looks at `_ctx` without the lock, `Lock` and
`CheckAgain` with it; then `ensure_cluster_is_running` from its `get` on, one step per
request and per end of a wait, and the making of the context.  The cluster goes from
state to state as `compute.State` allows, driven by other users; a wait ends as a row of
`Waiters` says, or with an exception at any time (`RequestFails`, which includes the
`TimeoutError` of the waiter).  `late` is the deadline of the twenty minutes, which only
the head of the loop looks at.

Left out: the results of commands (`Execute` is one step).

### SessionLogin

Processes that share a file and a port.  A start of a process is one login; its consent
has a random state and verifier, so that the login itself can stand for them.  The file
is the sequence of what lies in it one over the other: `OpenFile` empties it, `Write` puts
the token at its beginning, in front of what a concurrent writer may have left longer, and
`Load` succeeds on exactly one token.  `Stop` is exit or crash, at any point.  Pages of all
logins stay open in the browser and can call whoever listens.

Left out: consents of web applications, which keep `Consent` in a session of their own;
that the server checks the verifier: `SessionIsOwn` does not rely on it.

## 3. Runs

All runs finish in at most a few minutes.  `CHECK_DEADLOCK FALSE` is set throughout:
calls end, clients stop, and the bounded clock stops.

| Run | Shows | Bounds |
|---|---|---|
| `refreshable` | returned tokens accepted; flag never stuck; no needless blocking; calls return; flag clears | 2 callers with 2 calls each, 2 background refreshes, 1 worker, 5 instants |
| `multipart` | parts and URLs agree; object is the stream; retries idempotent; implements `AtomicUpload`; ends | 5 bytes, chunks of 2, batches of up to 2 URLs, 2 expired URLs, 2 attempts, short reads |
| `resumable` | chunks start where the server stands; never empty; object is the stream; implements `AtomicUpload`; ends | 7 bytes, chunks of 2, read-ahead of 1, 2 interruptions |
| `resumable_short_read` | a short read truncates the object | the same, short reads allowed |
| `download` | bytes in order, of one version; end is the end; reads return | files of 4 and 5 bytes, chunks of up to 2, reads of -1, 0, 1, 3 bytes, no total limit (the default), 2 recoveries without progress |
| `retried` | whole bodies; streams sent once; deadline kept; calls end | timeout 6, attempts up to 2, pauses up to 3 seconds, `Retry-After` 0 or 2 |
| `move` | no file lost; success empties the source; no silent replacement; moves end | files, flat and nested trees, four shapes; trees of volumes one directory deep |
| `move_deep_volume` | files of a volume are deleted that were not copied | one tree with `a/b` and `b` |
| `dataplane` | one source per key; token and details fit; endpoints do not hold up each other | 2 threads with 2 queries each, 2 endpoints, one of them unanswered, 2 versions |
| `waiter` | settled objects are noticed; waits end | all 18 waiters, timeout 9, pauses up to 2, polls of up to 1 second |
| `remote` | the cluster has been running; one context; calls end | 2 threads with 2 calls each, 2 contexts |
| `session` | sessions are one's own; no needless login; starts end | 2 processes with 2 starts each, 3 tokens |

Why these bounds are enough to be interesting.  *Refreshable*: two callers and two
refreshes are what every race here needs (a waiter behind a blocked refresh, a late
worker against a newer token); the buffer of 4 is the least the timing assumption
allows with all delays 1, so that an off-by-one would show; the initial tokens reach
all three states within five instants, and the lifetime of 5 makes a fetched token expire
or turn stale too.  *Uploads*: the stream needs three chunks, the last one short, with
a pre-read longer than a chunk; two URLs per batch make batches end in the middle.
*Download*: the second version is longer than the first, so that both kinds of
mixture would be visible; a limit of two makes a recovery fail and succeed.  *Retries*:
three pauses reach the deadline, at it and beyond it.  *Move*: all three file systems,
files, and directories below directories with and without equal names.  *Data plane*: two
threads meet at one key, and one is between details and token while the endpoint is
deployed anew.  *Waiter*: several pauses of the longest kind fit into the timeout, and the
deadline falls into a poll and into a pause.  *Remote*: a thread waits for the lock while
the other one makes the context, fails, or starts the cluster in vain; a second context is
left for the thread that comes after a failure.  *Session*: the starts overlap in each
phase, one crashes and comes back while the other writes or listens; three tokens leave
one to be renewed.

The passing runs reach every action and every disjunct.  For every property there is a
faulty variant of the code under which its run fails.

### Fairness

`FairSpec` in each module (`LoginFairSpec`, `DbUtilsFairSpec`) adds weak fairness to the steps of the code itself.  This is
what the code's scheduling gives: a thread that can run does, `threading.Lock` lets a
waiter in when it is free again and again only if callers are finitely many (each
caller of the model makes finitely many calls), and requests are answered or time out,
as `http_timeout_seconds` and the timeouts of the cloud requests see to.  Requests of
`retrieve_token` have no timeout (`oauth.py:185`): there, that the token endpoint
answers is an assumption of `refreshable` and `session`, and `dataplane` shows what
happens without it.  Nobody is obliged to call `token()`, to advance the clock,
to read on, to replace a file, or to put one into a tree that is being moved.  Failures
that take the place of an answer share the fairness of the step they end: a request
either succeeds or fails, and no run requires it to fail.

`SessionLogin` assumes of the user that some page of a login calls the listener that waits:
the listener has no timeout (`oauth.py:552`), and a page that was finished before the
listener was there, or while another process had the port, must be loaded again.
`RemoteDbUtils` assumes that waits end, as `Waiter` shows, and that time passes
(`DeadlinePasses`); how the cluster moves is left to its other users.

`ResumableUpload` alone needs more: a server that confirms nothing new resets
`retry_count` with every answer (`files.py:1127`), so that the upload may go on for
ever.  `Terminates` is shown for a server that, sent chunks again and again, stores a
whole one again and again (strong fairness on `PutAnswered(TakesAll(Sent))`); the code
itself does not see to that.

### Where the code does something else than it says

Two runs end in a counterexample, and are expected to:

1. `resumable_short_read`: a raw stream that reads short is uploaded in part, with success.
2. `move_deep_volume`: `_VolumesPath.list` goes on from `root/b` when it has found
   `root/a/b`; `dbutils.fs.mv` then deletes files it never copied.  (With `root/a/a`
   the listing does not end: the faulty variant `ChildByName` shows it.)

Others are in the models, in the steps named here, and have no run of their own:

- `_blocking_token` clears `_is_refreshing` while a worker is under way
  (`oauth.py:299-300`, `BlockingToken`): a second background refresh starts, although
  `_trigger_async_refresh` "starts an asynchronous refresh if none is in progress".
- `datetime.now()` has no zone (`oauth.py:91-92`, `197`, `ClockFallsBack`): expired tokens
  are returned for an hour in autumn.
- Once a read of a download has raised, the generator is dead and the next read reports
  the end (`_base_client.py:373`, `End`).
- 408, 500, 502 and 504, which a comment calls retryable (`files.py:696`), are raised at
  once: only 429 and 503 get `retry_after_secs` (`files.py:1298`, `Retryable`).
- Waits do not see every end: a `CANCELLED` deployment of an app, a `DEGRADED` table, a
  `CANCELLED` message or a `DELETED` pipeline is in neither list of its waiter and is waited
  for until the timeout (`Waiters`), where the README of the SDK promises to "return the
  error message in case of failure".
- A cluster in a state the SDK has no name for is asked for again without any pause, for
  twenty minutes (`mixins/compute.py:271-279`, `AfterGet`); and after `TERMINATING` it is waited
  for until it is `TERMINATED`, though another user may have started it meanwhile
  (`mixins/compute.py:261`, `WaitTerminated`).
- The context of remote dbutils is made once; when the cluster has been restarted, every
  later call is sent to a context that is gone (`dbutils.py:247`, `Call`), though the
  documentation says "Don't worry if cluster is not running" (`docs/dbutils.md:5`).
- Two logins at the same time spoil each other: the second cannot have the port, and its
  page may call the first one's listener, which then fails with "state mismatch"
  (`oauth.py:547-552`, `566`; `BindFails`, `CheckState`).
- What the proactive refresh of a session yields is not saved (`credentials_provider.py:240`,
  `Refreshed`): if the server accepts a refresh token once only, the next start must ask the
  user again.
- Details of a data plane endpoint are kept for ever, and an older answer may replace a
  newer one (`serving.py:4878-4879`, `StoreDetails`): what is checked is that they, the URL
  and the token of a query belong together.

Some are visible on one line:
`if confirmed_offset:` takes byte 0 for nothing (`files.py:1156`, `1170`), which costs a
byte sent twice and nothing else; `__iter__` ignores `_buffer` (`_base_client.py:416`);
network errors are retried "where we believe request didn't reach the server"
(`files.py:1308-1309`), which a read timeout does not justify; a directory of the
local file system with directories in it cannot be deleted (`files.py:424`).

## 4. Proofs

TLC shows a property for one instance; the theorems hold for every number of callers,
jobs, bytes, versions, every chunk size, limit and duration, under the assumptions
named in each module.  These are as weak as we could make them: sizes are naturals,
chunks are not empty, files are finitely many and lie in directories
(`FileMove!SourcesAssumption`), and

- `Refreshable!TimingAssumption`: the buffer of 40 seconds exceeds the sum of the
  server's margin, the latency of a refresh and the pause between the check and the use,
  and so does every lifetime.  It is what `Token.expired` counts on, made explicit.
- `ObjectIsStream` and `UploadRefinement` of `ResumableUploadProofs` assume that reads are
  short at the end of the stream only: they fail otherwise (run `resumable_short_read`).
  Its other theorems are about any stream: a short read truncates the object, but what
  is stored is always the beginning of the stream (`StoredIsPrefix`).
- `NothingIsLost` of `FileMoveProofs` assumes `SourcesListedWhole`: in a volume, no directory
  below the first level has the name of one on the first level.  What it excludes loses
  files (run `move_deep_volume`).  DBFS and the local file system may hold any tree.  The
  other theorems about moves need nothing of the kind.
- `ResilientDownloadProofs` assumes that two versions of the file are not stored within
  the same second: `If-Unmodified-Since` cannot tell them apart otherwise.

| Module | Theorems | The inductive invariant |
|---|---|---|
| `RefreshableProofs` | of `Refreshable`: `TypeCorrect`, `LockCorrect`, `FlagNeverStuck`, `BlockingRefreshNeeded`, `ReturnedTokensAccepted` | `LockInv`: the owner of the lock is the one caller inside `token()`, which makes the locked regions exclusive. `FreshnessInv`: as long as the clock has not jumped, a stored token's expiry runs ahead of the server's by at most the latency, chosen tokens have margin and pause left from the moment of the choice, nobody overstays. |
| | of `SessionLogin`: `SessionTypes`, `OwnSession`, `NoNeedlessLogin` | `OwnInv`: the code that is exchanged came with the state of the process' own login, and the session of it stays the one in its hands until it is saved. `FileInv`: a process that is alone with the file has emptied it and is the only one to write; what it has saved is one whole token until somebody opens the file again, so that a start that asks for a login has found something else, or a session that the server did not renew. |
| `MultipartUploadProofs` | `TypeCorrect`, `PartNumbersMatch`, `ObjectIsStream`, `PartsNeverChange`, `UploadRefinement` | `UploadInv`: the parts believed uploaded tile the stream in front of the buffer. `StoredInv`: only the part being sent can be stored already, and it is this chunk. The object alone would not be inductive: that it is whole follows from what the client knows when it completes. |
| `ResumableUploadProofs` | `TypeCorrect`, `StoredIsPrefix`, `NoByteIsSkipped`, `NoChunkIsEmpty`, `ObjectIsStream`, `UploadRefinement` | `PrefixInv`: buffer, discarded bytes and offset agree; the server's content is the identity; what a late chunk carries is right; whatever holds the last byte announces the end, so that something is left to be sent as long as the object is not finalized. `EndInv`, for full reads: nothing else announces the end. |
| `ResilientDownloadProofs` | `TypeCorrect`, `BytesInOrder`, `BytesOfOneVersion`, `EndIsComplete` | `DownloadInv`: the response is of the version the first one was; the caller's bytes, those collected by the read and those in the buffer are consecutive stretches of it up to `_offset`. |
| `RetriedRequestProofs` | `TypeCorrect`, `BodiesAreWhole`, `StreamsAreSentOnce` | the stream stands at its initial position whenever the loop is entered; a stream that cannot be rewound never enters it twice. |
| `FileMoveProofs` | `TypeCorrect`, `NothingIsLost`, `SourceIsEmptied`, `TargetIsKept` | `TreeInv`: what has entries is not deleted before them. `MoveInv`: while the source is listed, each file of it has been found or lies below a directory that is still queued; while it is copied, each has been copied or is in the list; when it is deleted, all have been copied. The loss of a file is not inductive alone: deleting does not ask what was copied. `DeleteInv`: as long as the root of a volume stands, its own call of `delete` is at the bottom of the stack. |
| `WaiterProofs` | of `Waiter`: `TypeCorrect`, `SettledIsNoticed` | `WaitInv`: when the object has settled since the last poll, that poll was missed by no more than it took; an answer that is under way is of the current state, or the object changed just now. |
| | of `RemoteDbUtils`: `OneInsideLock`, `ClusterHasRun`, `ContextIsKept` | `LockInv`: one thread at most is inside the lock. `ContextInv`: who is there, past its second look, has found no context, and nobody else sets one. `RunningInv`: what is running has been running since the call. A wait ends in one of the states of its row of `Waiters`: that this is `RUNNING` alone is a lemma on the table. |
| `DataPlaneProofs` | `TypeCorrect`, `OneSource`, `TokensMatchDetails` | `TableInv`: the table and the token sources are one relation, both ways. `LockInv`, with the second half of `InfoInv`: who is about to create a source is alone inside the lock and has found none. `SourceInv`: the source a thread waits for is of its details. |

Each of these files has the same layout: lemmas on operators, then for each invariant
the initial states and one step per action, then the theorems, which combine them with
temporal reasoning in their last step only.

Only model-checked: the liveness properties (`EveryCallReturns`, `Terminates`, `CallsEnd`
and the like), which are outside the reach of the proof system.  All invariants and all
action properties of the runs, and both refinements, are proved.

## 5. What is not modelled

Of the package's lines, more than nine in ten are in `service/`: classes that convert to
and from JSON, and methods that make one request and keep nothing.  What a model could
say of them is what their text says; those of them that wait (`Waiters`) or keep state
(`DataPlane`) are modelled.  Otherwise:

Pure functions (error mapping, selection of node types, user agent, path encoding),
logging; signals and the end of the interpreter; HTTP itself, except for the errors that
reach the code; the contents of files; authentication protocols beyond the token cache
and the browser login.  Each component's entry in `PROJECT.json` says why.

## 6. Plan

Done: token cache, uploads with their abstract specification, download, retries, moves,
data plane, waits, remote dbutils with the cluster, browser login.  Next, in this order:

1. Proofs: that a deep volume loses nothing but what its listing did not find, in place of
   the hypothesis of `NothingIsLost`; the refinements of item 2, step by step.
2. `TokenSource`, abstract: `token()` returns one of the tokens fetched so far that is
   accepted, or raises.  `Refreshable` is to implement it without its timing, and
   `DataPlane` to use it in place of its own two steps.
3. `UploadChoice`: pre-read, one-shot upload or initiation, fallback between the two
   protocols (`files.py:727-790`), composed with `AtomicUpload`.
4. The page loops of the generated services and of `JobsExt`, and the strategies' order, as
   operators checked against reference definitions.

Each new module gets one passing run with its safety and liveness properties together.
Runs for the disagreements of section 3 are kept only as long as they are instructive.
