# TestRail API client: verification project

TLA+ models of `testrail-api-client` (`src/`), checked with TLC and, where marked, proved with TLAPS.
Every definition is translated from the source; `PROJECT.json` (`map`) names the lines.

    tlc -workers 2 -config RequestCache.cfg MCRequestCache     # one run
    tlapm RequestCacheProofs.tla                               # the proofs of a module

## 1. The system

A client object (`TestRailClient`, over `TestRailClientCore`) turns typed method calls into HTTP
requests to one TestRail server.  A command line program drives one client per process.  JavaScript
runs on one thread: concurrency is the interleaving of callbacks of many requests, of timers, of
`destroy()` and of the server, which executes requests at moments of its own.

| Component | State | Operations | Talks to |
|---|---|---|---|
| Request cache (`request-cache.ts`) | `entries`, `pending`, `generation`, sweep timer | `resolve`, `invalidate`, `dispose`, `cleanup` | called by `request()`; runs the loader it is handed |
| HTTP pipeline (`client-core.ts`) | per request: attempt number, `AbortController`, timer, credential | `request`, `executePipeline`, `attemptPipeline`, executors | `fetch`, DNS, limiter, budget, policy, cache hook |
| Retry policy (`retry-policy.ts`) | none | derivation, two predicates | asked by the pipeline |
| Rate limiter (`checkRateLimit`) | `rateLimiter.requests` | one, per attempt | called just before `fetch` |
| Request budget (`request-budget.ts`) | `deadlineAt` | `allowanceFor`, `race`, `delay`, `expired` | clips the pipeline's timers |
| Client life cycle (`client-core.ts`, `client.ts`) | `isDestroyed`, registry of clients, timeout views | `destroy`, `withTimeout`, signal handlers | disposes the cache, erases the credential |
| Upload source and transport observation (`upload-source.ts`, `upload-transport.ts`, `pinned-dispatcher.ts`) | descriptor, stream, set of sockets | `build`, `release`, `cleanup`, `stop` | pipeline, undici dispatcher |
| Operation tracking (`operation-tracking.ts`) | `pending` count of a scope, ambient scope | `observe`, `release`, `startOperation` | cache joins, upload streams |
| Pagination (`pagination.ts`, `modules/paginated-list.ts`) | accumulated items, counters, expected offset | `collectAllPages` | pipeline, the list at the server |
| Body reader (`body-reader.ts`) | bytes read, deadline | `readBodyWithLimits` | pipeline, response stream |
| Domain modules (`modules/*.ts`) | none | one method per endpoint | pipeline, pagination |
| CLI invocation (`cli/index.ts` and what it calls) | argv, stdin, the diagnostic scope, one client | gates, handler steps, outcome | client, stdin, files, signals |
| Run watch (`cli/handlers/run-watch.ts`) | last snapshot, timer, `cancelled` | `poll`, `onSignal` | pipeline, signals |
| CLI files (`safe-write.ts`, `file-output.ts`) | one descriptor | open, validate, truncate, write | file system |
| Skill installation (`install-skill.ts`, `uninstall-skill.ts`) | staged and backup trees | stage, rename, roll back, clean up | file system |
| Diagnostics file (`diagnostics.ts`) | the reserved file, its descriptor and identity | reserve, write the record, finish | file system, CLI invocation |
| Host validation, schemas, presentation, generators | none that changes over time | parsing, tables, formatting | |

What makes each hard, and what makes it correct:

* **Request cache.** Loaders outlive invalidations; two loaders of a key may run at once and end in
  either order; callers join loaders of others; `dispose` leaves loaders running.  Correct when a read
  never returns less than this client had seen acknowledged when the read began, when concurrent
  reads are coalesced, when what is offered can still answer, and when a destroyed client keeps
  nothing.  Storage: an entry within its TTL is lost to eviction only, and eviction takes the least
  recently used one.
* **Pipeline, policy, limiter, budget.** Responses get lost, the server executes late, timers fire
  early, `destroy()` runs between attempts.  Correct when nothing with effects is executed twice, when
  the outcome told is true of the server, when a committed write invalidates on every path, when the
  window is never exceeded by admissions and its slots are the attempts that were sent, when a
  request ends by its deadline and names the deadline that ended it, when each request ends, when
  descriptors are closed.
* **Uploads.** Teardown runs while the transport encodes: a truncated file must not get a valid
  closing boundary, nobody else's request may be destroyed, and the file must be let go.
* **Operation tracking.** A scope settles exactly after everything observed in it, joins included.
* **Pagination.** The list changes between pages and continuations may be malformed: the loop must
  end within its bounds and return all or nothing.
* **Body reader.** A chain of resolved reads starves the timer: nothing may succeed after the deadline.
* **Run watch.** A signal during a poll must end the watch without arming another timer; transient
  failures must not end it.
* **CLI invocation.** Three tables name each operation; several gates each ask for part of a confirmation; one stdin has three
  possible readers; a flag may swallow the next.  Correct when what leaves is what the command line asked for, confirmed, whole,
  and truthfully reported, and when a dry run leaves no trace.
* **Files, skill, diagnostics.** Paths are replaced between steps; two steps of a replacement fail
  or the process dies between them.

`PROJECT.json` lists every hazard at its line, with the properties that would catch it.

## 2. Modules

| Module | Models | Uses |
|---|---|---|
| `CacheStore` | storage of `request-cache.ts`: `read`, `write`, `evict`, `cleanup` | |
| `CacheUse` | `CacheStore` with a history variable: the definition of least recently used | `CacheStore` |
| `RequestCache` | `resolve`, `invalidate`, `dispose` as `request()` drives them, writes, the server | `CacheStore` |
| `FreshReads` | abstract: what a caller of the cache may rely on | |
| `RequestCacheProofs` | theorems about `RequestCache` and the order of eviction | `RequestCache`, `CacheUse` |
| `RetryPolicy` | `retry-policy.ts`, a pure module | |
| `RateLimiter` | `checkRateLimit` | |
| `HttpPipeline` | the pipeline, the budget, the descriptor, `destroy()`, the network and the server | `RetryPolicy`, `RateLimiter`, `Exchange` |
| `Exchange` | abstract: what the caller of a request with effects may rely on | |
| `HttpPipelineProofs` | theorems about `HttpPipeline` | `HttpPipeline` |
| `Pagination` | `collectAllPages`, the list at the server, other users | |
| `PaginationProofs` | theorems about `Pagination` | `Pagination` |
| `RunWatch` | the poll loop of `run watch`, its timer, its signal handler | |
| `Upload` | one multipart upload: the part's stream, what is observed of the transport, teardown, its scope | |
| `UploadProofs` | theorems about `Upload` | `Upload` |
| `InstallSkill` | `install-skill` and `uninstall-skill` on a file system that the user changes too | |
| `InstallSkillProofs` | theorems about `InstallSkill` | `InstallSkill` |
| `TrackedReads` | `operation-tracking.ts`, `body-reader.ts`: calls that join a loader, the body it reads, `settled` | |
| `TrackedReadsProofs` | theorems about `TrackedReads` | `TrackedReads` |
| `Operations` | every method of `modules/*.ts`: a table | |
| `Commands` | every command and flag of the program (tables), the parsing and checking of a command line | |
| `Handlers` | every handler: the method it calls and the steps around it (tables) | |
| `CliRun` | one invocation from argv to the exit code | `Operations`, `Commands`, `Handlers` |
| `CliRunProofs` | theorems about `CliRun`, its parser, and `RunWatch` | `CliRun`, `RunWatch` |
| `CliFiles` | `--out` and `--diagnostic-file` on a file system that other programs change | |
| `CliFilesProofs` | theorems about `CliFiles` | `CliFiles` |
| `MC...` | values for TLC | |

Definitions introduced by *a mutated form* are plausible bugs of the definition that follows them;
nothing refers to them but `mutants` in `PROJECT.json`, where each is what shows that a property
depends on the code.

### CacheStore

`entries` is the `Map`; its insertion order, which is the LRU order, is `order`, a strict relation:
`<<a, b>>` is in it when `a` was inserted before `b`.  `ReadHit`, `ReadMiss`, `Write`, `Clear`, `RemoveExpiredEntries` are the methods; a read moves
what it finds to the end and deletes what has expired.  `Discard` is what `invalidate` and `dispose` do to the storage; the latter stops the timer first.  `Tick` is the clock.

`CacheUse` records which keys were hit or written since a key last was (`since`), without looking at `order`: least recently used is what every other key was used after.

### RequestCache

A call slot is a `request()` of a GET from its synchronous decision in `resolve` (`ResolveHit`, `ResolveJoin`,
`ResolveLoad`, `ResolveUncached`) to its caller's continuation.  The loader's promise resolves in
`Publish` (generation compared, entry written, all in one callback) or rejects in `LoaderFails`; the
`finally` callback and the answers to all who joined are `Settle`, a step of its own because other callbacks
run in between.  The server holds one version per key.  `SendWrite`, `ApplyWrite`, `AcknowledgeWrite`,
`FailWrite` are this client's writes: acknowledged means that ok headers arrived, which is when the code
invalidates.  `ForeignWrite` is somebody else's.  A response may be read by the server at any moment of the loader's
life, and again when the pipeline retries (`Serve`).

### HttpPipeline

`req[r]` is the state of one request.  `Request` is `request()` down to the attempt's first `await`;
`DnsResolves` and `Built` end in `Send`, which is admission and `fetch` in one synchronous step, as in
the code; `OkArrives`, `ErrorArrives`, `Redirected` are the continuation of `fetch`, `BodyRead`, `ErrorRead`
and their failures the continuation of the body; `Delayed`, `DelayEnds` the wait before a retry.  `AttemptTimer`,
`BudgetTimer`, `BodyTimer` are the three timers.  `wire` holds the copies with effects that
TestRail may still execute: it keeps them when the client gives up, and `Execute` may happen at any time
after.  `ErrorArrives` takes a copy off the wire when the status says that it was refused; a 5xx leaves it.

`exchange` is what this is to callers: a request with effects is *waiting* until it is done, then *committed* (it was answered, or its answer could not be read),
*refused* or *unknown*.  `KeepsPromise` is that the pipeline implements `Exchange` under this mapping, with attempts, timers and the network hidden.

Abstracted: the text of errors; the order of the limiter's array; reads on the wire (they change
nothing); which body limit was exceeded.  Left out: a custom `fetch` that ignores its abort signal, and
platforms other than POSIX, where the descriptor is closed at once.

### Pagination

One aggregate read.  `Start` is `collectAllPages` down to its first `fetchPage`; `Serve` answers a page, `Receive` is everything
`collectNext` does with it down to the next `fetchPage` or the end, `FetchFails` its catch branch.  The clock is read three times while a page is
looked at, and each reading may be later than the one before.  The server is an honest one with pages, an honest one without (a bare array, whatever was
asked), or one that answers any page of a set.  Other users append and remove rows.  A page is
its rows, its offset and its continuation; decoding is abstracted to "undecodable" and "malformed".
The pipeline below is `HttpPipeline`'s page read with a deadline.

Worth knowing: a bare array that answers a later page, after envelopes, is accepted as the last page, and a row removed
while pages are fetched makes the aggregate miss another; the code can see neither, so no property speaks of them.

### RunWatch

`handleRunWatch` from its first poll on.  A step is one turn of the event loop, so that what a callback resolves has run its
`finally` block.  `Answered` and `PollFails` are the two branches of a poll, `TimerFires` the head of `poll`, `Signal` is
`onSignal` with what follows it: where `cli.ts` has registered the client's own handler the process exits, where
`runCli` is embedded the handler returns with a poll possibly still in flight.  `Serve` is the server, which answers at any moment
of a poll.  A snapshot is completion and one value for all counters.  Left out: `--dry-run` and the validation of `--interval`.

### Upload

One `attemptPipeline` with a file, from `fetch` (`Fetch`) to its `finally` block (`Finally`: abort, proof, teardown of
the streams, listeners removed, in one synchronous step as in the code), and everything that goes on beside and after it.  `fetch`, the
encoder and the sockets are not of this repository and are modelled from what the code relies on: the body may be sent in several
exchanges, one of `http1`, `http2`, `pinned` or `silent` for the whole upload; `Create`, `SendHeaders`, `Flush` and `Dies` are what undici
publishes, and what the listeners of `observeUploadTransport` note of it is in `requests` and `owner`.  An abort reaches any subset of
the exchanges, none included, except that the pinned dispatcher obeys it.  `OpenStream` to `CancelSettles` are the stream that `ownUploadStreams` puts in place of the file's, one
action per callback.  `stop` and `hasStoppedUploading` are the two proofs that nobody encodes any more; the first destroys the sockets it `Owned`.
Other requests use the same pool (`OtherSends`), the same HTTP/2 session, or a connection the upload has done with (`Reuse`).
`scope` is the scope that `resolve()` opens for the request: its result counts one, and each stream, read
and cancellation one from its beginning to its end; so does the pipeline by which the pinned dispatcher sends the body (`Dispatch`; it ends with the
encoder in `EncoderFails` or, once its request is over, in `PipelineEnds`) and the cancellation of an answer that nobody read (`unread`, from `Finally` to
`AnswerCancelled`).  Such a pipeline ends only when the encoder does, and the comment at `upload-source.ts:100-104` says that an encoder suspended in a part may stay pending when that part
fails: `MayStayPending`, of which nothing is assumed.  That teardown leaves no pipeline there is what `OperationSettles` says; it excepts a body
that was piped while its file could not be read, which fails the part before any teardown.  Reading the answer is `TrackedReads`; `fetch` itself is observed by budgets with a deadline only, which uploads have not.  An HTTP/2 stream is either matched with its request or missed;
an exchange may also begin after the attempt has ended.

### InstallSkill

The state is the installed tree (`target`), the workspaces of the installers (`staged`, `backup`) and what lies behind a link
(`outside`).  A file is absent or holds what some package, the previous version or the user put there; `reference/` and the root of the tree
may be links.  An installer goes through `Check`, `MakeWorkspace`, `Copy`, `Stage`, `Retire` (first rename), `Publish` (second
rename) or `PublishFails`, `RollBack` or `RollBackFails`, and `CleanUp`, its `finally` block, which may itself fail; `Fails` is any other
call that throws, `Killed` the end of the process anywhere.  An uninstaller finds and removes the body, lists the references, removes
them one by one and tidies up; each call goes by path to whatever tree is there by then.  Everything before the first rename
concerns a workspace of a random name, so `Copy` and `Stage` are one step each.
What comes into the tree between an installer's `Copy` and its `Retire`, from the user or back from another installer's workspace, goes with the
backup, which nothing in the code could notice.  `seen[p]` remembers which of the user's files `p` copied and `there` those that must not be lost:
`Publish(p)` takes what `p` had not seen (`Unseen`) out of `there`, so that `NothingIsLost` promises everything else and admits this one loss.

### TrackedReads

Calls of one GET, each with or without `trackOperation`, and the loaders they start or join.  A scope is the set of promises it watches;
`release` takes one that has ended, and the scope is done when none is left, which is what `pending` counts.  `Join` lets the call's
scope watch the `settled` of a loader somebody else started.  A loader's body is read by `ReadResolves`, `CheckRead` and `Store` (the loop of `drain`),
`Timer` (the race with the deadline), `Accept` and `Return`, each of which looks at the clock because time passes between them;
`CancelEnds` is the end of a cancellation nobody waits for.  `read()` and `cancel()` are the stream's: they may give nothing, fail, or never
settle.  `fallback` is a response without a stream.  A loader that began before tracking was engaged has no scope, so that nothing but its result can be awaited.

### Operations, Commands, Handlers

Three tables, transcribed row by row from three sets of files: the methods of the client, the commands of the program with
their flags, and the handlers between them.  A row of `Operations` has what tells requests apart (verb, endpoint, identifiers, kind of body and of
answer, intent, list, preview); a row of `Commands` the `ActionSpec`; a row of `Handlers` the method called and the order of the
handler's steps.  Commands also parses: a token is a `Flag`, a flag with its value `Inline`, or a `Word`; a string flag takes whatever comes next.

### CliRun

`at` is where the invocation is, `step` where in its handler.  `ParseArguments` to `CheckEnvironment` are the gates that nothing precedes;
`TakeKey`, `KeyRead`, `Authorize` the credential; `Reserve`, `CreateClient` the scope of `withDiagnostics`.  Then the steps of the handler's row in
order, each an action of `CliRun`: `ParseIds`, `resolveBody`, `resolveSoftFlag`, `Preview`, `Confirm`, `resolveFile`, `resolveOut`, `Call`, `Answer`, `WriteOut`, `Output`.
`Succeed`, `GiveUp` and `Interrupt` are the three ends; each finishes the reservation (`finishDiagnostic`), whose removal of a file without a record may
fail or find another file in its place.  The program then warns, its exit code is what it was, and the file stays (`record` is `"abandoned"`), after a success too; so does one that a
refused reservation could not take back.  `OutcomeIsTruthful` says that a record stands after failures only, never that no file stays.  stdin is a terminal, a pipe that blocks or one that does not; its writer sends `Parts` parts and
closes when it likes, or never.  Which values of a flag are refused is a choice of each gate
(`--out -` with `--format`, refused for one format only, among them).  The terminator `--`, after which everything is a word, is not modelled.  The reserved file is `CliFiles`, the skill commands are `InstallSkill`,
the loop of `run watch` is `RunWatch`.

### CliFiles

Names are entries of directories, files have a kind, permissions and what they hold.  One action per system call of
`prepareDiagnosticDestination` (Linux and Darwin), of its `write` and `finish`, of `resolveOut` and of `safeWrite`; between any two of them another program may
put a file or link at a path (`Plant`), remove or rename it (`RemoveEntry`), link the reserved file elsewhere (`HardLink`) or open it to others
(`Share`).  `--out` and `--diagnostic-file` may be two names, one path spelled twice, or two spellings a file system folds together.
`calm` records which path was left alone since the program last looked at it: no program can do more by path than look.
If another program links `--out` to the reserved file, the answer is saved there and the record may come to stand behind it; nothing in the code notices
(the path is `--out`'s by then), and the property says so.

## 3. What is checked

| Run | Question | Bounds | Distinct states |
|---|---|---|---|
| `cache_store` | LRU, capacity, expiry | 3 keys, capacity 2, TTL 2, 4 instants | 716 |
| `request_cache` | that the protocol implements `FreshReads`, coalescing, disposal, that every call ends | 2 calls, 2 timeout pairs, 1 writer, 1 key, 2 versions, sweeping, 2 instants, 1 explicit invalidation | 490 k |
| `http_pipeline` | that the pipeline implements `Exchange`; execution at most once, truthful outcomes, descriptor, credential, the window | 2 requests of 3 shapes, 1 retry, window 2, limit 1, 5 instants | 234 k |
| `http_pipeline_deadlines` | every request ends, by its deadline, and names it | 1 request of 7 shapes, 2 retries, deadlines 2 and 4, early timers, server-set delays | 889 k |
| `pagination` | an honest list is returned whole, or refused for the bound that is named, exceeded or reached with more to come; with odd pages: bounds and deadline | 7 rows, 2 more by others, page sizes 1, 2, 3 and 7, server limits 3 and 7, start at 0 or 2; odd pages of 0, 1 or 4 rows with any offset to 3 and any continuation; at most 3 pages, 7 rows, 10 bytes | 4.4 M |
| `run_watch` | what is told, silence and no timer after the end, when it ends | 3 values of the counters, 3 failed polls | 3 k |
| `install_skill` | nothing lost, installed whole, nothing written through a link, away only for a moment | 2 installers, 1 with `--force`, 1 uninstaller, 1 reference, 1 file of the user's | 575 k |
| `upload` | no valid end of a truncated file, nobody else harmed, settled when and not before all is let go, the pipeline of the body and an unread answer included | 2 exchanges, 1 other request, 2 sockets, a file of 1 chunk | 534 k |
| `tracked_reads` | a body that is returned is whole and in time, `settled` comes after all that was started or joined, and comes | 2 calls, 1 loader, 2 bytes, no deadline or one of 2, 4 instants | 287 k |
| `cli` | what is sent is what was asked for, whole, confirmed, reported truthfully; no trace of a dry run; the command ends | every command with the flags it needs, alone, dry, confirmed and soft; 14 commands with every combination of 5 to 7 flags; misplaced flags; stdin of 2 parts | 631 k |
| `cli_files` | nobody loses a file, what is told saved is saved, a record is kept or its loss told | 3 changes by other programs, 2 platforms that reserve and 1 that refuses | 797 k |

Why the bounds suffice.  The cache hazards need a loader, a call that joined it or its successor, one key (keys do not interact except in
storage, which `cache_store` checks), one invalidation by a write and one by hand; the proofs cover any number of calls.  Requests of the pipeline share only the window and
`isDestroyed`; a second copy of a request needs one retry, two retries show that nothing depends on the retry
being the last.  The limiter needs one request more than the limit and instants beyond
the window.  An aggregate differs in its first page, a middle page and its last one, and the three bounds are each
reached first in some behaviour.  The list and its pages can meet each of the
three bounds exactly, with more rows to come and without, and go beyond it.  Its first rows are alike, so that they can be many: what is skipped or
repeated shows in their number, and the rows that others append differ.  The deadlines are one shorter and one longer than an attempt and its delay.
Two installers and an uninstaller are every
pair of commands that can meet, and one reference beside the body is enough to be missing.  An upload needs a second exchange to lose or to overlook while the first is proved dead, and one chunk to be torn down in
the middle; the proofs cover the rest.  A call that joins, and the one that started the loader, are the two roles in
`TrackedReads`; 2 bytes are a chunk that fits and one that does not, one deadline leaves an instant before and one after.  In `CliRun` commands differ by their rows, which are all there,
and flags interact within the groups that are combined.  Three changes are enough to take a path away, put something in its place and undo it.

All runs set `CHECK_DEADLOCK FALSE` except `cache_store`, `cli` and `cli_files`: each request is made once, the clock stops at
`MaxTime`, and a destroyed client rests, so the modelled system really may stop.

**Fairness.** `RequestCache`: the event loop runs queued callbacks (`Settle`, `DeliverHit`), and every
loader ends, which is what `http_pipeline_deadlines` checks of the pipeline it stands for.  `HttpPipeline`: timers
fire and time passes, and opening a file ends.  Nothing is assumed of the resolver, the network or
the server.  `RunWatch`: the timer fires and a poll is served and
answered; a poll may fail `MaxFailures` times.  `Tick` waits for a due timer, because an idle event loop runs it at once; a busy one is not modelled.
`InstallSkill`: an installer that is not killed goes on, being a sequence of synchronous calls; it may be killed at any moment.
`Upload`: reads and cancellations of a local file settle, and the cancellation of an answer whose request was aborted; a pipeline whose request is over ends unless its part failed,
which is what the comment quoted above allows to rely on.  Nothing else is assumed of `fetch`, encoder, sockets or server.
`TrackedReads`: promise callbacks and timers run and time passes; a read or a cancellation may never settle.  `CliRun`: the program goes on whenever it can;
nothing is assumed of the writer of stdin, so that a command that reads text from a pipe held open may wait, which `CommandEnds` excepts.

### Disagreements with comments and documents

* `descriptor_of_refused_upload` ends in a violation of a property that restates the quoted text: an upload on a destroyed client is refused by `request()` before
  anything owns the descriptor, which stays open; `types.ts:312-316` and `upload-source.ts:20-23` say it is consumed.

Two more were met while modelling and have no run of their own.  The comment on `checkRateLimit` (`client-core.ts:388-390`) bounds the overshoot of the window
by `maxRetries` slots; retries are never rejected, so it is per admitted request.  `run-watch.ts:79-80` and `:122-124` promise that a
transient failure of the network does not end the watch; the pipeline's own timeout is a 408 and a failed look-up a validation error, and both end it.

## 4. What is proved

Theorems hold for any sets of keys, calls, requests, any capacity, TTL, timeouts and limits that
satisfy the named assumptions of the modules (`StoreAssumption`, `CacheAssumption`, `LimiterAssumption`,
`PipelineAssumption`, `PaginationAssumption`, `UploadAssumption`, `BoundsAssumption`, `SkillAssumption`,
`NoTreeAssumption`, `MaxChangesAssumption`, `PartsAssumption`, `InvocationsAssumption`, `TablesAgree`).  TLC evaluates each of them on the runs.  Two theorems have hypotheses of their own: those about the watch
assume `WatchAssumption`, because they speak of an instance of `RunWatch` (TLC evaluates it on `run_watch`), and `Declared` assumes `RowsDeclared`, see below.  The type invariant of
each of these modules is a theorem (`TypeCorrect`).

**`RequestCacheProofs`** proves `TypeOK`, `ReadsSeeAcknowledgedWrites`, `OneLoaderPerGeneration`, `OffersAreLive`,
`DestroyedKeepsNothing`, and that each step implements `FreshReads`.  Freshness is not inductive: it
relates an answer to an acknowledgement long past.  `IInv` carries it through every place where a value may rest.
`AcknowledgedIsServed` ties acknowledgements to the server; `LoadersAreFresh` says that a loader that has a
response has one new enough for its initiator, and, if no invalidation came between (`gen = generation`), for the
cache; hence `EntriesAreFresh`; `OffersAreLive` with `LoadersAreFresh` gives `JoinersAreFresh` when a
call joins.  Coalescing needs the converse of `OffersAreLive`, `SharedIsOffered`.  Disposal needs
`DestroyedIsInvalidated`: whatever still runs began in an earlier generation.

`LeastRecentlyUsed` proves `LiveLostOnlyToEviction` of `CacheUse`, for any keys, capacity and TTL.  `Uses` says that last use is a strict order
of all keys, `Ranked` that it is total on the stored ones and that `order` is the same order, although the history never looks at it.  A full cache has an oldest entry to evict
(`Oldest`, by the well-founded inclusion of finite sets), exactly one, because `order` is total; so a write never leaves more than `MaxEntries`.  `StoresAsCacheStore` shows
that every step of `RequestCache` is a step of its storage or a stutter: no loader, writer or `destroy()` gets round the policy.

**`HttpPipelineProofs`** proves every safety property of `HttpPipeline`: `TypeOK`, `ExecutedAtMostOnce`, `OutcomesAreTruthful`,
`CommittedIsInvalidated`, `DescriptorReleased`, `CredentialSent`, `EndsByDeadline`, `TimeoutNamesItsDeadline`, `SlotsAreSends` and
the action property `AdmissionWithinWindow`; and, of `RetryPolicy`, that what has effects is repeated on a 429 only
(`EffectsRepeatedWhenLimited`).  "At most once" counts copies over the whole life of a request, so the invariant says where copies
can be: only the *current* attempt has any (`MayHaveCopy`), and a request whose status allows a repetition has none, by the retry
policy.  The proof is by request: `Holds` states what the invariant says of one request, its copies and its invalidation; a
step of `r` is `Isolated` (touches nobody else), so one lemma per action (`SendHolds`, `OkHolds`, ...) is enough.  `Sound` bundles
descriptor, credential and deadlines; deadlines survive `Tick` because it waits for due timers (`TickSound`), and
attribution needs to remember that an abort happened no earlier than `Early` before its deadline.  The window is a separate
invariant: `SlotsAreSends` with `SlotsArePast`; admission follows by counting.  `IInv` in `HttpPipeline` is this invariant in the
form TLC evaluates; `Inductive` proves it.

`ImplementsExchange` is the refinement.  A step of the pipeline begins an asking (`BeginsAsking`), goes on with one, telling or not (`GoesOnAsking`), lets TestRail
execute a copy (`ExecutesOnce`) or concerns a request without effects (`ReadsAside`).  What is told is true by `Holds` (`ToldTruly`); that a copy is executed
once, and never after its caller was told the end, follows because all copies of a request belong to one attempt.  Executions are told apart by their attempt, so
their number has to be bounded (`RetriesBounded`: a delay is waited for only with a retry left).  `CommittedIsInvalidated` is a theorem (`Committed`) and no longer a property of the run, since `Exchange` lets nobody hear of a write before its invalidation.

**`PaginationProofs`** proves every property of `Pagination`, for any bounds, pages and list.  `NoPositionTwice` needs that what has been collected
lies before what is asked for (`CollectedLiesBehind`); the bounds follow from the checks one page passes.  `RefusedForCause` looks at them from the other side: what was counted when a
bound is named exceeds it, or equals it with rows of the list still to come.  `CollectedIsList` is carried by
`HonestProgress`: the collected rows stand in the list from `First` on (`StandBehind`), what is asked for begins where they end,
an answer on its way continues there, and only the last answer completes the list that was there at the start.  Appending
rows keeps rows where they stand; removing one does not, which is where the promise ends.

**`UploadProofs`** proves the four safety properties of `Upload`.  The heart of it is `ProofIsSound`: if the transport is said to have
stopped, an exchange whose part is still read cannot send.  That needs `ObservedIdentify` (what was noted of an exchange
that is sending names its socket, and with HTTP/1 its socket names the exchange) and `SocketsCarry` (an HTTP/1 socket carries one request), so that
a destroyed socket means a dead exchange.  `PartsFollowFiles` then keeps a part that ended early away from whoever can flush it.
`OnlyOwnSockets` is the converse for other requests.  `SettledIsQuiet` follows from counting: `PendingCounts` says that `pending` is the
number of what is outstanding (the result or the answer being cancelled, the files, their cancellations, the reads, the pipelines), so it is 0 exactly when nothing is (`NothingOutstanding`); one
lemma moves a single exchange between the counted sets (`CountsMove`), one does the teardown (`CountFinally`).

**`TrackedReadsProofs`** proves both safety properties of `TrackedReads`, for any number of calls and loaders, bodies of any size and any deadlines.
`Sound` relates, within one loader, what was sent, what is counted and how the race stands: a chunk that was read is counted or being stored
(`Counted`), a race is won by draining only if the stream had ended, and a reader is cancelled only after a timeout or a refusal (`Raced`).
`SettledIsOver` needs that a scope never lets go of what still runs: a loader's scope watches its result, its draining and its
cancellation for as long as each goes on (`Watched`), and a call's scope watches the call and the loader's `settled` until that scope is done (`Followed`).  A scope that is
done watches nothing, hence nothing goes on; and no step can add to a scope that is done, since each that does so belongs to a loader
without a result or one that still drains.  Every step of a loader has the form `BodyStep`, for which preservation is proved once.

**`InstallSkillProofs`** proves `NothingIsLost`, `WholeOrNothing` and `OutsideUnwritten`, for any packages, any files of the user's and any number
of installers and uninstallers.  `NothingIsLost` speaks of all workspaces; what is inductive is stronger (`Kept`): a file is at
the target, or in the *backup* of an installer that is not about to remove it (`Keeps`).  `Workspaces` says what an installer's workspace holds at
each stage: its copy has all it has seen, with the whole package on top, and is no link.  So what `Publish` puts in place has whatever the
backup had and the installer had seen, and the rest is the loss that is admitted.  A moved tree may come
back, hence `AllWhole` speaks of the backups as well as of the target; it holds while no uninstaller has begun.

**`CliFilesProofs`** proves `SavedIsWhole`, `DiagnosticIsKeptOrTold` and the action property `OthersKeepTheirs`, for any number of changes by
other programs.  `Reserved` says that the reserved file is a regular one of the program's own that holds its record and nothing
else unless an answer is saved in it; `Target` what is known of the file behind `--out` at each call between the look and the write;
`Removable` that an entry nobody touched still names what it named when it was looked at, which is all that a program can know before it unlinks by path.  `Room` is of
the model: each change uses up one file at most, so a file can be made whenever one must be, and no action is blocked by the bound.

**`CliRunProofs`** proves `DryRunLeavesNoTrace`, `OnlyConfirmedDestruction`, `InputIsWhole` and `OutcomeIsTruthful`, for any command lines, any length of
stdin and any writer.  Of the tables it knows `TablesAgree` only (a few facts about each row: what removes something says so and confirms before it calls,
what takes `--dry-run` previews before it calls, ...), which TLC evaluates for every command there is.  `DryRunLeavesNoTrace` says *anywhere on the
line*, and needs a fact about the parser: `--dry-run` is among the flags found, or was taken for the value of another flag and the line is refused
(`DryRunShows`, `DryRunIsSeen`).  The parser is a recursive function; that it is well defined, has the type of its options and shows the flag is proved by induction from the
end of the line (`SetInduction`, a first-order form of induction that the provers can use; it follows from the well-founded
inclusion of finite sets).  The invariant says what has been granted (`Stages`: nothing is touched before the line, the environment and the destructive gate have
let it through; code 2 only where nothing was touched), what the handler has done by each step of its row (`Order`), what the request that left was (`Request`),
who reads stdin and what it has (`Reader`, `Input`), and what stands in the reserved file or was left of it (`Records`).

`Declared` proves `SentAsDeclared` from the same invariant and `RowsDeclared`: that in each row the method called is the declared one, with its identifiers, and writes
only if the row says so.  This is a fact about strings put together in three tables, which no prover here can compute; the run `cli` looks each row up.
What the theorem adds is that nothing between the line and the request (flags, input, the order of the steps, any number of parts of stdin) changes which row is sent.

Of `RunWatch` it proves the action property `ReportsUntilEnded`, for any number of failures and any answers.  `TakesTurns` is what it needs: the timer and a poll in flight exclude each
other, the handle kept is that of the timer armed, so that `onSignal` clears it, and a signal ends the watch in the same turn; hence a poll answered after
the end finds `cancelled` set, arms nothing and tells nothing.

**Only model-checked:**

* liveness (`CommandEnds`, `SkillComesBack`, `EverythingSettles`, ...): fairness and `ENABLED` are out of the prover's reach;
* `RowsDeclared`, the hypothesis of `Declared`: facts about strings, which TLC looks up through `SentAsDeclared` for every command;
* that the mutated forms break the properties they are listed with.

Two properties carry an exception that only the proofs brought to light.  `SavedIsWhole`: if another program links `--out` to the reserved file, that name goes
with the record; it takes four changes by others (TLC finds it with `MaxChanges = 4`, the run stops at 3).  `NothingIsLost`: what another installer moves
back between a copy and a rename goes with the backup just as what the user puts there (`Unseen`).

## 5. Not modelled, and the plan

Left for later, in this order:

1. `ClientLifecycle`: the registry of clients, the signal handlers that destroy them and timeout views, which share a core.  `destroy()` itself is in `RequestCache` and `HttpPipeline`.
2. A composition of `RequestCache` with `HttpPipeline`, whose outcomes refine `Publish`, `LoaderFails`, `AcknowledgeWrite` and `FailWrite`; for the writes, `Exchange` is the interface.

Left out for good, because they have no behaviour over time and compute what a table test states as well: address and configuration checks (`url.ts`,
`config-validation.ts`, `validation.ts`), schemas and types, query parameters and the unwrapping of answers, help and the rendering of output, redaction
of records, generators and release scripts.
Known losses that the code documents or cannot notice, and that no property forbids: two loaders of one key with different timeouts may publish in either order;
a write whose answer was lost leaves cached reads in place until they expire; a file added to an installed skill after an installer copied it goes with the backup; an installer may
publish while an uninstaller removes.
