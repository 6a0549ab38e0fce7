# Wolflog in TLA+

Wolflog receives logs, traces, metrics and web analytics over OTLP, stores them in
Parquet segments, answers queries over them, watches them (alerts, probes, service
levels), and comes with client libraries for .NET applications. This directory holds
TLA+ models of the parts whose behaviour depends on interleavings, failures and
restarts, or on several pieces of code that must agree; the TLC configurations that
check them on small instances; and theorems about most of them that TLAPS checks for every
value of their constants.

Paths below are relative to the repository; `Server` is `src/Wolflog.Server`, `Client`
is `src/Wolflog.Client`, `ui` is `ui/src/app`.

## 1. Inventory

| Component | State it keeps | Operations | What is hard | What makes it correct |
|---|---|---|---|---|
| **Signal store** `Server/Storage/SignalStore.cs`, `Wal.cs` | WAL files, segment files; hot tables, immutable snapshot, deferred jobs | IngestAsync, FlushAsync, writer turn, flush, compaction, retention, start, recovery, stop | crash at any step, I/O errors, compactors and retention beside the writer, readers of old snapshots | what is acknowledged is on disk and visible; files are never pulled from under a reader nor rewritten; every call is answered |
| **Storage host** `StorageHost.cs` | the four stores and DuckDB | retention by age and by disk size, stop in order | retention beside flush and compaction | the oldest go first, only as many as the limit asks |
| **Segment pruning** `SegmentIndex.cs`, `BloomFilter.cs`, `TrigramSet.cs` | an index per segment | build, merge, may-match | false negatives | a pruned segment holds no match |
| **Live tail** `LiveTail.cs` | a bounded queue per subscriber | subscribe, publish | slow readers | it shows what the search would |
| **Ingestion** `Server/Ingestion` | none | conversion of OTLP to rows | sizes, malformed input | every record gives one row |
| **Alert engine** `Server/Monitoring/AlertEngine.cs`, `Notifier.cs` | alert states in memory and in `alert-states.json`, known errors | run (timer and POST /alerts/run), evaluate, apply, send, save | two runs at once, failures between steps, restart, hours of activity | the team's last word is the state of the alert; nothing that lasts goes untold |
| **Probes** `ProbeEngine.cs`, `MicrosoftMailTokens.cs` | last results, next dates, tokens of mail accounts | schedule, check, record, renew a token | slow checks, tests by hand, edits meanwhile | a probe goes on being checked, at its hours; a token stays with its account |
| **Profile requests** `ProfileStore.cs`, `Client.Profiling` | requests and their status | request, poll, save, expire | several instances, lost results | each request ends, on one instance |
| **Configuration** `Server/Configuration` | JSON files, copies in memory, copies computed from them | read, upsert, update, replace, trim | the `wolflog` command and a restore write the same files | no accepted change is lost; a copy says what the file says |
| **Log sources** `Server/Sources` | positions of files, queue of entries | tail, batch, send, reconcile | rotation, restart, failed sends | each line is ingested whole, once; none is skipped in silence |
| **Security** `Server/Security` | accounts, keys, sessions, profiles | sign-in, provisioning, administration, access decision | concurrent administrators and sign-ins | an administrator remains; one account per name |
| **Hosting** `Server/Hosting` | lock of the data directory | backup, restore, command line | the data moves during a backup | an archive holds what was stored |
| **Queries** `Server/Query`, `Logs` | none | search language, SQL filter, pages and cursors | one query read in three places | pruning, search and live tail agree; no log is skipped between two pages |
| **Analytics** `Server/Analytics` | the salt of the day | count a visitor | midnight, failures | one salt per day, one day per salt |
| **Dashboards** `DashboardStore.cs`, `DashboardAccess.cs`, `ui/pages/dashboard.ts` | boards, panels hidden by profile | show, save, reset, delete | people who see different panels save the whole board | what one does not see one does not change |
| **Browser scripts** `Rum/wolflog-rum.js` | page under way, queue of events | load, route, hide, show, close | deferred work in one thread | a page is counted once |
| **Client transport and outbox** `Client/Internal/WolflogTransport.cs`, `DiskOutbox.cs` | circuit, hint, files shared by the processes of a service | deliver, buffer, claim, resend, evict | outages, lost answers, several processes, crashes | a batch is received, buffered, or given up for a stated reason; what waits is resent |
| **Crash reporter** `CrashReporter.cs` | one marker file per process | mark, report, clean shutdown | timer beside shutdown, processes that start together | one report per abnormal end, none for a normal one |
| **User interface** `ui` | the window of the log page | scroll, search, live | answers in any order | the list answers its query, without a hole |
| **Blazor client, Serilog sink, API, service levels, installer** | none of consequence | send in the background, translate, compute | best effort by design | the application is never slowed |

How they interact. The ingestion endpoints, the sources and the probes call `IngestAsync`
of one of the four signal stores, and wait for its answer; queries read its snapshot. The
alert engine evaluates its rules by queries and keeps its states in a configuration
collection, as do probes, profiles on demand, accounts and dashboards. Client processes
post to the ingestion endpoints, and share with the other processes of their service the
buffer directory, where the crash reporter puts its reports too. One server process uses a
data directory at a time (`Hosting/DataDirectoryLock.cs`); the `wolflog` command is another
process on the same files.

## 2. Modules

| Module | Models | Role |
|---|---|---|
| `EventStore` | what `ISignalStore` promises its callers | abstract specification |
| `SignalStore` | `SignalStore.cs`, `Wal.cs`, the retention and the stop of `StorageHost.cs` | detailed specification, implements `EventStore` |
| `MCSignalStore` | | symmetry for TLC |
| `SignalStore_proofs` | | theorems about `SignalStore` |
| `Outbox`, `MCOutbox`, `Outbox_proofs` | `WolflogTransport.cs`, `DiskOutbox.cs`, the server as its clients see it | specification, its instance, its theorems |
| `Alerts`, `MCAlerts`, `Alerts_proofs` | `AlertEngine.cs`, the sending of `Notifier.cs`, the saving of the states | specification, its instance, its theorems |
| `FileSource`, `FileSource_proofs` | `FileTailer.cs`, `FilePositions.cs`, `BatchingSink.cs`, `SourceHost.cs` | specification, run as it is, its theorems |
| `Probes`, `Profiles` | `ProbeEngine.cs`; `ProfileStore.cs` and `ProfilingAgent.cs` | parts of `MCServices` |
| `MCServices` | | instances of `Probes`, `Profiles`, `Dashboards` and `SearchBar` and the run of the four |
| `Collections` | `JsonCollection.cs`, `AlertEventStore.cs`, callers of `ReplaceAll` | part of `MCParts` |
| `Copies` | `EnvironmentStore.cs`, `ApiKeyStore.cs` beside the restore of `Backup.cs` | part of `MCParts` |
| `MailTokens` | `MicrosoftMailTokens.cs`, `EmailProbeRunner.cs`, the mail of `Notifier.cs`, the editing of their settings | part of `MCParts` |
| `Visitors` | `VisitorIdentity.cs` | part of `MCParts` |
| `Accounts` | `UserStore.cs`, `AdminEndpoints.cs`, `SsoProvisioning.cs` | part of `MCParts` |
| `Sessions` | `CrashReporter.cs` | part of `MCParts` |
| `Search`, `SearchBar` | `SearchQuery.cs`, `EnvironmentFilter.cs`, the segment index | operators, and the texts they are checked on: part of `MCServices` |
| `LogsPage` | `logs.ts`, `windowed-list.ts`, `QueryService.SearchLogs`, `LiveTail.cs` | part of `MCParts` |
| `Dashboards` | `DashboardEndpoints.cs`, `DashboardAccess.cs`, `DashboardStore.cs`, `dashboard.ts` | part of `MCServices` |
| `Rum` | the pages counted by `wolflog-rum.js` | part of `MCParts` |
| `Backups` | `Backup.cs` beside the files of a store | part of `MCParts` |
| `MCParts` | | instances of the parts above and the run of all |
| `Configuration_proofs` | | theorems about `Collections`, `Copies`, `Accounts` and `MailTokens` in `MCParts` |
| `Parts_proofs` | | theorems about `Visitors`, `Backups`, `Sessions` and `Rum` in `MCParts`, and the types of all its parts |
| `LogsPage_proofs` | | the theorem about `LogsPage` in `MCParts` |
| `Services_proofs` | | theorems about `Probes`, `Profiles`, `Dashboards` and `SearchBar` in `MCServices` |

`PROJECT.json` maps each definition to the lines it translates.

**Two unions.** The parts of `MCParts` share no state, nor do the four of `MCServices`. A
behaviour of the union is a behaviour of one part, named by the variable `part` and chosen
at the start; the variables of the others keep their initial values. `VIEW ActivePart` in
`parts.cfg` makes TLC compare states by the variables of the part chosen, which loses
nothing, since the others never change. Its invariants are those of the parts, each guarded by
`part`. `MCServices`, which checks liveness, has no view, and its `HiddenPanelsKept`, an action
property, needs no guard.

### SignalStore

A batch (one IngestAsync call) is a model value. A table or a segment is the set of the
batches it holds and of those it holds more than once; a WAL file is the set of the batches
that `Wal.Read` returns, and whether a torn record ends it. Each action is a stretch of code
between two points at which a crash, another thread or a failure matters:

- *Start*: `Start`, or `StartSkipping` when `LoadSegments` cannot read a segment, which it skips:
  the segment stays on disk, unseen until a later start reads it; then `Replay`,
  `DeleteReplayed`, `Recovered` with the flush in between.
- *Writer turn*: `TakeBatch`, `WriteWal` (append and commit), `AppendBatch` (hot table),
  `AckData`, a flush if one is due, `AckFlush`. Each step has its failing twin (`WalFails`,
  `AppendFails`, `FlushOpenFails`, `FlushWriteFails`), all of which end in `Raise`, the
  `catch` that answers the callers.
- *Flush*: `FlushOpen` (the next generation), `FlushWrite` (segment, then snapshot),
  `FlushDelete` (WAL file, deferred drop). `ctx` says which of `Recover`, the loop or
  the stop called it.
- *Beside the writer*: `CompactPick`, `CompactWrite`, `CompactSwap` for each compactor (the timer
  and POST /system/compact), `RetentionPick`, `RetentionRemove`, `RunDrop`, `RunDelete`.
- *Callers*: `Call`, `Cancel` (their request is aborted), `QueryStart`, `QueryEnd`.
- *The end*: `Stop`, `FinalFlush`, `Shutdown`, `Crash`.

Assumptions. Deferred jobs run 60 s and 120 s after they are queued, and a query is taken to
have ended by then: this is what the delays are for, and `RunDrop` and `RunDelete` state it.
What `Wal.Append` left in its buffer after a failure may or may not reach the file.
Not modelled: a `CREATE TABLE` that fails (`SignalStore.cs:289`). It is in memory and is taken to
succeed; if it did not, `_hotTable` would already have its new name while `_hotRows` and the WAL are
those of the old generation: appends fail, and the next flush makes that table, writes
an empty segment for the old generation and deletes its WAL file, whose rows then stay only in memory.

### Outbox

A batch is its export thread and its rank; a file is the stamp in its name. `Deliver` to
`StoreLimit` are the steps of an export thread, `LoopCheck` to `Drained` those of the retry
loop. `HasPending` is two steps (`CheckPending`/`NotePending`, `LoopCheck`/`LoopNote`), since
it looks at the directory and writes its hint later; `Claim.Dispose` is two (`CloseClaim`,
`DeleteSent`), since it closes the file and deletes it later. The deletion of a file that is
open elsewhere succeeds on Unix and fails on Windows: both are allowed. `DeleteFails` is a
deletion that the directory refuses; the file stays and is sent again. `received` counts how often
the server stored a batch, and `again` (a history variable) holds those with a reason to be sent
again though they are stored: a lost answer, a process that died after the answer and before the
deletion, a deletion that failed, or another process that claimed the file after it was closed
and before it was deleted. Left out: the blocking
drain of a process that crashes (a bounded copy of the retry loop) and the sizes of files.

### Alerts

What a query would find for a key is `absent`, `quiet` or `bad` and changes at any time. A
date is its age in ticks of the timer. A run goes `Begin`, then for each rule `Evaluate`,
`Apply` (under the lock), `Send` and `Mark` for each notification, then `RemoveOrphans`,
`CopyStates`, `Save`; the world may change, and another run move, between any two. An error
event is known once evaluated, and the ones stored before the first evaluation always are.
Left out: whom a notification reaches (channels, mute), the status *ignored* of an error, and
the cancellation of a run by a client that leaves. A rule may have several keys; a channel or a
history write that fails as one of them is told then ends the rule's turn, and the notifications
of its other keys are dropped, since their states were already changed. `NoneDropped` names that
case in the properties about what was told; the run has one key per rule (`OneKey`), the theorems
any number.

### FileSource

A line is two parts, the second with its end of line, so that a poll may find half a line;
positions count parts. The application and the rotation of the file are the environment. A
worker is a `FileTailer` (`Read`, `Record`, `Add`, `Save`) and a `BatchingSink` (`Take`, `Send`); the host starts one (`StartWorker`) as soon as it has cancelled the other
(`Edit`), so that two exist for a moment and share `recorded`, the positions in memory. `Save`
copies them to `saved`, the file, which is all a restart finds. `Pause` is the thread of a sink
that stops between its two looks at the clock (`BatchingSink.cs:29` and `:31`): the delay given
to `CancelAfter` is then negative, and throws, or is -1 ms, and lasts for ever. `fate` is a
history variable: why a line may never be ingested. `Crash` is also the stop of the host, since
`WaitForNextTickAsync` throws at that moment and the last `Save` is not reached
(`SourceHost.cs:23-25`). Left out: several files for one pattern, syslog, a file read while it
is being truncated, errors in opening it (the scan is repeated).

### Probes

A probe has a plan: some of the moments of a day, or an interval. The loop is `ReadAll` (the
list of the probes, read once), `Clean` (states of removed probes), `Skip` or `Launch`; the
check runs as a task that ends in `Result` then `EndOfTask`, while `Enter` puts it in the list
of the running ones, which is a step of its own since the task may have ended by then
(`ProbeEngine.cs:57` and `:61`). People `Create`, `Put` (which also pauses and resumes), `Test`,
`Delete`; the server may `Restart`. Two cases are real and named by the properties: a check that
ends before it was entered is never removed from the list, and the probe is not checked any more
(`overtaken`); a look of the loop after a fixed hour may find the probe paused, removed or still
being checked (`missed`): the date that was kept has passed, and the probe is checked as soon as it is
enabled again or its check has ended. A save that enables it thus starts a check off its hours,
which contradicts the comment of `ProbeEngine.cs:43` ("jamais au démarrage ni à l'enregistrement,
seulement à l'heure prévue"); `OnlyAtItsHours` excludes it, and no run asks about it. Left out: the network checks themselves, external.

### Profiles

A request is pending, running, done or failed. `Poll` reads the list, then `Give` updates the
request for one instance (two steps: two instances may read the same list, history variable
`together`); the agent runs what it was given (`Run`), one by one, and sends it (`Receive`, `Save`, or
`Fail`). `Look` is the reading of the list, which `Expire`s what is too old. An instance that
stops, a call that fails, a result for a request that was removed or expired are all there.

### Collections

One file, the temporary file beside it, a copy in memory per process: the server, whose threads
share a lock, and the command. A call is `Begin` (the lock, then `RefreshIfChanged` except in
`ReplaceAll`), `ReadText` and `ReadStamp`, `MakeChange`, then `OpenTmp`, `CloseTmp`, `MoveTmp`,
`TakeStamp`. An `add`, then a `list`, then a `replace` by the last ones, is `AlertEventStore`
with its trim. `Throws` is an exception at any of them; `Crash` an end of the server. What the
properties exclude is real: two processes between reading and moving (no lock is common to
them), a trim across which another thread adds an event, and a change that failed on disk but
stays in memory until the file changes (`spoiled`). Left out: `ErrorStateStore.Apply`, which
reads and writes in two calls, so that of two people who change one error at once the second wins.

### Copies

The environments are compiled from their file, the index of keys computed from theirs, each
with a stamp of the file. `Filter`, `Compile`, `SaveSettings` and `Match`, `ChangeKeys`,
`FlushUsage`, `Index`, `StampIndex` are the callers; `Restore` writes either file under them
without telling. What the properties name is real: a restore between `Upsert` and the stamp, or a
change of the file while the index of keys is built (`overlapped`); a restore that gives the
environments back a stamp which a slow `Filter` had put on later rules (`lagging`); an index that
`FlushUsage` stamps with the stamp of a file restored just before (`hidden`). The copy is then wrong
until its file is written again.

### MailTokens

A flow (`StartFlow`, `Grant`, `Connected`) gives a token for a Microsoft account and an application
(external); an edit (`Read`, `Prepare`, `SaveEdit`) attaches it to the settings, or keeps the one
there was; a check (`Check`, or `Test` on settings that were not saved) exchanges the token of
its copy for another (`Refresh`) and puts it back (`SaveRefreshToken`).

### Visitors

`Ask` is an event of a day; `Take` reads `_saltDay`, then `_salt`, outside the lock; `Enter`
takes the lock and looks at the file, `Write` or `WriteFails`, `Stamp`. `Midnight` and `Restart`
come at any time. Both exceptions of the property are real: events of two days under way at once
(`astride`), since the salt is read after its day; and an event of yesterday that arrives after
one of today, which draws a new salt and leaves today with two of them (`late`): `README.md:360-362`
is contradicted only then.

### Accounts

A request (create, change, delete, reset a password, unlock) and a sign-in through a directory
read the collection, decide and write, each in a call of its own. `ReadForProvision` passes the
gate of `SsoProvisioning.cs:18`. Two administrators who demote each other at once leave none:
the count (`AdminEndpoints.cs:74`) and the write are apart, which the property names
(`crossed`). Left out: directories, passwords and sessions.

### Sessions

A process lives once: `Start`, then for each marker in the directory `ReadMarker`, `StoreReport`,
`DeleteMarker`; then `Mark`, and `Tick`/`MoveMarker` of its timer; it ends by `Unhandled`,
`StoreCrash` and `CrashUnmarked`, by `CleanStop` and `Exit`, by a kill (`Gone`), or without a marker
yet. Each deletion (`CrashReporter.cs:80` and `:84`, `:116`, `:134`) goes through `TryDelete`: an
error is swallowed and the marker stays. The property names what makes a second report, or the
report of a process that ended well (`doubled`): a deletion that failed; two starts at one marker; a start or a crash
cut between the report and the deletion; the timer's `MoveMarker` after a clean stop or a crash.
All contradict `CrashReporter.cs:130`. `lost` is a report given up after an error
(`DiskOutbox.Store` swallows an `IOException`, and `CrashReporter.cs:79-80` then deletes the
marker; so does the `catch` of `:84`).

### Search and SearchBar

Operators: what a text means (`SearchQuery`), its SQL condition, its test in memory, the index of
a segment and of merged segments, and the environment filter they share. `SearchBar` builds every
text of two tokens over four settings of environments, which change while a live tail may be open;
`PrunedHoldsNoMatch` and `LiveAgreesWithSearch` compare the three readings row by row. Text is a
sequence of characters so that trigrams are real; case folding, patterns and hashes are tables
given as constants. The two evaluators are kept apart where the code does: `Attribute` and `LiveGlobs` of
the live tail, `StoredAttribute` and `Globs` of the SQL. Where they, or the index, disagree is real and named by the
properties:

- `Lacking`: a search for `crash:true` opens only segments that hold a fingerprint
  (`SearchQuery.cs:162`), but a sender may mark a log as a crash without an exception
  (`OtlpConverter.cs:62` and `:74`): such a log is missed when its segment holds no other exception.
- `Excludes`: of `-env:X`, X being configured, the live tail compares the value received
  (`SearchQuery.cs:202`), the search the environment it means (`:267`).
- `Outdated`: an open stream keeps the environments of its opening (`ApiEndpoints.cs:112-121`).
- `NullAsked`: a JSON null is the text `null` for the live tail (`SearchQuery.cs:207`), an absent
  value for the SQL (`:258`).
- `ManyLines`: `*` stops at the end of a line in the live tail's regex (`SearchQuery.cs:235-236`),
  not in `ILIKE` (`:284`).

Left out: a value made of commas only (its SQL is the empty list), keys that occur twice in a
JSON object, how each side writes a number, and letters that a regex and `ILIKE` fold differently.

### LogsPage

A log has a key and a date in ticks, which the cursor cuts to microseconds (`Precision`). The
server: `Store`, `Publish`, `Flush`, `Serve`, `ServeMore`; the page: `Open`, `Load`, `Scroll`,
`StartLive`, `ToggleLive`, and the handlers of what comes back, `Answer`, `Fail`, `MoreAnswer`,
`FailMore`, `Message`, `Disconnect`. The browser runs one handler at a time. `ListFollowsQuery`
names one real case: the live list takes the logs of a search that was under way when the
stream began (`overdue`, `logs.ts:787`, which the comment of `:129` does not expect).

### Dashboards

A board is a sequence of panels. An administrator and somebody who does not see all of them load
it (`Load`), rearrange their copy (`Rearrange`, `ApplyPanel`), and send the whole of it (`Save`) or
delete it (`DeleteBoard`); a request is `Get`, `Merged`, `Write`, `Answer`. `ChangeProfile` changes
what one sees. The property is about a request nobody wrote across; these are real and follow from the code:
a write by somebody else between `Get` and `Write` is overwritten; two saves of one page may
reach the server in the other order; a panel that becomes visible between the load and the
save is not in the page that is sent, and is dropped; a save after a deletion makes the board again, with
the panels of its sender only.

### Rum

The script of a page: `PageLoad` (deferred), `PushState` and `CheckRoute` (deferred), `PopState`,
`CountView` (deferred), `HideOrLeave`, `Show`, `Flush`. An event is its kind and path; `stays` is
the sequence of pages the visitor saw. A route that changes before the document was counted is
excluded (`early`): the new page is then counted twice and the first never. Not modelled, though
read: `endPage` takes its `depth()` on the new page after `pushState`; the flag of a dead click
is lost if the queue is sent within its 700 ms; what is queued is lost when a browser is killed.

### Backups

The files of a store as a backup sees them: `Flush`, `MergePick`/`MergeWrite`/`MergeSwap`,
`Retain`, deferred deletions that are `Due` after a delay (the two minutes of the code), `Stop` and
`Crash` of the server. A backup is `Ask` then `FlushFirst` (asked of the server) or `Command` (the
command, which has no flush), `List` a folder, `Copy` its files, `NextFolder`, `Close`. The
property holds for backups shorter than the delay and without a stop of the server, which deletes
at once: otherwise the sources of a merge may be gone before they are copied, and the merged file was not
there to be listed. An archive may also hold a source and its merged file (rows twice after a
restore), and a folder emptied by retention ends the backup, since `Backup.cs:62` catches
`FileNotFoundException`, not `DirectoryNotFoundException`.

## 3. Runs

| Run | States | Question | Bounds |
|---|---|---|---|
| `store_crash` | 376 k | After a crash at any step, with I/O errors, is every acknowledged batch on disk and, once the process serves again, visible? Are segments never rewritten? Does the pipeline implement `EventStore`? | 2 batches, 1 flush, 2 starts, 2 errors among `wal`, `open`, `append`, `parquet`, `walDelete` |
| `store_maintenance` | 2.4 M | Do compactors, retention and deferred jobs leave the readers alone? | both compactors, 2 merges, 1 query in progress, 2 hours |
| `store_once` | 2.4 M | Does a query ever see a batch twice? Does a successful flush cover what was acknowledged before it? | 3 batches, 1 flush, 1 compactor, a stop and a second start, 1 failed append |
| `store_answers` | 417 k | Is every call answered? | every kind of I/O error once, a segment that cannot be loaded among them, a crash |
| `outbox` | 305 k | Does a batch ever vanish? Does the server ever store one twice without a known reason? Is what was noticed resent? | 2 processes, 2 batches of which 1 refused, a buffer of 1 file, one each of outage, lost answer, crash, failed write or deletion |
| `sources` | 538 k | Is every line sent or given up for a known reason, whole, and once while the process runs? | 2 lines of which 1 continues the other, reads of 3 parts, a queue of 1 entry, batches of 2, 2 troubles among rotation, edit, crash, refused batch, failed save, pause |
| `alerts` | 388 k | Is the last word the state? Is what lasts told, and a new error that came out of hours? | one rule of each of 4 settings, 1 key, 1 tick during a run, 1 restart, 1 failure |
| `services` | 541 k | Is a probe checked again and again, and only at its hours? Does a request for a profile end, on one instance? Are the panels that one does not see kept by one's save? Does a pruned segment hold a match, and does the live tail agree with the search? | a day of 4 moments, three plans, 2 acts of people; 2 requests, 2 instances, 1 mishap; an administrator and one other, 3 panels of which 1 hidden, 2 requests, 1 change; every text of 2 tokens out of 36, 4 settings of environments, a stream open or not, 6 logs |
| `parts` | 2.2 M | One question per part, below | below |

The parts of `parts`:

| Part | Question | Bounds |
|---|---|---|
| `collections` | Is a change that reached the file ever undone? Is the file ever half written? | 2 threads and the command, 2 items, 3 calls, a trim to 1 item, 1 trouble (an I/O error or an end) |
| `copies` | Does a copy with the stamp of its file say what the file says? | 2 callers, 4 writes, a restore of either file |
| `tokens` | Does a token ever serve another account than its own? | 2 accounts, 2 applications, 2 connections, 1 editor, 2 checks, 3 tokens given, 2 edits |
| `visitors` | One salt a day, one day a salt? | 2 threads, 2 days (and the events of the next), 3 salts, 1 failed write or restart |
| `accounts` | Is an administrator left? Is a name one account? | 2 requests at once, 3 in all, 2 names |
| `sessions` | Is each abnormal end reported once, and a normal one never, but for the reasons of `doubled`? | 3 processes, 2 I/O errors |
| `page` | Does the list answer its query, without a hole or a log twice? | 3 logs of which 2 in one microsecond, pages of 1, a window of 2, 3 acts |
| `script` | Is each page counted once? | 2 paths, 3 changes of route, a queue of 3 events |
| `backups` | Does a complete archive hold what was stored? | 2 folders, 2 lots of rows, 3 files, 1 end of the server |

Why the bounds are enough. Two batches give one in the file being flushed and one in the next
generation, or one in each of two segments to merge; three are needed for two segments and
a table at once (`store_once`). Two starts give a recovery of what a recovery left (the first
start finds an empty directory, the second replays). Two errors let one failure meet the
leftovers of another. Two processes suffice for the claim, which is between two; a buffer of
one file makes each second batch evict the first. In `alerts` an age is exact up to 3 ticks,
above every delay of the settings. In `sources` a read of three
parts ends inside the second line, which is also what a poll may find; two troubles make, among
others, three workers one after the other, or a rotation while the process is down. In
`services`, a day of four moments has hours with and without a gap between them, and two
acts make an edit during a check, or a pause and its end. In `parts`, three calls are a
change, another one across it, and the trim; three processes are one that dies and two that start over its
marker; three changes of route leave a page, come back to it and leave it again; two folders let a file appear
behind the backup while another one is removed in front of it. Logs of one microsecond are what
makes a page end inside a cursor.

The runs named `find_*` end in a counterexample, each about a sentence of the repository (see
PROJECT.json, *findings*):

| Run | Property violated | What happens |
|---|---|---|
| `find_torn` | `AckedDurable` | an append that fails half-way leaves a torn record; the batches acknowledged behind it are not read back after a crash |
| `find_resent` | `BufferedIsResent` | a hint "nothing waits", written after a batch was stored, keeps the batch in the buffer while the server is up |
| `find_alert` | `NoLateFiring` | with a run asked through the API beside that of the timer, "firing" is sent after the "resolved" that ends it |

### Fairness

- `SignalStore`: weak fairness of the start and of the writer. The writer is a thread of its
  own that waits for nothing but its channel; each step either succeeds or throws.
- `Outbox`: weak fairness of each export thread once it holds a batch and of each retry loop
  (a background task with a delay of 5 to 30 s), and of the end of an outage. Strong
  fairness of a deletion that takes effect: it may be refused while another process has just
  claimed the file, which lasts one request, and two loops do not meet for ever at one file.
- `Alerts`: weak fairness of the timer and of the steps of a run: evaluations are queries with
  an end, and a notification has a timeout of 15 s.
- `FileSource`: weak fairness of the tailer (it polls every second), of the sink (half a second
  at most, apart from `Pause`) and of the host (every three seconds).
- `MCServices`: weak fairness of the loop of the probes (every second) and of the end of each
  check (checks have timeouts); strong fairness of the clock, which moves only between two
  turns of the loop, since a turn is short beside a moment; weak fairness of `Expiry`: a request
  grows old, and somebody looks at the list of profiles, whose reading is what expires them
  (`ProfileStore.cs:82`). No fairness of the instances.

Nothing is assumed of callers, of compaction, retention, queries, crashes or errors; `MCParts`
checks no liveness and assumes no fairness.
`CHECK_DEADLOCK` is off everywhere: at its bounds a model stops (no start left, every batch
delivered, every act done) where the program would only wait.

Liveness in spite of bounds: the bounds only limit disturbances (crashes, errors, outages), so
what must happen in the end is not made true by a counter that runs out, but neither is it
asked of an endless series of disturbances.

### Properties, mutants

Every property of a passing run is broken by at least one mutant, an altered copy of one
definition (its name ends with what was altered, as in `Logged_uncommitted`); PROJECT.json
lists them. `LastWord`, `LastingBreachIsTold` and `NewErrorIsTold` are stated as long as the
process does not restart: the code keeps in memory, and may forget, what was sent since the
last save. `SeenOnce` is checked without crashes and with one compactor: a crash between a
segment and the deletion of its WAL file, or within two minutes of a compaction, or two compactions at once,
do store rows twice, and the repository does not say otherwise. `FlushCoversAcked` allows only
failed appends: after a flush that failed on disk, the next successful `FlushAsync` does not
cover the table of the failed one.

`NoLineTwice` excludes two cases that are real. After a crash, what was sent since the last save
is sent again. And a worker cancelled while it parses what it has read still records its
position (`FileTailer.cs:110`), behind the position its successor may have recorded by then; a
third worker then reads the same lines again (history variable `late`). `WholeLines` and
`LinesAccountedFor` exclude rotations that go unseen because the file has already outgrown the
position at the next poll (`FileTailer.cs:73`, history variable `missed`).

The exceptions that the properties of the other parts name, most of them a history variable of their
module and all of them reachable in the code, are described with the modules in section 2.

## 4. Theorems

Each is about the `Spec` of its module, for every value of the constants (numbers of batches,
threads, processes, keys, days, calls, errors, restarts) under the assumptions named with it.

| Theorem | Property | Module | Under |
|---|---|---|---|
| `TypeSafe` | `TypeOK` (proved, and no longer checked by a run) | `SignalStore_proofs` | |
| `SnapshotsSafe` | `SnapshotReadable` | `SignalStore_proofs` | |
| `SegmentsSafe` | `SegmentsImmutable` | `SignalStore_proofs` | |
| `NothingAckedIsLost`, `AckedIsVisible` | `AckedDurable`, `AckedVisible` | `SignalStore_proofs` | `NoSilentLoss`, `EverySegmentLoads` |
| `StoreImplementsPromise` | `ImplementsEventStore` | `SignalStore_proofs` | `NoSilentLoss`, `EverySegmentLoads` |
| `FlushIsComplete` | `FlushCoversAcked` | `SignalStore_proofs` | `NoSilentLoss`, `EverySegmentLoads`, `NoFlushFails` |
| `RowsSeenOnce` | `SeenOnce` | `SignalStore_proofs` | `EverySegmentLoads`, `NoDuplicating` |
| `OutboxTypes`, `NothingVanishes`, `BatchStoredOnce` | `TypeOK`, `Accounted`, `StoredOnce` | `Outbox_proofs` | |
| `AlertTypes` | `TypeOK` | `Alerts_proofs` | |
| `LastWordIsTheState`, `RestartFindsNothingUntold`, `OneRunnerIsNeverLate` | `LastWord`, `SavedFiringWasTold`, `NoLateFiring` | `Alerts_proofs` | one runner |
| `FileSourceTypes`, `LinesSentOnce`, `LinesAreWhole`, `NoLineForgotten` | `TypeOK`, `NoLineTwice`, `WholeLines`, `LinesAccountedFor` | `FileSource_proofs` | `AbsentAssumption` |
| `ChangesSurvive` | `ChangesKept` | `Configuration_proofs` | `CollectionsAssumption` |
| `CopiesSayTheFile` | `CopiesTrusted` | `Configuration_proofs` | and `CopiesAssumption` |
| `AdminsRemain`, `NamesAreUnique` | `AnAdminRemains`, `OneAccountPerName` | `Configuration_proofs` | `AccountsAssumption` |
| `TokensOfTheirAccount` | `TokenOfAccount` | `Configuration_proofs` | `TokensAssumption` |
| `SaltsOfTheirDay` | `OneSaltPerDay` | `Parts_proofs` | `VisitorsAssumption` |
| `ArchivesAreComplete` | `ArchiveComplete` | `Parts_proofs` | `BackupsAssumption` |
| `EndsReportedOnce` | `EachEndReportedOnce` | `Parts_proofs` | `SessionsAssumption` |
| `PagesAreCountedOnce` | `PagesCountedOnce` | `Parts_proofs` | `RumAssumption` |
| `ListIsAWindow` | `ListFollowsQuery` | `LogsPage_proofs` | `PageAssumption` |
| `PartsTyped` | `TypeOK` of `MCParts` | `Parts_proofs` | the assumptions of its nine parts |
| `HoursAreKept` | `OnlyAtItsHours` | `Services_proofs` | `ProbesAssumption` |
| `OneInstanceMakesIt` | `OneInstanceEach` | `Services_proofs` | |
| `NoAnswerIsPruned` | `PrunedHoldsNoMatch` | `Services_proofs` | `SearchAssumption` |
| `LiveTailIsTheSearch` | `LiveAgreesWithSearch` | `Services_proofs` | `SearchAssumption` |
| `SearchBarTyped` | `TypeOK` of `SearchBar` (proved, not checked by a run) | `Services_proofs` | `SearchAssumption` |
| `HiddenPanelsAreKept`, `DashboardsTyped` | `HiddenPanelsKept`; `TypeOK` of `Dashboards` (proved, not checked by a run) | `Services_proofs` | `DashboardsAssumption` |

Assumptions. The modules' own `ConstantsAssumption` say what kind of value a constant is, and so
do `CollectionsAssumption`, `CopiesAssumption`, `AccountsAssumption`, `TokensAssumption`,
`VisitorsAssumption`, `BackupsAssumption`, `SessionsAssumption` and `RumAssumption`: bounds are natural
numbers, the page of entry is a page, `Null` is none of the values it stands beside, the command is another process than the server;
`ProbesAssumption` says that a day has moments and the fixed hours of a plan are some of them;
`AbsentAssumption` says that the absence of a file is no content of one; `DashboardsAssumption`, that
the first panels are finitely many, the bound a number, and `Null` no dashboard. `PageAssumption` says
that the logs that may come are finitely many, their dates and keys natural numbers, and that two
logs of one microsecond have different keys: the key is a hash of the service, the message and the
trace (`QueryService.cs:21`), so that of two logs with all of these equal, cut apart by the end of a
page, the second is never listed; the comment of the code says so too. `SearchAssumption` says what a log is: its texts are made of letters, its severity is a byte, the trace of
a log has a hash. It says that a pattern stands for the same values of one line in memory and in
SQL (`SameOfOneLine`), that the compiled settings know no
empty name (`EnvironmentFilter.cs:26`, `:31` and `:38` skip them) and that `Null` is no set of numbers
or trigrams. The others leave out failures under which the property is false:

- `NoSilentLoss`: a torn record (`find_torn`), and a record that recovery fails to append, which
  it skips before it deletes the file (`SignalStore.cs:105`). Everything else may fail.
- `EverySegmentLoads`: no start skips a segment it cannot read. Such a segment is on disk, but
  queries do not see its rows until a later start; the shape of the store
  (`TypeSafe`, `SnapshotsSafe`, `SegmentsSafe`) is proved with it all the same.
- `NoFlushFails`: a flush that fails leaves its table in memory, and the next `FlushAsync` that
  succeeds does not cover it.
- `NoDuplicating`: a crash, or a file that cannot be deleted, between a segment and the end of
  what it replaces, and a second compactor, store rows twice; the repository does not say otherwise.
- one runner: `\A x, y \in Runners : x = y`. POST /alerts/run beside the timer is what
  `find_alert` needs; without it the three properties hold.

### The arguments

None of the properties is inductive. Each proof states an invariant that is, in named parts, with
one lemma per action or per part, and a last lemma that combines them.

*SignalStore*, shape. `StructInv` relates what the threads hold: the
generations on disk are bounded and below the one in use (`TypeInv`, `FreshInv`); the snapshot
names only files that exist and await no deletion, and a reader's copy only files that exist
(`ShownInv`); some WAL file is ahead of every segment, seen or not, so that a
segment which a start skipped is not written again (`AheadInv`); a merged file that is not in the snapshot yet is nobody else's, and holds the rows
of its sources (`MergeInv`); the tables follow the writer's position (`ControlInv`, `TableInv`),
and nothing is left in memory when the process is down (`DownInv`).

*Durability* needs to know where the *rows* are. `LossInv` says that a batch that was
acknowledged and not released is *found* where the next reader will look for it: on disk while
the process is down, in a segment or a file to replay while it starts, in a segment or a
queryable table when it serves (`KeptInv`); that the rows of a queryable table are in the WAL
file of its generation or, during recovery, in a file still to be replayed (`BackedInv`); that
what the writer is about to acknowledge is in both (`BatchInv`). `Acked` grows only in
`AckData`, which `BatchInv` covers; the flush and the merge move rows before anything is
deleted.

*The promise.* `EventStore` is the store as its callers know it: what a start would find. With
`SentInv` (whatever is anywhere was sent by a call) each step maps to a step of it: the end of a
turn to the acknowledgement, retention to a release, the rest to a stutter, since the
rows found before and after a flush, a merge, a crash or a recovery are the same.

*Flush.* `MemoryInv`: in memory are the current table and the one being flushed, and the table
is empty when the flush that an item asked for has ended, apart from batches whose append failed. *Once.* `QueueInv`: an item is
once in the channel or the batch; `RowsInv`: a row is in one table, of which the WAL file is the
only other copy; `SegmentInv`: the files a snapshot may still name (`Live`) share no row, a merged file
shares rows only with its sources, and every file is in the snapshot, deleted or being merged.

*Outbox.* `OutboxInv`: an export thread's batches are numbered in order, the name of a file
being written is its own (`MoveInv`), a claimed file holds the batch being sent (`ClaimInv`), is
deleted only once answered (`AnsweredInv`), and is claimed by one process (`OneClaimInv`). For
`StoredOnce`: a batch has one name, and none while its thread holds it (`OneFileInv`); and a batch
that the server stored, without a reason to be sent again, is in nobody's hands and has no file but one that
a loop is about to delete (`StoredInv`), so that no exchange sends it.

*Alerts.* With one runner, a notification under way belongs to the run's current rule and its
key (`MailInv`); what the run holds and what the states say agree (`AgreeInv`); what was told differs from
the state only where a notification is on its way or was dropped (`WordInv`), and what is about to
be saved as firing was told (`ToldInv`).

*Log sources*, texts. What a read becomes is proved for every sequence of parts: `EndsFacts` and
`LastEndFacts` (the ends of line, in order), `TextsFacts` (the texts cover what lies before the last
of them, and no more), `EntriesFacts` (the entries cover the texts), `EntriesLines` (the lines of the
entries are those that end in the read), `EntriesApart` (each is there once), `EntriesWhole` (parts
in a row give whole lines). `Increasing` chooses the numbers of a finite set in their order;
`SortedExists` proves that there is such a choice, by contradiction from the least bound of the
sets that would have none (`LeastNumber`): an induction that needs no operator as a parameter.
*Log sources*, states. `BasicInv`: the file holds the last parts written, from the beginning of a line on
(`FileShape`), a position is not beyond the end of its file (`PlaceOK`), and the ends of line that
wait in a tailer are in its file where its position says (`PendingOK`). `OnceInv`: what has left the file lies
before the recorded position (`Behind`), the worker that goes on is beyond it (`LiveOK`), two workers
hold nothing in common (`Apart`), and a line held is in one place (`InOnePlace`): so that a read
adds lines that nobody has. It fails as soon as a process ends or a cancelled worker records, and so does the
property. `WholeInv`: every position, recorded or saved, is at the beginning of a line, or behind
one that StartAtEnd made the source skip (`Boundary`), and what waits in a tailer follows
each other up to its position (`SliceOK`); a rotation that goes unseen breaks both.
`AccountInv`: the lines that end before a position, recorded, saved or reached by a tailer, are
sent, in the hand of a worker, or given up. The saved position must be in it for the restart,
and the tailers' for `Record`.

*Collections.* Who is inside the lock holds it (`CallInv`), and no copy's stamp is ahead of the
file (`StampInv`). Until two processes cross, the temporary file holds the items of its writer
(`TmpInv`); a caller that has read, or has checked the stamp, has the items of the file, and one that
has changed an item has them but for that item (`ChangeInv`); a copy with the stamp of the file is
the file unless its process is saving (`CacheInv`); and the file is whole and holds the changes that landed
(`FileInv`). All but the last say what a thread knows between two steps, which is what makes the
move harmless. *Copies.* For the environments a stamp tells the content (`Says`, in
`RulesInv`): a stamp returns only with a restore, which returns the content too. For the keys it does not, since
`FlushUsage` changes the stamp alone: `IndexInv` says that the index is right once nobody builds it,
unless the file was restored and bears a stamp that the index does not.

*Accounts.* `GateInv` (who holds the gate of the provisioning), `FreshAccounts` (identifiers are
not given twice), and `SoundInv`: what a request read is still so when it writes, or requests have crossed.
*MailTokens.* `TokensInv`: every pair of an account and a token that anyone holds (the settings, a flow, an edit, a
check) was given together, and a renewal keeps the account of the token it renews.

*Visitors.* `AskInv`: what a thread inside the lock has drawn; `DayOfSalt`, `SaltOfDay`: what was
served is what the memory or the file says of that day, and a new salt is drawn only for a day that
has none. *Backups.* `Tracked` and `Found`: each lot owed to the archive is in a copied file, in one
listed and not yet deleted, or in one of a folder still to be visited; `FilesInv`, `ShownInv`
and `MergeInv` say which files exist and for how long. *Sessions.* `EndInv` (how a process ended
follows from its step; a marker taken up is that of a process that is gone), `KeptInv`, and
`ReportedOnce`: of a process that is not counted as doubled at most one start is at its marker, and
it has no report until then.

*Rum.* Views and scrolls are counted as numbers of places in sequences (`Times`), which an item
added or taken at an end changes by one at most (`TimesAppend`, `TimesTail`, `TimesFront`). `LookInv`: the last
page of the tab is the one the script knows, and no more looks are due than routes changed. `ViewInv` and
`ScrollInv`: what was sent or waits of a path, with what is still deferred or not yet scrolled
of it, is as often there as the tab was on it. `ClosedInv`: a closed tab owes nothing.

*LogsPage.* `Above` is a strict order and a total one (`AboveOrder`), so that any finite set of logs
can be listed in one way (`ListExists`, from a least set that could not). A page is then the
beginning or the end of such a list (`NewestFacts`, `OldestFacts`), also where whole segments were
skipped by their dates: the cursor's microsecond may begin up to a tick earlier, which `Overlaps` allows for.
`PageInv` says what the window and the requests know: the list asks for nothing while the stream is
on, and everything under way is of the current query (`ModeInv`); what is shown, known or announced was stored (`StoredInv`); the answer of a search
that is under way is a page of what was stored then (`SearchInv`); once no search is, the list is a window
(`Window`), and the page that the list asked for continues it from its first or its last log: it
misses nothing known before its own end, although more logs may have come meanwhile (`MoreInv`); and what waits in the channel of the stream is not in the list yet (`LiveInv`).

*Probes.* `HourInv`: while no hour of its plan has come since the last look at the probe, and no look
missed one, the date kept for a probe is that of an hour, at most a day ahead (`NextHour`: the least delay that leads to an hour exists, which is again
the least element of a set of numbers), and a moment that goes by brings it nearer or is that hour. *Profiles.* `AloneInv`: a
request that was given is marked and no other instance has it in the list it read; one that two
polls read at once is what `together` leaves out.

*Dashboards.* `Only` (the panels of a set, in order) and `Placed` (the loop of `Merge`) are recursive
functions over a sequence. That such a function exists and what it gives is proved by induction on
the sequence, through a set that has the empty sequence and each sequence it has with one more
panel (`AllSequences`), since a theorem with an operator parameter cannot be used. `Only` of two
sequences is one after the other (`OnlyJoin`). `WellPlaced` is the invariant of the loop: so far
the hidden panels are those of the stored dashboard, in order, hers are the first of those she sent, the
others still wait, and, unless she took panels away, each hidden one is in its place (`PlacedHidden`, `PlacedHers`).
`DashboardInv` is about the requests: each is somebody's, and a deletion that goes on has read a
dashboard of which its author sees all (`RequestOK`), so that it removes nothing that is hidden
from her. Only `Write` answers a request that was to write (`OnlyWriteAnswers`).

*Search.* A text becomes a query of the right shape (`ParseOK`, by induction on its tokens, over the recursive
function in `Parse`: `ReadsExists`, `TakenOK`). For pruning, `Covers` says what an index owes a log: its service, its
severity, its exception, its trace and the trigrams of its texts. A fresh index covers its log, an
unknown one covers any, and a merged one covers what either of the two did (`IndexCovers`); and a search that
would return a covered log opens the segment, unless it is `Lacking` (`CoveredIsOpened`), since the trigrams of a phrase are among
those of any text that holds it, both with case folded (`HeldTrigrams`). That no positions of the filter
are missed holds for any hash and any size, since a log and a query use the same ones. For the live tail,
`SameEnvironment`: of a configured environment, the values that the SQL names, everywhere or for
one application, are the values that resolve to it. The rest of the two readings agrees field by field, apart from what `LiveAgreesWithSearch` names.

*Types.* The nine invariants of the parts contain the types of their parts, so that `PartsTyped`
puts `TypeOK` of `MCParts` together from them.

### Only model-checked

Liveness (`EveryCallAnswered`, `NoticedIsResent`, `LastingBreachIsTold`, `NewErrorIsTold`,
`LinesAreSent`, `GoesOn`, `RequestEnds`) is out of the prover's reach. Every other property that a
passing run checks is a theorem.

## 5. What is not modelled, and the plan

Next come the pure algorithms that are left: `WeeklyHours`, the arithmetic of the disk limit in
`StorageHost`, the access decision (`ServiceScope`, `AccessSections`).

Not planned, and why. Protocol definitions are generated, and the conversion of OTLP requests,
the parsers of lines, Serilog events and metrics is pure code in front of what is modelled.
The statistics, the service map, service levels and the pages of requests, errors and traces are
SQL over the snapshot, and their content is DuckDB's. Directories, single sign-on, DNS, TCP and mail
checks are calls to outside services, modelled by the results they give. The installer, the
pipeline of the web host and the certificates are I/O. Message templates, branding, the
breadcrumbs of a crash report and the snapshots of a page are texts without control. The Blazor
client and the profiler's collection are best effort by design.

Most of the repository is of those kinds: of its 51 000 lines of implementation, 30 000 are the
Angular interface, forms and charts over the API, and much of the 20 000 lines of C# the code just
listed. The modules translate the code that keeps state across steps, about 15 % of the C#,
300 lines of the interface and the pages of the browser script; a higher share would take models of
templates and of SQL texts, about which there is nothing to check.
