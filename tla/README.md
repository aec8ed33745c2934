# NapCatQQ in TLA+

NapCatQQ drives the native QQ client and offers it as a OneBot 11 endpoint. This
directory models the parts of it whose correctness depends on the *order* of
things: callbacks that interleave at every `await`, timers, retries, restarts,
bounded caches. The modules are checked with TLC on small instances and, for
eight of them, proved with TLAPS for every value of the constants.

All paths below are relative to `packages/` of the repository.

## 1. The system

| Component | State it keeps | Operations | Talks to |
|---|---|---|---|
| Recall reporting, `napcat-onebot/index.ts` 394-422 and 685-781, `action/msg/DeleteMsg.ts` | `processingRecallEvents`, `reportedRecallEventCache`, `recallEventCache` | the listener callbacks `onMsgInfoListUpdate` and `onMsgRecall`, `handleRecallMessage`, `delete_msg` | kernel listeners, network manager |
| File cleanup queue, `napcat-common/src/clean-task.ts` | `tasks`, `pendingOperations`, `isProcessing` | `addFile`, `addFiles`, `cancelCleanup`, `clearAll`, timers | the OneBot actions that create files |
| Worker supervisor, `napcat-shell/napcat.ts`, `process-api.ts` | `currentWorker`, `isRestarting`, `isShuttingDown`, `recentCrashTimestamps` | start, restart, relaunch after a crash, shut down | the worker process (messages, signals, exit events) |
| Short message ids, `napcat-common/src/message-unique.ts` | two two-way tables | `createUniqueMsgId`, the lookups | every OneBot action and event that names a message |
| WebSocket client adapter, `napcat-onebot/network/websocket-client.ts` | `config`, `isEnable`, `connection`, `heartbeatRef` | `open`, `close`, `reload`, the socket's events, reconnect timers | network manager, the `ws` library |
| Network manager and reload, `napcat-onebot/index.ts` 229-283, `network/index.ts` | `configLoader.configData`, `adapters` | `reloadNetwork`, `handleConfigChange` | WebUI (saves), adapters |
| HTTP, SSE, WebSocket servers, HTTP client, `napcat-onebot/network/*` | server, client list, heartbeat | `open`, `close`, `reload`, `onEvent` | network manager |
| Plugin manager, `napcat-onebot/network/plugin-manger.ts`, `plugin/loader.ts` | `plugins` (entries with `enable`, `loaded`, `runtime`), `pluginRouters`, `plugins.json`, `isEnable` | open, close, reload; load, unload, reload, enable, uninstall a plugin | network manager, WebUI, the plugins |
| Native call wrapper, `napcat-core/helper/event.ts` | `EventTask`, `listenerManager`, a closure per call | `callNormalEventV2`, `registerListen`, `dispatcherListener` | the native wrapper |
| Streamed upload, `napcat-onebot/action/stream/UploadFileStream.ts` | `streams`, `memoryUsage`, a directory and a timeout per stream | chunk, complete, reset, verify | HTTP and WebSocket requests, the disk |
| RPC transport, `napcat-rpc/src/` | pending requests, callbacks | request, callback, close | the peer's transport |
| Resource health, `napcat-common/src/health.ts` | per resource: enabled, failures, check times | call, health check | API callers |
| Packet client, streamed download, login, actions, conversion, WebUI, protobuf, small helpers | little or none that outlives a call | | |

Recalls, messages and notices become events through the network manager's
`emitEvent`, which hands them to every active adapter. A saved configuration
travels from the WebUI through `reloadNetwork` to the adapters. The supervisor
runs in a process of its own and sees only the worker's life and messages.

JavaScript runs one handler at a time. What interleaves is everything between
two awaits, timers and external events; an action of a model is therefore the
code from one such point to the next, with every call it makes.

What is hard, and the property that makes each component correct:

- **Recall reporting.** Two callbacks announce one recall in any order. It must
  be reported by one attempt at a time, again only after a failure or when the
  bounded cache forgot it, and a failed attempt must be retried by whoever waited.
- **Cleanup queue.** Operations call operations, timers outlive the task they
  were made for, deletions fail. Nothing queued may be lost, nothing tracked may
  be dead, and every file must end cleaned, given up or cancelled.
- **Supervisor.** Exit events, three timers per restart, crashes, signals and kills
  that fail in any order. One worker at a time, a planned exit is not a crash, no
  orphan, and the worker always comes back.
- **Short ids.** Hash clashes and evictions over two maps. A short id leads to
  the message it was made for or to nothing.
- **WebSocket client.** Late events of sockets long replaced, timers nobody
  clears. It keeps dialling, tracks its sockets, and sends one heartbeat.
- **Reload.** Lists in sequence, adapters that throw half way. The open adapters
  are those the configuration enables.
- **Native call wrapper.** The notification, the native return and the timer race
  on closures that can be called after the Promise settled, and one loop serves
  every call that waits on a listener. Each call must end, for a reason that was
  there when it ended.
- **Upload.** `processChunk` checks, awaits a write and then counts: the same
  chunk twice, or a stream removed meanwhile, meets the later half. The chunk
  files of a stream are named by its id alone and the final file by its file name, so
  successive streams of one id, and any streams of one file name, share them. What is
  reported complete must be there and whole, and no stream or memory may leak.
- **Plugin manager.** `loaded` is tested before an await and set after it, and a
  scan replaces all entries. Events arrive at any time and a plugin's methods take
  theirs. No event may be given to an instance that was cleaned up, and none that
  lives may be missed or lost track of.

`PROJECT.json` lists every hazard at its line with the properties that watch it.

## 2. Modules

| Module | Models | State ↔ code |
|---|---|---|
| `RecallReport` | the promise, per recalled message: attempts follow one another, a remembered success is not repeated | abstract |
| `RecallEvents` | both callbacks and `handleRecallMessage`; refines `RecallReport` | `processing`, `reported`, `selfRecall` are the three caches; `pc`, `todo`, `awaiting` are a callback's place, its rows and the promise it awaits |
| `CleanupQueue` | every public method, `safeExecute`, `executeNextOperation`, `cleanupFile` | `tasks`, `pendingOperations`, `isProcessing` as in the class; `immediates` counts scheduled `setImmediate`s; `stage` is a record's timer |
| `WorkerSupervisor` | the master process | `currentWorker`, `isRestarting`, `recentCrashes` as in the code; `proc` is each child, `call`/`old`/`pidless`/`new`/`killTimers` the locals and timers of each `restartWorker` (`pidless`: it read no pid of the old worker) |
| `ShortIdBook` | the promise: a bounded first-in first-out book without clashes | abstract |
| `MessageUnique` | `LimitedHashTable.set` and lookups, `createUniqueMsgId`; its data table refines `ShortIdBook` | `msgIdMap`, `msgDataMap`: each a pair of maps with the insertion order |
| `WsClient` | the reconnecting client adapter | fields as in the class; `sock` is the `ws` library's state of every socket, `reconnects` the timers, `intervals` the running heartbeats |
| `NetworkReload` | one configuration change after another over the adapter map | `now` is `configData`, `adapters` the map, `todo` the tasks the nested loops have left, taken list by list, in a list the recycled names first; an adapter that `reload` closes and opens again takes two steps |
| `UploadStream` | creation, chunks, completion, reset and timeout of streams | a *life* is one `StreamState`; `streams`, `memoryUsage` as in the class, `missingChunks`, `receivedChunks`, `memoryChunks` its fields; `timers`, `tempDirs`, `chunkFiles` are Node's timers and the disk; `finalFiles` the files by name; `calls` are requests suspended in a `writeFile` or `readFile`, `handles` the final file each has open |
| `EventWrapper` | `callNormalEventV2`, `registerListen` and `dispatcherListener` on one listener method | `call` is a call's closure (`complete`, `retEvent`, its timer) and its Promise; `EventTask` the place of its entry in the inner Map; `listening` the proxy's registration |
| `PluginManager` | every public call of the manager and what it awaits in the loader, and the dispatch of events | `plugins`, `pluginRouters`, `isEnable` as in the class, `config` is `plugins.json`; `entry` the fields of each `PluginEntry` object; `request` where a call is suspended and what it holds; `handling` the plugin methods that run for an event |

The eight `...Proofs` modules (one for each of `RecallEvents`, `MessageUnique`,
`EventWrapper`, `PluginManager`, `CleanupQueue`, `WorkerSupervisor` and
`UploadStream`, and `NetworkProofs` for `WsClient` and `NetworkReload`) hold the
theorems; each `MC...` module only gives the constants of
a run. Operators whose comment begins with "Mutant" are faulty variants that no behaviour uses; each
shows that a property would notice that fault.

The main abstractions: the building and sending of events, sockets, files and
processes are reduced to their outcomes (with failure as one of them); delays are
dropped, so a timer fires at any time unless a module's header states an order
the code's constants guarantee (`EventWrapper` compares two clocks and keeps them:
a timer fires when its time is reached, an entry expires when it is passed);
hashes are an arbitrary function; file contents are the life that wrote them, whole
or partial; what a caller's checker says of a value is an input.

History variables (`emits`, `failed`, `evicted`, `attempts`, `superseded`,
`overlapped`, `relaunched`, `survived`, `overtaken`, `touched`, `moved`, `dropped`,
`created`, `late`, `disturbed`, `kept`, `skews`, `settledWith`, `live`) record what
happened for the properties. No guard of an operation reads them, with two
exceptions: `created` of `UploadStream` also bounds the lives, each of which is
created once; and a restart goes on when its old worker is gone or in `survived`,
where the code just waits 3 s (within which the exit of a killed worker is reported).

## 3. Runs

| Run | What it shows | Bounds |
|---|---|---|
| `recall` | single flight, explained repeats, no silent drop, every callback returns, `RecallReport` is implemented | 3 callbacks over 2 messages, cache of 1: one task, a duplicate waiting for it and a third that arrives as it fails or after eviction |
| `cleanup` | no lost operation, no dead task, bounded attempts, every record ends | 3 records, two on one path, 2 attempts, callers stop at 2 queued operations (timers and nested calls do not): a timer, a cancellation and a re-add meet |
| `cleanup_supersede` | **violated**: re-adding a queued file cancels the new timer, not the old one | as above |
| `supervisor` | one worker, planned exits, no orphan, restarts end, worker comes back | 2 invocations of `restartWorker`, 4 children, limit of 3 crashes as in the code: a forced kill that fails, the survivor's exit during and after its restart, a second restart, a shutdown. 417,965 states |
| `short_ids` | tables sound through clashes and evictions, the loop ends, `ShortIdBook` is implemented | 4 ids in 2 conversations, tables of 3, a hash with a short id of 0 and clashes within and across conversations |
| `short_ids_heads` | **violated**: `getHeads` does not return the newest entries | as above |
| `ws_client` | sockets tracked, never stranded, one heartbeat, keeps dialling | 2 good urls and one the constructor refuses, 2 intervals and none, 4 sockets |
| `network` | changes converge, failing opens included, and leave other adapters alone | 3 lists, 2 names, a good and a bad port: an adapter that logs, one that throws, one behind it; a change after an aborted one. 318,680 states |
| `network_moved` | **violated**: a name moved to an earlier list ends up closed | as above |
| `upload` | memory account, timers match streams, what is reported complete is whole, every stream ends | three sets of streams: 2 disk streams of one id and one file name, one with a checksum; a disk stream of 2 chunks and a memory stream of its id and file name; 3 memory streams, of which a limit one stream fills admits the third only beside the one of a negative size. 2 requests waiting for the disk: a write that outlives its stream meets the next one, a duplicate meets a merge, two saves, or a save and a removal, meet on one file. 198,605 states |
| `events` | no call is left unserved, every outcome is explained, every call settles | 2 calls on one listener, waits of 1 and 2, 2 notifications: one call's entry before or behind the other's, a notification before and at the settlement of the one and after that of the other |
| `plugins` | events reach all living instances and no other, none is lost, a disabled plugin does not run on, every request ends | 1 plugin, 2 entries (the scan's and one more, of an install, a reload or another scan), 3 requests of which the first opens the manager, 1 message: any two calls and the event meet at any await; instances with both event methods or one. Plugins share only the map, `isEnable` and the loops over them; the proofs cover any number. 461,775 states. `EveryRequestEnds` is stated of all requests at once (infinitely often none is under way), which is the same as each request ending, as there are finitely many |

Every passing run visits its complete state space. The bounds are the smallest in
which the interesting cases meet; what is proved needs none of them.

`supervisor`, `upload`, `events` and `plugins` disable the deadlock check: the
program stops when the master has ended, and the environment's streams, calls or
requests are used up in the other three. The other runs check it.

### What the properties leave out

Several invariants are conditioned on a history variable, because the code
really fails beyond it; the condition marks where.

- `WsClient`: after a new url, `close()` and `open()` run in one go, so the old
  socket's late `close` or `error` finds `isEnable` true, nulls the *new*
  connection and dials a third time. From then on (`overtaken`) a live socket may
  be untracked. `NeverStranded`, `OneHeartbeat` and `KeepsDialling` hold regardless.
- `WorkerSupervisor`: nothing stops a second `restartWorker` during a first
  (`overlapped`); both may start a worker. When the `SIGKILL` of the old worker fails,
  or was never sent because no pid was known, that is only logged and the
  replacement starts beside it: two workers run. `OneWorker` does not count such
  survivors. A survivor that exits once `isRestarting` is cleared is counted as a
  crash and relaunched, although a restart asked for its exit, against the comment at
  `napcat.ts:290`; and a third such exit ends the master beside a worker that was
  told nothing. The safety properties hold until one of the two happens
  (`Undisturbed`). `RestartEnds` and `WorkerComesBack` hold regardless, but
  `WorkerComesBack` exempts two cases that nothing recovers from: a replacement that
  cannot spawn leaves `isRestarting` set, and in Electron a replacement that exits
  during the clean-up that follows its start passes for a planned exit (`Missed`).
- `NetworkReload`: an aborted change leaves the names behind it as they were
  (`dropped`), until a later change gets to them: then they are right again, except
  where the name needs an adapter of another class, which only recycling gives it.
  The change that makes up for a skipped name may interrupt its adapter though its
  entry was left as it was. Also left out are names that the last change moved to
  an earlier list (`moved`).
- `UploadStream`: a chunk counted after its stream was removed re-arms the removed
  stream's timer (`late`), which later removes whatever stream has the id then. A
  stream without `expected_sha256` whose chunk files another write may have had open
  while it lived or was merged (`disturbed`) can be saved torn: only the checksum
  guards against a merge that reads a file being written, and against a former
  stream's write in the shared directory. No checksum guards the final file: two
  streams of one file name can write it at once, and the reset or timeout of one
  removes it while the other writes it, which is then reported complete.
  `SavedFilesAreWhole` speaks of a file until another save or cleanup of its name
  touches it (`kept`). The schema admits a negative `file_size`: once the clamp of
  `cleanupStream` had to work, `memoryUsage` stays out of step, and with a negative
  size in the sum the limit bounds nothing (`skews`); `MemoryAccounted` says that the
  clamp has to work only after a negative size.
- `PluginManager`: two requests that work on one plugin at once (`overlapped`) can
  initialise it twice, or leave it running though disabled: the code has no guard.
  `EveryRequestEnds` and the first half of `EventsReachLive` (only living instances are
  given an event) hold regardless. An instance that is cleaned up while its
  `plugin_onevent` runs may still be given the same event through `plugin_onmessage`:
  `callPluginEventHandler` does not look again.
- `MessageUnique`: `msgIdMap` is keyed by the message id alone, so the same id in
  two conversations can leave its two maps out of step; `PeerOfRightMessage`
  speaks of the states where they are not. The data table always is in step.

### Disagreements with the repository's own comments

1. `clean-task.ts:70` says the original timer is cancelled when a file is added
   again. `cancelCleanup` called inside an operation is queued behind it and
   cancels the timer created after the call (`cleanup_supersede`).
2. `message-unique.ts:60` says `getHeads` returns the entries written last. It
   indexes from `listSize` downwards, at the old end (`short_ids_heads`).
3. `napcat-onebot/index.ts:270` says a change adds what is newly enabled. A name
   moved to a list handled earlier is opened there and then recycled on behalf of
   the list it left (`network_moved`).

### Fairness

Safety needs none. The liveness properties assume what the runtime provides:

- `RecallEvents`: a resumed promise runs on, and the calls a task awaits (uin
  lookup, `emitEvent`) settle. An adapter that never settles would block the
  waiting callbacks: the code has no timeout there.
- `CleanupQueue`: timers expire and `setImmediate` callbacks run.
- `WorkerSupervisor`: child events and timers are delivered. Workers are not
  assumed to exit when asked, nor a `SIGKILL` to succeed: the restart goes on after its
  timers.
- `WsClient`: a handshake ends (`handshakeTimeout: 2000`), a close completes (the
  library destroys the stream after its own timeout), timers fire. Nobody is
  assumed to save another configuration, and no server to accept.
- `UploadStream`: Node runs every timer that is not cleared. No request is assumed
  to come, and no disk operation to end.
- `EventWrapper`: time passes and a due timer runs. Neither the native function nor
  the kernel is assumed to answer.
- `PluginManager`: a request whose await has ended goes on, and the plugins' own
  `plugin_init` and `plugin_cleanup` settle; the code has no timeout for them.

All of it is weak fairness: each such step stays enabled until it is taken.

## 4. Theorems

Every safety property that a passing run checks is a theorem, for every value of the
constants. The assumptions are those of the constants in each module (a positive
cache or table size, the hash being a function into the short ids, place holders
that are no messages, lists or streams, and so on).

**`RecallEventsProofs`** proves, for any number of callbacks and messages, `TypeOK`,
`SingleFlight`, `EmissionsExplained`, `HandledOrAttempted` and that `RecallEvents`
implements `RecallReport`. None is inductive. `IInv` adds: where a callback is tells
that it has a current message and whom it awaits (`AtKey`); one inside or just behind
its task owns the entry of its message (`OwnsEntry`, which gives single flight, as an
entry has one owner); a task runs only for a message not remembered
(`TaskOnUnknown`); and an exact account, `emits = failed + evicted + remembered +
emitting` (`Accounted`), of which `EmissionsExplained` is the inequality. The account
needs the other two: a task that succeeded while its message was remembered would
break it. `HandledOrAttempted` is an action property: only two steps leave a message,
and the invariant tells what each has seen. For the refinement the stage of a message
is read off the place of the one callback in its task; each action moves the
stage of one message by one step of `RecallReport` or leaves all stages alone.

**`MessageUniqueProofs`** proves `TypeOK`, `DataTableSound`, `FreshIdResolves`,
`EvictionEnds`, `PeerOfRightMessage` and that `MessageUnique` implements `ShortIdBook`.
One invariant says that the data table is *in step*: keys without repetition, two
maps that are inverse to each other along the hash, within the capacity. The heart is
one lemma about `Set`: in a table in step, the sizes differ exactly when the new message
clashes; if not, at most one entry leaves, the oldest. The refinement follows from the
same lemma. `msgIdMap` need not be in step, so the properties of both tables have a
second invariant: each table is finite and within its capacity (`Bounded`, from which
the eviction loop ends: it has only one entry too many to remove), and where both
know a short id, the one's message id is that of the other's message
(`TablesAgree`, from which a message id is never given the conversation of another).

**`NetworkProofs`** proves `TypeOK`, `LiveIsTracked`, `NeverStranded` and `OneHeartbeat` of
`WsClient`. They are inductive together with one more fact, that the interval the
adapter holds is the configured one while it is enabled and none otherwise
(without it `clearInterval` might clear the wrong one). `NeverStranded` rests on
`tryConnect` being the only step that uses up a timer. Of `NetworkReload` it proves
`ReloadTypeOK`, `Converges` and `UntouchedStaysOpen`, for any lists, names and endpoints. `Converges`
speaks of finished changes only; its invariant `ReloadInv` says how far a change has
come. The tasks left fit the configuration (`TasksFit`: present entries are applied in
their list, and a name is recycled only for a list it left, with its entry still to be
applied afterwards unless it left every list or moved to an earlier one). And each
name that no abort skipped is waiting for a task or *settled*, and of the right class
unless it is yet to be recycled (`NamesProgress`). The order of the lists is needed
once: an entry is applied before a recycling only if its name moved up. An adapter
that is closed to be opened again is closed for one step, so `UntouchedStaysOpen` needs
that it was about to take a new entry: one whose entry the change left alone holds
that entry already (`UntouchedAgree`), and then `reload` finds nothing to reopen for.

**`EventWrapperProofs`** proves `TypeOK`, `PendingIsServed` and
`OutcomesExplained` for any number of calls. The invariant says of each call that it
is *sound*: while pending, its timer is armed, it still waits for more
notifications, and its result was not refused; once settled, its outcome is explained.
Each closure of the code (`Settle`, `sendDataCallback`, `func`, `eventRetHandle`)
gets a lemma that it keeps a record sound, so an action needs only the lemma of the
closure it calls; the loop over the entries is one more lemma about who is swept.

**`PluginManagerProofs`** proves `TypeOK`, `EventsReachLive`, `InstancesTracked` and
`LoadedIsEnabled` for any finite set of plugins and any number of requests. The
invariant has a part for all plugins (what each suspended request holds, `Shape`; a
loaded entry holds a living instance, `LoadedIsLive`) and
a part for plugins no two requests have worked on at once (`Orderly`): at most one
request is at work on it (`Alone`); its living instances are tracked (`Tracked`);
what that request holds is what the map holds, its entry is not loaded while
it loads it, and loaded with the very module while it cleans it up (`InHand`); what a
closing loop has passed is unloaded (`Passed`, without which a scan could replace
the entry of a living instance); and a loaded entry is enabled or being cleaned up
(`Consistent`). Two lemmas carry the cases: one for steps that only move a request,
one for steps that change one plugin. `EventsReachLive` is an action property: that an
event is given only to living instances follows from `LoadedIsLive`, that none is
missed from `Tracked` and `Consistent`, and a plugin method that runs on starts only
the second method of its own instance.

**`CleanupQueueProofs`** proves `TypeOK`, `NoLostOperation`, `TrackedIsLive` and
`AttemptsBounded` for any finite set of records and any retry limit. The invariant adds
that the queue is *orderly* (each record waits in it at most once, and only in the
stage where its turn is due), which is what keeps two timers or two retries of one
record apart, and that attempts are *counted*: a record was tried as often as it was
retried until it ended, then at most once more. Without the first, a second queued
cleanup of one record could pass the limit. As the closures call each other, there is
one lemma per closure, and a turn of the queue needs only that its head is ready.

**`WorkerSupervisorProofs`** proves `TypeOK`, `OneWorker`, `PlannedExitIsNoCrash` and
`NoOrphan` for any number of children, restarts and tolerated crashes. As long as it is
`Undisturbed` (no overlapping restart, no survivor's exit taken for a crash) the
invariant says: beside survivors, only the child created last can be present
(`Only`); a survivor had been told to exit (`Survivors`); a restart under way is alone,
announced by `isRestarting`, and about the current worker, which is no survivor once
it is the replacement (`Restarting`); a 2 s timer outlives its wait but not the restart
(`Timers`, so that its late `SIGTERM` cannot reach the replacement); a
present worker was told nothing while no restart runs (`Untold`, so that an exit
without a restart is a crash); and what counted as a crash is over (`Crashed`). The
three properties are each a consequence of one part.

**`UploadStreamProofs`** proves `TypeOK`,
`TimersMatchStreams`, `SavedFilesAreWhole` and `MemoryAccounted` for any streams,
requests and file names, and sizes of any sign. Of the types and timers, the second needs that the map files a
stream under its own id (a timer removes by id, not by stream) and that a
suspended request works for a stream that was created, with a merge that has chunks
left to read. One lemma says that `cleanupStream` keeps both; the timer, the reset
and the completed upload cite it.
For `SavedFilesAreWhole`, `FInv` follows the chunk files from the start: a directory that
does not exist is empty and nobody writes in it (`DirsOK`, for a stream that finds none is undisturbed); the chunk files of an
undisturbed stream in the map are its own, missing, or being written by its own requests
(`LiveFiles`); once it is merged nobody writes them, and what was read of them is its
own (`MergeGood`); and a content that is not whole is only about to be saved for a
disturbed stream without a checksum (`SaveGood`). `GInv` follows the final files: a save
that nobody met has its file to itself, and while any save has a file open no
stream's file of that name is kept.
`MemoryAccounted` is a sum over the streams in the map (`MInv`: equal to `memoryUsage`
until the clamp worked; without negative sizes each of them is at most the sum, so it
never does), computed by the fold `MapThenSumSet`. That the sum changes by one size when one stream comes or goes is
proved here from the fold's definition: two functions that satisfy its recursion, or
two ways of taking an element out, would differ on a *smallest* set, which the library's
theorem on well-founded orders provides.

The last is how the proofs do without the library's induction theorems, which take an
operator as a parameter and cannot be instantiated by the provers: a claim
about all finite sets or sequences is refuted at a smallest counterexample
(`SmallestSet` in `UploadStreamProofs`; `LastOfSome`, the last of a set of positions, in
`CleanupQueueProofs`).

Only model-checked: every liveness property (`CallbacksReturn`, `EveryRecordEnds`,
`RestartEnds`, `WorkerComesBack`, `KeepsDialling`, `EveryStreamEnds`,
`EveryCallSettles` and `EveryRequestEnds`): liveness under fairness and `ENABLED`
are beyond the prover. The three properties of the violated runs are false.

## 5. Not modelled

- HTTP, SSE and WebSocket *servers*: only how `open` and `reload` end, in
  `NetworkReload`. Their client lists change in the callbacks of the `ws` and `http`
  libraries, one client at a time.
- Login, actions, message conversion, WebUI handlers: long but stateless between
  calls, or I/O; `delete_msg` and the streamed upload are the actions that matter
  for state and are in `RecallEvents` and `UploadStream`.
- The removal of a saved upload when its retention time is over, or by
  `clean_stream_temp_file`.
- What the callers' checkers of `callNormalEventV2` accept. Where a caller accepts
  everything, the first notification of that kind answers it, whoever it was for.
- `ResourceHealth`: nothing ever sets `isEnabled` to false, so the health checks that
  would make it a protocol are never reached; what is left are counters.
- The RPC package: used only by its own tests.
- `resize` and the delete operations of the short id tables: no caller.
- Packet client, streamed download, LRU cache, store, cancelable task: one call or a few
  sequential lines, no shared state between awaits worth a model.
- Protobuf, frontend, native addons, build tooling: no control state. They are
  most of the repository's lines, so the map covers a small share of them.

## 6. Order of work

The modules were written in the order of their importance for the running bot:

1. `RecallReport`/`RecallEvents`, `ShortIdBook`/`MessageUnique`, with proofs.
2. `CleanupQueue`, `WorkerSupervisor`, with proofs.
3. `NetworkReload` and `WsClient`, with proofs.
4. `UploadStream`, with proofs.
5. `EventWrapper`, with proofs.
6. `PluginManager`, with proofs.

The work of a configuration change (`todo` of `NetworkReload`) is a set of tasks taken
in the order of the lists rather than a sequence: the order of the entries within a
list is the saved configuration's to choose, and no recursion stands in the way of
the proofs.

What is left: what the violated runs show only for an instance, such as the exact
names a move leaves closed; and invariants that are true of the parts of the
code beyond the history variables (`late`, `overlapped`, `survived`, `overtaken`,
`skews`), where the properties now say nothing.
