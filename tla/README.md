# TLA+ models of the rc2compute file manager

These modules model how an `rsession` process keeps its working directory and
the `rcfile` rows of its workspace in step. They cover `FileManager`
(`src/src/FileManager.cpp`) and the parts of `DBFileSource`
(`src/src/DBFileSource.cpp`) it calls. Each module is translated from the
C++, and `PROJECT.json` maps every definition to the lines it models.
`RServer` models the front end that accepts client connections and forks one
rsession per client (`src/src/RServer.cpp`).

## The system

An rsession runs one libevent loop on one thread. `FileManager` registers
three kinds of callbacks on it:

* **The inotify bufferevent, at priority 0.**
  * `handleInotifyEvent` reads up to `I_BUF_LEN` bytes of inotify events.
  * It creates records for new files, but `insertDBFile` is unimplemented.
  * It watches new `rc2imgN.png` files.
  * On `IN_CLOSE_WRITE` it uploads closed files (`updateDBFile`) or stores images (`insertImage`).
  * It deletes rows of files deleted locally (`removeDBFile`).
* **The Postgres LISTEN socket, at priority 2.**
  * `handleDBNotifications` runs when the socket is readable. It calls `PQconsumeInput`, then takes every notification in libpq's notify list.
  * Every other statement on the connection goes through `PQexec`. `PQexec` also reads the socket, up to the statement's ReadyForQuery, so the notifications it meets go into libpq's list and wait there. The notification of the session's own commit always arrives this way. Nothing takes them until new data makes the socket readable again.
  * `processDBNotification` decodes each one.
    * For a delete (`d`) it removes the local file.
    * For an insert (`i`) in this workspace it loads the row and watches it.
    * For an update (`u`) of a tracked file it reloads it.
* **The echo suppression timer, at priority 2 with a 5 ms timeout.**
  * `ignoreFSNotifications` sets `ignoreFSNotifications_` and schedules this timer.
  * `handleInotifyEvent` returns without reading while the flag is set.
  * The timer clears the flag.
  * The flag is raised by every DB callback, every inotify callback and every stored image.

Before the loop runs, `initFileManager` does three things in order:

1. `connect` loads every row of the workspace into the working directory (`loadFiles`).
2. `setupInotify` watches the root and each loaded file.
3. It executes `listen rcfile` and registers the DB socket.

Nobody checks the status of the `LISTEN`.

RSession calls other operations between callbacks:

* `resetWatch`, `cleanupImageWatch`, `findOrAddFile`;
* `checkWatch`, which only reads the image ids and batch id (`CheckWatch`);
* `suspendNotifyEvents` and `resumeNotifyEvents`.

Several sessions share one database. A change made by one session notifies
every session, the sender included.

## Modules

| Module | Models |
|---|---|
| `NotifyPayload` | The `rcfile` notification payload and its decoding in `processDBNotification`: the guard, `atol(&msgStr[1])`, and `getline` on `&msgStr[2]` (RECURSIVE `Decimal`, `AtolFrom`). `Encode` is the trigger's format from spec section 6; the trigger is not in the repository. |
| `MCNotifyPayload` | Compares the decoding with `Encode` for every tag, file ids 0..MaxId and workspaces 0..MaxWs. |
| `FileStore` | What the `rcfile` table promises: a row is inserted with version 1, each update adds exactly one to its version, and a deleted row stays deleted. |
| `FileManager` | The whole reactor of N sessions, the shared database and each session's kernel state: inotify watches, queued events and disk contents. |
| `MCFileManager` | Session model values, file ids `{3, 13}` and the session symmetry. |
| `RServer` | The `rserver` front end (`src/src/RServer.cpp`): the listener's backlog, `handleEvent` (accept, the `EMFILE` return, fork, execve and their failure branches) and which client sockets each process holds. A child inherits every socket the server holds, because none is close-on-exec. |
| `MCRServer` | Three interchangeable clients. |

### Variables in `FileManager`

* **`dbVars`: the database.**
  * `db`: the rcfile rows.
  * `dbNotes`: the notifications on each session's socket, not yet read.
  * `pqNotes`: libpq's notify list on each session's connection: read, not yet taken.
  * `Exec` is a statement of a session. It moves the socket's notifications into `pqNotes`, followed by the notifications of its own commit. The other listening sessions get those on their sockets. `Notify` is a commit by another client.
  * `imgRows` and `imgSeq`: the `sessionimage` table and its sequence.
* **`recVars`: `FileManager::Impl` and `DBFileSource` state.**
  * `filesById`, `fileVer`, `watchDesc`, `filesByWd`.
  * `pendingImages`, `imageIds`, `sessionImageBatch`, `manuallyAdded`.
  * `ignoreFS`, `ignoreDB`.
* **`loopVars`: libevent state.**
  * The armed timer.
  * `prio2`: the priority-2 callbacks active in the current pass.
  * `fsBatch` and `dbBatch`: the batch a callback is part way through.
  * `evBuf`: the bufferevent input buffer.
  * `crashed`.
* **`osVars`: kernel and disk.**
  * `kw`: the kernel watch table.
  * `nextWd`, `kernelQ`, `kernelWake`.
  * `disk` and `origin`: who wrote each file last.
  * `imgFile`.
* **`envVars`: environment bookkeeping.**
  * `imgMade`, `generation`: the command count, advanced by `resetWatch`.
  * `envSteps`.
  * `readEnabled`, `suspended`.
  * `phase`: how far `initFileManager` has got (`start`, `connected`, `watching`, then `listening`, or `unlistened` if the `LISTEN` failed).

### Actions

* **One action per callback step.** A callback processes one event or notification per step, because other sessions and the environment can act between them.
  * `InotifyRead` and `InotifyDeferred` split `handleInotifyEvent` on the flag.
  * `InotifyRead` takes at most `MaxReadEvents` events, which stands for the `I_BUF_LEN` bytes one `bufferevent_read` returns (`ReadPart`). The rest stays in `evBuf` until new data arrives, because libevent calls back only after it reads from the descriptor.
  * `Event*` actions cover every branch of the event loop body, including the null-pointer paths (`NullDeref`).
  * `Note*` actions cover every branch of `processDBNotification`.
  * `Poll` models a libevent pass: it activates a nonempty subset of the ready priority-2 callbacks, and only when the inotify read event is not active.
* **Start-up.** With `Startup` TRUE a session begins before `initFileManager`.
  * `Connect`, `SetupInotify` and `Listen` are its three steps. They are part of the session's own steps (`SessionStep`).
  * Other sessions and clients act between them.
  * A notification reaches only a session that has listened (`Notify`).
  * The loop and R run only after `Listen` (`Live`).
  * With `Startup` FALSE, `Init` is the state after `initFileManager`.
* **One action per RSession call.**
* **Environment actions.**
  * R or the user writes, deletes or creates files and images.
  * Other clients insert, update or delete rows (`OtherWriters`).
* **Failures.**
  * Any SQL statement may fail (`DBFailures`).
  * An image may be removed before cleanup (`ImageRemovals`).

Undefined behaviour is a nondeterministic choice:
* **The never-initialised flags.** `UninitFlags` lets them start true.
* **`insertDBFile` falls off its end.** The choice is between no record and a crash.

## Runs

Four runs must pass:

| Run | Checks | Shows |
|---|---|---|
| single | `PendingImageWatched`, `Converged`, `StoreRefinement`, `EchoWindowCloses`, `NotificationConsumed` | One session starts from before `initFileManager`, and other clients insert and delete rows. Each pending image keeps its watch. An idle session matches the database. The database implements `FileStore`. The echo window always closes. Every notification that reaches the database socket is eventually read off it, by `handleDBNotifications` or by a statement's `PQexec`. The socket sits at priority 2, below inotify, but is not starved while the inotify stream is finite. |
| failures | `TypeOK`, `EchoWindowCloses` | Starting from before `initFileManager`, the state stays well typed and the echo window still closes under all of the following: failed statements (a failed `loadFiles` or `LISTEN` included), other writers, removed images, and suspend/resume calls. |
| images | `PendingImageWatched`, `BatchPerCommand`, `CheckWatchTruthful` | Over two images per session across `resetWatch`, each stored image carries the batch of its command. The command counted is the one current when the image is stored, so an image whose close-write is read only after `resetWatch` counts as the next command's (listed as an uncovered hazard). What `checkWatch` reports to RSession is a set of stored images of this session, all under the batch id it reports. |
| server | `ConnectionHandedOff` | There are descriptors for all three clients, and fork and execve may fail. Every connection is accepted and then either handed to an rsession child or closed. |

Eight runs must find a violation. Each one is a code bug recorded as a finding in `PROJECT.json`:

* **startup.** This is `pair` (with two environment steps) with both sessions starting before `initFileManager`. One session loads version 1 of a file. The other session then uploads version 2 before the first executes `listen rcfile`. The first session never hears of it and stays idle with the old content (`Converged`).
* **pair.** Two sessions share the database, both already past `initFileManager`. Session s1 uploads an edit, and its `'u'` reaches s2's socket. Before s2's loop polls the socket, s2 stores an image. The insert's `PQexec` reads the `'u'` into libpq's list, so the socket is no longer readable. s2 then sits idle with the old content (`Converged`).
* **echo.** One session uploads a local edit, and its own `'u'` waits in libpq's list. Another client's `'i'` then makes the socket readable. `handleDBNotifications` takes both, and the session reloads the file it wrote itself. The timer, at the socket's priority, clears the flag in the same pass, so the rewrite's close-write is uploaded back (`NoEchoUpload`).
* **wdindex.** After a local delete, the `IN_DELETE_SELF` branch erases `filesByWatchDesc_` at key `fobj->id` (line 406), not at the descriptor. The `'d'` branch of `processDBNotification` (line 239) has the same bug.
* **versions.** Two sessions write versions computed from stale caches, so `rcfile.version` repeats or regresses (`StoreRefinement` fails).
* **edits.** A local edit made in the echo window stays in the bufferevent and is never uploaded (`LocalEditUploaded`).
* **imgcrash.** R closes an image file, and RSession calls `cleanupImageWatch` before the loop has read the close-write. `cleanupImageWatch` removes the capture's watch and clears the pending map. When the loop reads the queued event, the descriptor is neither pending nor in `filesByWatchDesc_`. `operator[]` then returns a null record, and `fobj->name` kills the session (`EventsResolvable`).
* **fdleak.** `handleEvent` never closes the parent's copy of an accepted socket. There are descriptors for two sessions; both sessions run and end, and the third client is still never accepted (`ConnectionHandedOff`).

Three more bugs were found and are stated as properties:
* **The workspace id is read from `&msgStr[2]`**, not from after the `/` (`WspaceRoundTrip` in `MCNotifyPayload`; `MCNotifyPayload_wspace.cfg` shows it on the first payload).
* **A zero-byte close-write ends an image capture** (`ImageCaptureKept`).
* **`cleanupImageWatch` never clears the pending map** when `fs::file_size` throws (`CleanupFlushesAll`).

`FileIdRoundTrip` in `MCNotifyPayload` states that the tag and file id of every payload are decoded. It holds for ids up to 120, but no run is kept for it: it only checks `atol`. No run checks the three bug properties either. Each fails in one or two steps that a unit test also reaches. They are listed as hazards in `PROJECT.json`.

Every property of a passing run has a mutant in `PROJECT.json`. The mutant is a plausible bug in a mapped definition, and it makes the property fail under that run's configuration.

## Bounds

Each bound is a named constant.

* **`MaxWd`.** Descriptors handed out. Five is enough for the root, two files and an image watch to be recycled.
* **`MaxVersion`.** Three versions. That is enough for two updates to race.
* **`MaxEnv`.** Environment steps per run: 2 or 3, or 7 for images. This is enough for an edit, a DB change and an image in one behaviour.
* **`MaxImages`.** Two, so that two commands, and two images within one command, occur.

* **`MaxReadEvents`.** Events one read returns. It is 2, scaled down with the model's short event queues, so that a read leaves events behind whenever events were deferred.
* **RServer's `MaxFds`.** Descriptors beyond `BaseFds`. There are three in `server`, one per client, and two in `fdleak`. Two are enough to show the leak; the real limit only delays it.

`StateBound` is a state constraint. Liveness properties allow `~StateBound` as an escape, so that a behaviour cut off at a bound is not reported as a violation.

The file ids are 3 and 13. With them, a file id can equal another file's watch descriptor (wdindex), and payloads have ids of one and of two digits.

## Fairness

Each session's own thread, `SessionStep`, is weakly fair. It runs `initFileManager` and then the loop. `initFileManager` is straight-line code that RSession runs at start. libevent keeps dispatching while the process lives, and the timer is always armed when the flag is set, so both eventually run.

Weak fairness of the whole `SessionStep` does not say which of its ready callbacks runs next. That is why `NotificationConsumed` is a real check. What it promises is only that the socket is read. A notification read by a statement's `PQexec` waits in libpq's list, and `pair` shows that it can wait for ever. libevent serves priority 0 first, so `Poll` is enabled only when no inotify data is readable. A waiting notification is consumed only because every inotify stream in the model is finite: the environment's steps are bounded by `MaxEnv`. A workload that writes files without a pause would starve the socket, and the code does nothing against that. No property can state that case, because it needs an unbounded environment.

Nothing is fair for R, the user, other clients or the RSession calls. They need not act.

In `RServer`, `handleEvent` is weakly fair, because the persistent listener event fires while a connection is pending. A forked child's exec is weakly fair. Clients and session ends are not.

## Not modelled

* **`EnvironmentWatcher`.** R environment to JSON conversion; spec section 1 places it out of scope. The translation unit does not compile against its header:
  * the constructor takes `(SEXP)` in the .cpp file and `(SEXP, ExecuteCallback)` in the header;
  * `valueToJson` is defined with three parameters and declared with four;
  * `captureEnvironment` indexes the vector `_lastVars` by a string.
  
  No build has behaviour to model.
* **`RServer::parseArgs`.** It sets the port and the verbose flag only.
* **`RSession.hpp` and `JsonCommand.hpp`.** Declarations only.
* **Connection handling in `PostgresUtils.hpp`.**
* **`DBFileSource` functions `FileManager` never calls:**
  * `insertOrUpdateLocalFile`, `removeLocalFile`;
  * `loadRData`, `saveRData`.
* **Start-up failures that abort.** `PQconnectdb` failing and `inotify_init` failing end the process before the loop runs.
* **The working directory at start.** It is taken to hold no rcfile before `connect`. RSession, which creates it, is not in the repository.
* **`I_BUF_LEN` byte boundaries.** Reads are modelled in whole events. A read of `I_BUF_LEN` bytes can also end inside an event record; that is noted as a hazard.
* **Zombie children of `rserver`.** Fork failure is a free choice, not tied to a process-table bound.
* **The working directory.** The model assumes it ends in `/`; `updateDBFile` builds a path without one.

## Plan for later work

* Add liveness over two sessions once a smaller configuration makes it tractable.
