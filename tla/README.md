# A TLA+ model of backup-project

backup-project is a Linux backup program in C++17: an archive format with
compression and encryption, full and incremental snapshots, scheduled and
realtime backups, a Qt GUI and a command line, and a remote backup server with
its client. This directory holds specifications of its concurrent and
crash-prone parts, TLC instances of them, and TLAPS proofs.

Paths below are relative to the repository.

## 1. The system

| Part | State it keeps | Operations | Interacts with |
|---|---|---|---|
| Remote metadata store (`server/remote_metadata_store.cpp`) | three SQLite tables: `users`, `deleted_users`, `snapshots` | CreateUser, FindUser, InsertSnapshot, ListSnapshots, DeleteSnapshot, DeleteUser | called by the server, the maintenance layer and the administration tool; one mutex, one transaction per change |
| Remote server (`server/remote_server.cpp`) | a `ConnectionContext` per connection; `<root>/users/<id>/{tmp,trash}` | REGISTER, LOGIN, RESUME, LOGOUT, LIST, UPLOAD_*, DOWNLOAD_*, DELETE, DELETE_ACCOUNT | store, maintenance, disk; up to `worker_count` connections at once |
| Remote maintenance (`server/remote_maintenance.cpp`) | `<root>/trash`, `users/<id>/trash` | DeleteSnapshot, DeleteAccount: rename away, commit, purge, or roll back | store and disk |
| Accept loop and worker pool (`server/remote_server.cpp`) | `busy_workers_`, `pending_`, `stop_requested_` | Run, WorkerLoop, RequestStop, Stop | signal handler, clients |
| Server process, administration tool (`server/main.cpp`, `admin_main.cpp`) | the pid file, the lock of the data root | start and stop; queries at any time, deletions under the lock with a typed confirmation | store, maintenance, the operator |
| Secure transport, protocol (`src/network/secure_transport.cpp`, `network_protocol.cpp`) | handshake and record counters | handshake, send, receive | server, client |
| Remote page's controller and tunnel (`ui/modern/remote_controller.cpp`, `ssh_tunnel_manager.cpp`) | one client object, one operation, a deferred request, the ssh process | login, register, list, transfers, settings, EnsureConnection, StopTunnel | operation thread, ssh, server |
| Remote client (`src/network/remote_backup_client.cpp`, `remote_incremental.cpp`) | a local index of remote snapshots | RunRemoteBackup, restore, delete | server; the index is saved after the server's answer |
| Realtime controller (`ui/modern/realtime_controller.cpp`) | configuration, debouncer, three timers, one pending trigger, one run | start, OnWatcherReadable, OnDebounceTimeout, Submit, OnRunFinished, saveConfig, OnRepositoryPathChanged | watcher, debouncer, gate, pool thread |
| Debouncer (`src/realtime/realtime_debouncer.cpp`) | two deadlines, merged flags | NoteEvents, NoteResync, Due, WaitMs, Consume | controller |
| Watcher (`src/realtime/realtime_watcher.cpp`) | an inotify descriptor and its watches | Attach, Rebuild, Drain, Detach | kernel, controller |
| Operation gate (`ui/modern/operation_gate.cpp`) | the one owner | Acquire, Release | all GUI controllers |
| Schedule controller (`ui/modern/schedule_controller.cpp`) | its copy of the schedule document, a timer, the runner lock, one pending check | start, Tick, saveConfig, runNow, OnEvaluationFinished, OnRepositoryPathChanged, OnArchiveDeleted | scheduler in a pool thread, gate, backup controller |
| Backup controller (`ui/modern/backup_controller.cpp`) | the repository path, the list of backups, one backup or restore | Start, deleteBackup, saveRepositoryPath, refreshBackups | backup engine and catalog in pool threads, gate |
| Realtime service and store (`src/realtime/realtime_backup_service.cpp`, `realtime_store.cpp`) | realtime.json, a marker per snapshot | RunRealtimeBackupOnce, retention | incremental core |
| Scheduler (`src/scheduler/*.cpp`) | schedule document, source manifest, scheduler lock | Evaluate, retention, enable, disable | incremental core, catalog |
| Incremental core (`src/core/incremental_*.cpp`) | archives with sidecar files, chains of deltas | RunIncrementalBackup, retention plan, restore, orphan cleaning | repository lock |
| Catalog (`src/catalog/backup_catalog.cpp`) | the files of a repository | List, Resolve, Delete | GUI, CLI |
| Archive, compression, cryptography, filters | none, or the state of one stream | encode, decode, match | pipeline |
| Configuration, paths, process locks | config.json, lock files | Load, Save, Acquire | everything |
| Command line, packaging | presentation | | |

### What is hard about it

* **Server.** A request is a sequence of store calls and file system calls, and
  only each call is atomic. Connections of one account overlap: an upload with
  the deletion of its parent, of its account, with another upload of the same
  parent. UPLOAD_BEGIN validates what UPLOAD_END uses much later. Each call can
  fail, and roll-backs can fail. The process may die between any two.
* **Pool.** A stop comes from a signal handler at any moment of a hand-over;
  slots are counted by one thread and returned by another.
* **Realtime.** Events, an overflow, the loss of the root, a run that is on, a
  gate owned by somebody else, a repository change and a restart come in any
  order, and a change must not be forgotten in any of them. One handler
  replaces the inotify descriptor while the kernel keeps queueing events.
* **Desktop.** Three controllers with a busy flag each share one repository and
  one gate; a signal may arrive while its sender still holds the gate, and a
  result may be of a repository that is no longer the one.
* **Scheduler, incremental core, realtime service.** Several files are
  published one after the other, and retention deletes some of them in between.
* **Client.** An answer that is lost leaves the client not knowing what the
  server did.

### What makes each part correct

* Store: chains of snapshots always resolve and are linear; rows have owners;
  ids of deleted accounts are never used again.
* Server: a listed snapshot has its bytes; no file is left that nobody will
  remove; a session acts on the account it was opened for.
* Server process and tool: one process writes to a data root; a deletion takes
  what the operator had before him.
* Pool: no connection or slot is lost; Run returns only when all it accepted is
  closed, and it returns.
* Realtime: no change is forgotten; every change is observed in the end; runs
  write to the configured repository.
* Repository: what is restorable stays restorable; a half-published snapshot is
  never used; a manifest that verifies lists what its archive holds.
* Scheduler: a round that finds nothing to do is right about it, after a crash
  at any point too; retention spares the newest snapshot.
* Desktop: one work at a time; a record of a snapshot is not lost between two
  writers of a file; what is listed is of the repository it says.
* Realtime service: a marker names the archive beside it; retention takes only
  what the job itself made.
* Restore: what is published is the whole chain; a destination somebody uses is
  never replaced; leftovers are reclaimed, and nothing else is. The tree that a
  baseline and a delta give is the tree the delta was made from.
* Archive: what is published holds what was listed; what is accepted can be
  restored; a failed restore leaves nothing.
* Remote page: each accepted call ends, one at a time; what is shown is one
  account's.
* Client: what a restore applies is what the server has; a lost answer records
  nothing twice; parents are the parents of the archives.
* Channel: what is received is a prefix of what was sent; both ends agree on
  keys and protocol; no counter is used twice.

`PROJECT.json` lists the hazards line by line, each with the properties that
cover it or the reason why none does.

## 2. The modules

```
           RemoteMetadataStore                 RealtimeDebouncer   WorkerPool
   |               |               \                  |
RemoteServer  ServerProcesses  RemoteBackupClient  RealtimeController

SnapshotSet   <- implements -   SnapshotRepository
                                  |             |
                          ScheduledBackup   RealtimeBackup    ScheduleController

PathTree                     SshTunnel          ChainRestore    SecureChannel
   |        \                    |
PackedStream  DeltaTree   RemoteController
   |
ArchivePipeline
```

A line is EXTENDS. Each module with a specification has an `MC...` module and a
`.cfg`. Eight `...Proofs` modules extend them: those of the store, the server,
the other remote parts (processes, pool, channel and client), the repository,
the schedule (controller and service), the desktop (realtime controller and
service, remote page), an archive, and what is restored (a delta and a chain).

### RemoteMetadataStore

`username`, `deletedUsers` and `snapshots` are the three tables. Every public
method of the class holds its mutex for the whole body and changes the database
in one transaction, so a method is one action, and a method that refuses
changes nothing. The reason of a refusal is an operator of its own
(`InsertSnapshotResult` and so on), which the server module reads.
Columns that no decision reads (display name, size, digest, password) are left
out. Ids of snapshots are 128 random bits in the code; here they are numbers,
because ListSnapshots orders by them. `OfferedRows` lets a caller offer any row
at all, so what holds of `StoreSpec` does not rest on the server's checks.

### RemoteServer

Extends the store; the composition is by the store's own actions, which the
server's steps conjoin. `job[c].step` names the call that the handler of
connection `c` makes next: a handler is cut exactly at its store calls and at
the file system calls that change something. Consecutive calls that no other
actor can tell apart are one step. `home[u]` is the directory that has the name
`users/<u>` now; a directory has an identity of its own because it can be
renamed away and created again, and a file stays in the directory it was created in.

| Handler | Steps |
|---|---|
| UPLOAD_BEGIN | `UploadBegin`, `EnsureUserDirectory`, `OpenTemp` or `OpenTempFails` |
| UPLOAD_CHUNK | `UploadChunk`, `RejectChunk` |
| UPLOAD_END | `UploadEnd`, `Publish` or `PublishFails`, `InsertRow` or `InsertRowFails`, `Unpublish` |
| DOWNLOAD_* | `DownloadBegin`, `OpenBlob`, `DownloadEnd` |
| DELETE | `DeleteBegin`, `TrashBlob`, `DeleteRow` or `DeleteRowFails`, `RestoreBlob`, `PurgeBlob` |
| DELETE_ACCOUNT | `DeleteAccountBegin`, `Quarantine`, `DeleteUserRow` or `DeleteUserRowFails`, `RestoreHome`, `PurgeHome` |
| any, account gone | `RejectIfAccountMissing` |
| CleanupConnection | `Disconnect` |

`Fault` is a call of the system or of the database that fails, at most
`MaxFaults` times; `Crash` ends the process and starts it again, and what was
on disk and in the database is as it was. Passwords are abstracted to the
name; tokens to the set `issued` of account ids for which one was handed out,
which survives a restart. The data lock is held by the process from Start to
Stop, so it excludes other processes and not other connections.

### ServerProcesses

Extends the store: the processes around one data root. `at[p]` is how far the
program of pid `p` has come, a server from the check of its pid file through the
data lock, the opening and migration of the database to serving, or the tool
through a query or a deletion. The operator has one page before him (`screen`)
and types a deletion of what is on it, by id or by name, with the confirmation
of that page; `ResolveUser` and `Confirmed` are what the tool makes of it. A
process may be killed at any step and its pid used again. What a server does in
between is `RemoteServer`'s affair; here its handlers are calls of the store.
The lock belongs to a data root: two roots with one database would have two.

### WorkerPool

`Run` (`runPc`), the workers (`workerPc`), the queue `pending` and the counter
`busyWorkers` under `work_mutex_`, and `stopRequested`, which RequestStop sets
without the mutex. A connection is served for as long as frames come and until
recv ends. Waits of the code have a timeout of their own, so a lost
notification only delays and a waiting thread is simply enabled when its
condition holds.

### RealtimeDebouncer and RealtimeController

The debouncer's operations as operators on a record. Its deadlines are only
ever compared with the present, so the record has the time that is left of
them. The controller's handlers run on the GUI thread one at a time; an action
is a handler with every call it makes. Only OnWatcherReadable is two steps, as
Rebuild closes a descriptor into which the kernel may have queued events since
it was drained. The run is in a pool thread: started, observed, finished.
`version` counts changes of the source tree, `run.seen` is the version a run
observed and `settled` the newest one of a finished run.

### SnapshotSet, SnapshotRepository, ScheduledBackup, RealtimeBackup

`SnapshotSet` is the promise: a set of named snapshots, each with a content,
which appear and disappear whole and one at a time. `SnapshotRepository` is how
the code keeps it: archives (full, or a delta on a parent's identity) with
sidecar files for manifest, identity and realtime marker, the incremental
engine that publishes them one by one, the deletion of the catalogue, the
dependency-aware retention plan and the cleaning of orphans. `job.step` is
where the one writing process is; it may die between any two steps. The user
backs up and deletes beside the services, works on the source at any moment,
and may remove or replace an archive by hand (`damaged` has the names he touched).

`ScheduledBackup` adds the round of the service with its three files (source
manifest, schedule document, snapshot), each of whose saves may fail;
`RealtimeBackup` the run behind a trigger with its marker and retention.

What a source holds is a version number, what a scan sees a content (version
and filter), and a digest is the content. A filter name stands for all that
identifies a job: source, filter and strategy. The history of a job, its due
times and its status texts are not modelled. The source changes only at steps
that read it, as nothing else could tell; the user does not replace a file in
the moment it is being published.

### ScheduleController

Who runs the schedule, in the desktop program. `gui` is the record of the
members of ScheduleController and of BackupController that matter, and the
gate; a callback is a function from one such record to the next, so that a
signal handled inside another callback is a composition, as it is in the code.
Evaluations (`round`) and scans of the repository (`catalog.scan`) run in threads
of their own: an evaluation reads the document, makes a snapshot or not, and
saves the document as it read it with the record added. `file` is
schedule.json, which a user may also edit by hand; `rival` is another process
with the runner lock. The realtime controller is here only as an owner of the
gate. In the run, `part` says whether a behaviour is about the controller or
about the service: what passes between them is when a round may start and that
it ended, which both model.

### ChainRestore

`ChainRestore` is RestoreSnapshotChain once the chain is resolved and the
parent of the destination exists: claims of the staging, overlay and container
entries, the marker that proves whose they are, the base, each delta,
publication, and the reclaiming of what a dead process left. `Die` ends it at any step. The
user may put an entry of his own where a restore expects its own, take the
destination, and replace an entry in the window in which a claim is made. A
tree is the number of deltas that are in it. Not modelled: the working
directories of the archive pipeline underneath, and the user writing to our
markers.

### PathTree, PackedStream, ArchivePipeline and DeltaTree

`PathTree` is the shape of a source: paths numbered in the order a walk meets
them. `PackedStream` is an archive as a sequence of members, what each of the
three formats (the first one, MyPack v2, ustar) accepts, and the tree a stream
means. `ArchivePipeline` is one archive from the source to a restored tree: the
walk with its exclusions and hard links, the digests and their recheck where
the archive belongs to a snapshot, packing a block at a time, publication,
damage, the checks before a restore, and the restore member by member. The user
writes, replaces, removes and moves entries between any two steps. An edit
leaves a new time, except where the code looks at more than size and time: with
digests a file may be rewritten with its old time put back, with digests or in
ustar (which compares the inode) one of the same size and time may take its
place. No block is in two files, so that a mixture of two would be noticed.
Compression and encryption are a checksum and a tag over the stream.

`DeltaTree` is what the number of ChainRestore stands for: DiffManifests and
BuildChangedEntries, tombstones and MergeTree, over every pair of small trees
with files, symbolic links, hard links, modes and times, in whatever order
readdir lists a directory.

### SshTunnel and RemoteController

`SshTunnel` is the manager of the ssh process as operators on a record; what it
emits is handled before its next statement, so `Signalled` in the controller
says what a signal does. `RemoteController` has the page's calls, the operation
on its thread over the one client object (`PrepareConnection`, `Resume`, the
request), and the handling of its result. The page's own gates are part of the
calls: during an operation it offers no setting and no form.

### RemoteBackupClient

RunRemoteBackup and RunRemoteRestore of several machines on one lineage, over
the store. Each request can fail, or be executed and its answer lost. A machine
has a cache of archives and an index from server ids to archive names. Session
token and connection are part of "the request fails"; an upload is one step; a
process that dies between the server's record and the index save is a lost
answer. A restore goes from its list straight to the first download, and a
download with its cross-check is one step. That the engine publishes an archive whole or not at all is what
`SnapshotsAreAtomic` shows in `RealtimeBackup`.

### SecureChannel

Both ends of BPSEC1 and BPSEC2 over a link that loses, repeats, reorders and
alters messages. Primitives are perfect: a tag or a key is the tuple of what
went into it. Messages are whole, and deadlines and closed sockets are a step
`GivesUp`. The parsing of certificates and trusted roots is not modelled.

## 3. What is checked

All instances are bounded by the constants of their `.cfg`.

| Run | Shows | Bounds |
|---|---|---|
| `server_parts` | store: `RowsAreSound` (chains that resolve and are linear, rows with owners), `DeletedIdsStayDead`; channel: `StreamIsAPrefix`, `EstablishedMeansAgreed`, `CountersAreUsedOnce`; processes: `OneWriter`, `OperatorDeletesWhatHeSaw` | 3 snapshots (a chain with a sibling), 3 account ids and 2 names (a deleted maximum, and somebody else after it), 2 lineages; 2 connections, a counter of 3 values, 2 faults, 2 records in flight; 2 pids, 2 accounts, 1 snapshot |
| `server` | `StoreSpec` (refinement), `RowsKeepTheirBytes`, `SessionsKeepTheirAccount`; undisturbed, `RowsAndFilesAgree` | 2 connections, 2 snapshots, 3 directories; either 2 accounts and 2 seconds with nothing failing, or 1 account and 1 second with 2 faults and a crash |
| `pool` | `SlotsAreConnections`, `ReturnedMeansDrained`, and with fairness `EverybodyIsServed` (`StopsEventually` and `BacklogIsServed`) | 2 workers, 3 connections, of which one sends a request |
| `realtime` | `NoChangeIsLost`, `RunsStayInRepository`, and with fairness `ChangesAreObserved` | 3 changes, 3 commands, 2 faults (failed calls, a lost root, events without a change), 2 usable repositories and an unusable one |
| `schedule` | service: `ChainsStayRestorable`, `VerifiedManifestsTellTheTruth`, `SkipMeansSaved`, `RetentionSparesTheNewest`; controller: `OneWorkAtATime`, `NoRecordIsLost`, `LockFollowsThePlan`, `ListIsOfTheRepository` | 3 archives, 2 versions of the source, chains of one delta, one to keep, one intervention of the user; any number of crashes and failed saves; 2 repositories and a scheduled snapshot |
| `realtime_backup` | `SnapshotsAreAtomic` (refinement of `SnapshotSet`), `MarkersNameTheirArchive`, `RetentionTakesOnlyItsOwn` | 3 archives, 3 versions, chains of one delta, one to keep, one intervention, a marker whose removal may fail |
| `restore` | `PublishedIsWhole`, `ResidueIsReclaimed` (`ResidueKeepsItsProof`, `LeftoversAreReclaimed`), `OthersAreLeftAlone` | 2 process ids, 3 restores, 2 deltas, one act of the user |
| `archive` | `BackupsReadBack` (`ArchivesHoldWhatWasListed`, `WhatIsWrittenIsAccepted`, `AcceptedMeansRestored`), `DestinationIsAllOrNothing`; `RestoredTreeIsTheSource` | a directory with two entries and one beside it: 8 sources with each kind of entry, 2 exclusions and 2 edits by each method; every stream of up to 3 members over four of the paths; all pairs of trees with two stamps |
| `remote_client` | `MaterialIsTheServers`, `RowsLinkTheirArchives` | 2 machines, 3 archives, chains of 2 deltas, one snapshot restored |
| `remote_gui` | `BusyMeansAtWork`, `PageShowsOneAccount`, `TunnelsLeadWhereAsked`, and with fairness `OperationsEnd` | 2 servers, of which one is built in, 2 accounts, one retry of a port |
| `same_second` | that the code violates `MaterialIsTheServers` when two machines name an archive in one second | 3 full archives |
| `repository_change` | that the code violates `RepositoryChangeRunsWhatWaits` | the controller's instance of `schedule` |

Two connections are enough for the races of the server that the code can have:
each is between the steps of one handler and one other request. A second
account is needed only where an id could pass from one account to another. The
third directory is for a directory that is made a third time, after a
quarantine that could not be rolled back. One fault breaks a step and the
second its roll-back. The pool needs one connection more than workers for the
wait for a slot. The realtime bounds allow a change before, during and after a
run, with the gate taken twice. Three archives with one to keep are a baseline,
a delta on it and a snapshot that starts again, so that retention has something
to take and something it must not. Three restores with two process ids are one
that dies, one that dies reclaiming and one that has the first one's id again.
Trees have a hard link group across directories, and each kind may
become each other kind; three members are a link, its target and a directory in
every order, or a circle of links. A second server is what a tunnel or a stale
session may lead to by mistake. The client needs a chain of two for a parent that is
itself a delta. The channel's counter has to reach its end.

The type invariants of the modules with proofs are proved (section 4); the runs
spend their properties on the others.

`CHECK_DEADLOCK FALSE` is set where the system really may come to rest or the
bounds end it: a server that has stopped, a GUI that waits for its user, a
store whose ids and seconds are used up, a restore that is done.

`RowsAndFilesAgree` (a listed snapshot has its file, and a file its row or
somebody who will remove it) is about states that no fault and no crash
preceded (`Undisturbed`), and does not hold with them; what does hold then is `RowsKeepTheirBytes`: the bytes
of a listed snapshot are somewhere, in place or in trash, in every state. It is
strong enough for UPLOAD_END too: a row is there only if its file was published.

### Where the code departs from what it says

`same_second`: an archive is named after its second and generation, and a
machine takes an archive in its cache for the server's by that name. Two
machines that back up one lineage in one second give two archives one name, and
a restore on one of them applies the wrong one, although a comment promises a
failure (`PROJECT.json` quotes it).

`repository_change`: a check of the schedule that has to wait is made up for when
the user changes the repository, says a comment; but the signal of the change is
sent while the change still holds the gate, so the check cannot start and goes
on waiting, until some other operation ends. A check that is due is submitted
again by the timer; one the user asked for with "run now" is not.

Weaker guarantees than a reader may expect, which the models contain:

* An upload can recreate the directory of an account in deletion; its file then
  outlives the account. A crash after a file went to trash leaves its row
  listed. A second upload on a connection whose account was deleted in the
  first leaks the first descriptor. LIST can order a child before its parent.
* A client that always has another request (constant `Endless`) keeps Run from
  returning.
* Event batches that keep coming put a realtime run off past `max_wait`; a
  retried trigger is merged with itself, so its event count is too high.
* A suspended schedule keeps its pending check, although a comment says it is
  dropped (`schedule_controller.cpp:536`): a backup by hand that ends then
  submits it, without the runner lock. "Run now" while the realtime controller
  has the gate waits until some other operation ends. An evaluation longer than
  the timer's second is followed by another, whose "not due" replaces the
  message of the first.
* The result of removing a stale restore directory is not looked at
  (`incremental_restore.cpp:652`), and its marker goes all the same; an entry
  of a user that has the name of a dead process may be reclaimed with it.
* A v0.1 archive is written at its final name; an unfinished one has a count of
  zero and is refused. A v0.1 restore that fails leaves a partial destination.
  v0.1 opens a source without O_NOFOLLOW, and v0.1 and MyPack would block on a
  path that became a FIFO. A file listed as empty is not opened again by MyPack.
  Without digests, a file rewritten with its old time and size goes unnoticed.
  ustar accepts a "." that is no directory and then fails to restore it.
* An open connection of the remote page is used though the address was changed
  since, until it breaks (`remote_controller.cpp:1107`); a RESUME refused for
  another reason than the token leaves a connection that is not authenticated,
  so that the next request ends the session; a lost answer to a deletion of the
  account is shown as "not deleted". Stopping the tunnel during an operation is
  possible only as the page hides the button.
* A refused start of a second server removes the PID file of the first when both
  passed the check of /proc (`server/main.cpp:321`). A pid file left behind whose
  pid is in use by the tool, or by the new server itself, refuses the start. A
  `status` query holds the data lock for a moment, in which a start is refused.
* A crash while a download is published (`snapshot_bundle.cpp:840`) leaves an
  archive without its sidecars, which is fetched again when it is needed.

### Fairness

`WorkerPool!Fairness`: threads run (weak fairness of Run and of each worker);
Accept has strong fairness because poll and accept can fail and be tried again
for ever, which real networks do not do. Nothing is assumed of clients: they
need not send, and need not hang up, as recv has a timeout (`RecvEnds`). A
client that always has another request is the constant `Endless`.

`RemoteController!PageFairness`: the poll timer's deadline passes, an operation's
calls have timeouts and end, and what is queued for the page's thread is handled.

`RealtimeController!Fairness`: weak fairness of the clock, of each handler of
the event loop, of the pool thread and of whoever else owns the gate. Each is
weak: a socket that stays readable and a timer that stays expired are served.
No fairness is given to the user and to the source tree. A timer that is
restarted is not continuously enabled, which is why a storm of events can put
a run off.

## 4. What is proved

`tlapm` proves, for all values of the constants that satisfy the named assumptions:

* **RemoteMetadataStoreProofs**: `StoreTypeCorrect`, `ChainsSound`,
  `NamesStayUnique`, `DeletedIdsNeverReturn`. `ChainsResolve` is not inductive
  alone: a deletion that removes a parent must see its children, and children
  are looked for in the same account only, so the invariant adds the ownership
  and the typing of rows.
* **RemoteServerProofs**: `ServerTypeCorrect`; `ServerImplementsStore`, that
  each step of the server, including failing calls and crashes, is a step of
  `StoreSpec` or a stutter; and as its corollaries that the server keeps chains
  and never reuses an id. The invariant `HandlersInStep` says what each step of
  a handler finds in its context (an upload in "publish", an account in
  "insert"), without which the row that is inserted would have no type.
  Its second part is about the server's files: `SessionsActOnTheirAccount`,
  `ListedBytesSurvive` and, about undisturbed states,
  `RowsAndFilesStayTogether`. A session keeps its account because an id never
  names another account (`SessionsInv`, on the store's own invariant). What
  holds of the files whatever fails is `FilesInv`: an id of a snapshot is used
  by one upload, ever, and a directory is in one place; an upload's file lies
  in the directory it was opened in until it is published or removed; a
  directory with files is of the account they belong to; and so the bytes of a
  row are in place, in a trash, or in the hand of the one handler that has
  taken them there and has not deleted the row yet. `CalmInv` adds what no
  fault and no crash leaves true: each file is accounted for by its row or by a
  handler that is about to make or to remove it, and the store refuses to
  delete an account only when the account is gone already. A step moves at most
  one file or one directory, so the proof states per action what it moves, and
  lemmas carry everything else over.
* **RemotePartsProofs**, of four parts that know nothing of one another.
  The processes: `ProcessesTypeCorrect`, `OneWriterAtATime`,
  `ProcessesImplementStore`, `DeletionsTakeWhatWasSeen`. Who is past the lock
  holds it, a server that probes it too. The page the operator reads may be
  old, but stays true in what matters, as an id it shows never names another
  account or snapshot; so what a confirmed deletion resolves is what was seen.
  The pool: `PoolTypeCorrect`, `DrainedOnReturn`, `SlotsAreNeverLost`. An
  invariant follows an accepted connection through Run's hand, the queue and a
  worker, and says that no worker is done while the queue is not empty once Run
  no longer accepts; that no two of these hold one connection lets the slots be
  counted (with the library's facts on cardinality).
  The channel: `ChannelTypeCorrect`, `ReceivedIsAPrefix`, `BothEndsAgree`,
  `CountersNeverRepeat`. All rest on what a tag is: one that is on the wire was
  made on this connection, by the end it names, over what that end then knew,
  and a key has the connection's nonces in it; so what verifies was sent by the
  peer under the same transcript. A counter of a sender is above every one it
  used with its key.
  The client: `ClientTypes`, `MaterialIsUploaded`, `RowsAreLinked`. A name is
  made of a second and a generation, so archives differ in it (`NamesDiffer`).
  What a machine's index and a job say of a snapshot stays true because it is
  only this: if an archive was ever recorded under that id, it has that name
  (`Holds`); an id is never recorded twice. An upload that is under way has an
  archive nobody has recorded, made on the archive of its parent, and its
  parent, once deleted, makes the store refuse it (`PendingInv`). That the chain
  of a row is of rows, one generation apart, comes from the store's invariant by
  going up step by step (`UpStaysInRows`).
* **SnapshotRepositoryProofs**, lemmas about a repository under any service:
  `RepositoryStep` is what a service may do in one step, by the files it
  touches, and `RepositoryInv` is kept by each. That undamaged chains restore
  is not inductive, as a backup picks its baseline some steps before the delta
  is written and a deletion goes on through several steps. So the invariant
  says that a delta is made on a verified archive whose identity it carries
  (`Links`), that chains are no deeper than allowed (`Depths`), that nothing is
  made on a snapshot before it is published (`PublishingAlone`), that a chosen
  baseline stays good until the delta is there (`Basing`), and that what is
  doomed leaves no delta behind (`Dooming`); sidecars tell the truth by
  `Publishing` and `RecordsAgree`. All of it is about archives the user has
  left alone. A chain is a recursive function over steps upwards; that it is
  closed under parents within MaxDepth, shrinks when deltas go and is the same
  where its archives are, is proved by the least step that contradicts it. The
  refinement (`AtomicStep`) adds that names are used once (`Dated`): then each
  step touches one name nothing is made on, and `OthersHold` says the others
  restore what they did.
* **DesktopProofs**. Of the realtime controller: `NoChangeIsEverLost`,
  `RunsKeepToRepository`, `ControllerTypeCorrect`. The invariant relates the watch
  to its timers (attached means a debouncer, a dirty debouncer an armed timer;
  `WatchInv`) and the run to the gate and the pending trigger (`RunInv`).
  Of the realtime service: `RealtimeTypeCorrect`, `RealtimeChainsRestorable`,
  `MarkersAreTrue`, `RealtimeRetentionTakesItsOwn` and the refinement
  `RealtimeSnapshotsAreASet`. A marker is of a name that has been used, so no
  new archive comes to an old marker (`MarkersTrue`). Between the steps of a
  deletion what is doomed stays the job's own and out of the chains of its
  newest snapshots, and the snapshot whose marker is going was not one of these
  (`Sparing`); without an older one the newest are the same (`NewestWithout`).
  Of the remote page and its tunnel: `PageTypeCorrect`, `BusyIsOneThing`,
  `PageIsOneAccounts`, `TunnelIsTheRequests`.
  Between two events the controller is idle, has an operation on its thread,
  has a request that waits for the tunnel, or has the user waiting for it
  (`PageIdle`, `Working`, `Deferring`, `Waiting`), and each of these says what the
  tunnel, the token and the page are like. What makes it inductive is that a
  request names the account the page had when it was made (`Suits`), that the
  forms are there only without a session, which has no token then, and that a
  tunnel of this program leads where the request that waits for it wants to go
  (`Leads`). Handlers that call each other have a lemma each, about the record
  that one hands to the next, which is in none of the four ways yet.
* **ScheduleProofs**: `GuiTypeCorrect`, `WorkIsExclusive`, `LockIsForThePlan`,
  `ListIsCurrent` and the action property `RecordsAreNeverLost`, of the
  controllers of the desktop. The callbacks are functions of the members, so
  each has a lemma that says what it changes and what not; the invariant says
  that each kind of work has the gate exactly while its busy flag is up and a
  round is in flight exactly while the schedule is busy (`GoodWork`), that the
  round and both controllers mean the repository of config.json (`GoodPlace`),
  that a scan has read nothing that is gone since (`GoodScan`), and, which
  no record could be kept without, that whoever may save schedule.json next
  has in memory every record the file has of a snapshot that is there
  (`GoodRecords`): the controller unless it is busy, and then the round.
  Of the scheduled backup: `ScheduleTypeCorrect`, `SnapshotsStayRestorable`,
  `SidecarsAreTrue`, the action property `RetentionNeverTakesTheNewest`, the
  refinement `SnapshotsAreASet`, and `SkippedMeansSaved`. The last follows what
  a round has scanned through archive, record and manifest, with a crash after
  each (`SkipInv`): an archive that is not damaged holds no later version than
  the source (`Aged`), and the owner of the manifest and the recorded baseline,
  if they are still there, hold what the manifest lists or something newer
  (`Newer`), so that what compares equal is what they hold.
* **ArchiveProofs**: `BackupsAreReadBack` and `DestinationStaysWhole`, of an
  archive from a source that changes under the backup to what is restored from
  it. `SourceInv` says why size and time (with digests, the content) tell
  whether a file is still what was listed: an edit writes blocks that were
  nowhere before and is later than all that was there, so a block that is gone
  from its file does not come back (`Lost`). Hence what has been read of an open
  file begins its content or can be seen to have changed, and a digest is of a
  content the file had or of one that no later reading gives again
  (`ReaderInv`, `EntriesInv`): what passes the checks at the end of a file is
  one whole content. What is listed is sorted, has its parents before it and
  has each shared file in full once (`ListingInv`); so the reader of each format
  accepts what is written (`WrittenIsAccepted`) and it means the listed tree
  (`WrittenMeansListed`). For a restore, of any accepted stream whatever its
  order, `ReadingInv` says of each path what is on disk at each member: its
  entry, a directory whose metadata is still to come, or a link whose target is
  not made yet. That an accepted stream always has a link that can be made next
  is shown on the chain of links as a function (`SomeLinkIsReady`), and that the
  deepest directory is taken first keeps a finished one from being changed
  again. A damaged container is not opened, as each kind of damage breaks one of
  its checks (`Hurt`); v0.1 has no check that sees a changed content.
* **RestoreProofs**, of what is given back. A delta: `DeltasRestoreTheSource`,
  for every tree of paths, every two manifests of it and every order of the
  merge, and `DeltaTypes`. The invariant `DeltaInv` says of each path what it is
  in the staging tree: what it was in the baseline while the restore has not
  come to it and it is not below a directory that was replaced; nothing once it
  is gone from the source; and once merged its entry of the manifest, a file
  being the copy its link group was given the first time one of them was
  merged. What makes it inductive is that a payload has the ancestors of
  everything in it, so that what is replaced with all below it is merged again,
  and that link groups go as a whole, so that no name left alone shares an inode
  with a changed one. Ancestors are a recursive function of the path; what is
  said of them is shown by the least path that contradicts it (`NatInduct`).
  A chain: `RestoreTypes`, `RestoresPublishTheWhole`, `RestoresReclaim` and the
  action property `RestoresLeaveOthersAlone`. `RestoreInv` ties the step a
  restore is at to how much of the chain its staging tree holds
  (`StagingInv`), to the claims it has to account for (`ClaimsInv`) and to its
  marker (`MarkerInv`): while anything carries its proof the marker is there
  and its own, and a clean-up that could not remove something leaves both.
  What a restore has found of dead ones it removes under their markers, which
  go last (`ReclaimInv`).

Three hypotheses are part of what these say. `~ClockGoesBack`, of the refinement,
the markers and what is skipped: a name made of the time is not given out twice.
When it is, an old marker may stand beside a new archive, as TLC finds, and an
archive that comes back under its old name, of a source that is again what it
was, brings the deltas on it back with it. `~Reverts`, of what is skipped: the source does not take on an earlier
state again. When it does between the scan of a round and its full backup, the
manifest tells of the state that was scanned and the archive has the other one;
later rounds skip the scanned state, which no archive has. `~SameSecond`, of the
client: no two snapshots of a lineage are made in one second; the run
`same_second` shows what happens if they are. The runs `schedule`,
`realtime_backup` and `remote_client` are under the same assumptions. The chains, the sidecars and
the retentions need neither.

Every proof is one step per action, and the last step is temporal. Assumptions
on the constants say that sentinels are not values of the sets they stand beside
and that bounds are numbers.

Only model-checked: liveness (`EverybodyIsServed`, `ChangesAreObserved`,
`OperationsEnd`), which with fairness is out of the proof system's reach.

## 5. What is not modelled, and the plan

Every safety property that a passing run checks is also proved, for all values
of the constants. What could come next is breadth: the history of the scheduled
and the realtime backup, LIST and the login throttle of the server, the
evaluation of filters.

Not modelled: the login throttle and passwords; what the administration tool
only prints or verifies; byte formats of archives, manifests and messages; cryptographic
arithmetic; command-line parsing; presentation; packaging.
