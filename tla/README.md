# TLA+ models of libbiomeval

libbiomeval, NIST's Biometric Evaluation framework, is a C++ library for running
biometric software over large sets of records: record stores to keep the
records, process managers to fork workers, and an MPI framework that hands the
records of a store to workers on many nodes, with checkpoints. This directory
holds TLA+ modules translated from `src/src/libbiomeval` (paths below are
relative to it unless they say otherwise), TLC configurations that check them on
small instances, and TLAPS proofs of the properties that matter most.

## 1. The system

### Components that coordinate

| Component | State | Operations | Talks to | What makes it correct |
|---|---|---|---|---|
| MPI distributor (`be_mpi_distributor.cpp`) | active tasks, posted receives, exit conditions, checkpoint file | `start`, `distributeWork`, `shutdown` | every receiver (Control, Data, OOB messages, two barriers); its derived class for packages | one reply per request; nobody is sent work after leaving; every final message is received; it ends |
| MPI record store distributor (`be_mpi_recordstoredistributor.cpp`) | count remaining, last distributed key, store cursor | `createWorkPackage`, `checkpointSave`, `checkpointRestore` | called by the distributor; sequences a record store | no record twice, none skipped, also across a resume |
| MPI receiver (`be_mpi_receiver.cpp`) | worker controllers, status, package in hand, exit conditions | `start`, `requestWorkPackages`, `sendWorkPackage`, `shutdown`; `PackageWorker::workerMain` | rank 0 by MPI; workers by pipes, signals and `SIGCHLD` | a package reaches one worker whole, or the loss is reported; receiver and workers end |
| MPI runtime (`be_mpi_runtime.cpp`) | the three exit conditions | signal handlers, `start` | distributor and receiver read the conditions | a job ends whatever signal comes |
| Fork manager (`be_process_forkmanager.cpp`, `be_process_manager.cpp`, `be_process_workercontroller.cpp`, `be_process_worker.cpp`) | `_wcStatus`, `_pid`, `_pendingExit`, exit statuses, pipes | `startWorkers`, `startWorker`, `stopWorker`, `waitForWorkerExit`, `reset`, `broadcastSignal`, the `SIGCHLD` handler | children, by fork, signals and pipes | what it reports of a worker is true of the process |
| POSIX thread manager (`be_process_posixthreadmanager.cpp`) | `_working`, `_hasWorked`, `_rv`, thread handles | the same interface over threads | threads, by plain `bool` members | when a wait returns every thread is over |
| Message center (`be_process_messagecenter.cpp` and the `mc*` files) | client IDs, pipes and sockets of a listener worker and its receivers | accept, forward, answer, disconnect, `SIGCHLD` | TCP clients, the application | no message is lost, doubled or overtaken; a reply reaches the client that asked; nobody blocks everybody |
| Semaphore, watchdog, signal manager | a named semaphore; a timer and a jump buffer | `wait`, `trywait`, `timedwait`, `post`; `start`, `stop`, the handlers | other processes; the signal handler | no lost post; a jump only into a live frame |
| Process statistics, auto logger | a logging thread and a log sheet | start and stop logging | a thread | no call after stop |

### Components that keep data

| Component | State | What makes it correct |
|---|---|---|
| Record store base (`be_io_recordstore*.cpp`) | control file, count, cursor, mode | keys, order, sequencing, count and durability as `be_io_recordstore.h` says |
| File and archive stores | one file per record; one archive file and a manifest | as above, also after a kill and a reopening |
| DB, SQLite, compressed stores | segments in Berkeley DB; a table; a store and its meta store | as above; a record is never half there |
| List store, unions | a list of keys over another store; named stores | a view agrees with what it is a view of |
| Properties, properties files | string map and file | read back what was written |
| Log sheets and cabinets, I/O utility, compression | files, pipes, zlib streams | entries in order; whole reads and writes |
| Memory containers | arrays, the ordered map, buffers | indices in bounds; order of first insertion |

### Components without protocol

Smart cards and TLV, images, biometric data interchange records and views,
video, system, text and time helpers, NBIS: decoders and wrappers of other
libraries. They are listed in `PROJECT.json` as not modelled: what could be wrong
in them is in the bytes, which a model checker does not reach better than a test.

### Where it is hard

* Rank 0 posts receives ahead, tests them in batches and leaves its loop in five
  ways, while receivers leave on their own account. The comments about "keeping
  send/receive pairs in sync" (258-262, 276-280) are about exactly this.
* Signals set flags that each process reads twice or more in one round.
* A checkpoint is written at the end of an interrupted job and read by the next
  one; the file exists long before anything is saved in it.
* `SIGCHLD` may be handled between any two steps of a parent.
* The parts of a package go to a worker as three messages without tags.
* A worker inherits the pipe ends of the workers forked before it.
* A store's data, manifest and count reach the disk apart from each other; the
  archive's one stream position serves reading and writing.
* A record in Berkeley DB is several puts without a transaction, and its cursor
  outlives the record it is on.
* A thread's flags are written without a lock, and a manager believes them.
* The listener has one thread for its clients, its receivers and the application,
  and writes to pipes that may be full.

`PROJECT.json` lists each hazard at its line with the properties that watch it.

## 2. Modules

| Module | What it is |
|---|---|
| `RecordStoreDistributor` | the record source of a job and the checkpoint file |
| `MPIJob` | distributor, receivers, messages, exit conditions; EXTENDS the former |
| `RecordJob` | the abstract specification of a job: what becomes of the records, whoever carries them |
| `MPIJobProperties` | what a job promises, and its refinement of `RecordJob` |
| `MPIConversation` | the joint states of rank 0 and one receiver: an inductive invariant |
| `MPIJob_proofs`, `MPIConversation_proofs` | theorems about types, records, the conversation, and packages nobody would miss |
| `PackageWorkers`, `PackageWorkersProperties`, `PackageWorkers_proofs` | one receiver, its worker processes and the pipes between them |
| `ForkManager`, `ForkManagerProperties`, `ForkManager_proofs` | managers, controllers, processes, the `SIGCHLD` handler |
| `POSIXThreadManager`, `POSIXThreadManagerProperties`, `POSIXThreadManager_proofs` | the same calls over threads, with the data races of their flags |
| `MessageCenter`, `MessageCenterProperties`, `MessageCenter_proofs` | the listener, a receiver for each client, sockets and pipes |
| `RecordStore` | the abstract specification of every record store |
| `ArchiveRecordStore`, `ArchiveRecordStoreProperties`, `ArchiveRecordStore_proofs` | the archive store, and its refinement of `RecordStore` |
| `SortedRecordStore` | the abstract specification of a store sorted by key, whose operations may fail part of the way |
| `DBRecordStore`, `DBRecordStoreProperties`, `DBRecordStore_proofs` | the Berkeley DB store, record by record and segment by segment |
| `MC...` | symmetry sets and constant values for TLC |

A definition whose comment says "a mistake" is a plausible slip in the
definition below it. No specification uses it: it is there to be put in the
place of the right one, and a property is trusted once TLC then finds it
violated.

### MPIJob and RecordStoreDistributor

`dpc` and `rpc` say where rank 0 and each receiver are; an action is the code
between two communications. `active`, `posted`, `batch` and `awaited` are
`_activeMpiTasks`, the outstanding `Irecv`s, what `Testsome` completed, and the
start replies still to be received. `toD[r]`, `toR[r]` are the Control channels;
MPI keeps them in order per pair of ranks. A `Continue` with its two Data
messages is one message, since nothing may come between them on either side.
`oob[r]` is the undelivered out-of-band command, `dflags` and `rflags` the exit
conditions, which only signals (`SignalD`, `SignalR`) and the out-of-band
command set.

`DTestsome`, then one `DTaskGone`, `DTaskTerminates`, `DIgnore` or `DSendPackage`
per completed receive, is one turn of the loop in `distributeWork()` (219-310); a
signal may come between any two of them. `DLeaveLoop` saves the checkpoint under
the condition at 306. `DSendOOB`, `DDrain`, `DDismiss`, the barriers and `DFinal`
follow to the end of `shutdown()`; `DEnd` removes the checkpoint file, or keeps
it. Receivers have one action per branch of their request loop and of one turn
of `sendWorkPackage()`. Faults, chosen by the constant `Faults`: the log sheet or
the processor does not start, a worker leaves, a processor throws `TerminateJob`,
the whole job is killed (`Crash`). `Resume` starts the next job on what is left.

A record is its position in the store, a package the set of its readable
records; the ghosts `handed`, `withheld`, `dropped`, `saved` and `earlier` say
what became of them. The input store is assumed to sequence as `RecordStore`
promises.

`RecordJob` is the same job without ranks, messages, signals or packages: records
are taken off the store in its order, each by one carrier or by nobody; a carrier
hands its records to a worker or drops them; a checkpoint covers all that was
taken and nothing that was not; `Finish` removes it only if the job did not save
it; and the next job starts from what the checkpoint says. `AccountKept` maps
`stage` to the places of rank 0, `ahead` to the records from the cursor on,
`carried` to the packages on their way to a receiver or in its hands, and
`covered` to the keys up to the one in the checkpoint file. So nothing that is
said between the ranks, and no signal or kill, loses or doubles a record other
than by one of those steps.

### PackageWorkers

One receiver and the processes it forked, at the level of the pipes: `toM[w]`
and `toW[w]`, the parts of a package as separate messages ("Continue", "Count",
"Data"), the `select()` set of `waitForMessage()` with its stale content after an
interruption (`armed`), `stop[w]` for the `SIGUSR1` of `stopWorker()`,
`working` and `pendingExit` of the manager, exit conditions, and the end of file
a reader gets once every holder of the write end is gone (`Widowed`: the
receiver and all workers forked later). `forked` says which workers came to be;
`broadcastSignal()` with the PID 0 of one that did not reaches the whole process
group (`GroupSignalled`). Rank 0 is any sequence of commands. This module has
what `MPIJob` only counts, so each of the two stands for the other's
surroundings.

### ForkManager

The parent's thread makes one public call at a time; `at`, `mgr`, `todo`, `cur`
say how far it is, with the places between `fork()`, `_pid` and the entry of
`_wcStatus` as separate steps, because `Reap` (the handler) may run in each.
A worker's n-th process is its run n. Children get ready, exit or are killed at
any time. `_wait()` has two places, as the code has two loops: in "wait" the
active workers are counted (`WaitOver`, or `WaitCalled`), in "reaping" the call
is inside `wait(2)`, which an interruption re-enters without a new count. There
it takes whichever child ends, and one of another manager ends it with a
`StrategyError` (`WaitReaps`); only `ECHILD` leads back to the count
(`NoChildren`). The handler of an earlier start may reap the last worker of the
manager in between. Workers in `LongLived`, such as a listener, return only when
they are asked to stop.

### POSIXThreadManager

`main` is the call the main thread is in and the worker its loop has come to;
`thread[t]` is a thread of a worker with the stores it has still to make. The
members `_working`, `_hasWorked`, `_rvSet` and `_rv` are written by the thread and
read by the manager without synchronisation: the stores before and after
`workerMain()` and those of `reset()` are made in any order, that of `_working`
and those of what is read after a join (`_hasWorked`, and `_rvSet` with `_rv`, one
status here). `Stores` are these two; `Store` makes one of a thread's and
`ResetStore` one of a reset's. `startWorkers()` is a reset of every controller
(`ResetStore`, `ResetNext`) and then a `start()` of each (`StartNext`, with its own
reset); `startWorker()` is one such `start()`; both end in `Create` or, with the
handle as it was or lost, in `CreateFails`. A join of a thread never created, or
joined before, is undefined and ends the model.

Clients start and restart workers whenever the manager lets them. It refuses a
worker only by `_working`, which the new thread sets and clears itself, so a start
is accepted before the thread has come to run and again once it has cleared the
flag. `raced` is history: the workers one of whose resets stored something while a
thread of theirs had not ended, until a start finds them all ended.
`WaitMeansFinished` is about the others. `stopWorker()` is left out: it sets a flag
that only the worker reads, and a worker may return at any time.

### MessageCenter

Each client writes numbered messages to its socket (`toServer`); its receiver
takes what has arrived, however many messages that is, and writes it to the
listener (`up`), which writes it to the application (`upApp`). Answers and
disconnections come back by `downApp`, the listener's hand, `down` and the
receiver. Every pipe holds `PipeCapacity` messages, and a `write()` to a full one
blocks whoever makes it: that is what `held`, `upHand`, `downHand` and `app` are,
messages in the hand of a process that is not yet rid of them. The listener
turns between accepting, forwarding one message and returning one response
(`be_process_mclistener.cpp`, 55-120); it asks a receiver to stop and goes on;
`working`, `unnoticed` and `pendingExit` are its manager's beliefs, as in
`ForkManager`.

### RecordStore and ArchiveRecordStore

`RecordStore` is the promise of `be_io_recordstore.h`: keys keep the place of
their first insertion, a removed one is skipped, sequencing goes on where it
was, what was synced survives a kill, and a kill leaves the store as it was at
some moment since. It keeps `survivors`, the contents a kill may leave. Two
things are weaker than the header says, because the archive store does not do
more: a kill during `sync()` or the destructor may leave no store that can be
opened, and with `ForgetsAim` a cursor set before the first `sequence()` may be
lost.

`ArchiveRecordStore` has the manifest with the lines still in the buffer, the
archive and its file, the shared stream position (`streamPos`), whether the
stream appends (`appending`: a store opened again, against one just created),
the table `_entries` in insertion order, `_cursor` and `_cursorPos`, `_dirty`, and
the count in memory and in the control file. That file is rewritten by opening it
truncating and then writing (`be_io_propertiesfile.cpp`:64-72, 93-97), so `sync()`
and the destructor are several steps: `SyncBegins` and the closing leave it empty
(`mode` "syncing", "closing"), the next step writes it, and "flushing" is what
`sync()` does after that. A kill may fall between any two. `Kill` keeps what
reached the disk;
`Open` reads the manifest again: the first line of a key gives its place in the
order, the last one its offset, which is what `read_manifest()` comes to line by
line. `vacuum()` lists the keys that are not removed in ascending places. One
cell of the archive is one record.

The refinement (`PromiseKept`) maps `current` to the table, or to the manifest
when closed; `survivors` to the stores that the prefixes of the manifest from
`onDisk` on stand for, with no store at all while the control file is empty; and
`next` to the place after `_cursorPos`, or the first while `_cursor` is START.

Two habits of clients are named constants. `ReadsThenInserts = FALSE`: a client
inserts only while the stream is at the end of the archive; without that rule the
store breaks its promise (`archive_overwrite`), so the passing run states what it
does for clients that keep it. `AimsAtStart = TRUE`: a client may call
`setCursorAtKey()` on a store that it has not begun to sequence. The store may lose
that (section 4), `ForgetsAim` says so in the promise, and the passing run lets
clients do it.

### DBRecordStore

`segment[k][i]` is the i-th segment of the record under `k`: the first in the
primary database, the others in the subordinate one. `insert()` puts and
`remove()` deletes them one after the other, and a failure after any of them
leaves the rest as it was; the count is changed where the code changes it.
`at`, `atEnd` and `cursorIsInit` are the Berkeley DB cursor and the two flags
about it: the cursor stands on the record to return next, or on the last one
with `_atEnd` set. `due` and `done` are history: the records a sequence has still
to return and those it has returned. `spoiled` are the keys an operation failed on
part of the way.

`setup_cursor()` puts the cursor on the first record when an insertion finds
`_cursorIsInit` not set, and a removal of the last record clears it, as does an
empty store or a failed first insertion: a sequence that has returned records is
then set back and returns them again. `SetBack` says in `done` where that happens.
It is part of the code and of the run: `SequencesOnce` holds of every sequence
but for those insertions.

`SortedRecordStore` is what is left of `RecordStore` and what is added to it: keys
are sorted rather than in the order of insertion, kills are not modelled, but
operations may fail. A failure, or a name that one has left behind, makes at most
its own key come or go (`torn`); a sequence returns the records it began with in
ascending order as long as they stay, may come to records inserted meanwhile, and
goes back only where an insertion sets it back: the first one after a removal
that left a sequence nothing to return, or into a store that was empty (`loose`,
which the refinement maps to `~cursorIsInit`). The refinement (`PromiseKept`)
maps `live` to the first segments
in the primary database, `left` to the records from the cursor on, or to all of
them while `_cursor` is START, and `given` to `done`; a sequence across `move()` is
promised nothing.

## 3. Runs

| Run | Instance | Shows |
|---|---|---|
| `mpi_job` | 2 receivers of 2 workers, 3 records in chunks of 2, one unreadable; 2 signals; failing starts, leaving workers | pairing, packages and records of one job |
| `mpi_checkpoint` | 2 receivers, 3 records, 3 jobs, SIGQUIT, kills, `TerminateJob`, missing logs | nothing is handed out twice across resumed jobs; checkpoint and cursor agree; every step is one of `RecordJob` |
| `mpi_ends` | 2 receivers, 2 records, 1 signal, every fault but the kill and the log | every job ends |
| `fork_manager` | 2 managers, 3 workers of which one is long-lived, 3 forks, failing forks, both wait modes | reports are true; waits return unless another manager's child holds them |
| `package_workers` | 2 workers (one may not fork), 2 packages, all commands, signals and outcomes | parts match, stops cost nothing, everything ends |
| `archive_store` | 2 keys, 4 manifest lines, 3 records in the archive, 1 kill, in a save or outside; cursors set at any time | the promise of `RecordStore`, intact data, count |
| `db_store` | 4 keys, records of 1 and 2 segments, 1 failing put or delete | whole records and a true count; a sequence returns each record that stays, and none twice but where an insertion sets it back; the promise of `SortedRecordStore` |
| `thread_manager` | 2 workers, 3 threads, restarts at any time, failing `pthread_create()`, stores in any order | when a wait returns, a worker no reset raced with has no thread left and the exit status of its last one |
| `message_center` | 2 clients of 2 messages, pipes of 1 message, disconnections by either side | nothing lost, doubled or overtaken, answers to the right client, no mutual blocking, messages arrive, disconnections end |

Three more runs each find one statement of the documentation violated (section 4).

### Why the bounds are enough

Two receivers are the least for which one may be given work, leave or ask while
the other is drained or dismissed; what rank 0 does to one receiver depends on
the others only through counts of tasks, and the proofs hold for any number.
Three records in chunks of two give a full, a short and an empty chunk. Two
signals give a later, stronger exit condition on top of an earlier one, or the
same at two ranks. Three jobs allow a save, a resume that is killed, and a resume
of that. For the managers, three workers let `startWorkers()` be interrupted
between two forks while another manager owns a third; three forks allow a
restart, and both values of `wait` are tried; the third worker is long-lived, so
that a wait of the first manager can be held by a child that does not end. Two
workers show a pipe end inherited by the later one. In the archive,
four lines allow insert, remove, insert again of one key beside another; the
lines already on disk and those in the buffer can differ in any way; one kill is
enough to compare the disk with what was promised, as the sessions after it go
on with every operation on what it left; a second one would find files that were
written out and lost in the same way. `UIntValues` is 256 in place of 2^32;
only the wrap below zero is ever reached.

In the Berkeley DB store four keys give a cursor a record before it, one on it
and two behind it, and records of one and of two segments make every put and
delete the last one or not; a second failure would meet a store in the state the
first one left, with the keys it spoiled set aside. Two workers let a wait hang
on one thread while the other starts or ends, and three threads let one of them
start again, before its first thread runs or while it ends, beside the other.
Pipes of one message are full at once, so that every write blocks in some
state; two clients are the least of whom one may be disconnected while the other
is served, and two messages the least that can arrive as one or overtake.

`CHECK_DEADLOCK FALSE` is set where the program may stop for good:
`mpi_checkpoint` and the two violations about checkpoints (a job whose restore
fails leaves its receivers in a barrier) and the thread manager (the program stops
where it joins a thread that does not exist).

### Fairness

* `MPIJob`: weak fairness of rank 0's steps and of each receiver's. The ranks are
  processes the system schedules, MPI delivers, and a worker with work to do asks
  for more sooner or later. No signal, fault, kill or resumption ever has to
  happen.
* `ForkManager`: weak fairness of the parent's thread inside a call, of the
  handler once a signal is pending, and of each child: `workerMain()` returns
  sooner or later, that of a long-lived worker only once it is asked to stop. The
  parent need not make any call.
* `PackageWorkers`: weak fairness of the receiver, of each worker and of the
  handler. Signals need not come, and rank 0 is not obliged to any command.
* `MessageCenter`: weak fairness of the receivers, the listener, its `SIGCHLD`
  handler and the application, which goes on to ask for messages. Clients need
  neither connect nor write nor leave.
* The stores and the thread manager have safety properties only: their clients
  may stop at any time.

## 4. Where code and documentation differ

Each with a run whose counterexample shows it:

1. `mpi_restart_hangs`. The constructor creates the checkpoint file and writes
   its PID into it; a job killed before it saved leaves that file, the next job
   takes its existence for a checkpoint (`be_mpi_distributor.cpp`:71), its restore
   throws, rank 0 returns, and the receivers wait in the first barrier forever.
2. `mpi_checkpoint_withheld`. A signal between the tests at 219 and 270 of
   `be_mpi_distributor.cpp` finds a package made but not sent; the save that
   follows counts it as distributed, and a resumed job skips it.
3. `archive_overwrite`. `insert()` takes its offset from the stream position that
   the last `read()` or `sequence()` left: in a created store the new data are
   written over another record, in one opened again the offset is wrong.

### Findings without a run

What the models show when a named constant or bound is changed, or what their
actions have although no property speaks of it:

* MPI job
  * A chunk in which no record can be read makes an empty package, which
    `distributeWork()` takes for the end of the store; rank 0 then removes the
    checkpoint file although records are left (`be_mpi_distributor.cpp`:441-443).
  * A `RequestJobTermination` that arrives in the drain (360) is answered with
    Ignore although its receiver does not wait for an answer. The receiver takes
    it for the answer to its next request and sends one request more;
    `shutdown()` counts that as a final message and one real final message stays
    unread. With "Terminate" among the `Faults` of `mpi_job.cfg`,
    `FinalMessagesReceived` shows it. The drain sets no exit
    condition either, so `CleanExitKeepsPackages` fails then, too. The job still
    ends (`mpi_ends`).
  * With unreadable records the count a checkpoint restores and the cursor differ
    (157 of `be_mpi_recordstoredistributor.cpp`): skipped records are counted but
    do not move the last key. `CursorAligned` is proved for readable stores.
  * SIGQUIT after the decision to save at 306 keeps the checkpoint file at the
    end (443) although nothing was saved in it.
* Package workers: the termination request of a worker that is reaped before the
  receiver reads its pipe is never read, since `waitForMessage()` skips the pipes
  of workers that are not working (`be_process_manager.cpp`:116;
  `doc/parallel.tex`:368-371 says that such a request ends the job).
* Fork manager
  * `_wait()` counts the active workers only before `wait(2)`
    (`be_process_forkmanager.cpp`:313, 316, 329-337). When `startWorkers()` waits and
    an earlier start has left the handler in place, the handler may reap the last
    worker in between: the call then stays for a child of another manager although
    its own are over, for good if that one is long-lived, or takes its status and
    throws `StrategyError`. `WaitReturns` leaves this out by name (`HeldByOthers`);
    without that disjunct TLC shows it.
  * A worker whose end was taken by another manager's wait, or came before the
    handler was there, counts as working for good (`Lost`); a wait for it spins.
  * `startWorker()` installs the `SIGCHLD` handler after the fork
    (`be_process_forkmanager.cpp`:185, against the comment at 177); an end that
    comes first is lost and the worker counts as working.
  * `stopWorker()` enters a worker in `_pendingExit` before it knows that it
    works (258), and a worker started with communication again inherits
    `_communicationEnabled` (`be_process_worker.cpp`:215).
* Thread manager: two calls of `startWorker()` before the first thread runs are
  both accepted, although `be_process_posixthreadmanager.h` promises
  `ObjectExists` for a worker that is already working; the second thread's handle
  overwrites the first, and the wait joins the second and returns while the first
  runs. A worker is also accepted after its thread has cleared `_working` and before
  it has ended; the thread left out of the wait then has only its last stores and
  its return before it. A reset that races with a thread's stores may also leave `_working` or
  the exit status of the one under the name of the other. `WaitMeansFinished`
  shows all of these once `raced` is taken out of it. A restarted worker finds
  `_stopRequested` still set (`be_process_worker.cpp`:80), and `_wait()` joins
  threads that were never created or were joined before, which has no defined
  meaning.
* Message center
  * A client that the application disconnects while its pipe to the listener is
    full keeps its receiver for good, and an answer to it then blocks the listener
    for good (`be_process_mclistener.cpp`:107), and with it every other client.
    `DisconnectEnds` leaves this case out by name.
  * What `recv()` returns goes on as one message, whether the client wrote one or
    several (`doc/messaging.tex` ends messages at a newline), and the
    client ID is left in front of the answers (112-113).
  * A blocked `write()` that `SIGCHLD` interrupts loses its message; an answer
    written just before the receiver is stopped may not be sent.
* Archive store
  * `setCursorAtKey()` for any key but the first does not change `_cursor`; while
    that is START, as in every store just opened, the next `sequence()` returns
    the first record (`be_io_archiverecstore_impl.cpp`:530 against
    `be_io_recordstore.h`:396). `PromiseKept` with `ForgetsAim <- FALSE` shows it, and
    so does `AimedKeyIsNext`.
    `checkpointRestore()` uses a store it has just opened in this way, so a job
    resumed on an archive store starts with its first record again; `MPIJob`
    assumes a store that keeps its promise.
  * `flush(key)` writes both streams, but the count only reaches the control file
    by `sync()` or the destructor: after a kill the count is behind, and a store
    never synced cannot be opened. `CountIsRecords` is therefore stated for
    stores that were not killed.
  * A kill while `sync()` or the destructor rewrites the control file
    (`be_io_propertiesfile.cpp`:64-72, 93-97) leaves it empty, and a store that was
    synced before can then not be opened (`be_io_recordstore_impl.cpp`:55-76;
    `be_io_recordstore.h`:171-179 says that `sync()` is what makes it last).
  * A manifest line torn by a kill is joined with the next line a later session
    appends; `vacuum()` removes the old store before it renames the new one
    (569-570). The model's lines are whole and its `vacuum()` is one step.
* Berkeley DB store: the record the cursor stands on is removed and was the last
  one; that clears `_cursorIsInit` (`be_io_dbrecstore_impl.cpp`:433-437), the next
  insertion puts the cursor on the first record (379-387), and a record comes
  twice. With `done' = done` in place of `SetBack`, `SequencesOnce` fails after five
  steps. A first insertion that fails part of the way loses the cursor as well.
  Segments that a failed insertion or removal left in the subordinate database are
  read as the end of a shorter record inserted later under the same key, which
  `spoiled` sets aside. The comment at
  785-792 speaks of a removal that reverts a partial insertion, which no code
  makes; a partly inserted record that is removed was never counted, and the
  count may wrap to 2^32 - 1.

From reading only, in parts that have no module:

* SQLite store: `sequence()` returns only the first segment of a record longer
  than `MAX_REC_SIZE` (`be_io_sqliterecstore_impl.cpp`:541-550), and each segment
  is a transaction of its own.
* File store: the cursor is an index into a directory listing, so that a removal
  shifts what it stands for, and `setCursorAtKey()` does not set `_cursor` to NEXT.
* CSV distributor: `readLine()` tests the pointer to its stream instead of the
  stream (`be_mpi_csvresources.cpp`), so that the end of the file is not noticed;
  a seed that was not configured is drawn anew, so that the resumption of a
  randomized job is refused.
* Watchdog: `stop()` restores the default action of the signal before it cancels
  the timer (`be_time_watchdog.cpp`), so an alarm in between ends the process;
  nested watchdogs share one timer and one jump buffer.
* Auto logger: moving an object that logs leaves its thread with the old object.

## 5. Proofs

`TLAPS` proves, for every value of the constants within the named assumptions
(`RecordStoreAssumption`, `JobAssumption`, `ForkAssumption`, `ThreadAssumption`,
`CenterAssumption`, `DBAssumption`, `ArchiveAssumption`):

* `MPIJob_proofs`
  * `TypeCorrect`: `TypeInv` is `TypeOK` with the types of the messages inside
    the channels spelled out, one step per action.
  * `AccountCorrect`: where each record is. `RecordsProcessedOnce` is not
    inductive: whether a package under way was handed out before depends on what
    is left in the store and on the checkpoint file. `AccountInv` says that
    parcels (packages on their way or in hand) hold records that were never handed
    out (`ParcelsFresh`) and no two share one (`ParcelsDisjoint`), that all that
    was handed out or carried is behind the cursor (`HandedBehind`), that what
    earlier saved jobs handed out is behind the checkpoint and the cursor
    (`EarlierBehind`), and that a saved checkpoint covers all of it
    (`SavedCovers`). `ProcessedOnce` and `CheckpointCovers` follow.
  * `CursorAligned`: `RemainingMatchesCursor`, for `Unreadable = {}`. The proof
    also follows the count and the last key into the checkpoint file and back.
  * `AccountKeeps`: the jobs implement `RecordJob`, for any faults. Besides the
    account it needs that a package is only held by a receiver that delivers it,
    that no command but Continue carries one, and that a receiver is sent none
    before it has answered the start message (`HoldInv`): then what a receiver
    carries changes only where the step says so, and every action is either
    without effect on records or one step of `RecordJob`. `LastKeyCovers`, no
    record that was taken is behind the last key, makes a saved checkpoint cover
    what is not ahead; `SavedOnExit` says that it was saved for the condition
    under which `shutdown()` keeps it.
* `MPIConversation_proofs`
  * `ConversationKept`: `Conversation` is inductive, for `"Terminate" \notin
    Faults`: each receiver is in one of the joint states (`Talk`), the task sets
    of rank 0 are what its place says (`TasksKept`), packages are only where they
    are delivered (`PackageHeld`), and the final messages counted are those
    received (`FinalsCounted`). It is needed because pairing depends on both ends:
    a command under way is right only for what both sides have in mind.
  * `PairedReplies`, `ShutdownHears`, `NoPackageLost`, `FinalsReceived` follow.
  * `CleanExitCorrect`: a package is dropped only by a receiver in a hurry or one
    that says at its end that it failed (`DroppedInHurry`), and who reports that
    has left the request loop for good (`FailedLeft`).
  * `CompletedCorrect`, if every chunk, wherever it starts, has a readable record (`NoEmptyChunk`):
    every record before the cursor is handed out, withheld or in a parcel
    (`AccountedInv`); `haveWork` ends only with the store or with a reason to stop
    (`SourceEmptied`); and a receiver leaves only when it is told to, fails, or has
    a reason of its own (`LeaversInv`). Together: where there was no such reason
    and no parcel is left, everything was handed out.
* `ForkManager_proofs`
  * `TypeCorrect`, and `BookkeepingCorrect` for the invariant `IInv`: runs are
    numbered without gaps, every run but the last is collected, the entry in
    `_wcStatus` is about the controller's last process except in the window after
    the fork, and an exit status is of that process.
  * `NotWorkingIsGoneCorrect`, `OneProcessCorrect`, `ExitStatusCorrect` follow.
* `PackageWorkers_proofs`: `PipesCorrect`, one worker at a time. What is on its way
  to a worker that lives is what it reads next (`Fits`), a request it has made is
  still true (`RequestTrue`), and one that is told to stop is on `_pendingExit`
  with nothing under way. `PartsMatchCorrect`, `OneRequestCorrect` and
  `StopCorrect` follow, without further assumptions.
* `POSIXThreadManager_proofs`: `HandlesCorrect`, for any use of the manager: a
  handle is that of a thread of its worker, ended if it was joined, and a wait has
  joined the handles it has passed. Of a worker that is not in `raced` the handle is
  the only thread that may run (`OnlyThread`), and that thread, or a reset under way,
  has the stores before it that the flags lack (`LeaveTrue`, `EndTrue`). A worker
  leaves `raced` as a start of it begins whose reset will make the flags right
  before `pthread_create()` is called. `WaitCorrect` follows.
* `MessageCenter_proofs`: `IDsCorrect`, as many IDs as receivers were asked for and
  every message or response next to the right one, from which `TypeCorrect`
  follows; `TrafficBounded`, between listener and application there are never more
  than `PipeCapacity + 2` messages, or one more while the listener is not about to
  look for a response; hence `NeverBothBlockedCorrect` for pipes of any capacity.
  * `FlowCorrect`: the order of the messages is a fact about five buffers, each
    step moving messages from one to the next. `FlowInv` joins
    them to three: what is between listener and application (`Aloft`, of all
    clients), what is between a receiver and the listener (`Held`), and the socket
    (`SocketInv`). In each, and from one to the next, the messages of a client
    follow each other; none is at or below what the application has seen, and
    none but those in the socket above what the receiver has read (`Taken`).
    `CoverInv` says that while nobody has left (`Quiet`), each number between the
    two is in a buffer: a broken write drops a message only after some receiver
    has ended. `NeverBackwardsCorrect` and `NothingLostCorrect` follow.
  * `BackCorrect`: the same for the responses, which stand in the listener's pipe
    and the application's hand (`Answers`) or next to the receiver (`Near`), for a
    message that was seen and not yet answered. It needs `Flow`, since the
    application answers what it took last. With `IDsCorrect`,
    `AnswersToTheirClientCorrect` follows.
* `DBRecordStore_proofs`: `TypeCorrect`; `RecordsCorrect`, if there are fewer keys
  than an unsigned int counts: the segments under a key that no operation spoiled
  are those of the record last written or none at all; `SequencesCorrect`: what
  a sequence has still to return is at or behind the cursor, what it has returned
  is before it, and an insertion that puts the cursor back begins `done` anew
  (`InsertMoves`).
  * `PromiseCorrect`, for any failures: the store implements
    `SortedRecordStore`. What `sequence()` returns is the least of what is left
    (`ReturnedIsFirst`), wherever the cursor stands, on a record, on a deleted one
    or at the end; an insertion adds to what is left only behind what was returned
    (`JoinsKept`), and a removal takes nothing else away (`RemoveAhead`). That
    `insert()` only throws ObjectExists for a key that is there, or that an
    operation failed on, is `TakenUnderKey`, from the same invariant of the segments
    as `RecordsCorrect`.

* `ArchiveRecordStore_proofs`. The table of an open store is what
  `read_manifest()` makes of the manifest with the lines in the buffer
  (`ReadInv`), because a line more does to the one what `efficient_insert()` does
  to the other (`ReadAppend`); `TypeCorrect` follows from it.
  * `AimCorrect`, for `~AimsAtStart`: a key has one place in the order.
  * `CountCorrect`, if there are fewer keys than counts: `keyExists()` is right about
    every key, whatever `_dirty` is, so the count follows the table, and the control
    file of a store that was never killed has the count of its manifest (`CountInv`).
  * `RecordsCorrect`, for `~ReadsThenInserts`: the archive file begins the archive
    (`PrefixInv`), and what was right at a sync has its last line among those on
    the disk and its data in the file (`SettledInv`), which neither a kill nor
    `vacuum()` takes away.
  * `PromiseCorrect`, for any client: the store implements `RecordStore`, with
    `ForgetsAim` for those of `AimsAtStart`. A save that has begun may leave nothing
    to a kill until the control file is written again. A line
    more adds one content to what a kill may leave (`SurvivorsGrow`), writing out
    takes contents away but never the present one (`SurvivorsSettle`), a kill
    leaves one of them (`KillPromise`), and `vacuum()` drops the places of removed
    keys and nothing else (`VacuumPromise`).

The assumptions are not conveniences: without each of them the property fails,
as section 4 says of `TerminateJob`, empty chunks, `ReadsThenInserts` and
`AimsAtStart` (of `AimCorrect` alone).

Only model-checked: the liveness properties (`JobEnds`, `WaitReturns`,
`DeliveryEnds`, `AllEnd`, `MessagesArrive`, `DisconnectEnds`), since liveness
under fairness and ENABLED are out of the prover's reach. Every invariant and
action property of the runs is stated by a theorem. What a recursive definition
computes for every input would need induction over data, which the installed
provers do not do; no module here uses RECURSIVE.

The other way round, `FinalMessagesReceived` and `AimedKeyIsNext` are proved and in
no run: the first follows from `Conversation`, and the second is what
`PromiseKept`, which the run checks, says of clients that do not aim before they
sequence.

## 6. Abstractions and what is not modelled

* A message, however long, is one element of a pipe or channel. Only the pipes of
  `MessageCenter` ever fill up. `writePipe()` resends the beginning of its buffer
  after a partial write (`be_io_utility.cpp`:461): how many bytes a write takes is
  the kernel's choice, and what follows a wrong byte is whatever its reader makes
  of it, so there is nothing to check that the line does not show.
* PIDs are not reused. Memory, logs and file system errors are left out, except
  where a fault says otherwise.
* MPI itself, its `Init` and `Finalize`, and the failure of a rank that does not
  take the job with it.
* A worker's processing is a choice among its outcomes.
* `move()`, renaming and removing of stores, descriptions and user properties:
  calls of the file system with no state in between. The file store has no state
  but the directory, whose order is the file system's; SQLite keeps its promises
  in a library; the compressed store, the list store and the unions are calls of
  the stores behind them, without state of their own but a position.
* Semaphore: each call is one call of the system, which keeps the count. Watchdog
  and signal manager: a jump out of a block of the application, and what is wrong
  afterwards depends on that block. Process statistics, auto logger and log
  sheets: text.
* The CSV distributor runs the distributor modelled here with line numbers for
  keys; its own hazards are about a stream and a seed.
* Most of the code by lines, NBIS first of all: decoders and encoders of images,
  AN2K and INCITS records, TLV. They are sequential, keep no state between calls,
  and are right or wrong in their bytes and arithmetic; a model of them would
  repeat them. The share of the lines that `PROJECT.json` maps is small for this
  reason: it is about the part of the code that coordinates.

## 7. Plan

Done: the record source, the MPI job, its conversation and completion; the fork
manager; the package workers; the thread manager; the message center; the abstract
record store, the archive store and the Berkeley DB store; proofs about all of
them, and of the refinements of `RecordStore` by the archive store, of
`SortedRecordStore` by the Berkeley DB store and of `RecordJob` by the MPI job.

Next, in this order:

1. `vacuum()` step by step, with the record store base's renaming and removal.
