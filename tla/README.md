# Verification of TortoiseSVN's core

TLA+ models, model-checking runs and machine-checked proofs for the parts of
this repository whose correctness depends on the order in which things happen:
the job scheduler, the reader-writer lock, the status cache with its crawler and
its directory watcher, and the log cache.  Paths are relative to the
repository's root; `JobScheduler.cpp:123` stands for
`src/AsyncFramework/JobScheduler.cpp`, line 123, and likewise for the other
files named here (`TSVNCache`, `LogCache/Access`, `LogCache/Containers`, `Utils`).

Contents: 1 the system, 2 the modules, 3 how modules and code correspond, 4 the
runs, 5 fairness, 6 bounds, 7 the proofs, 8 what the code does not keep of what
it says, 9 what is not modelled, 10 the plan.

## 1. The system and its parts

TortoiseSVN is a set of Windows programs around the Subversion libraries.
Their logic of their own, as opposed to dialogs and calls into Subversion, is in
four places.

**AsyncFramework** runs jobs in the background for the dialogs and the revision
graph.

| part | state | operations | talks to |
|---|---|---|---|
| `CJobScheduler::CQueue` | buffer `data`, `first`, `last`, `end`, order `fifo` | `push`, `pop`, `AutoGrow`, and through the scheduler `RemoveJobFromQueue` | its scheduler, under whose mutex it runs |
| `CJobBase`, `COneShotEvent` | flags `waiting`, `terminated`, `scheduled`; events `executionDone`, `deletable` | `Schedule`, `Execute`, `OnUnSchedule`, `WaitUntilDone(OrTimeout)`, `Terminate`, `Delete` | client, worker thread and whoever empties the queue; no common lock |
| `CJobScheduler::CThreadPool` | idle threads, `allocCount`, `maxCount`, `yetToCreate`, list of starving schedulers | `TryAlloc`, `Release`, `AddStarving`, `RemoveStarving`, `SetThreadCount` | all schedulers; calls `ThreadAvailable` of starving ones |
| `CJobScheduler` | running and suspended threads with cached counts, `fromShared`, `starved`, `stopCount`, queue, `emptyEvent` | `Schedule`, `AssignJob`, `AllocateThread`, `Stop`, `Resume`, `WaitForEmptyQueue`, `WaitForSomeJobs`, destructor | pool, jobs, clients |
| `CThread`, `CWaitableEventPool` | `suspended`, `terminated`, two events; recycled OS events | `Suspend`, `Resume`, `Terminate`, auto-deletion; `Alloc`, `AutoAlloc`, `Release` | schedulers; all events |
| `Future.h`, `AsyncCall.h` | a result next to a job | `GetResult` | jobs |

Correct means: a job is executed at most once and, unless somebody stops the
scheduler, executed; it is destroyed exactly when nobody uses it any more; no
wait is forgotten; threads are neither lost nor used twice, and no more of them
exist than the limits say.  Hard: jobs are touched by three threads without a
lock, the last of two events makes a job deletable, a thread goes into the
shared pool and to its next owner while it is still in a method of the last one,
two kinds of mutexes are taken in both orders.

**Utils** has the reader-writer lock of the status cache and the list controls
(`ReaderWriterLock.cpp`): counters of readers and writers, two OS events made on
demand, a map from thread to nesting depth; operations acquire and release for
readers and writers, with timeouts, upgrades of readers and downgrades of
writers.  Correct means exclusion, exact counters, no lost wake-up, no writer
starved by readers.  Hard: a wait ends outside of the critical section, a
timeout races with the signal, an upgrade gives the lock up in between.
Further state: `LruCache`, `UniqueQueue`, `CPathWatcher`.

**TSVNCache** is the process that knows the status of working copies for the
Explorer's icons.

| part | state | operations | talks to |
|---|---|---|---|
| `CSVNStatusCache` | map of path to `CCachedDirectory`, blocked paths, the last answer, the guard (a reader-writer lock) | `GetStatusForPath`, `GetDirectoryCacheEntry`, `RemoveCacheForPath`, `BlockPath`, `Load`/`SaveCache` | pipe threads, crawler |
| `CCachedDirectory` | own status, file statuses, statuses of children, full status, time stamp of the database, `m_FetchingStatus` | `GetStatusForMember`, `RefreshStatus`, `UpdateCurrentStatus`, `UpdateChildDirectoryStatus` | parent and child directories, crawler's queue, shell updater |
| `CFolderCrawler` | two queues of unique paths, a wake event, a blocked path, hold-off and inhibit counters | `AddDirectoryForUpdate`, `AddPathForUpdate`, `BlockPath`, worker loop | cache (under the guard), watcher |
| `CDirectoryWatcher` | watched paths, a blocked path, open directories with pending reads (`watchInfoMap`), directories to delete (`infoToDelete`), the completion port | `AddPath`, `CloseInfoMap`, `ClearInfoMap`, `CloseHandlesForPath`, `Stop`, worker loop, destructor | completion port, crawler, the UI thread's message loop |
| `CShellUpdater`, `CWCRoots`, pipes | a list of paths; time stamps of databases; pipe threads | `AddPathForUpdate`; `NotifyChange`; requests | Explorer |

Correct means: every change that was notified ends in a refreshed status, the
status of a directory settles at the most important one below it, two threads
never fill one directory at once, no pointer to a removed directory or a closed
watch is used, what is listed as watched is watched, threads end on `Stop`.
Hard: a request arrives while its folder is being refreshed, commands block
paths in between, statuses climb the tree without a lock, the watcher gives its
lock up half-way through opening the directories while others close all handles.

**LogCache** keeps the log of repositories.

| part | state | operations | talks to |
|---|---|---|---|
| `CSkipRevisionInfo` | per path the ranges of revisions that say nothing about it | `Add`, `GetPreviousRevision`, `Compress` (`CPacker`, `RemoveKnownRevisions`) | revision index |
| `CCachedLogInfo`, containers, streams | cached revisions, paths, strings; the file they are saved in | `Insert`, `Update`, `AddSkipRange`, `Load`/`Save` | queries |
| `CCacheLogQuery`, `CLogFiller`, iterators | position in the log, what was last reported; entries yet to merge, first revision not yet there | `Log`, `FillLog`, `ReceiveLog`, `AutoAddSkipRange` | server, receiver, repository info (off-line) |

Correct means: whatever was asked before, a query hands on what the server would
send, once and in order; a skip range covers no revision that changes its path;
every query ends.  Hard: a fetch is broken off in the middle, a limit cuts it
short, a fetch for one path starts a nested one for its parent, ranges are merged
at their boundaries.

The **dialogs** (`TortoiseProc`) with the `RepositoryLister`, the editors
(`TortoiseMerge`, ...), the shell extension, `SubWCRev` and the wrapper around
Subversion use these parts.  `PROJECT.json` lists all of them, with the hazards
of the code at their lines.

## 2. The modules

| module | what it is |
|---|---|
| `JobQueueSpec` | abstract double-ended queue |
| `JobQueue` | the buffer of `CQueue`; implements `JobQueueSpec` |
| `Job` | one job between owner, worker and remover; the job of a `CFuture` or `CAsyncCall` is one of them |
| `ThreadPool` | the pool's operations, and alone with arbitrary users |
| `JobScheduler` | schedulers, their threads and clients; EXTENDS `ThreadPool` |
| `MCScheduler` | instances of `JobScheduler` for TLC |
| `RWLockSpec` | abstract reader-writer lock |
| `ReaderWriterLock` | the lock with counters and events; implements `RWLockSpec` |
| `SkipRevisions` | the skip ranges: pure operators, no state |
| `LogCache` | repository, cache, a query and its fillers; EXTENDS `SkipRevisions` |
| `MCLogCache` | a repository of seven revisions for TLC |
| `StatusCache` | disk, cached directories, crawler, pipe threads |
| `MCStatusCache` | a working copy for TLC: a folder in a folder |
| `DirectoryWatcher` | the watcher's thread, its port, and the threads that call it |
| `MCDirectoryWatcher` | four paths on a drive for TLC |
| `JobQueue_proofs`, `Job_proofs`, `ReaderWriterLock_proofs`, `SkipRevisions_proofs`, `StatusCache_proofs`, `DirectoryWatcher_proofs` | theorems on the module of that name |
| `JobScheduler_proofs` | theorems on `ThreadPool`, alone, and on `JobScheduler` with it |
| `LogCache_proofs` | theorems on `LogCache`; EXTENDS `SkipRevisions_proofs` |

`JobScheduler` composes the scheduler with the real pool: it uses the pool's
operators as conjuncts of its own actions.  It counts waiting jobs; what order
they are in is the matter of `JobQueue`, what happens to the object that of
`Job`.  The three meet at two interfaces: a push or pop of `JobQueue` is a
change of `queue[s]` in `JobScheduler`, and the worker's `Take` and `Cleanup` in
`Job` are `TakeJob` and `ExecuteJob` there.  `LogCache` uses the skip ranges of
`SkipRevisions` as they are.  `StatusCache` takes the guard as `RWLockSpec` gives
it, with the upgrade as the step in which a thread may have to wait; it takes
notifications from a watcher that reports every change once, which is what
`WatchedOrGap` of `DirectoryWatcher` says as long as `gap` is FALSE.  No operator
is `RECURSIVE`.

Definitions whose name has a suffix behind an underscore
(`TryAlloc_Eager`) and whose comment begins with *fault* are mistaken versions
of an operation.  Putting one in the place of the operation must violate the
property it is paired with in `PROJECT.json`; no specification uses them.

## 3. How modules and code correspond

One action stands for the code between two moments at which another thread can
interfere.  Where that code runs under a mutex from start to end, it is one
action.  Where it does not, it is cut between a read of what others may write and
a write that depends on it, between two writes that others may see apart, and at
each exchange or event call.  Some reads without a lock that follow each other are
one action; those of the status cache, which has the most, are named below.

**JobQueue.** Pointers are offsets into `data`; `Grow` and `Shift` are the two
halves of `AutoGrow` (`JobScheduler.cpp:31-60`).  `pop` keeps the order of the
code: the entry is read and the pointer moved.  `RemoveJobFromQueue` switches
`fifo` for a loop of pops under the scheduler's mutex, and is one action with
`Extract`.  `out` is the return value.  `fifo` is either value in `Init`.

**Job.** `pc` has a label per step, prefixed by the routine: `x.` `Execute`,
`s.` `COneShotEvent::Set`, `w.` `WaitFor`, `t.` the wait with a timeout, `u.`
`OnUnSchedule`, `d.` `Delete`, `o.` `WaitUntilDone`.  `ret` is the label to
return to, `ev` the event `Set` and `WaitFor` work on.  A wait is: look at the
state, allocate an OS event, look again, block.  The three threads are the
roles that occur: the client; a worker (`ThreadFunc`); and the thread that takes
jobs out of the queue, which is a client in `RemoveJobFromQueue` or one that
drops the jobs of a stopped scheduler.  `Scenarios` lists what clients do with a
job, `Init` chooses one of them.  A read of a destroyed object yields either
value (`Seen`).  The event class allows one waiting thread, and the model has
one.  `CRepositoryLister` trims and deletes under a lock of its own; `Trimming`
and `Deleting` say so.

**ThreadPool.** Every operation holds the pool's mutex and is one action;
`Release` is `Put` or `Overflow`, followed by `SelectStarving` until nobody is
left.  `lent` is not in the code: it is the set that `allocCount` counts.
Alone, `PoolSpec` lets schedulers borrow, return, register and unregister in any
order and changes the limit with `SetThreadCount`.

**JobScheduler.** `lock[s]` is the scheduler's mutex while a method is between
two of its steps.  A method is cut where it calls the pool again or enters
another scheduler: `AssignJob` is `TakeJob`, or `PutAside` (suspend, leave the
running threads), then for a borrowed thread `StopStarvation`, `Release`, a
loop of `Select`, `Notify` and `ThreadAvailable`, and `Settle`, during all of
which the mutex stays taken; `Resume` is followed by rounds of `ResumeLoop`;
a failing `AllocateSharedThread` is followed by `Starve`, since `TryAlloc` and
`AddStarving` are two critical sections of the pool.  A thread that is in the
pool may be resumed by its next owner before it has left the method of the last
one; `Activate` keeps its `pc`.  `emptyEvent` is manual-reset and kept by level:
`Retire` sets it and wakes the clients blocked on it; `WaitForEmptyQueue` resets
it before it waits.  `Exit` is the destructor of the pool at the end of the
process, which deletes idle threads and waits for each with the mutex taken.
`Destroy`, `EndStarvation`, `DeleteThreads` with `WaitForEmptyQueue` in between are
`~CJobScheduler`, which nobody calls while the scheduler is stopped
(`CSchedulerSuspension` resumes what it stops) or in use by another client.
`poolLock` is the pool's mutex beyond one action.

**ReaderWriterLock.** What is inside the critical section is one action.  A
thread that waits is in `*.wait`; one whose wait has just ended is in `*.woken`
or `w.granted` after the signal, in `*.expired` after the timeout, and enters
the critical section with its next step.  `r.` is a reader, `w.` a writer, `u.`
a reader that is being upgraded, `u.reader` one whose upgrade has failed and
that waits to be a reader again.  The read event is manual-reset, the write
event automatic: `WriterWake` consumes it.  Nested calls are counted in `map`.
A timeout of zero changes no state and is left out.  The public methods of the
non-re-entrant class have no user; the model is of the re-entrant class, with
the inner one's protected routines as helpers.

**SkipRevisions.** A `std::map` from the first revision of a range to its size is a
function whose domain is the set of first revisions.  `AddRange`
(`SkipRevisionInfo.cpp:80-135`) merges with the previous entry and with one next
entry, no further.  `RemoveKnown` is one pass with an iterator over a map that it
changes, written as a recursive function over the positions of the iterator: an
entry whose start moves is entered anew and the old one stays.
`GetPreviousRevision` climbs from the path to the root and starts over until no
range goes on.

**LogCache.** The repository is a sequence of sets of changed paths, chosen in
`Init`.  `cache.have` are the revisions with changed paths, `cache.props` those
that have the standard revision properties, too.  A step is a round of the loop
of `InternalLog`, or what a `CLogFiller` does between two entries the server
sends: `Receive` writes to the cache or to the entries to merge later, the gap
in front of the entry is marked (`MarkGap`) or fetched for the nearest known
parent path by a nested filler (`FillGap`), `HandOn` gives the entry to the
receiver.  `fills` is the stack of fillers, `phase` where one is.  `GoOffline`
and `Fail` are the two ways an error ends the server's answer: the user goes on
off-line, or the exception unwinds all fillers, each of which merges what it has.
`changes`, `ServerLog` and `Sound` are the server and outside of the code.

**StatusCache.** A thread is a record: `pc`, the request or crawled item it works
on, the directory (`this`) whose method it is in, the directory (`up`) it has
climbed to, the folders that svn has yet to report (`left`), a status it has read
and not yet stored (`val`).  `GetStatusForMember` (`CachedDirectory.cpp:202-460`) is
`Decide` (has `wc.db` changed?), then either `Same` and `FindEntry` or `ChangedDb` and
`Drop`, then `Look`: each of the three looks at `m_FetchingStatus` (300, 334, 372) is a
step of its own, with `SetNone` and `Request` for what follows when it is set.  A fetch
is `Clear` (what is known is dropped), `Exchange` (`SvnUpdateMembersStatus` gives up if
another thread fetches), the callback `List` for the directory itself, `AskChild`,
`SetChild`, `OwnChild` for each folder, `StatFile` and `AddEntry` for the file,
`EndFetch`, and `Most` and `Mark` (`RefreshMostImportant`); `Fetched` and `Miss` are the
end of the method.  `UpdateCurrentStatus` is `Calc` and `Write`, then `Tell`, `Compare`
and `Put` for the parent, where `Put` goes on with `Calc`; nothing is locked between
any two of them.  `Await` and `Made` are
`GetDirectoryCacheEntry` with the upgrade of a reader lock: a thread that is not
the only reader gives its lock up and waits, and deletes what another thread has
made in the meantime (`SVNStatusCache.cpp:491-502`).  `TakePath`, `TakeFolder`,
`Invalidate`, `Refresh` and the three `Done` actions are the crawler's loop.
`events` and `Notify` stand for the watcher.

Four groups of reads are one action each:

* the time of `wc.db` and its comparison with `m_wcDbFileTime` (`Decide`): if another
  thread ends a fetch in between, either this thread acts as if it had come after
  it, or it fetches once more and stores a time that the next look will find old;
* `GetDirectoryCacheEntryNoCreate` and then `GetCurrentFullStatus` or
  `GetDirectoryCacheEntry` (`AskChild`): an entry that is there stays while this thread
  has its reader lock, and an entry that is not has the status *none*, which changes
  nothing in the result;
* the fields that `CalculateRecursiveStatus` and `RefreshMostImportant` go through
  (`Calc`, `Most`): what they find may be out of date at the write anyway, which is a
  step of its own and counts as a loss if it is;
* the fields that `Same` and `Compare` look at, which decide whether to go on, and
  are read again by the step that does.

Two variables are not in the code.  `blank` holds the directories whose status was
set to *none* in order that the shell be told.  `lost` holds the directories that
may have gone stale in a way that nothing in the code notices later:

* a notification, or a request that the crawler has come to, dropped because the
  path is blocked;
* a request that is not even queued for the same reason (`FolderCrawler.cpp:82`);
* a notification about a file erased after the file has been processed (322), a
  request for a folder erased after the folder has been refreshed (396-398);
* a notification about the database dismissed because a pipe thread has seen the new
  time first (`WCRoots.cpp:44-56`, `FolderCrawler.cpp:217-228`);
* children that are not crawled because `m_childDirectories` has just been cleared;
* the file of the directory dropped (`CachedDirectory.cpp:357`) by a thread that then
  finds another one fetching, which has passed the file already;
* both statuses set to *none* for a request (304, 339, 376) when the thread that
  fetches has renewed them in the meantime;
* a fetch broken off because another thread fetches (389-396, 500), after what was
  known has been dropped;
* the status of a folder stored (648) when it is no longer the one it has: the folder
  has told the parent in between, which had no entry for it to update;
* a file whose time is asked for after its status (474);
* an empty entry made for a file that has gone from the cache since the fetch (432);
* the most important status of the files (609, 951-972), the recursive status (790-819) or
  the status for the parent (828-840) written when it is out of date.

Each sets `lost` only when it really happens: a status that is still right when it is
written is not lost.  A later fetch of the directory takes it off the list.

The second of these (`Dropped`) is easily overlooked: with one folder in the root it makes no
difference, with a folder in that folder it does.  A thread that makes an entry queues
it to be fetched.  If a command has blocked the working copy in between, the request
is dropped, and when the block ends only the path that the command names is crawled.
Unless the thread that has made the entry fetches it itself (`Enter`), it stays empty,
and its parents are told nothing of what is below it.  In return `Settled` makes no
exception for blocks that are left, nor for directories that have not been fetched:
with what is lost put aside, all that are in the cache have been.

`Below` is defined as the least set that is closed under folders, `Erase` by
positions and `PushAll` by a function over a list of the set, which is what the proofs
can unfold.

**DirectoryWatcher.** The threads are the worker, the crawler (`AddPath`), the UI
thread (device messages, session end, destructor) and a command pipe (a path is
released).  A `CDirWatchInfo` is its address; `dir` maps those that exist to their
path, `open` and `reading` say whether the handle is open and a read outstanding;
`packets` is what the port has queued.  All handles of a call are closed in three
steps (directories, the port, the member that holds its handle) since the worker
waits at the port and, when the wait fails, closes the port without the lock
(`Failed`, `NullPort`).  `Restart`, `Open`, `Register`, `Watch` are the loop over
the paths, which gives the lock up for `RegisterDeviceNotification` and compares
two counts when it has it again.  `ClearInfoMap` is cut where it gives the lock up
between its halves.  `NewRoot` is what `AddPath` finds as a common root, with the
comparison of strings (`C:\wc-bak` and `C:\wc`) in `Extends`.  Loops over the
list of paths that take some out are recursive functions (`Without`,
`RemoveChildren`), as is `Without` of `ThreadPool`, which the proofs can unfold.

`gap` and `touched` are not in the code: `touched` notes a call that comes while
the lock is given up for the registration; `gap` that one of the four things has
happened that leave a path unwatched although it is in the list.

## 4. The runs

| run | shows |
|---|---|
| `queue` | the buffer implements the abstract queue, always has a free entry for the next `push`, and grows only when needed |
| `job` | executed once, destroyed neither too early nor never, scheduled flag in step with the queue, `WaitUntilDone` and `Delete` return, a job that is waited for is done |
| `pool` | with limits that change at any time: no idle thread beyond the limit |
| `sched_private` | with threads of its own and two clients that schedule, trim, stop, resume, wait and destroy: while jobs wait a thread runs, jobs get done, waiting clients are woken, as is the destructor |
| `sched_shared` | two schedulers that borrow from the pool; the pool is destroyed at any moment, each scheduler when its client wants: cached counts, the pool's books, owners of resumed threads, the list of the starving, nobody in a scheduler that is gone, the limit |
| `rwlock` | three threads, nested, with and without timeouts: implements `RWLockSpec`, exact counters, events closed when they may be and never under a waiting thread, no lost wake-up, writers get in |
| `log_cache` | four queries in any order over two histories, the connection failing or the user going off-line at any entry: skip ranges are sound, the receiver gets the server's log, every query ends |
| `status_crawl` | edits, commits, requests and a block in any order against crawler and pipe thread: two edits and a commit among them: one fetch of a directory at a time, statuses settle, the crawler neither forgets a request nor runs for ever |
| `watcher` | paths added and handles closed by three threads at any moment, an OS call failing: no directory leaked or used after its end, listed paths are watched, `Stop` gets through, no thread waits for ever |
| `job_use_after_delete`, `sched_deadlock`, `log_refetch` | TLC finds the counterexamples of section 8 |

The properties, by the question they answer:

* *Nothing is lost or done twice*: `AbstractSpec`, `ExecutedOnce`, `WorkInHand`,
  `JobsGetDone`, `OwnedIsFreed`, `ResumedHasOwner`, `NothingForgotten`,
  `InfosAccounted`, `Faithful`, `Descending`.
* *Two pieces of state that only agree if every step does its part*:
  `CountsConsistent`, `PoolBooksAgree`, `CountsExact`,
  `EventsManaged`, `StarvedIsListed`, `ScheduledConsistently`, `SkipSound`,
  `WatchedOrGap`.
* *Two threads in one place*: `Exclusive` and `LockSpec`, `OneFetcher`.
* *The end of a life*: `NotDeletedWhileScheduled`, `DeleteCompletes`,
  `NobodyAtEnd`, `NoDangling`.
* *Nobody waits for ever*: `NoLostWakeup`, `WaitCompletes`, `WaitEnds`,
  `WriterGetsIn`, `StopReaches`, `CallsReturn`, `QueryEnds`, `Rests`.
* *Limits*: `RoomForPush`, `BufferBound`, `PoolFits`, `ThreadBound`.
* *The result in the end*: `WaitMeansDone`, `Settled`; `RefusedByOverlap`, which
  says that a query gives up for one reason only.

Three of them have an exception built in, which is no weakness of the property but
its subject: `Settled` and `WatchedOrGap` say that nothing but the listed losses
(`lost`, `gap`) makes a status stale or leaves a path unwatched, and
`RefusedByOverlap` that nothing but overlapping ranges makes a query give up.  The
versions without the exception are false of the code (section 8).

Deadlock is checked in `queue`, `pool`, `rwlock` and `status_crawl` (there the
state in which all is at rest is a step that changes nothing).  It is off where the
system may stop: in `job` when the job is gone, in `log_cache` when all queries are
made, in `watcher` when the watcher is destroyed, in `sched_private` when the
scheduler is.  `sched_shared` really deadlocks (section 8); its invariants hold in the
deadlocked states as well.

## 5. Fairness, and why the code justifies it

* `Job`: weak fairness of the owner, the worker and a remover that has begun.
  The worker's includes taking the job from the queue: a scheduler that is not
  stopped gets round to each job, which `sched_private` shows (`JobsGetDone`).
  In the scenario with `drain` the scheduler is stopped for a while; callers
  resume what they have stopped (`CSchedulerSuspension`), after which the worker
  takes what is left.
* `JobScheduler`: weak fairness of each thread, since an OS thread that can run
  does; of each client while it is inside a call.  A client outside of a call
  need not call again, a blocked one need not time out.  A mutex is not fair,
  but while one is held its holder goes on.
* `ReaderWriterLock`: weak fairness of the steps of a call that has begun; of
  `ReleaseAllLocks`, because locks are held by guard objects that are unwound
  in the end; strong fairness of `WriterWake`, since a thread that keeps waiting
  for an auto-reset event that is set again and again is served (Windows queues
  the waiting threads).
* `LogCache`: weak fairness of the steps of a query that runs: its thread goes on
  and the server answers or fails.  Nobody need ask, and the user need not go
  on-line.  The formula is written without `WF`, as `Running` says when a step is
  enabled, which saves TLC the evaluation of ENABLED.
* `StatusCache`: weak fairness of all steps that are not counted (crawler, pipe
  threads, the watcher's report, the end of a block) together, not of each:
  `[]<>Quiet \/ []<><<UNCHANGED count>>_vars`.  Such a step is possible whenever the
  system is not at rest (deadlock is checked), so the formula says what `WF` of it
  would, without ENABLED.  It suffices for `Rests`, since every one of these steps
  leads on; no fairness of edits, requests or commands.
* `DirectoryWatcher`: weak fairness of the worker's steps, except the wait that
  times out after ten minutes, which may never happen; weak fairness of the steps
  of a call that need no lock, strong fairness of those that do: a thread that
  waits for a critical section or for the guard gets it if it is free again and
  again.  No fairness of calls, changes on disk or failures.
* `PoolSpec` and `JobQueue` state safety only and have none.

## 6. Bounds

| bound | value | why it is enough |
|---|---|---|
| `InitialSize`, `MaxQueue` | 2, 3 | shifting (half of the buffer free), growing once and twice, and trims from both ends all occur; the code's 1024 changes nothing else, and the proof covers every value |
| `Scenarios` of `job` | 4 | owned and lent jobs; inline and blocking waits; terminate; delete racing execution, trim and drain; trim followed by scheduling again; a future (lend, wait, delete). One job suffices, as jobs share no state |
| `HWThreads`, `Counts`, `Thread` of `pool` | 3, {0,1,2,4}, 4 | limits below, at and above the number of threads handed out; the proof covers every value |
| `sched_private` | 2 threads, 2 clients, 5 jobs, 2 stops | the thresholds of `Schedule` (queue > 2 x running, 3 jobs for the second thread) and `Resume` (queue > 4 x running, 5 jobs) are reached |
| `sched_shared` | 2 schedulers, 3 threads, limit 2, 4 jobs, 1 stop | one scheduler with a private thread that must borrow, one without; both starve; the pool is exhausted, refilled, destroyed |
| `rwlock` | 3 threads, depth 2 | two readers and a writer, two writers and a reader, two upgrades at once; with depth 2 the first nested call; the proof covers every number |
| `MaxRev`, `Histories`, `Asked` of `log_cache` | 7, 2, 9 | a long quiet stretch and a mixed history over a directory with a file; logs of one revision, of a stretch, of all, with limits 1 and 2, without revision properties. Fetches of single revisions leave ranges that later ones touch, overlap and enclose |
| `Tradeoff`, `MaxQueries` of `log_cache` | 2, 4 | the code's 100 only says how many known entries end a fetch; three queries prepare a cache for the fourth. All 496 histories of five revisions, with fewer queries, give the same result (3.7 million states) |
| `status_crawl` | 2 directories, one in the other; 2 edits, 1 commit, 1 request, 1 block, 3 of these in all; one pipe thread | a change, and a second one that undoes it, while its directory is fetched, crawled, queued, blocked, and while its status is on the way to the parent; a parent told by two threads; a request that makes the entry the crawler waits to make. 4.3 million states. The invariants hold as well with three directories, each in the one before (9.0 million); the theorems cover every tree and every bound |
| `watcher` | 3 paths and the drive, 4 infos, 1 call or failure besides loading, adding and stopping | a path inside another, and one whose name only begins like another's; an address used again after its info is gone. 280,021 states. With a call and a failure (`MaxEvents` 2, 1.0 million) the invariants hold as well |

`MaxJobs`, `MaxStops`, `MaxQueries`, `MaxEdits`, `MaxCommits`, `MaxAsks`,
`MaxBlocks`, `MaxTotal` and `MaxEvents` bound the calls of clients and the changes
around them; they do not bound what threads do.  Threads are symmetric in
`sched_shared` (the code takes any of them), and `SYMMETRY` is used there, with
invariants only.  `TypeOK` of the modules whose runs do not list it was checked
with the same configurations, and where a theorem proves it, for every value.

## 7. The proofs

All are checked by TLAPS for every value of the constants that satisfies the
named assumptions in the modules (`SizeAssumption`, `JobAssumption`,
`ScenariosAssumption`, `PoolAssumption`, `SchedulerAssumption`, `LockAssumption`, `SkipAssumption`,
`LogAssumption`, `CacheAssumption`, `WatcherAssumption`): sizes and limits are natural
numbers, sets finite, threads distinct, the directories of a working copy a tree
without `wc.db`, paths of a repository a tree, no path in it before its parent.

| theorem | says |
|---|---|
| `QueueSafe`, `QueueBuffer` | `TypeOK`, `RoomForPush`; `BufferBound` |
| `QueueRefines` | `JobQueue` implements `JobQueueSpec` |
| `JobExecutedOnce` | `TypeOK` and `ExecutedOnce`, whatever the clients do |
| `JobScheduledOnce`, `JobOutlivesQueue` | `ScheduledConsistently`; `NotDeletedWhileScheduled` |
| `WaitsForResult` | `WaitMeansDone` |
| `PoolBooks`, `PoolIdle` | the pool's counters stay natural numbers, `LentCounted`; `PoolFits` |
| `PoolBound` | if nobody changes the limit later, `ThreadBound` |
| `SchedulerCounts`, `SchedulerOwners` | `CountsConsistent`; `ResumedHasOwner` |
| `SchedulerPlaces`, `SchedulerBound` | `OnePlace`: no thread is in two places; `ThreadBound`, with the schedulers as the pool's users and the pool's end |
| `WorkIsInHand` | `WorkInHand`: as long as jobs wait in a scheduler with threads of its own, one runs |
| `PoolBooksKept` | `PoolBooksAgree`: what is handed out is what the schedulers owe, less what is just being returned |
| `StarvedListed` | `StarvedIsListed` |
| `NobodyEntersAtEnd` | `NobodyAtEnd` |
| `LockExclusive`, `LockCounts` | `TypeOK`, `Exclusive`; `CountsExact` |
| `LockEvents`, `LockWakes` | `EventsManaged`; `NoLostWakeup` |
| `LockRefines` | `ReaderWriterLock` implements `RWLockSpec` |
| `FindPreviousSound`, `FindPreviousExact` | the lookup in a map of ranges answers with a range that covers the revision; if ranges are separate it finds one whenever there is one |
| `AddRangeSound`, `AddRangeComplete` | adding a range covers only what was covered or is new; if ranges are separate, all of it |
| `AddRangeKeeps` | if they are not, the new range is still covered, and what is lost lies behind it, in the range that began where it begins |
| `GetPreviousSound` | going down through the ranges of a path and its parents passes covered revisions only; it moves on from a covered one if the ranges of the path are apart |
| `RemoveKnownSound` | `Compress` covers nothing that was not covered and uncovers known revisions only, overlapping ranges included |
| `AdvanceSound` | if the ranges are right, the log iterator passes no revision that changes its path, and rests at one that the ranges do not lead beyond or that mentions the path |
| `LogInvariant`, `SkipRangesSound` | the invariant about fillers; `SkipSound` |
| `QueryInvariant`, `ReportsDescend` | who reports what is left to report; `Descending` |
| `FaithInvariant`, `LogIsFaithful` | how much of the log has been reported; `Faithful` |
| `RefusalInvariant`, `RefusalByOverlapOnly` | what a query has passed it has got; `RefusedByOverlap` |
| `FetchExclusive` | `OneFetcher` |
| `EntriesStay` | `EntriesInUse`: an entry that another thread deletes and makes again in `GetDirectoryCacheEntry` is one that nobody is at work in |
| `CrawlerIsWoken` | `NothingForgotten` |
| `StatusTypes` | `TypeOK` of `StatusCache`: only directories are crawled, no time stamp of the database is from the future |
| `StatusSettles` | `Settled`, for every tree of folders and any number of pipe threads |
| `NoneLeaks`, `NoneDangles` | `InfosAccounted`; `NoDangling` |
| `NothingUnwatched` | `WatchedOrGap` |

*Queue.* `RoomForPush` is not inductive: that only pushed entries are handed out
needs `ValidJobs` (everything between `first` and `last` is a job), and
`BufferBound` needs that the load never exceeds `MaxQueue`.  `QueueInv` adds
both.  The refinement has a lemma per kind of step: a push appends to the
abstract sequence also when it shifts or grows (`PushAppends`), an extraction
takes the same jobs in the same order (`ExtractTakes`).

*Job.* `ExecutedOnce` speaks of the end; what is inductive is a token.
`waiting` is the token on the table; the thread that exchanges it for FALSE
carries it through `x.run`, `x.finish` and up to the `Set` of `executionDone`,
and nobody else can get there (`TokenInv`).  Steps that neither touch the flag
nor enter or leave that stretch are dealt with by one lemma (`AsideInv`); it
needs that a routine never returns into the stretch, which is why `BackLabel` is
part of the type.  The life of the object is about a reference that is handed
on, from the client that schedules the job to the queue, to the thread that takes it
out, and to who gives it up in `OnUnSchedule` or schedules the job again.  `RefInv`
says that there is one, and that `scheduled` tells whether the scheduler has it;
`ShapeInv` where each thread may be and whereto its routine returns; `SignalInv`
that an event is signalled only after its state has been set; `EndInv` that
`deletable` is set by who has given up the last reference.  `EndInv` holds unless
the job is both scheduled again and deleted, which is what the property excludes and
section 8 shows to go wrong.

*Pool.* The books are inductive together with the types; `PoolFits` needs the
case analysis of `Kept`.  `PoolBound` holds only because the limit is set while
nothing is handed out: `WithinLimit` says that before the first
`SetThreadCount` everything is zero, so that the formula for `yetToCreate`,
whose sign is wrong (section 8), does no harm.

*Scheduler.* `Placed` says for each thread where it may be (among the running or
suspended ones of a scheduler, in the pool, nowhere) given its owner, its flag and
its label; a thread may already run for its next scheduler while it is still on its
way out of `AssignJob` (`Back`), and may even lend itself in `ThreadAvailable`.
The cached counts are wrong while a thread leaves: it has gone from `running` and is
still in `runningCount`.  `Counts1` counts such threads (`Leaving`), and `Locks`
says that each of them holds its scheduler's mutex, which is why there is none when
the mutex is free.  Steps that move nobody share the lemma `QuietKeeps`, all ways to
get a thread `JoinsKeeps`, the three of putting one aside `AsideKeeps`.

On top of it are three more.  `WorkInv`: threads that run, are idle or have yet to be
created add up to the scheduler's allowance (`Account`: `runningCount +
unusedCount`), so that a scheduler without running threads has one to resume or
create; jobs wait only next to a running thread or while a client is in the loop of
`Resume` (`Work`); the pool's count and the threads being returned are together
what the schedulers owe (`Borrowed`), where `Debts` is a set with one member per
borrowed thread and scheduler, since TLAPS knows cardinalities better than sums.
`ListInv`: the flag of a scheduler is set if and only if it is listed, or just being
told of a thread, or somebody is about to enter it, and it is in one of these places
only; the list has nobody twice.  `EndInv`: who destroys a scheduler is the only
client in it; once past `StopStarvation` the flag stays down, so nobody is told
on its behalf; once `runningCount` is zero and the mutex free, no thread can take
the mutex, as each that could is still counted.

*Lock.* The counters are sums of cardinalities of sets defined from `pc` and
`map`, so every step changes sets by at most one element and counters to match
(`CountsExact`).  `Exclusive` follows for a thread that enters without waiting
from its guard and the counters; for one that has waited it needs `SignalInv`:
while the write event is set, or a writer has consumed it, nobody is in.
`Shape` says which nesting depths go with which label.  One lemma per action
establishes the same goal (`StepInv`): the invariant, and that the set of
holders changes as `RWLockSpec` allows.  `EventInv`, on top of it, is about the
counters alone, as the code's decisions to make, set and close events are: there is
an event for those who wait, and it is set as soon as nobody is in who would set it.

*Skip ranges.* `AddRangeSound` needs nothing of the map: the merged entry ends at
the larger of two ends, both of which were covered.  `AddRangeComplete` needs
`Separate` (between two ranges is a revision that neither covers), and so do
lookups that are to be exact; one merge with the next entry is enough only under
this condition, which neither a range over several others nor `RemoveKnown` keeps
(section 8, 3).  Without it `AddRangeKeeps` bounds what an addition may uncover.
`RemoveKnown` and `GetPreviousRevision` are recursive functions.
That they exist, and what they return, is proved with lemmas of this module
(`RecursionExists`, `LoopExists`, `LoopRelates`, `LowestExists`): the domain is
finite with a measure that decreases, and a least counterexample takes the place
of induction, since the library's induction theorems cannot be instantiated.

*Log cache.* Four invariants, the last two on top of the first two.  `LogInv`: between what a
filler has heard of and what the server has yet to send, nothing changes the path
(`FillOK`); so a gap may be marked, unless the answer ends at the limit or the
filler has met the beginning of its path.  A nested filler works for itself; the one
that waits for it is in the same state when it comes back.  `QueryOK`: only the
outermost filler reports (`OuterOnly`), and what iterator, `lastReported` and filler
may still report is below what has been (`DownwardInv`).  `FaithOK`: the query has
sent the first `n` entries of its log, the iterator and `lastReported` are such that
exactly the others are left, the filler's queue is the stretch behind them, and
`left` counts what is not behind the iterator.  The proof that a fetch starts there
compares the server's answer for the stretch with the whole log (`Stretch`).  The
entries that the iterator passes are the matter of `AdvanceSound`.

`RefusalInv` is about what `lastReported` stands for.  All that the iterator, or the
filler at work, has passed from there on is in the cache, with its properties if they
were asked for (or kept in `update` until they are merged), or in a skip range of
the path (`Got`).  It has to survive the three ways to change the cache.  Entries only
come.  `Compress` takes known revisions out of ranges.  A new range may uncover
something, but only above itself, in a range that covers the revision next to it
(`SkipRangeKeeps`); that revision is the one handed on before, which changes the path,
or the filler has not handed on any and the query has not passed what is above.  A
filler whose path the cache does not know has not reached the iterator yet, as the
first entry it receives makes the path known; so nothing that nested fillers do matters
(`RefusalWaits`).  When the query is about to refuse, its iterator is at a revision that
it has got: it is not in the cache, or it would be reported, so it is in a range, and
the lookup has found none.  Lookups are exact when ranges are apart
(`GetPreviousSound`), hence they are not (`RefusedHidden`).  The theorem says more than
the property: the ranges that overlap are those of the query's own path.

*Status cache.* What two threads do to one directory is decided by
`m_FetchingStatus` alone.  `OneFetcher` is inductive only with the lock: an entry
deleted in `GetDirectoryCacheEntry` would take the flag with it.  `OneReader` says
that if a thread waits for the writer lock in order to make an entry that exists
by now, at most one thread reads; `NotReplaced` that nobody has a fetch
running in what it is about to replace.  `Shape` and `Local` tie the fields of a
thread to its `pc`.  The actions that change no entry share one lemma (`HeldStep`),
those that change one field of one entry another (`WritesPlain`).  `PushAll` stays
opaque: nothing depends on the order of a queue.  `CrawlerIsWoken` needs of a step only
that it either leaves the queues alone or sets the event, and does not put the crawler
to sleep (`Signals`).

`Settled` speaks of the moment when the crawler sleeps and says nothing of the way
there.  Its invariant says of each thing that is wrong who is about to put it right.
It has three parts besides `Inv`.  `Typed` has the types and bounds: an entry is not
later than the disk or the database, a fetch has a time of the database, and `Doing`
says what a thread at each step may hold.  `Contents` compares the fields of an entry
with each other: once a fetch has come so far, the folders are known and in the cache
(`HasFolders`), as are, during a fetch, those that svn has reported so far (`Listing`),
the file is (`HasFile`), `most` is that of the two (`MostRight`), the recursive status that of its
parts (`FullRight`), and what the parent has been told that status (`KidRight`).  Each
makes an exception for a directory in `lost` and for one in which a thread stands at the
step that will see to it (`Phase`, `Upd`), or is on the way to the parent with the status the child
has now (`Brings`).  A thread that is on the way with an older one, between `AskChild` and
`SetChild` or between `Tell` and `Put`, needs no such clause: if it writes the old
status last, the parent is lost.  `Noticed` compares the entry with the disk.  If its status
differs (`StaleOld`) or its time is old (`TimeOld`), or a thread has read something that
has changed since (`EntryOld`), a notification of the file or the database is on its way,
or a request for the directory or one above it is, while the time in the map of roots is
such that the next look will differ (`CommitSeen`).  If nothing has been fetched, a
request or a fetch is under way (`NewOld`).  `Taken` is what the crawler has in hand of a
request: the directory until it is past `Decide`, all below it until the children are
queued.

Each part has one lemma per action.  Most actions leave a directory alone (`Spared`,
`Stays`, `Minds`), make its entry anew with nobody at work in it (`Renewed`; this is
where `OneReader` and `NotReplaced` come in again) or change one field of one directory
(`Only`).  At rest no thread is at any step and the queues are empty (`CrawlerIsWoken`),
so nothing is wrong in an entry that is not lost (`RestingRight`).  The recursive statuses
then follow from the leaves up: of the directories with a wrong one, take one that has no
folder among them (`DeepestExists`); the statuses of its folders are right, and with its
own file they make what svn says of all below it (`TruthUp`, by `BelowSplit`).

*Watcher.* `NoDangling` concerns objects that no longer exist.  The inductive
part is about what is pending for infos that are not in the map, in the port's
queue or in the worker's hand: it finds the map empty, so that the check after the
wait dismisses it (`Orphans`, `Looked`), or it keeps the worker from filling the map,
since the counts it has saved have changed (`Counted`).  `PortClosed`: without a port
nothing is pending.  `Locked`: a thread between the steps of closing handles has the
lock, and no directory of the map is open.

`WatchedOrGap` has an invariant of its own, `WatchInv`.  While the worker watches the
paths again, those before the one it is at are watched (`Looping`), unless a thread
has come in between.  One that closes handles during the registration
leaves a trace (`touched`) or had none to close (`Touch`); everything else that may
go unnoticed sets `gap`.  At all other moments the whole list is watched while the
port is open and nobody is about to close it (`Full`).  A path that cannot be
opened leaves the list, which is no loss if it was the last one (`DropSound`).  The
list stays a sequence whatever `SortSeq` does (`ChildrenSound`).  Most steps neither
shorten what is watched nor extend the list; one lemma deals with them (`Quietly`).

Only model-checked:

* all liveness (`JobsGetDone`, `WaitEnds`, `WaitCompletes`, `DeleteCompletes`,
  `OwnedIsFreed`, `WriterGetsIn`, `QueryEnds`, `Rests`, `StopReaches`,
  `CallsReturn`), which is out of the prover's reach as it needs fairness and
  ENABLED;
* the types of `JobScheduler` that no theorem needed; `PoolTypeOK`, for which
  `PoolBooks` has `ThreadsTyped`.

`Faithful` is about queries that start above revision 0.  From revision 0 `Retry`
does not step back up (`LogIteratorBase.cpp:416-418`), the iterator goes on below it,
and the loop ends before anything is reported.

## 8. Where the code does not keep what it says

Three are runs that end in a counterexample, with a finding in `PROJECT.json`.

1. `job_use_after_delete` (`NoUseAfterDelete`): `Delete` destroys a job as soon as
   it sees `deletable`'s state, while the thread that set it has yet to read the
   event's handle.
2. `sched_deadlock` (`StarvationStops`): `StopStarvation` loops with the scheduler's
   mutex taken until `ThreadAvailable`, which needs this mutex, has reset the flag.
3. `log_refetch` (`NoRefetch`): a query meets the situation that `InternalLog`
   asserts away ("we must not fetch revisions twice"), and gives up in silence with
   part of the log: `AddRange` merges with one following entry only, so that an
   entry that covers several of them leaves ranges that overlap, and a lookup that
   lands in the inner one finds nothing.

The others have a configuration each, run with `tlc -config X.cfg M`, where `M` is
`JobQueue` for `JobQueue*`, `Job` for `Job*`, `ThreadPool` for `ThreadPool*`,
`MCScheduler` for `Sched*`, `MCLogCache` for `LogCache*`, `MCStatusCache` for
`Status*`, `MCDirectoryWatcher` for `Watcher*`.

* `JobQueueTrim.cfg` (`RemovesOldest`): `RemoveJobFromQueue (..., oldest = true, ...)`
  takes the newest jobs of a LIFO queue.  Its one caller, the repository lister,
  uses LIFO and asks for the oldest.
* `JobReschedule.cfg` (`NotDeletedWhileScheduled`): a job executed inline, taken
  out of the queue (which makes it deletable) and scheduled again
  (`RepositoryLister.cpp:527`) is deleted while the queue refers to it.
* `JobDrain.cfg` (`DeletableWhenDestroyed`): a stopped scheduler destroys jobs it
  owns that were never executed, which fails the destructor's assertion.
* `JobTimed.cfg` (`FalseMeansTimeout`): `WaitForEndOrTimeout` does not look at
  the state again after allocating its event and sleeps for the whole timeout
  although the event is set.  The only way to it has no caller at present.
* `ThreadPoolRaised.cfg` (`WithinMaxCount`): `yetToCreate = maxCount - pool.size()
  + allocCount` adds what had to be subtracted.
* `ThreadPoolReduced.cfg` (`LendsWithinMaxCount`): a reduced limit leaves
  `yetToCreate` as it was.
* `SchedStarving.cfg` (`StarvingGetsThreads`): `ThreadAvailable` tests
  `stopCount != 0` where the comment on starving schedulers needs `== 0`: a
  scheduler without threads of its own stays without, until somebody schedules
  another job.  `SchedStopped.cfg` (`StoppedGetsNoThread`) is the other side of it.
* `SchedSurplus.cfg` (`SurplusRemoved`): a surplus thread is deleted by itself,
  which waits for its own end under the pool's and the scheduler's mutex.
* `SchedNotify.cfg` (`NotifiedWhenIdle`): a thread returned between `TryAlloc`
  and `AddStarving` is announced to nobody.
* `SchedUnused.cfg` (`UnusedAsCommented`): the comment of `unusedCount`
  (`JobScheduler.h:368`) gives it as `suspendedCount + maxFromShared - fromShared`.  The
  code counts the threads it has yet to create as well (`JobScheduler.cpp:339-345`,
  431-432), so the two differ from the constructor on until all private threads have
  been created.  `CountsConsistent` has the sum with `yetToCreate`, which is what the
  code keeps.
* `SchedWaitStopped.cfg` (`WokenWhenEmpty`): of two clients that wait for a
  stopped scheduler one empties the queue and the other is never woken.
* `LogCacheRange.cfg` (`WithinRange`): `FindOldestGap` goes on below the end of the
  query (`CacheLogQuery.cpp:686-731`), against "within the desired range"
  (752-754): the receiver is sent older revisions than it asked for.
* `StatusBlocked.cfg` (`BlocksEnd`): a block is said to end after its time
  (`SVNStatusCache.h:108`), but `RemoveTimedoutBlocks` is called by an awake crawler
  only (`FolderCrawler.cpp:176`), and requests for blocked paths are dropped before
  they wake it (82, 98).
* `StatusUntold.cfg` (`NoneIsTold`): a status is set to *none* to have the crawler
  tell the shell (`CachedDirectory.cpp:339-341`), but the shell is not told of a
  status that was *none* before (796), and the crawler may drop the request
  (`FolderCrawler.cpp:396-399`).
* `WatcherPort.cfg` (`PortClosedOnce`): the worker closes the port without the lock
  (`DirectoryWatcher.cpp:291`) while another thread closes it, or has closed it and
  not yet reset the member.
* `WatcherMissed.cfg` (`AllWatched`): the test whether paths "got added/removed"
  compares counts (`DirectoryWatcher.cpp:337-340`); they are alike when `AddPath`
  replaces a child by its parent.  The list then has a path that nobody watches,
  until handles are closed again or the wait times out.

Seen while modelling, without a property: two threads that miss an entry both make
it, and what the first one has learned is deleted (`SVNStatusCache.cpp:491-502`);
`RefreshMostImportant` walks `m_entryCache` without its lock
(`CachedDirectory.cpp:956-960`, called at 609), while `Clear` and `AddEntry` of
another thread may change it: the model has the outdated result, not the broken
iterator; `AddPath` may add a common root that is the ancestor of neither path
because it compares strings (`DirectoryWatcher.cpp:163-230`), and the path itself is
added with the next request; the second half of `ClearInfoMap` (536-547) may free
infos whose port is open, against the comment in `DirectoryWatcher.h:88-90`;
`IsPathWatched` (246) is read without the lock.

## 9. What is not modelled, and why

* `WaitForSomeJobs`, which no code calls.
* `CThread` and the pool of OS events are seen from their users only; a resumed
  thread runs, an allocated event is reset.
* Several threads that wait for one `COneShotEvent`: the class excludes it.
* Jobs that are owned by the scheduler and trimmed: the caller of
  `RemoveJobFromQueue` lends its jobs.
* Exceptions out of `InternalExecute`, failures to create threads or events, and
  exhausted memory.
* Overflow of nested lock counts (65536 nested guards).
* Log cache: copies, deletions and merge history (`includeMerges` is FALSE); user
  defined revision properties; two queries at once, which the callers' mutex
  excludes; the file format; `CLogCachePool`.
* Status cache: one working copy, watched from the start, without the directories
  above it; one file per directory, and the statuses *none*, *normal* and
  *modified* (all others only rank differently); everything is versioned, nothing is
  deleted (`RemoveCacheForPath`); the last answer, the crawler's own blocked path
  and its `Stop`, saving and expiry; overlays are recursive (the default).  What a
  request answers is not modelled, only what it does to the cache.
* Watcher: a second drive; buffers, file names and the recycle bin; whether a path
  is allowed never changes.  A completion that reports an error is taken as a
  timeout; handle values and addresses are not used again while something stale
  refers to them, which shows the stale reference instead of hiding it.  The
  destructor comes after the other threads' calls have ended (they are given
  100 ms); a worker that has not ended by then runs on a destroyed object.
* `RepositoryLister`, `CPathWatcher`: planned, or built like what is modelled.
* Dialogs, editors, the shell extension, wrappers and encodings: calls into the
  OS or Subversion, or sequential code that its tests cover better.  They are most
  of the repository's lines, with `ext/` being third-party code.

## 10. Plan

Done in the order of importance: queue, job, pool, scheduler, lock, with their
abstract specifications and proofs; log cache; status cache; directory watcher.
Next:

1. *Scheduler*: `CThread` as a module of its own with `Suspend`, `Resume`, `Terminate` and
   auto-deletion; a one-shot event with several waiting threads together with the
   recycling of OS events.
2. *Status cache*: removal of directories, the last answer, deleted items;
   composition of crawler and watcher.
3. *Log cache*: copies and deletions.
4. *Repository lister*: queries, dumpster, trimming, in terms of `Job`.
5. *Proofs*: the safety properties of what is added by then.
