--------------------------- MODULE DirectoryWatcher ---------------------------
(***************************************************************************)
(* CDirectoryWatcher of the status cache: a worker thread that watches     *)
(* directories through one I/O completion port, while the crawler adds     *)
(* paths, the UI thread and the command pipe have all handles closed, and  *)
(* the UI thread stops and destroys the watcher.                           *)
(*                                                                         *)
(* All handles of a call are closed in three steps, since the worker waits *)
(* at the port without a lock: the directories, the port in the kernel,    *)
(* the member that holds its handle.                                       *)
(***************************************************************************)
EXTENDS Integers, Sequences, FiniteSets, SequencesExt

CONSTANTS
  Dir, NoPath,
  Drive,                \* the root of the drive that all paths are on
  Above,                \* [Dir -> SUBSET Dir], the ancestors of a path
  Extends,              \* pairs of siblings: the first name begins with the second
  Order,                \* [Dir -> Int], the order of SortByPathname
  Versioned,            \* what SVNHelper::IsVersioned says
  Info, Null,           \* CDirWatchInfo objects, by their address
  MaxEvents             \* bound: calls that close handles, OS calls that fail

ASSUME WatcherAssumption ==
  /\ Drive \in Dir /\ NoPath \notin Dir /\ Versioned \subseteq Dir
  /\ Above \in [Dir -> SUBSET Dir] /\ Order \in [Dir -> Int]
  /\ Extends \subseteq Dir \X Dir
  /\ IsFiniteSet(Info) /\ Null \notin Info
  /\ MaxEvents \in Nat

Worker == "worker"
Crawler == "crawler"
Ui == "ui"
Pipe == "pipe"
Client == {Crawler, Ui, Pipe}
Thread == Client \cup {Worker}

VARIABLES
  running, cleaned,     \* m_bRunning, m_bCleaned
  lock, guard,          \* owner of m_critSec, writer or crawler in the guard of the cache
  watched, blocked,     \* watchedPaths, blockedPath while blockTickCount lies ahead
  hPort, port,          \* m_hCompPort is set; the port it names is open
  packets,              \* completions queued at the port
  dir, open, reading,   \* infos that exist and their m_DirName; m_hDir open; a read outstanding
  map, scheduled,       \* watchInfoMap, infoToDelete
  pc, op,               \* where a thread is, the call a client makes
  pdi, w,               \* locals of WorkerThread
  count,                \* for the bounds
  gap, touched          \* a path may be unwatched; a call came during the registration

vars == <<running, cleaned, lock, guard, watched, blocked, hPort, port, packets, dir,
          open, reading, map, scheduled, pc, op, pdi, w, count, gap, touched>>
io == <<hPort, port, packets, dir, open, reading>>
lists == <<watched, blocked>>
infos == <<map, scheduled>>

-----------------------------------------------------------------------------
(* Paths.  Lists are taken down by recursive functions, which can be reasoned *)
(* about; the folds of the community modules and SelectSeq can not.           *)

IsAncestorOf(a, d) == a = d \/ a \in Above[d]
IsPathWatched(p) == \E k \in 1..Len(watched) : IsAncestorOf(watched[k], p)

\* What is left of a list without the paths that lie below one of S.
Without(list, S) ==
  LET kept[n \in 0..Len(list)] ==
        IF n = 0 THEN <<>>
        ELSE IF \E p \in S : IsAncestorOf(p, list[n]) THEN kept[n - 1]
        ELSE Append(kept[n - 1], list[n])
  IN  kept[Len(list)]

RemovePathAndChildren(list, p) == Without(list, {p})

\* SortByPathname, then every path goes that lies below the last one kept.
RemoveChildren(list) ==
  LET sorted == SortSeq(list, LAMBDA a, b : Order[a] < Order[b])
      kept[n \in 0..Len(list)] ==
        IF n = 0 THEN <<>>
        ELSE IF kept[n - 1] # <<>> /\ IsAncestorOf(Last(kept[n - 1]), sorted[n]) THEN kept[n - 1]
        ELSE Append(kept[n - 1], sorted[n])
  IN  kept[Len(list)]

\* Where the strings of two paths part: one of them ends there, or a folder of
\* one does whose name the other's continues.
Fork(p, v) ==
  IF IsAncestorOf(p, v) THEN {p}
  ELSE {r \in Above[p] : \E x \in Above[v] \cup {v} : <<x, r>> \in Extends}
       \cup {r \in Above[v] : \E x \in Above[p] \cup {p} : <<x, r>> \in Extends}

\* The last watched path that has such a place decides.
NewRoot(p) ==
  LET K == {k \in 1..Len(watched) : Fork(p, watched[k]) # {}}
  IN  IF K = {} THEN NoPath ELSE CHOOSE r \in Fork(p, watched[Max(K)]) : TRUE

\* The list AddPath leaves behind.
Added(p) ==
  CASE IsPathWatched(p) -> watched
    [] ~IsPathWatched(p) /\ NewRoot(p) \in Versioned -> RemoveChildren(Append(watched, NewRoot(p)))
    [] OTHER -> Append(watched, p)

Allowed(p) == p \in Versioned /\ ~(blocked # NoPath /\ IsAncestorOf(blocked, p))

-----------------------------------------------------------------------------
(* Locks and handles *)

Free(t) == lock \in {"free", t}                \* a CRITICAL_SECTION is re-entrant
NoLocals == [i |-> 1, path |-> NoPath, numPaths |-> 0, numWatch |-> 0]
Go(t, label) == pc' = [pc EXCEPT ![t] = label]

\* RegisterDeviceNotification sends a message to the UI thread, once there is a
\* window for it.
Pumping == pc[Ui] = "idle" \/ op[Ui].kind = "load"

\* The infos that are freed; closing a handle ends its read, and an open port
\* is told of it.
Delete(S) ==
  /\ dir' = [k \in DOMAIN dir \ S |-> dir[k]]
  /\ open' = open \ S
  /\ reading' = reading \ S
  /\ packets' = packets \o SetToSeq(reading \cap S)

CleanupWatchInfo ==
  /\ Delete(scheduled)
  /\ scheduled' = {} /\ cleaned' = TRUE
  /\ UNCHANGED <<map, hPort, port>>

\* ClearInfoMap and CleanupWatchInfo in the worker, who alone waits at the port.
ClearAndCleanup ==
  /\ dir' = [k \in DOMAIN dir \ (map \cup scheduled) |-> dir[k]]
  /\ open' = open \ (map \cup scheduled)
  /\ reading' = {} /\ packets' = <<>>
  /\ hPort' = FALSE /\ port' = FALSE
  /\ map' = {} /\ scheduled' = {} /\ cleaned' = TRUE

CloseDirectories ==
  /\ open' = open \ map
  /\ reading' = reading \ map
  /\ packets' = packets \o SetToSeq(reading \cap map)
  /\ UNCHANGED <<hPort, port, dir>>

\* Reads go on after their port is gone, and nobody is told.
ClosePort == port' = FALSE /\ packets' = <<>> /\ reading' = {}

-----------------------------------------------------------------------------
(* WorkerThread *)

\* fault: the loop relies on the tests after the wait
Loop_Always ==
  /\ pc[Worker] = "loop"
  /\ Go(Worker, "cleanup")
  /\ UNCHANGED <<running, cleaned, lock, guard, lists, io, infos, op, pdi, w, count, gap, touched>>

Loop ==
  /\ pc[Worker] = "loop"
  /\ Go(Worker, IF running THEN "cleanup" ELSE "end")
  /\ UNCHANGED <<running, cleaned, lock, guard, lists, io, infos, op, pdi, w, count, gap, touched>>

Cleanup ==
  /\ pc[Worker] = "cleanup" /\ Free(Worker)
  /\ CleanupWatchInfo
  /\ Go(Worker, "reset")
  /\ UNCHANGED <<running, lock, guard, lists, op, pdi, w, count, gap, touched>>

\* Without paths it sleeps.
Reset ==
  /\ pc[Worker] = "reset"
  /\ IF watched = <<>> THEN Go(Worker, "loop") /\ UNCHANGED cleaned
                       ELSE Go(Worker, "wait") /\ cleaned' = FALSE
  /\ pdi' = Null
  /\ UNCHANGED <<running, lock, guard, lists, io, infos, op, w, count, gap, touched>>

\* GetQueuedCompletionStatus returns a completion, then the two checks without
\* the lock.
GetPacket ==
  /\ pc[Worker] = "wait" /\ port /\ packets # <<>>
  /\ pdi' = Head(packets) /\ packets' = Tail(packets)
  /\ Go(Worker, "check")
  /\ UNCHANGED <<running, cleaned, lock, guard, lists, hPort, port, dir, open, reading, infos,
                 op, w, count, gap, touched>>

\* fault: a completion is taken as it comes, infos or no infos
Check_Trusting ==
  /\ pc[Worker] = "check"
  /\ Go(Worker, IF running THEN "packet" ELSE "end")
  /\ UNCHANGED <<running, cleaned, lock, guard, lists, io, infos, op, pdi, w, count, gap, touched>>

Check ==
  /\ pc[Worker] = "check"
  /\ Go(Worker, CASE ~running -> "end"
                  [] running /\ map = {} -> "loop"
                  [] OTHER -> "packet")
  /\ UNCHANGED <<running, cleaned, lock, guard, lists, io, infos, op, pdi, w, count, gap, touched>>

\* The port is not there, or it is closed while the worker waits.
PortGone ==
  /\ pc[Worker] = "wait" /\ ~port
  /\ Go(Worker, "failed")
  /\ UNCHANGED <<running, cleaned, lock, guard, lists, io, infos, op, pdi, w, count, gap, touched>>

\* Nothing has happened for ten minutes.
WaitTimesOut ==
  /\ pc[Worker] = "wait" /\ port /\ packets = <<>>
  /\ Go(Worker, "failed")
  /\ UNCHANGED <<running, cleaned, lock, guard, lists, io, infos, op, pdi, w, count, gap, touched>>

\* m_hCompPort is closed before the lock is taken.
Failed ==
  /\ pc[Worker] = "failed"
  /\ IF ~running THEN Go(Worker, "end") /\ UNCHANGED <<port, packets, reading>>
     ELSE IF hPort THEN Go(Worker, "null") /\ ClosePort
     ELSE Go(Worker, "restart") /\ UNCHANGED <<port, packets, reading>>
  /\ UNCHANGED <<running, cleaned, lock, guard, lists, hPort, dir, open, infos, op, pdi, w,
                 count, gap, touched>>

NullPort ==
  /\ pc[Worker] = "null"
  /\ hPort' = FALSE
  /\ Go(Worker, "restart")
  /\ UNCHANGED <<running, cleaned, lock, guard, lists, port, packets, dir, open, reading, infos,
                 op, pdi, w, count, gap, touched>>

\* Watching all paths again begins; the lock is kept.
Restart ==
  /\ pc[Worker] = "restart" /\ Free(Worker)
  /\ lock' = Worker
  /\ ClearAndCleanup
  /\ w' = [w EXCEPT !.i = 1] /\ gap' = FALSE
  /\ Go(Worker, "open")
  /\ UNCHANGED <<running, guard, lists, op, pdi, count, touched>>

\* fault: the lock is kept during the registration
Open_Locked ==
  /\ pc[Worker] = "open"
  /\ w.i <= Len(watched)
  /\ w' = [i |-> w.i, path |-> watched[w.i], numPaths |-> Len(watched),
           numWatch |-> Cardinality(map)]
  /\ Go(Worker, "register")
  /\ UNCHANGED <<running, cleaned, lock, guard, lists, io, infos, op, pdi, count, gap, touched>>

\* CreateFile for the next path, and the counts that are compared later.  The
\* lock is given up for the registration.
Open ==
  /\ pc[Worker] = "open"
  /\ w.i <= Len(watched)
  /\ w' = [i |-> w.i, path |-> watched[w.i], numPaths |-> Len(watched),
           numWatch |-> Cardinality(map)]
  /\ lock' = "free"
  /\ Go(Worker, "register")
  /\ UNCHANGED <<running, cleaned, guard, lists, io, infos, op, pdi, count, gap, touched>>

\* CreateFile fails: the path is dropped, and those behind it have to wait.
OpenFails ==
  /\ pc[Worker] = "open"
  /\ w.i <= Len(watched) /\ count < MaxEvents
  /\ watched' = RemoveFirst(watched, watched[w.i])
  /\ gap' = (gap \/ (w.i > 1 /\ w.i < Len(watched)))
  /\ count' = count + 1
  /\ lock' = "free" /\ Go(Worker, "loop") /\ w' = NoLocals
  /\ UNCHANGED <<running, cleaned, guard, blocked, io, infos, op, pdi, touched>>

AllOpen ==
  /\ pc[Worker] = "open" /\ w.i > Len(watched)
  /\ lock' = "free" /\ Go(Worker, "loop") /\ w' = NoLocals
  /\ UNCHANGED <<running, cleaned, guard, lists, io, infos, op, pdi, count, gap, touched>>

Register ==
  /\ pc[Worker] = "register" /\ Pumping
  /\ Go(Worker, "relock")
  /\ UNCHANGED <<running, cleaned, lock, guard, lists, io, infos, op, pdi, w, count, gap, touched>>

\* fault: the infos are not counted again
Same_Paths == w.numPaths = Len(watched)

Same == w.numPaths = Len(watched) /\ w.numWatch = Cardinality(map)

\* What it cannot notice: a call came, and left the counts alike.
Unnoticed == touched /\ w.numPaths = Len(watched) /\ w.numWatch = Cardinality(map)

\* Somebody has been here: start again.
Changed ==
  /\ pc[Worker] = "relock" /\ Free(Worker) /\ ~Same
  /\ ClearAndCleanup
  /\ lock' = "free" /\ touched' = FALSE /\ Go(Worker, "loop") /\ w' = NoLocals
  /\ UNCHANGED <<running, guard, lists, op, pdi, count, gap>>

\* Addresses that nothing refers to; not to use one again that a stale pointer
\* has makes the pointer visible.
NewInfos == Info \ (DOMAIN dir \cup {pdi} \cup ToSet(packets))

\* A new info, its port and its first read.
Watch ==
  /\ pc[Worker] = "relock" /\ Free(Worker) /\ Same
  /\ NewInfos # {}
  /\ LET k == CHOOSE k \in NewInfos : TRUE
     IN  /\ dir' = [x \in DOMAIN dir \cup {k} |-> IF x = k THEN w.path ELSE dir[x]]
         /\ open' = open \cup {k}
         /\ reading' = reading \cup {k}
         /\ map' = map \cup {k}
  /\ hPort' = TRUE /\ port' = TRUE
  /\ w' = [w EXCEPT !.i = @ + 1]
  /\ gap' = (gap \/ Unnoticed)
  /\ touched' = FALSE
  /\ lock' = Worker /\ Go(Worker, "open")
  /\ UNCHANGED <<running, cleaned, guard, lists, packets, scheduled, op, pdi, count>>

\* CreateIoCompletionPort or ReadDirectoryChangesW fails.
WatchFails ==
  /\ pc[Worker] = "relock" /\ Free(Worker) /\ Same /\ count < MaxEvents
  /\ ClearAndCleanup
  /\ watched' = RemoveFirst(watched, w.path)
  /\ count' = count + 1
  /\ lock' = "free" /\ touched' = FALSE /\ Go(Worker, "loop") /\ w' = NoLocals
  /\ UNCHANGED <<running, guard, blocked, op, pdi, gap>>

\* The completion is of an info that is still watched: the next read begins
\* before its paths are told.  A read that fails is not begun again.
Rearm ==
  /\ pc[Worker] = "packet" /\ Free(Worker) /\ ~cleaned
  /\ pdi \in open /\ pdi \in map
  /\ \/ reading' = reading \cup {pdi} /\ UNCHANGED <<gap, count>>
     \/ /\ count < MaxEvents
        /\ count' = count + 1
        /\ gap' = TRUE /\ UNCHANGED reading
  /\ Go(Worker, "tell")
  /\ UNCHANGED <<running, cleaned, lock, guard, lists, hPort, port, packets, dir, open, infos,
                 op, pdi, w, touched>>

Dismiss ==
  /\ pc[Worker] = "packet" /\ Free(Worker)
  /\ cleaned \/ pdi \notin open \/ pdi \notin map
  /\ cleaned' = FALSE
  /\ Go(Worker, "loop")
  /\ UNCHANGED <<running, lock, guard, lists, io, infos, op, pdi, w, count, gap, touched>>

\* The paths go to the crawler's queue; then CleanupWatchInfo.
Tell ==
  /\ pc[Worker] = "tell" /\ Free(Worker)
  /\ CleanupWatchInfo
  /\ Go(Worker, "loop")
  /\ UNCHANGED <<running, lock, guard, lists, op, pdi, w, count, gap, touched>>

-----------------------------------------------------------------------------
(* The clients *)

Serving == op[Ui].kind # "destroy"
Call(c, o) == op' = [op EXCEPT ![c] = o]
NoCall == [kind |-> "none"]
Unguard(c) == guard' = IF guard = c THEN "free" ELSE guard
Came == touched' = \/ touched
                   \/ /\ pc[Worker] \in {"register", "relock"}
                      /\ map # {} \/ watched' # watched

\* A path whose working copy has been loaded from disk, before there is another
\* thread than the worker: AddPath (path, false).
LoadPath(p) ==
  /\ pc[Ui] = "load" /\ Free(Ui)
  /\ Allowed(p) /\ ~IsPathWatched(p)
  /\ watched' = Added(p) /\ Came
  /\ UNCHANGED <<running, cleaned, lock, guard, blocked, io, infos, pc, op, pdi, w, count, gap>>

\* All is loaded: ClearInfoMap.
Loaded ==
  /\ pc[Ui] = "load"
  /\ Go(Ui, "enter")
  /\ UNCHANGED <<running, cleaned, lock, guard, lists, io, infos, op, pdi, w, count, gap, touched>>

\* The crawler, which holds the guard for reading, finds a folder not watched.
AskWatch(p) ==
  /\ pc[Crawler] = "idle" /\ guard = "free" /\ Serving
  /\ Allowed(p) /\ ~IsPathWatched(p)
  /\ guard' = Crawler
  /\ Call(Crawler, [kind |-> "add", path |-> p]) /\ Go(Crawler, "enter")
  /\ UNCHANGED <<running, cleaned, lock, lists, io, infos, pdi, w, count, gap, touched>>

\* A device goes (WM_DEVICECHANGE: of a handle, of a volume, of anything), or a
\* command releases a path.
CloseWatcherHandles(c, o) ==
  /\ pc[c] = "idle" /\ Serving /\ count < MaxEvents
  /\ count' = count + 1
  /\ Call(c, o) /\ Go(c, "guard")
  /\ UNCHANGED <<running, cleaned, lock, guard, lists, io, infos, pdi, w, gap, touched>>

\* The session ends.
Shutdown ==
  /\ pc[Ui] = "idle"
  /\ Call(Ui, [kind |-> "stop"]) /\ Go(Ui, "guard")
  /\ UNCHANGED <<running, cleaned, lock, guard, lists, io, infos, pdi, w, count, gap, touched>>

AfterGuard(c) == Go(c, IF op[c].kind = "stop" THEN "stop" ELSE "enter")

TakeGuard(c) ==
  /\ pc[c] = "guard" /\ guard = "free"
  /\ guard' = c /\ AfterGuard(c)
  /\ UNCHANGED <<running, cleaned, lock, lists, io, infos, op, pdi, w, count, gap, touched>>

\* WM_QUERYENDSESSION waits 200 ms for the guard.
GuardTimesOut(c) ==
  /\ pc[c] = "guard" /\ op[c].kind = "stop"
  /\ AfterGuard(c)
  /\ UNCHANGED <<running, cleaned, lock, guard, lists, io, infos, op, pdi, w, count, gap, touched>>

Stop(c) ==
  /\ pc[c] = "stop"
  /\ running' = FALSE
  /\ Go(c, "enter")
  /\ UNCHANGED <<cleaned, lock, guard, lists, io, infos, op, pdi, w, count, gap, touched>>

\* AddPath, all but the closing of handles.
AddPath(c) ==
  /\ pc[c] = "enter" /\ Free(c) /\ op[c].kind = "add"
  /\ IF IsPathWatched(op[c].path)
     THEN /\ Go(c, "idle") /\ Unguard(c) /\ Call(c, NoCall)
          /\ UNCHANGED <<lock, lists, io, touched>>
     ELSE /\ watched' = Added(op[c].path) /\ CloseDirectories
          /\ lock' = c /\ Go(c, "port") /\ Came
          /\ UNCHANGED <<guard, blocked, op>>
  /\ UNCHANGED <<running, cleaned, infos, pdi, w, count, gap>>

\* The other calls begin to close handles; CloseInfoMap drops and blocks the
\* drive before, if it knows the handle.
CloseWatchHandles(c) ==
  /\ pc[c] = "enter" /\ Free(c) /\ op[c].kind # "add"
  /\ IF op[c].kind = "info" /\ op[c].info \in map
     THEN watched' = RemovePathAndChildren(watched, Drive) /\ blocked' = Drive
     ELSE UNCHANGED lists
  /\ CloseDirectories
  /\ lock' = c /\ Go(c, "port") /\ Came
  /\ UNCHANGED <<running, cleaned, guard, infos, op, pdi, w, count, gap>>

CloseCompletionPort(c) ==
  /\ pc[c] = "port"
  /\ IF hPort THEN ClosePort ELSE UNCHANGED <<port, packets, reading>>
  /\ Go(c, "null")
  /\ UNCHANGED <<running, cleaned, lock, guard, lists, hPort, dir, open, infos, op, pdi, w,
                 count, gap, touched>>

\* fault: the infos stay in the map
ScheduleForDeletion_Keeps == scheduled' = scheduled \cup map /\ UNCHANGED map

ScheduleForDeletion == scheduled' = scheduled \cup map /\ map' = {}

\* ClearInfoMap gives the lock up before it clears the map; Stop does not.
LetGo(c) ==
  /\ pc[c] = "null" /\ op[c].kind \in {"load", "clear", "stop"}
  /\ hPort' = FALSE
  /\ lock' = "free" /\ Go(c, IF op[c].kind = "stop" THEN "join" ELSE "clear")
  /\ UNCHANGED <<running, cleaned, guard, lists, port, packets, dir, open, reading, infos, op,
                 pdi, w, count, gap, touched>>

\* The paths of the infos below a path that is released go, one is blocked.
Release(p) ==
  LET S == {dir[k] : k \in {k \in map : IsAncestorOf(p, dir[k])}}
  IN  /\ watched' = Without(watched, S)
      /\ IF S = {} THEN UNCHANGED blocked ELSE blocked' \in S

ClearMap(c) ==
  /\ pc[c] = "null" /\ op[c].kind \in {"add", "info", "path"}
  /\ hPort' = FALSE
  /\ IF op[c].kind = "path" THEN Release(op[c].path) ELSE UNCHANGED lists
  /\ ScheduleForDeletion /\ Came
  /\ lock' = "free" /\ Unguard(c) /\ Go(c, "idle") /\ Call(c, NoCall)
  /\ UNCHANGED <<running, cleaned, port, packets, dir, open, reading, pdi, w, count, gap>>

\* The other half of ClearInfoMap.  What the worker has opened in between is not
\* closed.  After loading the other threads are started.
ClearInfoMap(c) ==
  /\ pc[c] = "clear" /\ (map = {} \/ Free(c))
  /\ ScheduleForDeletion
  /\ gap' = (gap \/ map \cap open # {})
  /\ Unguard(c)
  /\ pc' = IF op[c].kind = "load" THEN [t \in Thread |-> IF t = Worker THEN pc[t] ELSE "idle"]
                                  ELSE [pc EXCEPT ![c] = "idle"]
  /\ Call(c, NoCall)
  /\ UNCHANGED <<running, cleaned, lock, lists, io, pdi, w, count>> /\ Came

\* Stop waits for the worker, but four seconds only.
Join(c) ==
  /\ pc[c] = "join"
  /\ Unguard(c) /\ Go(c, "stopped")
  /\ UNCHANGED <<running, cleaned, lock, lists, io, infos, op, pdi, w, count, gap, touched>>

\* The message loop is left: the destructor, after the other threads had time to
\* come to an end.
Destroy(c) ==
  /\ pc[c] = "stopped" /\ \A x \in Client \ {c} : pc[x] = "idle"
  /\ Call(c, [kind |-> "destroy"]) /\ Go(c, "enter")
  /\ UNCHANGED <<running, cleaned, lock, guard, lists, io, infos, pdi, w, count, gap, touched>>

Destroyed(c) ==
  /\ pc[c] = "null" /\ op[c].kind = "destroy"
  /\ ClearAndCleanup
  /\ lock' = "free" /\ Go(c, "gone")
  /\ UNCHANGED <<running, guard, lists, op, pdi, w, count, gap, touched>>

-----------------------------------------------------------------------------
(* The environment *)

\* Something changes below a directory that is read, or the kernel has kept it.
Change(k) ==
  /\ k \in reading
  /\ reading' = reading \ {k} /\ packets' = Append(packets, k)
  /\ UNCHANGED <<running, cleaned, lock, guard, lists, hPort, port, dir, open, infos, pc, op,
                 pdi, w, count, gap, touched>>

\* Four seconds after a path was blocked.
BlockEnds ==
  /\ blocked # NoPath /\ blocked' = NoPath
  /\ UNCHANGED <<running, cleaned, lock, guard, watched, io, infos, pc, op, pdi, w, count, gap,
                 touched>>

-----------------------------------------------------------------------------
Init ==
  /\ running = TRUE /\ cleaned = FALSE
  /\ lock = "free" /\ guard = "free"
  /\ watched = <<>> /\ blocked = NoPath
  /\ hPort = FALSE /\ port = FALSE /\ packets = <<>>
  /\ dir = [k \in {} |-> NoPath] /\ open = {} /\ reading = {}
  /\ map = {} /\ scheduled = {}
  /\ pc = [t \in Thread |-> CASE t = Worker -> "loop" [] t = Ui -> "load" [] OTHER -> "off"]
  /\ op = [c \in Client |-> IF c = Ui THEN [kind |-> "load"] ELSE NoCall]
  /\ pdi = Null
  /\ w = NoLocals
  /\ count = 0
  /\ gap = FALSE /\ touched = FALSE

Work == \/ Loop \/ Cleanup \/ Reset \/ GetPacket \/ Check \/ PortGone \/ Failed \/ NullPort \/ Restart
        \/ Open \/ OpenFails \/ AllOpen \/ Register \/ Changed \/ Watch \/ WatchFails \/ Rearm
        \/ Dismiss \/ Tell

\* Steps of a call that has begun, the first of the UI thread before the others.
Lockless(c) == \/ Stop(c) \/ CloseCompletionPort(c) \/ LetGo(c) \/ ClearMap(c) \/ Join(c)
               \/ Destroy(c) \/ Destroyed(c) \/ (c = Ui /\ Loaded)
Locking(c) == TakeGuard(c) \/ AddPath(c) \/ CloseWatchHandles(c) \/ ClearInfoMap(c)

Begin == \/ \E p \in Dir : LoadPath(p) \/ AskWatch(p)
         \/ Shutdown
         \/ \E o \in {[kind |-> "info", info |-> k] : k \in open \cup {Null}} \cup {[kind |-> "clear"]}
                       \cup {[kind |-> "path", path |-> Drive]} :
              CloseWatcherHandles(Ui, o)
         \/ \E p \in Versioned : CloseWatcherHandles(Pipe, [kind |-> "path", path |-> p])

Next ==
  \/ Work \/ WaitTimesOut
  \/ \E c \in Client : Lockless(c) \/ Locking(c) \/ GuardTimesOut(c)
  \/ Begin
  \/ (\E k \in Info : Change(k)) \/ BlockEnds

\* Threads run, and get the lock if it is free again and again; the wait for
\* packets may take its ten minutes for ever.
Fairness == WF_vars(Work) /\ \A c \in Client : WF_vars(Lockless(c)) /\ SF_vars(Locking(c))

Spec == Init /\ [][Next]_vars /\ Fairness

-----------------------------------------------------------------------------
(* Properties *)

TypeOK ==
  /\ {running, cleaned, hPort, port, gap, touched} \subseteq BOOLEAN
  /\ lock \in Thread \cup {"free"} /\ guard \in Client \cup {"free"}
  /\ watched \in Seq(Dir) /\ blocked \in Dir \cup {NoPath}
  /\ packets \in Seq(Info)
  /\ \A k \in DOMAIN dir : dir[k] \in Dir
  /\ DOMAIN dir \subseteq Info /\ open \subseteq Info /\ reading \subseteq Info /\ map \subseteq Info /\ scheduled \subseteq Info
  /\ DOMAIN pc = Thread /\ DOMAIN op = Client
  /\ pdi \in Info \cup {Null}

\* InfosAccounted: every CDirWatchInfo is in the map or scheduled for deletion,
\* and not in both, whatever calls and failures come between: none is leaked and
\* none deleted twice; and a directory handle or a read belongs to one of them.
InfosAccounted ==
  /\ map \cap scheduled = {}
  /\ DOMAIN dir = map \cup scheduled
  /\ reading \subseteq open /\ open \subseteq map \cup scheduled

\* NoDangling: "If the objects haven't been cleared, we can access them here": a
\* completion may come from an object that has been deleted since, by the worker
\* or by the destructor; none of these gets past the checks in WorkerThread.
NoDangling == pc[Worker] = "packet" /\ ~cleaned => pdi \in DOMAIN dir

\* The worker waits, and nobody is about to do something that wakes it.
Quiet ==
  /\ pc[Worker] = "wait" /\ port /\ running
  /\ \A c \in Client : pc[c] \in {"idle", "off", "guard"}

AllWatched ==
  Quiet => \A n \in 1..Len(watched) : \E k \in map :
             dir[k] = watched[n] /\ k \in open /\ (k \in reading \/ k \in ToSet(packets))

\* WatchedOrGap: when WorkerThread waits at the port, each path of the list has an
\* open directory with a read outstanding, unless one of four things has happened
\* since it began to watch all paths again: a folder could not be opened and those
\* behind it were put off, a read failed, ClearInfoMap was overtaken between its
\* halves, or a call came while the lock was given up and left the counts alike.
WatchedOrGap == ~gap => AllWatched

\* The port is closed, and somebody is about to close it again through the member
\* that still has its handle.
PortClosedOnce ==
  hPort /\ ~port => /\ ~(pc[Worker] = "failed" /\ running)
                    /\ \A c \in Client : pc[c] # "port"

\* StopReaches: Stop gets the worker out of wherever it is, without the ten minutes
\* at the port, but for the call that needs the UI thread, which Stop blocks.
StopReaches == ~running ~> pc[Worker] = "end" \/ (pc[Worker] = "register" /\ ~Pumping)

\* CallsReturn: the worker registers a directory while the UI thread may wait for
\* the guard, the crawler, which has the guard, for the lock: nobody waits for
\* ever, every call ends.
CallsReturn ==
  []<>(\A c \in Client : pc[c] \in {"off", "load", "idle", "stopped", "gone"})

=============================================================================
