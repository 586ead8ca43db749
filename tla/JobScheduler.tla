---------------------------- MODULE JobScheduler ----------------------------
(***************************************************************************)
(* CJobScheduler: schedulers with private worker threads that borrow more  *)
(* threads from the shared pool, the worker threads, and the clients that  *)
(* add jobs, stop and resume a scheduler, trim its queue, wait for it or   *)
(* destroy it.                                                             *)
(*                                                                         *)
(* A method runs under its scheduler's mutex (lock).  It is one action as  *)
(* long as it makes one call into the pool; a method that makes several,   *)
(* or that enters another scheduler, is a sequence of actions during which *)
(* the mutex stays taken.  Waiting jobs are counted: their order is the    *)
(* subject of JobQueue, their objects that of Job.                         *)
(***************************************************************************)
EXTENDS ThreadPool

CONSTANTS
  Client,         \* threads that use the schedulers
  None,           \* no scheduler, no thread
  threadCount,    \* [Sched -> Nat]: private threads
  sharedThreads,  \* [Sched -> Nat]: threads that may be borrowed
  aggressiveThreading,  \* [Sched -> BOOLEAN]
  MaxJobs,        \* bound: calls of Schedule
  MaxStops,       \* bound: calls of Stop
  Trims,          \* clients call RemoveJobFromQueue
  Exits,          \* the pool is destroyed at some moment
  Destroys        \* clients destroy schedulers

ASSUME SchedulerAssumption ==
  /\ None \notin Sched \cup Thread \cup Client
  /\ Client \cap Thread = {}
  /\ threadCount \in [Sched -> Nat]
  /\ sharedThreads \in [Sched -> Nat]
  /\ aggressiveThreading \in [Sched -> BOOLEAN]
  /\ MaxJobs \in Nat /\ MaxStops \in Nat
  /\ {Trims, Exits, Destroys} \subseteq BOOLEAN

VARIABLES
  threads,     \* [Sched -> SThreads]
  queue,       \* [Sched -> Nat]: jobs that wait
  emptyEvent,  \* [Sched -> BOOLEAN]
  life,        \* [Sched -> alive, dying in the destructor, gone]
  lock,        \* [Sched -> who holds the mutex]
  poolLock,    \* who holds the pool's mutex beyond one action
  owner,       \* [Thread -> Sched or None]: SThreadInfo::owner
  suspended,   \* [Thread -> BOOLEAN]: CThread::suspended
  pc,          \* [Thread and Client -> next step]
  home,        \* the scheduler in whose method a thread or client is
  target,      \* the scheduler that a thread in Release notifies
  budget       \* calls of Schedule and Stop still allowed

schedVars == <<threads, queue, emptyEvent, life>>
lockVars  == <<lock, poolLock>>
workVars  == <<owner, suspended>>
ctrlVars  == <<pc, home, target>>
vars == <<poolVars, schedVars, lockVars, workVars, ctrlVars, budget>>

Actor == Thread \cup Client

\* The pool has been given its size by the first scheduler's constructor.
Init ==
  /\ pool = {} /\ lent = {} /\ starving = << >>
  /\ allocCount = 0 /\ maxCount = HWThreads /\ yetToCreate = HWThreads
  /\ threads = [s \in Sched |->
       [running |-> {}, suspended |-> {}, runningCount |-> 0,
        suspendedCount |-> 0, yetToCreate |-> threadCount[s],
        fromShared |-> 0, unusedCount |-> threadCount[s] + sharedThreads[s],
        starved |-> FALSE, stopCount |-> 0]]
  /\ queue = [s \in Sched |-> 0]
  /\ emptyEvent = [s \in Sched |-> FALSE]
  /\ life = [s \in Sched |-> "alive"]
  /\ lock = [s \in Sched |-> None] /\ poolLock = None
  /\ owner = [t \in Thread |-> None]
  /\ suspended = [t \in Thread |-> TRUE]
  /\ pc = [a \in Actor |-> IF a \in Thread THEN "none" ELSE "idle"]
  /\ home = [a \in Actor |-> None]
  /\ target = [t \in Thread |-> None]
  /\ budget = [jobs |-> MaxJobs, stops |-> MaxStops]

Goto(a, label) == pc' = [pc EXCEPT ![a] = label]

\* Threads that do not exist yet, or no longer.
Fresh == {t \in Thread : pc[t] = "none"}

\* How a method goes on: with its next step, or out of the scheduler.  A
\* client is then done; a thread was in ThreadAvailable and returns to the
\* loop in Release.
Continue(a, s, label) ==
  /\ lock' = [lock EXCEPT ![s] = IF label = "leave" THEN None ELSE a]
  /\ UNCHANGED poolLock

After(a, label) ==
  IF label # "leave" THEN label ELSE IF a \in Client THEN "idle" ELSE "select"

-----------------------------------------------------------------------------
(* Getting a thread to work for scheduler s, on behalf of actor a. *)

\* fault: the thread is not resumed
Activate_NoResume(a, s, t, label, th) ==
  /\ threads' = [threads EXCEPT ![s] = [th EXCEPT
       !.running = @ \cup {t}, !.runningCount = @ + 1, !.unusedCount = @ - 1]]
  /\ pc' = [pc EXCEPT ![t] = IF @ = "none" THEN "parked" ELSE @,
                      ![a] = After(a, label)]
  /\ UNCHANGED suspended

\* The thread joins the running ones and is resumed.  A thread that is still
\* on its way out of its last AssignJob keeps its place in the code.
Activate(a, s, t, label, th) ==
  /\ threads' = [threads EXCEPT ![s] = [th EXCEPT
       !.running = @ \cup {t}, !.runningCount = @ + 1, !.unusedCount = @ - 1]]
  /\ suspended' = [suspended EXCEPT ![t] = FALSE]
  /\ pc' = [pc EXCEPT ![t] = IF @ = "none" THEN "parked" ELSE @,
                      ![a] = After(a, label)]

\* fault: the borrowed thread is not counted as a debt
AllocateSharedThread_NoDebt(a, s, ok, failed) ==
  LET th == threads[s]
  IN  \/ /\ ~th.starved /\ poolLock = None
         /\ \E t \in Thread : /\ TryAlloc(t, Fresh)
                            /\ Activate(a, s, t, ok, th)
                            /\ owner' = [owner EXCEPT ![t] = s]
         /\ Continue(a, s, ok)
      \/ /\ th.starved \/ TryAllocFails
         /\ Continue(a, s, failed) /\ Goto(a, After(a, failed))
         /\ UNCHANGED <<poolVars, threads, workVars>>

AllocateSharedThread(a, s, ok, failed) ==
  LET th == threads[s]
  IN  \/ /\ th.starved
         /\ Continue(a, s, failed) /\ Goto(a, After(a, failed))
         /\ UNCHANGED <<poolVars, threads, workVars>>
      \/ /\ ~th.starved /\ poolLock = None
         /\ \E t \in Thread :
              /\ TryAlloc(t, Fresh)
              /\ Activate(a, s, t, ok, [th EXCEPT !.fromShared = @ + 1])
              /\ owner' = [owner EXCEPT ![t] = s]
         /\ Continue(a, s, ok)
      \/ /\ ~th.starved /\ poolLock = None
         /\ TryAllocFails
         /\ threads' = [threads EXCEPT ![s].starved = TRUE]
         /\ Continue(a, s, "starve") /\ Goto(a, "starve")
         /\ UNCHANGED <<poolVars, workVars>>

AllocateThread(a, s, ok, failed) ==
  LET th == threads[s]
  IN  \/ /\ th.suspendedCount > 0
         /\ \E t \in th.suspended :
              Activate(a, s, t, ok, [th EXCEPT !.suspended = @ \ {t},
                                               !.suspendedCount = @ - 1])
         /\ Continue(a, s, ok)
         /\ UNCHANGED <<poolVars, owner>>
      \/ /\ th.suspendedCount = 0 /\ th.yetToCreate > 0
         /\ \E t \in Fresh :
              /\ Activate(a, s, t, ok, [th EXCEPT !.yetToCreate = @ - 1])
              /\ owner' = [owner EXCEPT ![t] = s]
         /\ Continue(a, s, ok)
         /\ UNCHANGED poolVars
      \/ /\ th.suspendedCount = 0 /\ th.yetToCreate = 0
         /\ th.fromShared < sharedThreads[s]
         /\ AllocateSharedThread(a, s, ok, failed)
      \/ /\ th.suspendedCount = 0 /\ th.yetToCreate = 0
         /\ ~(th.fromShared < sharedThreads[s])
         /\ Continue(a, s, failed) /\ Goto(a, After(a, failed))
         /\ UNCHANGED <<poolVars, threads, workVars>>

\* The end of AllocateSharedThread when the pool was exhausted.
Starve(a, s) ==
  /\ pc[a] = "starve"
  /\ poolLock = None
  /\ AddStarving(s)
  /\ Continue(a, s, "leave") /\ Goto(a, After(a, "leave"))
  /\ UNCHANGED <<schedVars, workVars, home, target, budget>>

-----------------------------------------------------------------------------
(* Clients *)

Schedule(c, s) ==
  LET th == threads[s]
      addThread == \/ aggressiveThreading[s]
                   \/ queue[s] + 1 > 2 * th.runningCount /\ th.unusedCount > 0
  IN  /\ pc[c] = "idle" /\ lock[s] = None
      /\ budget.jobs > 0
      /\ budget' = [budget EXCEPT !.jobs = @ - 1]
      /\ queue' = [queue EXCEPT ![s] = @ + 1]
      /\ emptyEvent' = [emptyEvent EXCEPT ![s] = IF queue[s] = 0 THEN FALSE ELSE @]
      /\ home' = [home EXCEPT ![c] = s]
      /\ IF th.stopCount = 0 /\ addThread
           THEN AllocateThread(c, s, "leave", "leave")
           ELSE UNCHANGED <<poolVars, threads, lockVars, workVars, pc>>
      /\ UNCHANGED <<life, target>>

Stop(c, s) ==
  /\ pc[c] = "idle" /\ lock[s] = None
  /\ budget.stops > 0
  /\ budget' = [budget EXCEPT !.stops = @ - 1]
  /\ threads' = [threads EXCEPT ![s].stopCount = @ + 1]
  /\ UNCHANGED <<poolVars, queue, emptyEvent, life, lockVars, workVars, ctrlVars>>

\* fault: only the counter is changed, no thread is started
Resume_NoThreads(c, s) ==
  /\ pc[c] = "idle" /\ lock[s] = None
  /\ threads[s].stopCount > 0
  /\ threads' = [threads EXCEPT ![s].stopCount = @ - 1]
  /\ UNCHANGED <<poolVars, queue, emptyEvent, life, lockVars, workVars, ctrlVars, budget>>

\* Callers resume what they have stopped (CSchedulerSuspension).
Resume(c, s) ==
  /\ pc[c] = "idle" /\ lock[s] = None
  /\ threads[s].stopCount > 0
  /\ threads' = [threads EXCEPT ![s].stopCount = @ - 1]
  /\ IF threads[s].stopCount = 1
       THEN Continue(c, s, "resume") /\ Goto(c, "resume")
       ELSE UNCHANGED <<lockVars, pc>>
  /\ home' = [home EXCEPT ![c] = s]
  /\ UNCHANGED <<poolVars, queue, emptyEvent, life, workVars, target, budget>>

\* One round of the loop in Resume.
ResumeLoop(c, s) ==
  LET th == threads[s]
      more == \/ queue[s] > th.runningCount /\ aggressiveThreading[s]
              \/ queue[s] > 4 * th.runningCount /\ th.unusedCount > 0
  IN  /\ pc[c] = "resume"
      /\ IF more
           THEN AllocateThread(c, s, "resume", "leave")
           ELSE /\ Continue(c, s, "leave") /\ Goto(c, "idle")
                /\ UNCHANGED <<poolVars, threads, workVars>>
      /\ UNCHANGED <<queue, emptyEvent, life, home, target, budget>>

\* RemoveJobFromQueue
Trim(c, s, watermark) ==
  /\ Trims
  /\ pc[c] = "idle" /\ lock[s] = None
  /\ queue[s] > watermark
  /\ queue' = [queue EXCEPT ![s] = watermark]
  /\ UNCHANGED <<poolVars, threads, emptyEvent, life, lockVars, workVars, ctrlVars,
                 budget>>

\* One round of WaitForEmptyQueueOrTimeout up to the wait: a stopped
\* scheduler's jobs are dropped.
WaitForEmptyQueue(c, s, from) ==
  LET left == IF threads[s].stopCount # 0 THEN 0 ELSE queue[s]
  IN  /\ pc[c] = from /\ lock[s] = None
      /\ queue' = [queue EXCEPT ![s] = left]
      /\ IF threads[s].runningCount = 0 /\ left = 0
           THEN /\ Goto(c, IF life[s] = "dying" THEN "delete" ELSE "idle")
                /\ UNCHANGED emptyEvent
           ELSE /\ Goto(c, "armed")
                /\ emptyEvent' = [emptyEvent EXCEPT ![s] = FALSE]
      /\ home' = [home EXCEPT ![c] = s]
      /\ UNCHANGED <<poolVars, threads, life, lockVars, workVars, target, budget>>

\* WaitForSingleObject on the event: returns at once if it is set.
BeginWait(c, s) ==
  /\ pc[c] = "armed"
  /\ Goto(c, IF emptyEvent[s] THEN "woken" ELSE "blocked")
  /\ UNCHANGED <<poolVars, schedVars, lockVars, workVars, home, target, budget>>

\* The destructor waits without a timeout.
Timeout(c) ==
  /\ pc[c] = "blocked" /\ life[home[c]] = "alive"
  /\ Goto(c, "idle")
  /\ UNCHANGED <<poolVars, schedVars, lockVars, workVars, home, target, budget>>

\* ~CJobScheduler, when nobody else uses the scheduler and who has stopped it
\* has resumed it.  StopStarvation spins, here without the scheduler's mutex: a
\* notification under way still needs the scheduler.
Destroy(c, s) ==
  /\ Destroys
  /\ pc[c] = "idle" /\ threads[s].stopCount = 0
  /\ \A d \in Client : home[d] = s => pc[d] \in {"idle", "exit"}
  /\ life' = [life EXCEPT ![s] = "dying"]
  /\ home' = [home EXCEPT ![c] = s]
  /\ Goto(c, "unstarve")
  /\ UNCHANGED <<poolVars, threads, queue, emptyEvent, lockVars, workVars, target, budget>>

\* fault: the scheduler is taken off the list if it is there, without the loop
EndStarvation_NoLoop(c, s) ==
  /\ pc[c] = "unstarve" /\ poolLock = None
  /\ IF threads[s].starved THEN RemoveStarving(s) ELSE UNCHANGED poolVars
  /\ threads' = [threads EXCEPT ![s].starved = FALSE]
  /\ Goto(c, "destroy")
  /\ UNCHANGED <<queue, emptyEvent, life, lockVars, workVars, home, target, budget>>

EndStarvation(c, s) ==
  /\ pc[c] = "unstarve"
  /\ IF threads[s].starved
       THEN poolLock = None /\ IsStarving(s) /\ RemoveStarving(s)
       ELSE UNCHANGED poolVars
  /\ threads' = [threads EXCEPT ![s].starved = FALSE]
  /\ Goto(c, "destroy")
  /\ UNCHANGED <<queue, emptyEvent, life, lockVars, workVars, home, target, budget>>

\* Then WaitForEmptyQueue, and the private threads go, each of which is waited for.
DeleteThreads(c, s) ==
  /\ pc[c] = "delete"
  /\ \A t \in threads[s].suspended : pc[t] = "parked"
  /\ pc' = [a \in Actor |-> CASE a = c -> "idle"
                               [] a \in threads[s].suspended -> "none"
                               [] OTHER -> pc[a]]
  /\ threads' = [threads EXCEPT ![s].suspended = {}]
  /\ life' = [life EXCEPT ![s] = "gone"]
  /\ UNCHANGED <<poolVars, queue, emptyEvent, lockVars, workVars, home, target, budget>>

\* ~CThreadPool: SetThreadCount (0).  Deleting an idle thread waits until it
\* has left its thread function, with the pool's mutex taken.
Exit(c) ==
  \/ /\ Exits
     /\ pc[c] = "idle" /\ poolLock = None /\ maxCount # 0
     /\ maxCount' = 0
     /\ poolLock' = c
     /\ Goto(c, "exit")
     /\ UNCHANGED <<pool, lent, allocCount, yetToCreate, starving, schedVars,
                    lock, workVars, home, target, budget>>
  \/ /\ pc[c] = "exit"
     /\ IF pool = {}
          THEN /\ poolLock' = None /\ Goto(c, "idle") /\ UNCHANGED pool
          ELSE /\ \E t \in pool : /\ pc[t] = "parked"
                                  /\ pool' = pool \ {t}
                                  /\ Goto(t, "none")
               /\ UNCHANGED poolLock
     /\ UNCHANGED <<lent, allocCount, maxCount, yetToCreate, starving,
                    schedVars, lock, workVars, home, target, budget>>

ClientStep(c) ==
  \/ \E s \in {s \in Sched : life[s] = "alive"} :
       \/ Schedule(c, s) \/ Stop(c, s) \/ Resume(c, s)
       \/ WaitForEmptyQueue(c, s, "idle")
       \/ Destroy(c, s)
       \/ \E watermark \in 0..MaxJobs : Trim(c, s, watermark)
  \/ \E s \in {home[c]} \ {None} :
       \/ ResumeLoop(c, s) \/ Starve(c, s)
       \/ BeginWait(c, s) \/ WaitForEmptyQueue(c, s, "woken")
       \/ EndStarvation(c, s) \/ WaitForEmptyQueue(c, s, "destroy") \/ DeleteThreads(c, s)
  \/ Timeout(c) \/ Exit(c)

-----------------------------------------------------------------------------
(* Worker threads *)

\* CThread::ThreadFunc: a thread that has been resumed calls AssignJob.
Wake(t) ==
  /\ pc[t] = "parked" /\ ~suspended[t]
  /\ Goto(t, "assign")
  /\ UNCHANGED <<poolVars, schedVars, lockVars, workVars, home, target, budget>>

\* AssignJob returns a job ...
TakeJob(t, s) ==
  /\ pc[t] = "assign" /\ lock[s] = None
  /\ queue[s] > 0 /\ threads[s].stopCount = 0
  /\ queue' = [queue EXCEPT ![s] = @ - 1]
  /\ Goto(t, "execute")
  /\ UNCHANGED <<poolVars, threads, emptyEvent, life, lockVars, workVars, home,
                 target, budget>>

\* ... that ThreadFunc executes ...
ExecuteJob(t) ==
  /\ pc[t] = "execute"
  /\ Goto(t, "assign")
  /\ UNCHANGED <<poolVars, schedVars, lockVars, workVars, home, target, budget>>

\* fault: the thread does not become available again
Retire_NoUnused(t, s, th, label) ==
  /\ threads' = [threads EXCEPT ![s] = [th EXCEPT !.runningCount = @ - 1]]
  /\ Goto(t, label) /\ UNCHANGED emptyEvent

\* fault: the event is not set
Retire_NoEvent(t, s, th, label) ==
  /\ threads' = [threads EXCEPT ![s] = [th EXCEPT
                   !.unusedCount = @ + 1, !.runningCount = @ - 1]]
  /\ Goto(t, label) /\ UNCHANGED emptyEvent

\* Setting the event wakes every client that is blocked on it.
Retire(t, s, th, label) ==
  /\ threads' = [threads EXCEPT ![s] = [th EXCEPT
                   !.unusedCount = @ + 1, !.runningCount = @ - 1]]
  /\ IF th.runningCount = 1
       THEN /\ emptyEvent' = [emptyEvent EXCEPT ![s] = TRUE]
            /\ pc' = [a \in Actor |->
                 IF a = t THEN label
                 ELSE IF pc[a] = "blocked" /\ home[a] = s THEN "woken"
                 ELSE pc[a]]
       ELSE Goto(t, label) /\ UNCHANGED emptyEvent

\* ... or puts the thread aside: to the shared pool while the scheduler is in
\* its debt, else to the private threads, unless idle ones are not kept.
PutAside(t, s) ==
  LET th == [threads[s] EXCEPT !.running = @ \ {t}]
  IN  /\ pc[t] = "assign" /\ lock[s] = None
      /\ queue[s] = 0 \/ th.stopCount # 0
      /\ suspended' = [suspended EXCEPT ![t] = TRUE]
      /\ IF th.fromShared > 0
           THEN /\ threads' = [threads EXCEPT ![s] = th]
                /\ lock' = [lock EXCEPT ![s] = t]
                /\ Goto(t, "unstarve")
                /\ home' = [home EXCEPT ![t] = s]
                /\ UNCHANGED emptyEvent
           ELSE /\ IF aggressiveThreading[s]
                     THEN Retire(t, s, [th EXCEPT !.yetToCreate = @ + 1], "none")
                     ELSE Retire(t, s, [th EXCEPT !.suspended = @ \cup {t},
                                                  !.suspendedCount = @ + 1],
                                 "parked")
                /\ UNCHANGED <<lock, home>>
      /\ UNCHANGED <<poolVars, queue, life, poolLock, owner, target, budget>>

\* fault: the flag survives
StopStarvation_KeepFlag(t, s) ==
  /\ pc[t] = "unstarve" /\ poolLock = None
  /\ RemoveStarving(s)
  /\ Goto(t, "release")
  /\ UNCHANGED <<schedVars, lockVars, workVars, home, target, budget>>

\* StopStarvation spins until the scheduler is off the list.
StopStarvation(t, s) ==
  /\ pc[t] = "unstarve" /\ poolLock = None
  /\ IF threads[s].starved
       THEN IsStarving(s) /\ RemoveStarving(s)
       ELSE UNCHANGED poolVars
  /\ threads' = [threads EXCEPT ![s].starved = FALSE]
  /\ Goto(t, "release")
  /\ UNCHANGED <<queue, emptyEvent, life, lockVars, workVars, home, target, budget>>

\* CThreadPool::Release.  A surplus thread deletes itself: it waits, with the
\* pool's mutex taken, for its own thread function to end.
Release(t) ==
  /\ pc[t] = "release" /\ poolLock = None
  /\ owner' = [owner EXCEPT ![t] = None]
  /\ \/ /\ Put(t)
        /\ Goto(t, IF starving = << >> THEN "settle" ELSE "select")
        /\ UNCHANGED poolLock
     \/ /\ Overflow(t)
        /\ Goto(t, "overflow")
        /\ poolLock' = t
  /\ UNCHANGED <<schedVars, lock, suspended, home, target, budget>>

\* The loop in Release that notifies starving schedulers.
Select(t) ==
  /\ pc[t] = "select" /\ poolLock = None
  /\ \/ /\ NobodyStarving
        /\ Goto(t, "settle")
        /\ UNCHANGED <<poolVars, target>>
     \/ \E s \in Sched : /\ SelectStarving(s)
                         /\ target' = [target EXCEPT ![t] = s]
                         /\ Goto(t, "notify")
  /\ UNCHANGED <<schedVars, lockVars, workVars, home, budget>>

\* ThreadAvailable takes the mutex of the notified scheduler ...
Notify(t, s) ==
  /\ pc[t] = "notify" /\ lock[s] = None
  /\ Continue(t, s, "available") /\ Goto(t, "available")
  /\ threads' = [threads EXCEPT ![s].starved = FALSE]
  /\ UNCHANGED <<poolVars, queue, emptyEvent, life, workVars, home, target, budget>>

\* ... and runs its loop.
ThreadAvailable(t, s) ==
  LET th == threads[s]
      more == /\ th.stopCount # 0
              /\ queue[s] > 2 * th.runningCount
              /\ th.suspendedCount = 0
              /\ th.yetToCreate = 0
              /\ th.fromShared < sharedThreads[s]
  IN  /\ pc[t] = "available"
      /\ IF more
           THEN AllocateSharedThread(t, s, "available", "leave")
           ELSE /\ Continue(t, s, "leave") /\ Goto(t, "select")
                /\ UNCHANGED <<poolVars, threads, workVars>>
      /\ UNCHANGED <<queue, emptyEvent, life, home, target, budget>>

\* fault: the owner is cleared after the thread went into the pool
Settle_ClearsOwner(t, s) ==
  /\ pc[t] = "settle"
  /\ Retire(t, s, [threads[s] EXCEPT !.fromShared = @ - 1], "parked")
  /\ lock' = [lock EXCEPT ![s] = None]
  /\ owner' = [owner EXCEPT ![t] = None]
  /\ UNCHANGED <<poolVars, queue, life, poolLock, suspended, home, target, budget>>

\* The rest of AssignJob after Release.
Settle(t, s) ==
  /\ pc[t] = "settle"
  /\ Retire(t, s, [threads[s] EXCEPT !.fromShared = @ - 1], "parked")
  /\ lock' = [lock EXCEPT ![s] = None]
  /\ UNCHANGED <<poolVars, queue, life, poolLock, workVars, home, target, budget>>

ThreadStep(t) ==
  \/ Wake(t) \/ ExecuteJob(t) \/ Release(t) \/ Select(t)
  \/ \E s \in {owner[t]} \ {None} : TakeJob(t, s) \/ PutAside(t, s)
  \/ \E s \in {home[t]} \ {None} : StopStarvation(t, s) \/ Settle(t, s)
  \/ \E s \in {target[t]} \ {None} :
       Notify(t, s) \/ ThreadAvailable(t, s) \/ Starve(t, s)

Next ==
  \/ \E c \in Client : ClientStep(c)
  \/ \E t \in Thread : ThreadStep(t)

\* Threads that can run do run; clients finish the calls they have begun.
Spec ==
  /\ Init /\ [][Next]_vars
  /\ \A t \in Thread : WF_vars(ThreadStep(t))
  /\ \A c \in Client : WF_vars(ClientStep(c) /\ pc[c] \notin {"idle", "blocked"})

-----------------------------------------------------------------------------
(* Properties *)

SThreads ==
  [running : SUBSET Thread, suspended : SUBSET Thread, runningCount : Nat,
   suspendedCount : Nat, yetToCreate : Nat, fromShared : Nat,
   unusedCount : Nat, starved : BOOLEAN, stopCount : Nat]

TypeOK ==
  /\ PoolTypeOK
  /\ threads \in [Sched -> SThreads]
  /\ queue \in [Sched -> Nat]
  /\ emptyEvent \in [Sched -> BOOLEAN]
  /\ life \in [Sched -> {"alive", "dying", "gone"}]
  /\ lock \in [Sched -> Actor \cup {None}]
  /\ poolLock \in Actor \cup {None}
  /\ owner \in [Thread -> Sched \cup {None}]
  /\ suspended \in [Thread -> BOOLEAN]
  /\ pc \in [Actor -> {"idle", "starve", "resume", "armed", "blocked", "woken",
                       "exit", "destroy", "delete", "none", "parked", "assign", "execute",
                       "unstarve", "release", "select", "notify", "available",
                       "settle", "overflow"}]
  /\ home \in [Actor -> Sched \cup {None}]
  /\ target \in [Thread -> Sched \cup {None}]
  /\ budget \in [jobs : Nat, stops : Nat]

\* What the schedulers owe the pool: one element for each borrowed thread.
Debts == UNION {{s} \X (1..threads[s].fromShared) : s \in Sched}

\* SThreads: "for speed, cache size() value from the vectors", and
\* unusedCount, which decides whether Schedule and Resume ask for a thread:
\* whenever a scheduler's mutex is free the cached numbers agree with what
\* they stand for, whatever threads came and went (size_t never underflows).
\* For unusedCount that is what the code counts, all threads that could still
\* be had: suspended, borrowed and private ones that are yet to be created.
\* The comment in SThreads forgets the last (UnusedAsCommented).
CountsConsistent ==
  \A s \in Sched :
    LET th == threads[s]
    IN  lock[s] = None /\ life[s] # "gone" =>
          /\ th.runningCount = Cardinality(th.running)
          /\ th.suspendedCount = Cardinality(th.suspended)
          /\ th.fromShared <= sharedThreads[s]
          /\ th.unusedCount + th.fromShared
               = th.suspendedCount + th.yetToCreate + sharedThreads[s]

\* The threads between Release and the end of AssignJob.
Returning == {t \in Thread : pc[t] \in {"select", "notify", "available",
                                        "starve", "settle", "overflow"}}

\* No thread works at two places, or works and is idle at once.
OnePlace ==
  \A s \in Sched :
    /\ threads[s].running \cap (pool \cup threads[s].suspended) = {}
    /\ \A r \in Sched \ {s} : threads[s].running \cap threads[r].running = {}

\* The pool's books agree with those of the schedulers: what the pool has
\* handed out is what the schedulers owe, up to the threads that are just
\* being returned, and no thread works at two places.
PoolBooksAgree ==
  /\ allocCount + Cardinality(Returning) = Cardinality(Debts)
  /\ OnePlace

\* ThreadFunc calls info->owner->AssignJob without looking: a thread that has
\* been resumed belongs to the scheduler that runs it.
ResumedHasOwner ==
  \A t \in Thread :
    pc[t] \in {"assign", "execute"} \/ (pc[t] = "parked" /\ ~suspended[t])
      => owner[t] # None /\ t \in threads[owner[t]].running

\* No job is forgotten: while a scheduler with threads of its own is not
\* stopped and has jobs, one of its threads is running.
WorkInHand ==
  \A s \in Sched :
    lock[s] = None /\ threadCount[s] > 0 /\ threads[s].stopCount = 0 /\ queue[s] > 0
      => threads[s].running # {}

\* A scheduler that has stopped asking for threads (starved) is on the list
\* or is just being notified: StopStarvation and AllocateSharedThread never
\* leave it unregistered, nor listed twice.
StarvedIsListed ==
  \A s \in Sched :
    /\ lock[s] = None /\ threads[s].starved =>
         \/ IsStarving(s)
         \/ \E t \in Thread : pc[t] = "notify" /\ target[t] = s
    /\ Cardinality({i \in DOMAIN starving : starving[i] = s}) <= 1

\* ~CJobScheduler: when the destructor returns, no thread works for the scheduler
\* or is in one of its methods, the list of the starving does not name it, and
\* nobody is about to tell it of an available thread; it owes the pool nothing
\* (the assertions of the destructor).
Enters(t, s) ==
  \/ owner[t] = s /\ (pc[t] \in {"assign", "execute"} \/ (pc[t] = "parked" /\ ~suspended[t]))
  \/ home[t] = s /\ (pc[t] \in {"unstarve", "release"} \/ t \in Returning)
  \/ target[t] = s /\ pc[t] \in {"notify", "available", "starve"}

NobodyAtEnd ==
  \A s \in Sched : life[s] = "gone" =>
    /\ ~IsStarving(s) /\ \A t \in Thread : ~Enters(t, s)
    /\ threads[s].running = {} /\ threads[s].fromShared = 0

\* Jobs of a scheduler with threads of its own get executed, unless somebody
\* stops the scheduler.
JobsGetDone ==
  \A s \in Sched :
    threadCount[s] > 0 /\ queue[s] > 0 ~> queue[s] = 0 \/ threads[s].stopCount > 0

\* WaitForEmptyQueue: "wait for all current and follow-up jobs to terminate"
\* returns, unless the scheduler is stopped at some time.
WaitEnds ==
  \A c \in Client, s \in Sched :
    [](threads[s].stopCount = 0) =>
      (threadCount[s] > 0 /\ home[c] = s /\ pc[c] \in {"armed", "blocked"}
         ~> pc[c] = "idle")

\* JobScheduler.cpp, WaitForEmptyQueueOrTimeout: "we will be woken up as soon
\* as both containers are empty", also if somebody else emptied the queue.
WokenWhenEmpty ==
  \A c \in Client, s \in Sched :
    pc[c] = "blocked" /\ home[c] = s /\ queue[s] = 0 /\ threads[s].runningCount = 0
      ~> pc[c] # "blocked"

\* JobScheduler.h, starving schedulers "will be notified ... Hence, it's their
\* chance to allocate additional threads to execute their jobs quicker": a
\* scheduler that lives on borrowed threads gets its jobs done in the end.
StarvingGetsThreads ==
  \A s \in Sched :
    queue[s] > 0 /\ threads[s].stopCount = 0 ~>
      queue[s] = 0 \/ threads[s].running # {} \/ threads[s].stopCount > 0

\* JobScheduler.h, stopCount: "if > 0, queued jobs won't get assigned
\* execution threads".
StoppedGetsNoThread ==
  [][\A s \in Sched :
       threads[s].stopCount > 0 /\ threads'[s].stopCount > 0
         => threads'[s].running \subseteq threads[s].running]_vars

\* JobScheduler.cpp, StopStarvation: "This may race with
\* CThreadPool::Release -> must loop here": the loop comes to an end.
StarvationStops ==
  \A t \in Thread : pc[t] = "unstarve" ~> pc[t] # "unstarve"

\* JobScheduler.h, CThreadPool: starving schedulers "will be notified ... as
\* soon as a thread gets returned to the pool": nobody stays on the list next
\* to an idle thread unless a notification is under way.
NotifiedWhenIdle ==
  pool # {} /\ starving # << >> =>
    \E t \in Thread : pc[t] \in {"unstarve", "release", "select", "notify",
                                 "available", "starve"}

\* JobScheduler.h, SThreads, of unusedCount: "suspendedCount + maxFromShared -
\* fromShared".
UnusedAsCommented ==
  \A s \in Sched :
    lock[s] = None /\ life[s] # "gone" =>
      threads[s].unusedCount + threads[s].fromShared
        = threads[s].suspendedCount + sharedThreads[s]

\* JobScheduler.h, CThreadPool: "Surplus threads ... will be removed
\* automatically in Release."
SurplusRemoved ==
  \A t \in Thread : pc[t] = "overflow" ~> pc[t] = "none"

=============================================================================
