------------------------- MODULE JobScheduler_proofs -------------------------
(***************************************************************************)
(* For any number of schedulers, threads and clients, and any calls, and   *)
(* for the pool alone: its counters and its limit; a thread that has been  *)
(* resumed belongs to the scheduler that runs it; the cached counts are    *)
(* right whenever a mutex is free; jobs wait only next to a running        *)
(* thread; what the pool has handed out is what the schedulers owe it; a   *)
(* scheduler that starves is listed, once; nobody is in a scheduler that   *)
(* is gone.                                                                *)
(***************************************************************************)
EXTENDS JobScheduler, WellFoundedInduction, FiniteSetTheorems, TLAPS

\* Where a thread is: in its thread function, working, in AssignJob before it has
\* been returned to the pool, and after.
Works == {"assign", "execute"}
Back == {"select", "notify", "available", "starve", "settle"}
Out == {"unstarve", "release", "overflow"}
ThreadLabels == {"none", "parked"} \cup Works \cup Back \cup Out

Record ==
  [running : SUBSET Thread, suspended : SUBSET Thread, runningCount : Int,
   suspendedCount : Int, yetToCreate : Int, fromShared : Int, unusedCount : Int,
   starved : BOOLEAN, stopCount : Int]

Types ==
  /\ threads \in [Sched -> Record]
  /\ DOMAIN pc = Actor /\ \A t \in Thread : pc[t] \in ThreadLabels
  /\ DOMAIN lock = Sched /\ DOMAIN life = Sched
  /\ owner \in [Thread -> Sched \cup {None}]
  /\ suspended \in [Thread -> BOOLEAN]
  /\ home \in [Actor -> Sched \cup {None}]
  /\ target \in [Thread -> Sched \cup {None}]
  /\ pool \subseteq Thread

\* Each thread is in one place at most, which its owner and its flag tell ...
Placed(t) ==
  /\ \A s \in Sched : t \in threads[s].running =>
       owner[t] = s /\ ~suspended[t] /\ pc[t] \in {"parked"} \cup Works \cup Back
  /\ \A s \in Sched : t \in threads[s].suspended =>
       owner[t] = s /\ suspended[t] /\ pc[t] = "parked"
  /\ t \in pool => owner[t] = None /\ suspended[t] /\ pc[t] \in {"parked"} \cup Back
\* ... and one that runs or may run is among the running ones of its owner.
  /\ pc[t] \in Works \/ (~suspended[t] /\ pc[t] \in {"parked"} \cup Back) =>
       owner[t] # None /\ t \in threads[owner[t]].running
  /\ pc[t] \in {"unstarve", "release"} => suspended[t]

\* Who is in the middle of a method has the mutex, a thread in Release perhaps
\* two of them.
Locks ==
  /\ \A t \in Thread : pc[t] \in Back \cup Out =>
       home[t] # None /\ lock[home[t]] = t
  /\ \A t \in Thread : pc[t] \in {"available", "starve"} =>
       target[t] # None /\ target[t] # home[t] /\ lock[target[t]] = t
  /\ \A c \in Client : pc[c] \in {"resume", "starve"} =>
       home[c] # None /\ lock[home[c]] = c

\* The threads that leave a scheduler, and are still counted.
Leaving(s) == {t \in Thread : pc[t] \in Back \cup Out /\ home[t] = s}

Counts1(s) ==
  LET th == threads[s]
  IN  /\ th.runningCount = Cardinality(th.running) + Cardinality(Leaving(s))
      /\ life[s] # "gone" => th.suspendedCount = Cardinality(th.suspended)
      /\ th.fromShared <= sharedThreads[s]
      /\ th.unusedCount + th.fromShared = th.suspendedCount + th.yetToCreate + sharedThreads[s]

Bounded == allocCount \in Int /\ yetToCreate \in Int /\ ThreadBound

Inv == Types /\ (\A t \in Thread : Placed(t)) /\ Locks /\ (\A s \in Sched : Counts1(s)) /\ Bounded

-----------------------------------------------------------------------------
(* Steps that move no thread *)

\* Two places in the code that the invariant does not tell apart for a thread.
Kin(t, p, q) ==
  \/ p = q \/ {p, q} \subseteq Works \/ {p, q} \subseteq Back
  \/ {p, q} \subseteq {"unstarve", "release"}
  \/ p = "parked" /\ ~suspended[t] /\ q \in Works

\* Two records of a scheduler that differ in nothing the invariant looks at.
SameCounts(p, q) ==
  /\ q.running = p.running
  /\ q.suspended = p.suspended
  /\ q.runningCount = p.runningCount
  /\ q.suspendedCount = p.suspendedCount
  /\ q.yetToCreate = p.yetToCreate
  /\ q.fromShared = p.fromShared
  /\ q.unusedCount = p.unusedCount

Quiet ==
  /\ threads' \in [Sched -> Record]
  /\ \A s \in Sched : SameCounts(threads[s], threads'[s])
  /\ UNCHANGED <<owner, suspended, pool, allocCount, yetToCreate>>
  /\ DOMAIN pc' = Actor /\ \A t \in Thread : Kin(t, pc[t], pc'[t])
  /\ DOMAIN lock' = Sched /\ DOMAIN life' = Sched
  /\ \A s \in Sched : life[s] = "gone" => life'[s] = "gone"
  /\ home' \in [Actor -> Sched \cup {None}] /\ \A t \in Thread : home'[t] = home[t]
  /\ target' \in [Thread -> Sched \cup {None}]

\* Threads are actors.
LEMMA ThreadActor == Thread \subseteq Actor /\ Client \subseteq Actor /\ Thread \cap Client = {}
BY SchedulerAssumption DEF Actor, SchedulerAssumption

\* The flag of a starving scheduler is not looked at.
LEMMA FlagOnly ==
  ASSUME Types, NEW s \in Sched, NEW b \in BOOLEAN,
         threads' = [threads EXCEPT ![s].starved = b]
  PROVE  threads' \in [Sched -> Record] /\ \A r \in Sched : SameCounts(threads[r], threads'[r])
<1>1. threads \in [Sched -> Record]  BY DEF Types
<1>2. threads[s] \in Record  BY <1>1
<1>3. threads' = [threads EXCEPT ![s] = [threads[s] EXCEPT !.starved = b]]
  OBVIOUS
<1>4. [threads[s] EXCEPT !.starved = b] \in Record
      /\ SameCounts(threads[s], [threads[s] EXCEPT !.starved = b])
  BY <1>2 DEF Record, SameCounts
<1> QED  BY <1>1, <1>3, <1>4 DEF SameCounts

\* A quiet step keeps everything but, perhaps, the mutexes.
LEMMA QuietKeeps ==
  ASSUME Inv, Quiet
  PROVE  Types' /\ (\A t \in Thread : Placed(t))' /\ (\A s \in Sched : Counts1(s))' /\ Bounded'
<1>1. Types /\ (\A t \in Thread : Placed(t)) /\ (\A s \in Sched : Counts1(s)) /\ Bounded
  BY DEF Inv
<1>2. \A s \in Sched : SameCounts(threads[s], threads'[s])
  BY DEF Quiet
<1>3. \A t \in Thread : pc'[t] \in ThreadLabels
  BY <1>1 DEF Quiet, Kin, Types, ThreadLabels, Works, Back, Out
<1>4. Types'
  BY <1>1, <1>3 DEF Types, Quiet
<1>5. ASSUME NEW t \in Thread PROVE Placed(t)'
  <2>1. Placed(t) /\ Kin(t, pc[t], pc'[t])
    BY <1>1 DEF Quiet
  <2>2. owner'[t] = owner[t] /\ suspended'[t] = suspended[t] /\ pool' = pool
    BY DEF Quiet
  <2>3. owner[t] \in Sched \cup {None}
    BY <1>1 DEF Types
  <2> QED  BY <1>2, <2>1, <2>2, <2>3 DEF Placed, Kin, Works, Back, SameCounts
<1>6. ASSUME NEW s \in Sched PROVE Counts1(s)'
  <2>1. Leaving(s)' = Leaving(s)
    BY DEF Leaving, Quiet, Kin, Works, Back, Out
  <2> QED  BY <1>1, <1>2, <2>1 DEF Counts1, Quiet, SameCounts
<1>7. Bounded'
  BY <1>1 DEF Bounded, ThreadBound, Size, Quiet
<1> QED  BY <1>4, <1>5, <1>6, <1>7

\* What a client does without getting a thread for a scheduler.
LEMMA ClientQuiet ==
  ASSUME Inv, NEW c \in Client, NEW s \in Sched, NEW n, NEW from,
         \/ life[s] = "alive" /\ (Stop(c, s) \/ Trim(c, s, n) \/ Destroy(c, s))
         \/ WaitForEmptyQueue(c, s, from) \/ BeginWait(c, s) \/ EndStarvation(c, s)
  PROVE  Quiet /\ Locks'
<1>1. Types /\ Locks /\ c \in Actor /\ c \notin Thread
  BY ThreadActor DEF Inv
<1>2. CASE life[s] = "alive" /\ Stop(c, s)
  BY <1>1, <1>2
  DEF Stop, Types, Record, Quiet, SameCounts, Kin, Locks, lockVars, workVars, ctrlVars, poolVars
<1>3. CASE life[s] = "alive" /\ Trim(c, s, n)
  BY <1>1, <1>3
  DEF Trim, Types, Record, Quiet, SameCounts, Kin, Locks, lockVars, workVars, ctrlVars, poolVars
<1>4. CASE life[s] = "alive" /\ Destroy(c, s)
  BY <1>1, <1>4, ThreadActor
  DEF Destroy, Goto, Types, Record, Quiet, SameCounts, Kin, Locks, lockVars, workVars, poolVars
<1>5. CASE WaitForEmptyQueue(c, s, from)
  BY <1>1, <1>5, ThreadActor
  DEF WaitForEmptyQueue, Goto, Types, Record, Quiet, SameCounts, Kin, Locks, lockVars, workVars, poolVars
<1>6. CASE BeginWait(c, s)
  BY <1>1, <1>6, ThreadActor
  DEF BeginWait, Goto, Types, Record, Quiet, SameCounts, Kin, Locks, schedVars, lockVars, workVars, poolVars
<1>7. CASE EndStarvation(c, s)
  <2>1. UNCHANGED <<pool, allocCount, yetToCreate>>
    BY <1>7 DEF EndStarvation, RemoveStarving, poolVars
  <2>2. threads' \in [Sched -> Record] /\ \A r \in Sched : SameCounts(threads[r], threads'[r])
    BY <1>1, <1>7, FlagOnly DEF EndStarvation
  <2> QED
    BY <1>1, <1>7, <2>1, <2>2, ThreadActor
    DEF EndStarvation, Goto, Types, Quiet, Kin, Locks, lockVars, workVars
<1> QED  BY <1>2, <1>3, <1>4, <1>5, <1>6, <1>7

\* What a client does without entering a scheduler.
LEMMA LonelyQuiet ==
  ASSUME Inv, NEW c \in Client, Timeout(c) \/ (Exit(c) /\ pool' = pool)
  PROVE  Quiet /\ Locks'
<1>1. Types /\ Locks /\ c \in Actor /\ c \notin Thread
  BY ThreadActor DEF Inv
<1>2. CASE Timeout(c)
  BY <1>1, <1>2, ThreadActor
  DEF Timeout, Goto, Types, Record, Quiet, SameCounts, Kin, Locks, schedVars, lockVars, workVars, poolVars
<1>3. CASE Exit(c) /\ pool' = pool
  <2>1. /\ UNCHANGED <<schedVars, lock, workVars, home, target, allocCount, yetToCreate>>
        /\ pc' = [pc EXCEPT ![c] = "exit"] \/ pc' = [pc EXCEPT ![c] = "idle"]
    BY <1>1, <1>3 DEF Exit, Goto
  <2>2. Quiet
    BY <1>1, <1>3, <2>1, ThreadActor DEF Types, Record, Quiet, SameCounts, Kin, schedVars, workVars
  <2>3. Locks'
    BY <1>1, <2>1, ThreadActor DEF Types, Locks, schedVars, workVars
  <2> QED  BY <2>2, <2>3
<1> QED  BY <1>2, <1>3

\* Client or thread, the end of a failed allocation.
LEMMA StarveQuiet ==
  ASSUME Inv, NEW a \in Actor, NEW s \in Sched, Starve(a, s),
         a \in Client => s = home[a], a \in Thread => s = target[a]
  PROVE  Quiet /\ Locks'
<1>1. Types /\ Locks  BY DEF Inv
<1>2. /\ lock' = [lock EXCEPT ![s] = None]
      /\ pc' = [pc EXCEPT ![a] = IF a \in Client THEN "idle" ELSE "select"]
      /\ UNCHANGED <<pool, allocCount, yetToCreate, schedVars, workVars, home, target>>
      /\ pc[a] = "starve"
  BY DEF Starve, AddStarving, Continue, Goto, After
<1>3. Quiet
  BY <1>1, <1>2, ThreadActor
  DEF Quiet, SameCounts, Kin, Back, Types, Record, schedVars, workVars
<1>4. lock[s] = a
  BY <1>1, <1>2, ThreadActor DEF Locks, Actor
<1>5. Locks'
  BY <1>1, <1>2, <1>4, ThreadActor
  DEF Locks, Back, Out, Types, schedVars, workVars, Actor
<1> QED  BY <1>3, <1>5

\* What a thread does without changing its place.
LEMMA ThreadQuiet ==
  ASSUME Inv, NEW t \in Thread, NEW s \in Sched,
         \/ TakeJob(t, s) \/ StopStarvation(t, s)
         \/ s = target[t] /\ Notify(t, s)
  PROVE  Quiet /\ Locks'
<1>1. Types /\ Locks /\ t \in Actor /\ t \notin Client
  BY ThreadActor DEF Inv
<1>2. CASE TakeJob(t, s)
  BY <1>1, <1>2, ThreadActor
  DEF TakeJob, Goto, Types, Record, Quiet, SameCounts, Kin, Works, Back, Out, Locks,
      lockVars, workVars, poolVars
<1>3. CASE StopStarvation(t, s)
  <2>1. UNCHANGED <<pool, allocCount, yetToCreate>>
    BY <1>3 DEF StopStarvation, RemoveStarving, poolVars
  <2>2. threads' \in [Sched -> Record] /\ \A r \in Sched : SameCounts(threads[r], threads'[r])
    BY <1>1, <1>3, FlagOnly DEF StopStarvation
  <2> QED
    BY <1>1, <1>3, <2>1, <2>2, ThreadActor
    DEF StopStarvation, Goto, Types, Quiet, Kin, Works, Back, Out, Locks,
        lockVars, workVars
<1>4. CASE s = target[t] /\ Notify(t, s)
  <2>1. home[t] # s /\ s # None
    BY <1>1, <1>4, SchedulerAssumption DEF Notify, Locks, Back, SchedulerAssumption
  <2>2. lock' = [lock EXCEPT ![s] = t]
    BY <1>4 DEF Notify, Continue
  <2>3. threads' \in [Sched -> Record] /\ \A r \in Sched : SameCounts(threads[r], threads'[r])
    BY <1>1, <1>4, FlagOnly DEF Notify
  <2>4. Quiet
    BY <1>1, <1>4, <2>2, <2>3, ThreadActor
    DEF Notify, Goto, Types, Quiet, Kin, Works, Back, Out, workVars, poolVars
  <2>5. Locks'
    BY <1>1, <1>4, <2>1, <2>2, ThreadActor, SchedulerAssumption
    DEF Notify, Goto, Types, Back, Out, Locks, Actor, SchedulerAssumption
  <2> QED  BY <2>4, <2>5
<1> QED  BY <1>2, <1>3, <1>4

\* What a thread does without a scheduler's mutex.
LEMMA WorkQuiet ==
  ASSUME Inv, NEW t \in Thread, Wake(t) \/ ExecuteJob(t) \/ Select(t)
  PROVE  Quiet /\ Locks'
<1>1. Types /\ Locks /\ t \in Actor /\ t \notin Client
  BY ThreadActor DEF Inv
<1>2. CASE Wake(t)
  BY <1>1, <1>2, ThreadActor
  DEF Wake, Goto, Types, Record, Quiet, SameCounts, Kin, Works, Back, Out, Locks, schedVars, lockVars,
      workVars, poolVars
<1>3. CASE ExecuteJob(t)
  BY <1>1, <1>3, ThreadActor
  DEF ExecuteJob, Goto, Types, Record, Quiet, SameCounts, Kin, Works, Back, Out, Locks, schedVars,
      lockVars, workVars, poolVars
<1>4. CASE Select(t)
  <2>1. /\ UNCHANGED <<pool, allocCount, yetToCreate, schedVars, lockVars, workVars, home>>
        /\ pc[t] = "select"
        /\ \/ target' = target /\ pc' = [pc EXCEPT ![t] = "settle"]
           \/ \E r \in Sched : target' = [target EXCEPT ![t] = r]
                               /\ pc' = [pc EXCEPT ![t] = "notify"]
    BY <1>4 DEF Select, SelectStarving, Goto, poolVars
  <2>2. Quiet
    BY <1>1, <2>1, ThreadActor
    DEF Types, Record, Quiet, SameCounts, Kin, Works, Back, Out, schedVars, lockVars, workVars
  <2>3. Locks'
    BY <1>1, <2>1, ThreadActor DEF Types, Back, Out, Locks, schedVars, lockVars, workVars
  <2> QED  BY <2>2, <2>3
<1> QED  BY <1>2, <1>3, <1>4

-----------------------------------------------------------------------------
(* Getting a thread to work *)

\* Who asks for a thread for s has its mutex; home' is the caller's business.
Caller(a, s, ok) ==
  /\ UNCHANGED <<life, target>>
  /\ home' \in [Actor -> Sched \cup {None}]
  /\ \A b \in Actor \ {a} : home'[b] = home[b]
  /\ \/ a \in Client /\ lock[s] \in {None, a} /\ ok \in {"leave", "resume"} /\ home'[a] = s
     \/ /\ a \in Thread /\ lock[s] = a /\ ok = "available" /\ pc[a] = "available"
        /\ target[a] = s /\ home[a] # s /\ home'[a] = home[a]

\* Where scheduler s gets a thread from: its idle ones, those it may create, or
\* the pool.
Source(s) ==
  LET p == threads[s]
      q == threads'[s]
  IN  /\ q.unusedCount = p.unusedCount - 1
      /\ q.stopCount = p.stopCount /\ q.starved = p.starved
      /\ \/ /\ p.suspendedCount > 0 /\ q.suspendedCount = p.suspendedCount - 1
            /\ q.yetToCreate = p.yetToCreate /\ q.fromShared = p.fromShared
            /\ UNCHANGED <<allocCount, lent>>
         \/ /\ p.yetToCreate > 0 /\ q.yetToCreate = p.yetToCreate - 1
            /\ q.suspendedCount = p.suspendedCount /\ q.fromShared = p.fromShared
            /\ UNCHANGED <<allocCount, lent>>
         \/ /\ q.fromShared = p.fromShared + 1 /\ allocCount' = allocCount + 1
            /\ q.suspendedCount = p.suspendedCount /\ q.yetToCreate = p.yetToCreate
            /\ ~p.starved
      /\ UNCHANGED starving

\* Thread t, which was idle, joins the running ones of s.
Joins(a, s, t) ==
  /\ Source(s)
  /\ pc[t] = "none" \/ t \in pool \/ t \in threads[s].suspended
  /\ threads' \in [Sched -> Record] /\ \A r \in Sched \ {s} : threads'[r] = threads[r]
  /\ threads'[s].running = threads[s].running \cup {t}
  /\ threads'[s].suspended = threads[s].suspended \ {t}
  /\ threads'[s].runningCount = threads[s].runningCount + 1
  /\ \/ t \notin threads[s].suspended
        /\ threads'[s].suspendedCount = threads[s].suspendedCount
     \/ t \in threads[s].suspended
        /\ threads'[s].suspendedCount = threads[s].suspendedCount - 1
  /\ threads'[s].fromShared <= sharedThreads[s]
  /\ threads'[s].unusedCount + threads'[s].fromShared
       = threads'[s].suspendedCount + threads'[s].yetToCreate + sharedThreads[s]
  /\ owner' = [owner EXCEPT ![t] = s] /\ suspended' = [suspended EXCEPT ![t] = FALSE]
  /\ pool' = pool \ {t}
  /\ Bounded'

\* What happens to the places in the code, with or without a new thread.
Labels(a, s, t, label) ==
  /\ pc' = [pc EXCEPT ![t] = IF @ = "none" THEN "parked" ELSE @, ![a] = After(a, label)]
  /\ lock' = [lock EXCEPT ![s] = IF label = "leave" THEN None ELSE a]

\* An idle thread is nobody else's.
LEMMA IdleThread ==
  ASSUME Inv, NEW s \in Sched, NEW t \in Thread,
         pc[t] = "none" \/ t \in pool \/ t \in threads[s].suspended
  PROVE  /\ \A r \in Sched : t \notin threads[r].running
         /\ \A r \in Sched \ {s} : t \notin threads[r].suspended
         /\ t \in pool => t \notin threads[s].suspended
         /\ pc[t] = "none" => t \notin pool /\ t \notin threads[s].suspended
         /\ pc[t] = "none" \/ (suspended[t] /\ pc[t] \in {"parked"} \cup Back)
<1>1. Placed(t) /\ pc[t] \in ThreadLabels /\ None \notin Sched
  BY SchedulerAssumption DEF Inv, Types, SchedulerAssumption
<1>2. CASE pc[t] = "none"
  <2>1. pc[t] \notin {"parked"} \cup Works \cup Back
    BY <1>2 DEF Works, Back
  <2>2. \A r \in Sched : t \notin threads[r].running /\ t \notin threads[r].suspended
    BY <1>1, <2>1 DEF Placed
  <2>3. t \notin pool
    BY <1>1, <2>1 DEF Placed
  <2> QED  BY <1>2, <2>2, <2>3
<1>3. CASE t \in pool
  BY <1>1, <1>3 DEF Placed, Works, Back
<1>4. CASE t \in threads[s].suspended
  BY <1>1, <1>4 DEF Placed, Works, Back
<1> QED  BY <1>2, <1>3, <1>4

\* The caller and the others keep what they have.
LEMMA LabelLocks ==
  ASSUME Inv, NEW a \in Actor, NEW s \in Sched, NEW ok, NEW t \in Actor,
         NEW label \in {ok, "leave", "starve"},
         Caller(a, s, ok), Labels(a, s, t, label),
         t # a => t \in Thread
  PROVE  Locks' /\ DOMAIN lock' = Sched /\ DOMAIN pc' = Actor
<1>1. Types /\ Locks  BY DEF Inv
<1>2. DOMAIN lock' = Sched /\ DOMAIN pc' = Actor
  BY <1>1 DEF Labels, Types
<1>3. /\ pc'[a] = After(a, label)
      /\ \A b \in Actor \ {a, t} : pc'[b] = pc[b]
      /\ t # a => pc'[t] = pc[t] \/ pc'[t] = "parked"
  BY <1>1 DEF Labels, Types
<1>4. lock'[s] = (IF label = "leave" THEN None ELSE a) /\ \A r \in Sched \ {s} : lock'[r] = lock[r]
  BY <1>1 DEF Labels, Types
<1>5. lock[s] \in {None, a} /\ \A b \in Actor : b # None
  BY SchedulerAssumption DEF Caller, SchedulerAssumption, Actor
<1>6. ASSUME NEW b \in Thread, pc'[b] \in Back \cup Out
      PROVE  home'[b] # None /\ lock'[home'[b]] = b
  <2>1. CASE b = a
    <3>1. /\ a \in Thread /\ pc[a] = "available" /\ home'[a] = home[a] /\ home[a] # s
      BY <2>1, ThreadActor DEF Caller
    <3> QED  BY <1>1, <1>4, <2>1, <3>1 DEF Locks, Back, Types
  <2>2. CASE b # a
    <3>1. pc'[b] = pc[b] /\ home'[b] = home[b]
      BY <1>3, <1>6, <2>2, ThreadActor DEF Caller, Back, Out
    <3>2. home[b] # None /\ lock[home[b]] = b /\ home[b] \in Sched
      BY <1>1, <1>6, <3>1, ThreadActor DEF Locks, Types
    <3> QED  BY <1>4, <1>5, <2>2, <3>1, <3>2, ThreadActor
  <2> QED  BY <2>1, <2>2
<1>7. ASSUME NEW b \in Thread, pc'[b] \in {"available", "starve"}
      PROVE  target'[b] # None /\ target'[b] # home'[b] /\ lock'[target'[b]] = b
  <2>1. CASE b = a
    <3>1. a \in Thread /\ pc[a] = "available" /\ home'[a] = home[a] /\ home[a] # s
          /\ target[a] = s /\ target' = target /\ a \notin Client
      BY <2>1, ThreadActor DEF Caller
    <3>2. label # "leave"
      BY <1>3, <1>7, <2>1, <3>1 DEF After
    <3> QED  BY <1>4, <1>5, <2>1, <3>1, <3>2, SchedulerAssumption DEF SchedulerAssumption
  <2>2. CASE b # a
    <3>1. pc'[b] = pc[b] /\ home'[b] = home[b] /\ target' = target
      BY <1>3, <1>7, <2>2, ThreadActor DEF Caller
    <3>2. target[b] # None /\ target[b] # home[b] /\ lock[target[b]] = b /\ target[b] \in Sched
      BY <1>1, <1>7, <3>1 DEF Locks, Types
    <3> QED  BY <1>4, <1>5, <2>2, <3>1, <3>2, ThreadActor
  <2> QED  BY <2>1, <2>2
<1>8. ASSUME NEW c \in Client, pc'[c] \in {"resume", "starve"}
      PROVE  home'[c] # None /\ lock'[home'[c]] = c
  <2>1. CASE c = a
    <3>1. home'[a] = s /\ label # "leave"
      BY <1>3, <1>8, <2>1, ThreadActor DEF Caller, After
    <3> QED  BY <1>4, <2>1, <3>1, SchedulerAssumption DEF SchedulerAssumption
  <2>2. CASE c # a
    <3>1. pc'[c] = pc[c] /\ home'[c] = home[c]
      BY <1>3, <1>8, <2>2, ThreadActor DEF Caller
    <3>2. home[c] # None /\ lock[home[c]] = c /\ home[c] \in Sched
      BY <1>1, <1>8, <3>1, ThreadActor DEF Locks, Types
    <3> QED  BY <1>4, <1>5, <2>2, <3>1, <3>2, ThreadActor
  <2> QED  BY <2>1, <2>2
<1> QED  BY <1>2, <1>6, <1>7, <1>8 DEF Locks

\* A thread that nobody has joins a scheduler.
LEMMA JoinsKeeps ==
  ASSUME Inv, NEW a \in Actor, NEW s \in Sched, NEW ok, NEW t \in Thread,
         Caller(a, s, ok), Joins(a, s, t), Labels(a, s, t, ok)
  PROVE  Inv'
<1>1. Types /\ None \notin Sched /\ t \in Actor
  BY ThreadActor, SchedulerAssumption DEF Inv, SchedulerAssumption
<1>2. Locks' /\ DOMAIN lock' = Sched /\ DOMAIN pc' = Actor
  BY <1>1, LabelLocks
<1>3. \A u \in Thread \ {a, t} : pc'[u] = pc[u]
  BY <1>1, ThreadActor DEF Labels, Types
<1>4. a \in Thread => pc[a] \in Back /\ pc'[a] \in Back
  BY <1>1, ThreadActor DEF Labels, Types, Caller, After, Back
<1>5. t # a => pc'[t] = IF pc[t] = "none" THEN "parked" ELSE pc[t]
  BY <1>1 DEF Labels, Types
<1>6. \A u \in Thread : home'[u] = home[u]
  BY ThreadActor DEF Caller
<1>7. /\ \A r \in Sched : t \notin threads[r].running
      /\ \A r \in Sched \ {s} : t \notin threads[r].suspended
      /\ pc[t] = "none" \/ (suspended[t] /\ pc[t] \in {"parked"} \cup Back)
  BY IdleThread DEF Joins
<1>8. pc'[t] \in {"parked"} \cup Back
  BY <1>4, <1>5, <1>7
<1>9. Types'
  <2>1. \A u \in Thread : pc'[u] \in ThreadLabels
    BY <1>1, <1>3, <1>4, <1>8 DEF Types, ThreadLabels
  <2> QED  BY <1>1, <1>2, <2>1 DEF Types, Joins, Caller
<1>10. ASSUME NEW u \in Thread PROVE Placed(u)'
  <2>1. CASE u = t
    <3>1. owner'[u] = s /\ ~suspended'[u] /\ u \notin pool' /\ u \in threads'[s].running
      BY <1>1, <2>1 DEF Joins, Types
    <3>2. \A r \in Sched : u \notin threads'[r].suspended /\ (u \in threads'[r].running => r = s)
      BY <1>7, <2>1 DEF Joins
    <3> QED  BY <1>1, <1>8, <2>1, <3>1, <3>2 DEF Placed, Works, Back
  <2>2. CASE u # t
    <3>1. Placed(u) /\ owner[u] \in Sched \cup {None}
      BY <1>1 DEF Inv, Types
    <3>2. owner'[u] = owner[u] /\ suspended'[u] = suspended[u] /\ (u \in pool' <=> u \in pool)
      BY <1>1, <2>2 DEF Joins, Types
    <3>3. \A r \in Sched : /\ u \in threads'[r].running <=> u \in threads[r].running
                           /\ u \in threads'[r].suspended <=> u \in threads[r].suspended
      BY <2>2 DEF Joins
    <3>4. pc'[u] = pc[u] \/ {pc[u], pc'[u]} \subseteq Back
      BY <1>3, <1>4, <2>2
    <3> QED  BY <3>1, <3>2, <3>3, <3>4 DEF Placed, Works, Back
  <2> QED  BY <2>1, <2>2
<1>11. ASSUME NEW r \in Sched PROVE Counts1(r)'
  <2>1. Leaving(r)' = Leaving(r)
    <3>1. \A u \in Thread : pc'[u] \in Back \cup Out <=> pc[u] \in Back \cup Out
      <4>1. ASSUME NEW u \in Thread PROVE pc'[u] \in Back \cup Out <=> pc[u] \in Back \cup Out
        <5>1. CASE u # a /\ u # t  BY <1>3, <5>1
        <5>2. CASE u = a  BY <1>4, <5>2
        <5>3. CASE u = t /\ u # a  BY <1>5, <5>3 DEF Back, Out
        <5> QED  BY <5>1, <5>2, <5>3
      <4> QED  BY <4>1
    <3> QED  BY <1>6, <3>1 DEF Leaving
  <2>2. Counts1(r) /\ threads[r] \in Record  BY <1>1 DEF Inv, Types
  <2>3. IsFiniteSet(threads[r].running) /\ IsFiniteSet(threads[r].suspended)
        /\ IsFiniteSet(Leaving(r))
    BY <2>2, PoolAssumption, FS_Subset DEF Record, Leaving, PoolAssumption
  <2>4. Cardinality(threads[r].running) \in Nat /\ Cardinality(threads[r].suspended) \in Nat
        /\ Cardinality(Leaving(r)) \in Nat
    BY <2>3, FS_CardinalityType
  <2>5. CASE r # s
    BY <2>1, <2>2, <2>5 DEF Counts1, Joins, Caller
  <2>6. CASE r = s
    <3>1. Cardinality(threads'[r].running) = Cardinality(threads[r].running) + 1
      <4>1. threads'[r].running = threads[r].running \cup {t} /\ t \notin threads[r].running
        BY <1>7, <2>6 DEF Joins
      <4> QED  BY <2>3, <4>1, FS_AddElement
    <3>2. threads'[r].runningCount = Cardinality(threads'[r].running) + Cardinality(Leaving(r)')
      BY <2>1, <2>2, <2>4, <2>6, <3>1 DEF Counts1, Joins, Record
    <3>3. t \in threads[r].suspended =>
            Cardinality(threads[r].suspended \ {t}) = Cardinality(threads[r].suspended) - 1
      BY <2>3, FS_RemoveElement
    <3>4. t \notin threads[r].suspended => threads[r].suspended \ {t} = threads[r].suspended
      OBVIOUS
    <3>5. life'[r] # "gone" =>
            threads'[r].suspendedCount = Cardinality(threads'[r].suspended)
      BY <2>2, <2>6, <3>3, <3>4 DEF Counts1, Joins, Caller
    <3>6. /\ threads'[r].fromShared <= sharedThreads[r]
          /\ threads'[r].unusedCount + threads'[r].fromShared
               = threads'[r].suspendedCount + threads'[r].yetToCreate + sharedThreads[r]
      BY <2>6 DEF Joins
    <3> QED  BY <3>2, <3>5, <3>6 DEF Counts1
  <2> QED  BY <2>5, <2>6
<1> QED  BY <1>2, <1>9, <1>10, <1>11 DEF Inv, Joins

\* No thread is found, and the scheduler starves if it had not yet been told so.
Fails(a, s, label) ==
  /\ Continue(a, s, label) /\ Goto(a, After(a, label))
  /\ UNCHANGED <<poolVars, workVars>>
  /\ \/ label = "leave" /\ threads' = threads
     \/ /\ label = "starve" /\ ~threads[s].starved
        /\ threads' = [threads EXCEPT ![s].starved = TRUE]

\* An allocation that fails moves nobody.
LEMMA FailKeeps ==
  ASSUME Inv, NEW a \in Actor, NEW s \in Sched, NEW ok, NEW label \in {"leave", "starve"},
         Caller(a, s, ok), Fails(a, s, label)
  PROVE  Inv'
<1>1. Types  BY DEF Inv
<1>2. Labels(a, s, a, label)
  BY <1>1 DEF Labels, Continue, Goto, Types, Fails
<1>3. Locks' /\ DOMAIN lock' = Sched /\ DOMAIN pc' = Actor
  BY <1>2, LabelLocks
<1>4. threads' \in [Sched -> Record] /\ \A r \in Sched : SameCounts(threads[r], threads'[r])
  <2>1. CASE threads' = threads
    BY <1>1, <2>1 DEF Types, SameCounts
  <2>2. CASE threads' = [threads EXCEPT ![s].starved = TRUE]
    BY <1>1, <2>2, FlagOnly
  <2> QED  BY <2>1, <2>2 DEF Fails
<1>5. \A u \in Thread : Kin(u, pc[u], pc'[u])
  BY <1>1, ThreadActor DEF Goto, After, Caller, Kin, Back, Types, Fails
<1>6. Quiet
  BY <1>1, <1>3, <1>4, <1>5, ThreadActor DEF Quiet, Caller, Types, poolVars, workVars, Fails
<1> QED  BY <1>3, <1>6, QuietKeeps DEF Inv

\* Each of the ways to get a thread: from the scheduler's own ...
LEMMA OwnJoins ==
  ASSUME Inv, NEW a \in Actor, NEW s \in Sched, NEW t \in threads[s].suspended, NEW ok,
         threads[s].suspendedCount > 0,
         Activate(a, s, t, ok, [threads[s] EXCEPT !.suspended = @ \ {t},
                                                  !.suspendedCount = @ - 1]),
         UNCHANGED <<poolVars, owner>>
  PROVE  Joins(a, s, t) /\ t \in Thread
<1>1. Types /\ Counts1(s) /\ threads[s] \in Record /\ Bounded /\ sharedThreads[s] \in Nat
  BY SchedulerAssumption DEF Inv, Types, SchedulerAssumption
<1>2. t \in Thread  BY <1>1 DEF Record
<1>3. owner[t] = s /\ t \notin pool
  BY <1>2, SchedulerAssumption DEF Inv, Placed, SchedulerAssumption
<1>4. threads'[s] = [
        running |-> threads[s].running \cup {t},
        suspended |-> threads[s].suspended \ {t},
        runningCount |-> threads[s].runningCount + 1,
        suspendedCount |-> threads[s].suspendedCount - 1,
        yetToCreate |-> threads[s].yetToCreate,
        fromShared |-> threads[s].fromShared,
        unusedCount |-> threads[s].unusedCount - 1,
        starved |-> threads[s].starved,
        stopCount |-> threads[s].stopCount]
  BY <1>1 DEF Activate, Types, Record
<1>5. threads'[s] \in Record
  BY <1>1, <1>2, <1>4 DEF Record
<1>6. threads' \in [Sched -> Record] /\ \A r \in Sched \ {s} : threads'[r] = threads[r]
  <2>1. DOMAIN threads' = Sched /\ threads' = [r \in Sched |-> threads'[r]]
        /\ \A r \in Sched \ {s} : threads'[r] = threads[r]
    BY <1>1 DEF Activate, Types
  <2> QED  BY <1>1, <1>5, <2>1 DEF Types
<1>7. owner' = [owner EXCEPT ![t] = s] /\ pool' = pool \ {t} /\ Bounded'
  BY <1>1, <1>3 DEF Types, Bounded, ThreadBound, Size, poolVars
<1>8. /\ threads'[s].fromShared <= sharedThreads[s]
      /\ threads'[s].unusedCount + threads'[s].fromShared
           = threads'[s].suspendedCount + threads'[s].yetToCreate + sharedThreads[s]
  BY <1>1, <1>4 DEF Counts1, Record
<1>9. Source(s)
  BY <1>1, <1>4 DEF Source, Record, poolVars
<1> QED  BY <1>1, <1>2, <1>4, <1>6, <1>7, <1>8, <1>9 DEF Joins, Activate, Record

\* ... one that is created ...
LEMMA NewJoins ==
  ASSUME Inv, NEW a \in Actor, NEW s \in Sched, NEW t \in Fresh, NEW ok,
         threads[s].yetToCreate > 0,
         Activate(a, s, t, ok, [threads[s] EXCEPT !.yetToCreate = @ - 1]),
         owner' = [owner EXCEPT ![t] = s], UNCHANGED poolVars
  PROVE  Joins(a, s, t) /\ t \in Thread
<1>1. Types /\ Counts1(s) /\ threads[s] \in Record /\ Bounded /\ sharedThreads[s] \in Nat
  BY SchedulerAssumption DEF Inv, Types, SchedulerAssumption
<1>2. t \in Thread /\ pc[t] = "none" /\ t \notin pool /\ t \notin threads[s].suspended
  BY IdleThread DEF Fresh
<1>4. threads'[s] = [
        running |-> threads[s].running \cup {t},
        suspended |-> threads[s].suspended,
        runningCount |-> threads[s].runningCount + 1,
        suspendedCount |-> threads[s].suspendedCount,
        yetToCreate |-> threads[s].yetToCreate - 1,
        fromShared |-> threads[s].fromShared,
        unusedCount |-> threads[s].unusedCount - 1,
        starved |-> threads[s].starved,
        stopCount |-> threads[s].stopCount]
  BY <1>1 DEF Activate, Types, Record
<1>5. threads'[s] \in Record
  BY <1>1, <1>2, <1>4 DEF Record
<1>6. threads' \in [Sched -> Record] /\ \A r \in Sched \ {s} : threads'[r] = threads[r]
  <2>1. DOMAIN threads' = Sched /\ threads' = [r \in Sched |-> threads'[r]]
        /\ \A r \in Sched \ {s} : threads'[r] = threads[r]
    BY <1>1 DEF Activate, Types
  <2> QED  BY <1>1, <1>5, <2>1 DEF Types
<1>7. pool' = pool \ {t} /\ Bounded'
  BY <1>1, <1>2 DEF Bounded, ThreadBound, Size, poolVars
<1>8. /\ threads'[s].fromShared <= sharedThreads[s]
      /\ threads'[s].unusedCount + threads'[s].fromShared
           = threads'[s].suspendedCount + threads'[s].yetToCreate + sharedThreads[s]
  <2>1. /\ threads[s].fromShared <= sharedThreads[s]
        /\ threads[s].unusedCount + threads[s].fromShared
             = threads[s].suspendedCount + threads[s].yetToCreate + sharedThreads[s]
    BY <1>1 DEF Counts1
  <2>2. /\ threads'[s].fromShared = threads[s].fromShared
        /\ threads'[s].unusedCount = threads[s].unusedCount - 1
        /\ threads'[s].suspendedCount = threads[s].suspendedCount
        /\ threads'[s].yetToCreate = threads[s].yetToCreate - 1
    BY <1>4
  <2> QED  BY <1>1, <2>1, <2>2 DEF Record
<1>9. Source(s)
  BY <1>1, <1>4 DEF Source, Record, poolVars
<1> QED  BY <1>1, <1>2, <1>4, <1>6, <1>7, <1>8, <1>9 DEF Joins, Activate, Record

\* ... or one from the pool, idle or created, which stays within its bound.
LEMMA SharedJoins ==
  ASSUME Inv, NEW a \in Actor, NEW s \in Sched, NEW t \in Thread, NEW ok,
         TryAlloc(t, Fresh), ~threads[s].starved,
         threads[s].fromShared < sharedThreads[s],
         Activate(a, s, t, ok, [threads[s] EXCEPT !.fromShared = @ + 1]),
         owner' = [owner EXCEPT ![t] = s]
  PROVE  Joins(a, s, t)
<1>1. Types /\ Counts1(s) /\ threads[s] \in Record /\ Bounded /\ sharedThreads[s] \in Nat
  BY SchedulerAssumption DEF Inv, Types, SchedulerAssumption
<1>2. pc[t] = "none" \/ t \in pool
  BY DEF TryAlloc, Fresh
<1>3. t \notin threads[s].suspended
  BY <1>2, IdleThread
<1>4. threads'[s] = [
        running |-> threads[s].running \cup {t},
        suspended |-> threads[s].suspended,
        runningCount |-> threads[s].runningCount + 1,
        suspendedCount |-> threads[s].suspendedCount,
        yetToCreate |-> threads[s].yetToCreate,
        fromShared |-> threads[s].fromShared + 1,
        unusedCount |-> threads[s].unusedCount - 1,
        starved |-> threads[s].starved,
        stopCount |-> threads[s].stopCount]
  BY <1>1 DEF Activate, Types, Record
<1>5. threads'[s] \in Record
  BY <1>1, <1>2, <1>4 DEF Record
<1>6. threads' \in [Sched -> Record] /\ \A r \in Sched \ {s} : threads'[r] = threads[r]
  <2>1. DOMAIN threads' = Sched /\ threads' = [r \in Sched |-> threads'[r]]
        /\ \A r \in Sched \ {s} : threads'[r] = threads[r]
    BY <1>1 DEF Activate, Types
  <2> QED  BY <1>1, <1>5, <2>1 DEF Types
<1>7. Bounded'
  <2>1. IsFiniteSet(pool) /\ Size \in Nat
    BY <1>1, PoolAssumption, FS_Subset, FS_CardinalityType DEF Types, PoolAssumption, Size
  <2>2. CASE t \in pool
    <3>1. Size' = Size - 1
      BY <2>1, <2>2, FS_RemoveElement DEF TryAlloc, Size
    <3>2. allocCount' = allocCount + 1 /\ (yetToCreate' = yetToCreate \/ pool = {})
      BY DEF TryAlloc
    <3> QED  BY <1>1, <2>1, <2>2, <3>1, <3>2, PoolAssumption
             DEF Bounded, ThreadBound, PoolAssumption
  <2>3. CASE t \notin pool
    <3>1. pool' = pool /\ allocCount' = allocCount + 1 /\ yetToCreate' = yetToCreate - 1
      BY <2>3 DEF TryAlloc
    <3>2. Size' = Size  BY <3>1 DEF Size
    <3> QED  BY <1>1, <2>1, <3>1, <3>2, PoolAssumption DEF Bounded, ThreadBound, PoolAssumption
  <2> QED  BY <2>2, <2>3
<1>8. /\ threads'[s].fromShared <= sharedThreads[s]
      /\ threads'[s].unusedCount + threads'[s].fromShared
           = threads'[s].suspendedCount + threads'[s].yetToCreate + sharedThreads[s]
  BY <1>1, <1>4 DEF Counts1, Record
<1>9. Source(s)
  BY <1>1, <1>4 DEF Source, Record, TryAlloc
<1> QED  BY <1>1, <1>2, <1>3, <1>4, <1>6, <1>7, <1>8, <1>9 DEF Joins, Activate, Record, TryAlloc

\* The outcomes of AllocateSharedThread ...
LEMMA SharedOutcome ==
  ASSUME Inv, NEW a \in Actor, NEW s \in Sched, NEW ok,
         threads[s].fromShared < sharedThreads[s],
         AllocateSharedThread(a, s, ok, "leave")
  PROVE  \/ \E t \in Thread : Joins(a, s, t) /\ Labels(a, s, t, ok)
         \/ \E label \in {"leave", "starve"} : Fails(a, s, label)
<1>1. CASE /\ Continue(a, s, "leave") /\ Goto(a, After(a, "leave"))
           /\ UNCHANGED <<poolVars, threads, workVars>>
  BY <1>1 DEF Fails
<1>2. CASE /\ threads' = [threads EXCEPT ![s].starved = TRUE] /\ ~threads[s].starved
           /\ Continue(a, s, "starve") /\ Goto(a, "starve")
           /\ UNCHANGED <<poolVars, workVars>>
  BY <1>2 DEF After, Fails
<1>3. ASSUME NEW t \in Thread, TryAlloc(t, Fresh), ~threads[s].starved,
             Activate(a, s, t, ok, [threads[s] EXCEPT !.fromShared = @ + 1]),
             owner' = [owner EXCEPT ![t] = s], Continue(a, s, ok)
      PROVE  \E u \in Thread : Joins(a, s, u) /\ Labels(a, s, u, ok)
  <2>1. Joins(a, s, t)  BY <1>3, SharedJoins
  <2>2. Labels(a, s, t, ok)  BY <1>3 DEF Labels, Activate, Continue
  <2> QED  BY <2>1, <2>2
<1> QED  BY <1>1, <1>2, <1>3 DEF AllocateSharedThread

\* ... and of AllocateThread, which fails only if the scheduler has no idle thread
\* and may not create one.
LEMMA AllocateOutcome ==
  ASSUME Inv, NEW a \in Actor, NEW s \in Sched, NEW ok, AllocateThread(a, s, ok, "leave")
  PROVE  \/ \E t \in Thread : Joins(a, s, t) /\ Labels(a, s, t, ok)
         \/ /\ threads[s].suspendedCount = 0 /\ threads[s].yetToCreate = 0
            /\ \E label \in {"leave", "starve"} : Fails(a, s, label)
<1>1. ASSUME NEW t \in threads[s].suspended, Continue(a, s, ok),
             threads[s].suspendedCount > 0,
             Activate(a, s, t, ok, [threads[s] EXCEPT !.suspended = @ \ {t},
                                                      !.suspendedCount = @ - 1]),
             UNCHANGED <<poolVars, owner>>
      PROVE  \E u \in Thread : Joins(a, s, u) /\ Labels(a, s, u, ok)
  <2>1. Joins(a, s, t) /\ t \in Thread  BY <1>1, OwnJoins
  <2>2. Labels(a, s, t, ok)  BY <1>1 DEF Labels, Activate, Continue
  <2> QED  BY <2>1, <2>2
<1>2. ASSUME NEW t \in Fresh, Continue(a, s, ok), threads[s].yetToCreate > 0,
             Activate(a, s, t, ok, [threads[s] EXCEPT !.yetToCreate = @ - 1]),
             owner' = [owner EXCEPT ![t] = s], UNCHANGED poolVars
      PROVE  \E u \in Thread : Joins(a, s, u) /\ Labels(a, s, u, ok)
  <2>1. Joins(a, s, t) /\ t \in Thread  BY <1>2, NewJoins
  <2>2. Labels(a, s, t, ok)  BY <1>2 DEF Labels, Activate, Continue
  <2> QED  BY <2>1, <2>2
<1>3. CASE /\ threads[s].suspendedCount = 0 /\ threads[s].yetToCreate = 0
           /\ threads[s].fromShared < sharedThreads[s]
           /\ AllocateSharedThread(a, s, ok, "leave")
  BY <1>3, SharedOutcome
<1>4. CASE /\ threads[s].suspendedCount = 0 /\ threads[s].yetToCreate = 0
           /\ Continue(a, s, "leave") /\ Goto(a, After(a, "leave"))
           /\ UNCHANGED <<poolVars, threads, workVars>>
  BY <1>4 DEF Fails
<1> QED  BY <1>1, <1>2, <1>3, <1>4 DEF AllocateThread

-----------------------------------------------------------------------------
(* The methods that may start threads *)

\* Schedule, with or without a new thread.
LEMMA ScheduleKeeps ==
  ASSUME Inv, NEW c \in Client, NEW s \in Sched, Schedule(c, s)
  PROVE  Inv'
<1>1. Types /\ Locks /\ c \in Actor /\ c \notin Thread  BY ThreadActor DEF Inv
<1>2. CASE AllocateThread(c, s, "leave", "leave")
  <2>1. Caller(c, s, "leave")
    BY <1>1 DEF Caller, Schedule, Types
  <2> QED  BY <1>1, <1>2, <2>1, AllocateOutcome, JoinsKeeps, FailKeeps
<1>3. CASE UNCHANGED <<poolVars, threads, lockVars, workVars, pc>>
  <2>1. Quiet
    BY <1>1, <1>3, ThreadActor
    DEF Schedule, Quiet, SameCounts, Kin, Types, poolVars, lockVars, workVars
  <2>2. Locks'
    BY <1>1, <1>3, ThreadActor DEF Schedule, Locks, Types, lockVars
  <2> QED  BY <2>1, <2>2, QuietKeeps DEF Inv
<1> QED  BY <1>2, <1>3 DEF Schedule

\* Resume up to its loop ...
LEMMA ResumeKeeps ==
  ASSUME Inv, NEW c \in Client, NEW s \in Sched, Resume(c, s)
  PROVE  Inv'
<1>1. Types /\ Locks /\ c \in Actor /\ c \notin Thread  BY ThreadActor DEF Inv
<1>2. \/ lock' = [lock EXCEPT ![s] = c] /\ pc' = [pc EXCEPT ![c] = "resume"]
      \/ lock' = lock /\ pc' = pc
  BY DEF Resume, Continue, Goto, lockVars
<1>3. Quiet
  <2>1. threads' \in [Sched -> Record] /\ \A r \in Sched : SameCounts(threads[r], threads'[r])
    BY <1>1 DEF Resume, Types, Record, SameCounts
  <2> QED
    BY <1>1, <1>2, <2>1, ThreadActor DEF Resume, Quiet, Kin, Types, poolVars, workVars
<1>4. Locks'
  <2>1. lock[s] = None /\ pc[c] = "idle" /\ home' = [home EXCEPT ![c] = s] /\ target' = target
    BY DEF Resume
  <2> QED
    BY <1>1, <1>2, <2>1, ThreadActor, SchedulerAssumption
    DEF Locks, Types, Back, Out, SchedulerAssumption, Actor
<1> QED  BY <1>3, <1>4, QuietKeeps DEF Inv

\* ... and a round of the loop.
LEMMA ResumeLoopKeeps ==
  ASSUME Inv, NEW c \in Client, NEW s \in Sched, s = home[c], ResumeLoop(c, s)
  PROVE  Inv'
<1>1. Types /\ Locks /\ c \in Actor /\ c \notin Thread  BY ThreadActor DEF Inv
<1>2. Caller(c, s, "resume")
  BY <1>1 DEF ResumeLoop, Caller, Locks, Types
<1>3. CASE AllocateThread(c, s, "resume", "leave")
  BY <1>1, <1>2, <1>3, AllocateOutcome, JoinsKeeps, FailKeeps
<1>4. CASE Continue(c, s, "leave") /\ Goto(c, "idle") /\ UNCHANGED <<poolVars, threads, workVars>>
  BY <1>1, <1>2, <1>4, FailKeeps DEF After, Fails
<1> QED  BY <1>3, <1>4 DEF ResumeLoop

\* A round of the loop in ThreadAvailable, by a thread that holds two mutexes.
LEMMA AvailableKeeps ==
  ASSUME Inv, NEW t \in Thread, NEW s \in Sched, s = target[t], ThreadAvailable(t, s)
  PROVE  Inv'
<1>1. Types /\ Locks /\ t \in Actor /\ t \notin Client  BY ThreadActor DEF Inv
<1>2. Caller(t, s, "available")
  BY <1>1 DEF ThreadAvailable, Caller, Locks, Types
<1>3. CASE threads[s].fromShared < sharedThreads[s]
           /\ AllocateSharedThread(t, s, "available", "leave")
  BY <1>1, <1>2, <1>3, SharedOutcome, JoinsKeeps, FailKeeps
<1>4. CASE Continue(t, s, "leave") /\ Goto(t, "select") /\ UNCHANGED <<poolVars, threads, workVars>>
  BY <1>1, <1>2, <1>4, FailKeeps DEF After, Fails
<1> QED  BY <1>3, <1>4 DEF ThreadAvailable

-----------------------------------------------------------------------------
(* The way of a thread back *)

\* The finite sets that are counted.
LEMMA Counted ==
  ASSUME Types, NEW s \in Sched
  PROVE  /\ threads[s] \in Record
         /\ IsFiniteSet(threads[s].running) /\ IsFiniteSet(threads[s].suspended)
         /\ IsFiniteSet(Leaving(s)) /\ IsFiniteSet(pool)
         /\ Cardinality(threads[s].running) \in Nat
         /\ Cardinality(threads[s].suspended) \in Nat
         /\ Cardinality(Leaving(s)) \in Nat /\ Size \in Nat
<1>1. /\ threads[s] \in Record /\ threads[s].running \subseteq Thread
      /\ threads[s].suspended \subseteq Thread /\ Leaving(s) \subseteq Thread /\ pool \subseteq Thread
  BY DEF Types, Record, Leaving
<1>2. IsFiniteSet(Thread)  BY PoolAssumption DEF PoolAssumption
<1> QED  BY <1>1, <1>2, FS_Subset, FS_CardinalityType DEF Size

\* Release, by a thread that has the mutex of its scheduler; a surplus one does not
\* become idle.
LEMMA ReleaseKeeps ==
  ASSUME Inv, NEW t \in Thread, Release(t)
  PROVE  Inv'
<1>1. Types /\ Locks /\ Bounded /\ t \in Actor /\ t \notin Client /\ None \notin Sched
  BY ThreadActor, SchedulerAssumption DEF Inv, SchedulerAssumption
<1>2. pc[t] = "release"  BY DEF Release
<1>3. /\ UNCHANGED <<schedVars, lock, suspended, home, target>>
      /\ owner' = [owner EXCEPT ![t] = None]
      /\ \/ /\ pc' = [pc EXCEPT ![t] = "settle"] \/ pc' = [pc EXCEPT ![t] = "select"]
            /\ pool' = pool \cup {t}
         \/ pc' = [pc EXCEPT ![t] = "overflow"] /\ pool' = pool
      /\ allocCount' = allocCount - 1 /\ yetToCreate' = yetToCreate
  BY DEF Release, Put, Overflow, Goto
<1>4. threads' = threads /\ life' = life  BY <1>3 DEF schedVars
<1>5. /\ suspended[t] /\ t \notin pool
      /\ \A r \in Sched : t \notin threads[r].running /\ t \notin threads[r].suspended
  <2>1. Placed(t)  BY DEF Inv
  <2> QED  BY <1>2, <2>1 DEF Placed, Works, Back
<1>6. /\ pc'[t] \in {"settle", "select", "overflow"} /\ (pc'[t] = "overflow" => pool' = pool)
      /\ \A b \in Actor \ {t} : pc'[b] = pc[b]
      /\ DOMAIN pc' = Actor
  BY <1>1, <1>3 DEF Types
<1>7. Types'
  BY <1>1, <1>3, <1>4, <1>6, ThreadActor DEF Types, ThreadLabels, Back, Out
<1>8. ASSUME NEW u \in Thread PROVE Placed(u)'
  <2>1. CASE u = t
    <3>1. owner'[t] = None /\ suspended'[t]  BY <1>1, <1>3, <1>5 DEF Types
    <3> QED  BY <1>4, <1>5, <1>6, <2>1, <3>1 DEF Placed, Works, Back
  <2>2. CASE u # t
    <3>1. Placed(u) /\ pc'[u] = pc[u] /\ owner'[u] = owner[u] /\ suspended'[u] = suspended[u]
          /\ (u \in pool' <=> u \in pool)
      BY <1>1, <1>3, <1>6, <2>2, ThreadActor DEF Inv, Types
    <3> QED  BY <1>4, <3>1 DEF Placed
  <2> QED  BY <2>1, <2>2
<1>9. Locks'
  BY <1>1, <1>2, <1>3, <1>6, ThreadActor DEF Locks, Back, Out
<1>10. ASSUME NEW s \in Sched PROVE Counts1(s)'
  <2>1. Leaving(s)' = Leaving(s)
    BY <1>2, <1>3, <1>6, ThreadActor DEF Leaving, Back, Out
  <2> QED  BY <1>4, <2>1 DEF Inv, Counts1
<1>11. Bounded'
  <2>1. CASE pool' = pool \cup {t}
    <3>1. Cardinality(pool \cup {t}) = Cardinality(pool) + 1 /\ Cardinality(pool) \in Nat
      <4>1. IsFiniteSet(pool)
        BY <1>1, PoolAssumption, FS_Subset DEF Types, PoolAssumption
      <4> QED  BY <1>5, <4>1, FS_AddElement, FS_CardinalityType
    <3> QED  BY <1>1, <1>3, <2>1, <3>1, PoolAssumption DEF Bounded, ThreadBound, Size, PoolAssumption
  <2>2. CASE pool' = pool
    <3>1. Cardinality(pool) \in Nat
      BY <1>1, PoolAssumption, FS_Subset, FS_CardinalityType DEF Types, PoolAssumption
    <3> QED  BY <1>1, <1>3, <2>2, <3>1, PoolAssumption DEF Bounded, ThreadBound, Size, PoolAssumption
  <2> QED  BY <1>3, <2>1, <2>2
<1> QED  BY <1>7, <1>8, <1>9, <1>10, <1>11 DEF Inv

\* Waking the clients that wait for the scheduler concerns no thread.
LEMMA RetireLabels ==
  ASSUME Types, NEW t \in Thread, NEW s \in Sched, NEW th, NEW label, Retire(t, s, th, label)
  PROVE  /\ DOMAIN pc' = Actor /\ pc'[t] = label
         /\ \A u \in Thread \ {t} : pc'[u] = pc[u]
         /\ \A c \in Client : pc'[c] \in {"resume", "starve"} => pc'[c] = pc[c]
<1>1. DOMAIN pc = Actor /\ t \in Actor /\ \A u \in Thread : pc[u] # "blocked"
  BY ThreadActor DEF Types, ThreadLabels, Works, Back, Out
<1>2. CASE pc' = [a \in Actor |-> IF a = t THEN label
                                 ELSE IF pc[a] = "blocked" /\ home[a] = s THEN "woken"
                                 ELSE pc[a]]
  BY <1>1, <1>2, ThreadActor
<1>3. CASE Goto(t, label)
  BY <1>1, <1>3, ThreadActor DEF Goto
<1> QED  BY <1>2, <1>3 DEF Retire

\* The returned thread is now counted where it is.
LEMMA SettleKeeps ==
  ASSUME Inv, NEW t \in Thread, NEW s \in Sched, s = home[t], Settle(t, s)
  PROVE  Inv'
<1>1. Types /\ Locks /\ t \in Actor /\ None \notin Sched /\ None # t
  BY ThreadActor, SchedulerAssumption DEF Inv, SchedulerAssumption
<1>2. /\ DOMAIN pc' = Actor /\ pc'[t] = "parked" /\ pc[t] = "settle"
      /\ \A u \in Thread \ {t} : pc'[u] = pc[u]
      /\ \A c \in Client : pc'[c] \in {"resume", "starve"} => pc'[c] = pc[c]
  BY <1>1, RetireLabels DEF Settle
<1>3. threads[s] \in Record /\ sharedThreads[s] \in Nat
  BY <1>1, SchedulerAssumption DEF Types, SchedulerAssumption
<1>4. threads' = [threads EXCEPT ![s] = [threads[s] EXCEPT
        !.fromShared = @ - 1, !.unusedCount = @ + 1, !.runningCount = @ - 1]]
  BY DEF Settle, Retire
<1>5. threads'[s] = [
        running |-> threads[s].running, suspended |-> threads[s].suspended,
        runningCount |-> threads[s].runningCount - 1,
        suspendedCount |-> threads[s].suspendedCount,
        yetToCreate |-> threads[s].yetToCreate,
        fromShared |-> threads[s].fromShared - 1,
        unusedCount |-> threads[s].unusedCount + 1,
        starved |-> threads[s].starved, stopCount |-> threads[s].stopCount]
  BY <1>1, <1>3, <1>4 DEF Types, Record
<1>6. /\ \A r \in Sched \ {s} : threads'[r] = threads[r]
      /\ threads'[s] \in Record /\ threads' \in [Sched -> Record]
  BY <1>1, <1>3, <1>4, <1>5 DEF Types, Record
<1>7. /\ UNCHANGED <<pool, allocCount, yetToCreate, life, owner, suspended, home, target>>
      /\ lock' = [lock EXCEPT ![s] = None]
  BY DEF Settle, poolVars, workVars
<1>8. lock[s] = t /\ \A u \in Thread \ {t} : pc[u] \in Back \cup Out => home[u] # s
  BY <1>1, <1>2 DEF Locks, Back
<1>9. Types'
  BY <1>1, <1>2, <1>6, <1>7 DEF Types, ThreadLabels
<1>10. ASSUME NEW u \in Thread PROVE Placed(u)'
  <2>1. Placed(u)  BY DEF Inv
  <2>2. pc'[u] = pc[u] \/ (pc[u] \in Back /\ pc'[u] = "parked")
    BY <1>2 DEF Back
  <2>3. \A r \in Sched : threads'[r].running = threads[r].running
                         /\ threads'[r].suspended = threads[r].suspended
    BY <1>5, <1>6
  <2> QED  BY <1>1, <1>7, <2>1, <2>2, <2>3 DEF Placed, Works, Back, Types
<1>11. Locks'
  <2>1. ASSUME NEW u \in Thread, pc'[u] \in Back \cup Out
        PROVE  home'[u] # None /\ lock'[home'[u]] = u
    BY <1>1, <1>2, <1>7, <1>8, <2>1 DEF Locks, Types, Back, Out
  <2>2. ASSUME NEW u \in Thread, pc'[u] \in {"available", "starve"}
        PROVE  target'[u] # None /\ target'[u] # home'[u] /\ lock'[target'[u]] = u
    BY <1>1, <1>2, <1>7, <1>8, <2>2 DEF Locks, Types
  <2>3. ASSUME NEW c \in Client, pc'[c] \in {"resume", "starve"}
        PROVE  home'[c] # None /\ lock'[home'[c]] = c
    BY <1>1, <1>2, <1>7, <1>8, <2>3, ThreadActor DEF Locks, Types
  <2> QED  BY <2>1, <2>2, <2>3 DEF Locks
<1>12. ASSUME NEW r \in Sched PROVE Counts1(r)'
  <2>1. Counts1(r) /\ r \in Sched  BY DEF Inv
  <2>2. CASE r # s
    <3>1. Leaving(r)' = Leaving(r)
      BY <1>2, <1>7, <2>2 DEF Leaving
    <3> QED  BY <1>6, <1>7, <2>1, <2>2, <3>1 DEF Counts1
  <2>3. CASE r = s
    <3>1. t \in Leaving(s) /\ Leaving(s)' = Leaving(s) \ {t}
      BY <1>2, <1>7 DEF Leaving, Back, Out
    <3>2. Cardinality(Leaving(s) \ {t}) = Cardinality(Leaving(s)) - 1
      BY <1>1, <3>1, Counted, FS_RemoveElement
    <3> HIDE DEF Leaving
    <3>3. threads'[s].runningCount = Cardinality(threads'[s].running) + Cardinality(Leaving(s)')
      BY <1>1, <1>3, <1>5, <2>1, <2>3, <3>1, <3>2, Counted DEF Counts1, Record
    <3>4. /\ life'[s] # "gone" => threads'[s].suspendedCount = Cardinality(threads'[s].suspended)
          /\ threads'[s].fromShared <= sharedThreads[s]
          /\ threads'[s].unusedCount + threads'[s].fromShared
               = threads'[s].suspendedCount + threads'[s].yetToCreate + sharedThreads[s]
      BY <1>3, <1>5, <1>7, <2>1, <2>3 DEF Counts1, Record
    <3> QED  BY <2>3, <3>3, <3>4 DEF Counts1
  <2> QED  BY <2>2, <2>3
<1>13. Bounded'
  BY <1>7 DEF Inv, Bounded, ThreadBound, Size
<1> QED  BY <1>9, <1>10, <1>11, <1>12, <1>13 DEF Inv

\* What the three ways of putting a thread aside have in common: the thread has
\* left the running ones, sleeps, and is still counted if it is yet to leave.
Aside(t, s) ==
  /\ threads' \in [Sched -> Record] /\ \A r \in Sched \ {s} : threads'[r] = threads[r]
  /\ threads'[s].running = threads[s].running \ {t}
  /\ threads'[s].fromShared = threads[s].fromShared
  /\ threads'[s].unusedCount - threads[s].unusedCount
       = (threads'[s].suspendedCount - threads[s].suspendedCount)
         + (threads'[s].yetToCreate - threads[s].yetToCreate)
  /\ \/ /\ pc'[t] = "unstarve" /\ home'[t] = s
        /\ threads'[s].suspended = threads[s].suspended
        /\ threads'[s].suspendedCount = threads[s].suspendedCount
        /\ threads'[s].runningCount = threads[s].runningCount
     \/ /\ pc'[t] = "none" /\ home'[t] = home[t]
        /\ threads'[s].suspended = threads[s].suspended
        /\ threads'[s].suspendedCount = threads[s].suspendedCount
        /\ threads'[s].runningCount = threads[s].runningCount - 1
     \/ /\ pc'[t] = "parked" /\ home'[t] = home[t]
        /\ threads'[s].suspended = threads[s].suspended \cup {t}
        /\ threads'[s].suspendedCount = threads[s].suspendedCount + 1
        /\ threads'[s].runningCount = threads[s].runningCount - 1

\* A thread that is put aside is counted where it goes.
LEMMA AsideKeeps ==
  ASSUME Inv, NEW t \in Thread, NEW s \in Sched, s = owner[t], pc[t] = "assign",
         Aside(t, s), Locks', DOMAIN lock' = Sched,
         DOMAIN pc' = Actor, \A u \in Thread \ {t} : pc'[u] = pc[u],
         home' \in [Actor -> Sched \cup {None}], \A u \in Thread \ {t} : home'[u] = home[u],
         suspended' = [suspended EXCEPT ![t] = TRUE],
         UNCHANGED <<pool, allocCount, yetToCreate, life, owner, target>>
  PROVE  Inv'
<1>1. Types /\ None \notin Sched /\ Placed(t)
  BY SchedulerAssumption DEF Inv, SchedulerAssumption
<1>2. /\ t \in threads[s].running /\ t \notin threads[s].suspended /\ t \notin pool
      /\ \A r \in Sched \ {s} : t \notin threads[r].running /\ t \notin threads[r].suspended
  BY <1>1 DEF Placed, Works, Back
<1>3. Types'
  <2>1. pc'[t] \in ThreadLabels  BY DEF Aside, ThreadLabels, Out
  <2> QED  BY <1>1, <2>1 DEF Types, Aside
<1>4. ASSUME NEW u \in Thread PROVE Placed(u)'
  <2>1. CASE u = t
    <3>1. owner'[t] = s /\ suspended'[t] /\ t \notin pool' /\ t \notin threads'[s].running
      BY <1>1, <1>2 DEF Aside, Types
    <3>2. t \in threads'[s].suspended => pc'[t] = "parked"
      BY <1>2 DEF Aside
    <3>3. \A r \in Sched \ {s} : t \notin threads'[r].running /\ t \notin threads'[r].suspended
      BY <1>2 DEF Aside
    <3>4. pc'[t] \in {"unstarve", "none", "parked"}  BY DEF Aside
    <3> QED  BY <2>1, <3>1, <3>2, <3>3, <3>4 DEF Placed, Works, Back
  <2>2. CASE u # t
    <3>1. Placed(u) /\ pc'[u] = pc[u] /\ owner'[u] = owner[u] /\ suspended'[u] = suspended[u]
          /\ pool' = pool /\ owner[u] \in Sched \cup {None}
      BY <1>1, <2>2 DEF Inv, Types
    <3>2. \A r \in Sched : /\ u \in threads'[r].running <=> u \in threads[r].running
                           /\ u \in threads'[r].suspended <=> u \in threads[r].suspended
      BY <2>2 DEF Aside
    <3> QED  BY <3>1, <3>2 DEF Placed
  <2> QED  BY <2>1, <2>2
<1>5. ASSUME NEW r \in Sched PROVE Counts1(r)'
  <2>1. Counts1(r) /\ life' = life  BY DEF Inv
  <2>2. CASE r # s
    <3>1. Leaving(r)' = Leaving(r)
      BY <1>1, <2>2 DEF Leaving, Aside, Back, Out
    <3> QED  BY <2>1, <2>2, <3>1 DEF Counts1, Aside
  <2>3. CASE r = s
    <3>1. Cardinality(threads'[s].running) = Cardinality(threads[s].running) - 1
      <4>1. threads'[s].running = threads[s].running \ {t}  BY DEF Aside
      <4>2. IsFiniteSet(threads[s].running) /\ t \in threads[s].running  BY <1>1, <1>2, Counted
      <4>3. Cardinality(threads[s].running \ {t}) = Cardinality(threads[s].running) - 1
        BY <4>2, FS_RemoveElement
      <4> QED  BY <4>1, <4>3
    <3>2. t \notin Leaving(s)  BY DEF Leaving, Back, Out
    <3>3. threads'[s].runningCount = Cardinality(threads'[s].running) + Cardinality(Leaving(s)')
      <4>1. CASE pc'[t] = "unstarve" /\ home'[t] = s
                 /\ threads'[s].runningCount = threads[s].runningCount
        <5>1. Leaving(s)' = Leaving(s) \cup {t}
          BY <4>1 DEF Leaving, Back, Out
        <5>2. Cardinality(Leaving(s) \cup {t}) = Cardinality(Leaving(s)) + 1
          BY <1>1, <3>2, Counted, FS_AddElement
        <5> QED  BY <1>1, <2>1, <2>3, <3>1, <4>1, <5>1, <5>2, Counted DEF Counts1, Record
      <4>2. CASE pc'[t] \in {"none", "parked"} /\ home'[t] = home[t]
                 /\ threads'[s].runningCount = threads[s].runningCount - 1
        <5>1. Leaving(s)' = Leaving(s)
          BY <4>2 DEF Leaving, Back, Out
        <5> QED  BY <1>1, <2>1, <2>3, <3>1, <4>2, <5>1, Counted DEF Counts1, Record
      <4> QED  BY <4>1, <4>2 DEF Aside
    <3>4. life'[s] # "gone" => threads'[s].suspendedCount = Cardinality(threads'[s].suspended)
      <4>1. CASE threads'[s].suspended = threads[s].suspended
                 /\ threads'[s].suspendedCount = threads[s].suspendedCount
        BY <2>1, <2>3, <4>1 DEF Counts1
      <4>2. CASE threads'[s].suspended = threads[s].suspended \cup {t}
                 /\ threads'[s].suspendedCount = threads[s].suspendedCount + 1
        <5>1. Cardinality(threads[s].suspended \cup {t}) = Cardinality(threads[s].suspended) + 1
          <6>1. IsFiniteSet(threads[s].suspended)  BY <1>1, Counted
          <6> QED  BY <1>2, <6>1, FS_AddElement
        <5> QED  BY <2>1, <2>3, <4>2, <5>1 DEF Counts1
      <4> QED  BY <4>1, <4>2 DEF Aside
    <3>5. /\ threads'[s].fromShared <= sharedThreads[s]
          /\ threads'[s].unusedCount + threads'[s].fromShared
               = threads'[s].suspendedCount + threads'[s].yetToCreate + sharedThreads[s]
      <4>1. threads[s] \in Record /\ threads'[s] \in Record /\ sharedThreads[s] \in Nat
        BY <1>1, SchedulerAssumption DEF Types, Aside, SchedulerAssumption
      <4>2. /\ threads'[s].fromShared = threads[s].fromShared
            /\ threads'[s].unusedCount - threads[s].unusedCount
                 = (threads'[s].suspendedCount - threads[s].suspendedCount)
                   + (threads'[s].yetToCreate - threads[s].yetToCreate)
        BY DEF Aside
      <4>3. /\ threads[s].fromShared <= sharedThreads[s]
            /\ threads[s].unusedCount + threads[s].fromShared
                 = threads[s].suspendedCount + threads[s].yetToCreate + sharedThreads[s]
        BY <2>1, <2>3 DEF Counts1
      <4>4. /\ threads[s].unusedCount \in Int /\ threads'[s].unusedCount \in Int
            /\ threads[s].suspendedCount \in Int /\ threads'[s].suspendedCount \in Int
            /\ threads[s].yetToCreate \in Int /\ threads'[s].yetToCreate \in Int
            /\ threads[s].fromShared \in Int
        BY <4>1 DEF Record
      <4>5. threads'[s].unusedCount
              = threads[s].unusedCount + (threads'[s].suspendedCount - threads[s].suspendedCount)
                + (threads'[s].yetToCreate - threads[s].yetToCreate)
        BY <4>2, <4>4
      <4> QED  BY <4>1, <4>2, <4>3, <4>4, <4>5
    <3> QED  BY <2>3, <3>3, <3>4, <3>5 DEF Counts1
  <2> QED  BY <2>2, <2>3
<1>6. Bounded'
  BY DEF Inv, Bounded, ThreadBound, Size
<1> QED  BY <1>3, <1>4, <1>5, <1>6 DEF Inv

\* ... PutAside is such a step.
LEMMA PutAsideKeeps ==
  ASSUME Inv, NEW t \in Thread, NEW s \in Sched, s = owner[t], PutAside(t, s)
  PROVE  Inv'
<1> DEFINE th == [threads[s] EXCEPT !.running = @ \ {t}]
<1>1. /\ Types /\ Locks /\ t \in Actor /\ t \notin Client /\ None # t
      /\ threads \in [Sched -> Record] /\ threads[s] \in Record
  BY ThreadActor, SchedulerAssumption DEF Inv, Types, SchedulerAssumption
<1>2. /\ pc[t] = "assign" /\ lock[s] = None
      /\ suspended' = [suspended EXCEPT ![t] = TRUE]
      /\ UNCHANGED <<pool, allocCount, yetToCreate, life, owner, target>>
  BY DEF PutAside, poolVars
<1>3. CASE /\ threads' = [threads EXCEPT ![s] = th]
           /\ lock' = [lock EXCEPT ![s] = t]
           /\ Goto(t, "unstarve")
           /\ home' = [home EXCEPT ![t] = s]
  <2>1. /\ DOMAIN pc' = Actor /\ pc'[t] = "unstarve" /\ \A b \in Actor \ {t} : pc'[b] = pc[b]
        /\ DOMAIN lock' = Sched
        /\ home' \in [Actor -> Sched \cup {None}] /\ home'[t] = s
        /\ \A b \in Actor \ {t} : home'[b] = home[b]
    BY <1>1, <1>3 DEF Goto, Types
  <2>2. threads'[s] = [threads[s] EXCEPT !.running = @ \ {t}]
        /\ \A r \in Sched \ {s} : threads'[r] = threads[r]
    BY <1>1, <1>3
  <2>3. th \in Record
    BY <1>1 DEF Record
  <2>4. Aside(t, s)
    BY <1>1, <1>3, <2>1, <2>2, <2>3 DEF Aside, Record
  <2>5. Locks'
    <3>1. ASSUME NEW u \in Thread, pc'[u] \in Back \cup Out
          PROVE  home'[u] # None /\ lock'[home'[u]] = u
      BY <1>1, <1>2, <1>3, <2>1, <3>1, ThreadActor, SchedulerAssumption
      DEF Locks, Types, SchedulerAssumption
    <3>2. ASSUME NEW u \in Thread, pc'[u] \in {"available", "starve"}
          PROVE  target'[u] # None /\ target'[u] # home'[u] /\ lock'[target'[u]] = u
      BY <1>1, <1>2, <1>3, <2>1, <3>2, ThreadActor, SchedulerAssumption
      DEF Locks, Types, SchedulerAssumption
    <3>3. ASSUME NEW c \in Client, pc'[c] \in {"resume", "starve"}
          PROVE  home'[c] # None /\ lock'[home'[c]] = c
      BY <1>1, <1>2, <1>3, <2>1, <3>3, ThreadActor, SchedulerAssumption
      DEF Locks, Types, SchedulerAssumption
    <3> QED  BY <3>1, <3>2, <3>3 DEF Locks
  <2> QED  BY <1>2, <2>1, <2>4, <2>5, ThreadActor, AsideKeeps
<1>4. ASSUME NEW label \in {"none", "parked"}, NEW th2, Retire(t, s, th2, label),
             UNCHANGED <<lock, home>>,
             \/ label = "none" /\ th2 = [th EXCEPT !.yetToCreate = @ + 1]
             \/ label = "parked" /\ th2 = [th EXCEPT !.suspended = @ \cup {t},
                                                    !.suspendedCount = @ + 1]
      PROVE  Inv'
  <2>1. /\ DOMAIN pc' = Actor /\ pc'[t] = label
        /\ \A u \in Thread \ {t} : pc'[u] = pc[u]
        /\ \A c \in Client : pc'[c] \in {"resume", "starve"} => pc'[c] = pc[c]
    BY <1>1, <1>4, RetireLabels
  <2>2. threads' = [threads EXCEPT ![s] = [th2 EXCEPT !.unusedCount = @ + 1,
                                                      !.runningCount = @ - 1]]
    BY <1>4 DEF Retire
  <2>3. threads'[s] = [th2 EXCEPT !.unusedCount = @ + 1, !.runningCount = @ - 1]
    BY <1>1, <2>2
  <2>5. home' \in [Actor -> Sched \cup {None}] /\ home' = home /\ lock' = lock
    BY <1>1, <1>4 DEF Types
  <2>6. Locks'
    BY <1>1, <1>2, <1>4, <2>1, <2>5 DEF Locks, Back, Out
  <2>7. DOMAIN lock' = Sched
    BY <1>1, <2>5 DEF Types
  <2>8. CASE label = "none"
    <3>1. th2 = [[threads[s] EXCEPT !.running = @ \ {t}] EXCEPT !.yetToCreate = @ + 1]
      BY <1>4, <2>8
    <3>2. threads'[s] =
            [running |-> threads[s].running \ {t}, suspended |-> threads[s].suspended,
             runningCount |-> threads[s].runningCount - 1,
             suspendedCount |-> threads[s].suspendedCount, yetToCreate |-> threads[s].yetToCreate + 1,
             fromShared |-> threads[s].fromShared,
             unusedCount |-> threads[s].unusedCount + 1,
             starved |-> threads[s].starved, stopCount |-> threads[s].stopCount]
      BY <1>1, <2>3, <3>1 DEF Record
    <3>3. threads'[s] \in Record
      BY <1>1, <3>2 DEF Record
    <3>4. threads' \in [Sched -> Record] /\ \A r \in Sched \ {s} : threads'[r] = threads[r]
      BY <1>1, <2>2, <3>3
    <3>5. Aside(t, s)
      BY <1>1, <2>1, <2>5, <2>8, <3>2, <3>4 DEF Aside, Record
    <3> QED  BY <1>2, <2>1, <2>5, <2>6, <2>7, <3>5, AsideKeeps
  <2>9. CASE label = "parked"
    <3>1. th2 = [[threads[s] EXCEPT !.running = @ \ {t}] EXCEPT
                   !.suspended = @ \cup {t}, !.suspendedCount = @ + 1]
      BY <1>4, <2>9
    <3>2. threads'[s] =
            [running |-> threads[s].running \ {t}, suspended |-> threads[s].suspended \cup {t},
             runningCount |-> threads[s].runningCount - 1,
             suspendedCount |-> threads[s].suspendedCount + 1, yetToCreate |-> threads[s].yetToCreate,
             fromShared |-> threads[s].fromShared,
             unusedCount |-> threads[s].unusedCount + 1,
             starved |-> threads[s].starved, stopCount |-> threads[s].stopCount]
      BY <1>1, <2>3, <3>1 DEF Record
    <3>3. threads'[s] \in Record
      BY <1>1, <3>2 DEF Record
    <3>4. threads' \in [Sched -> Record] /\ \A r \in Sched \ {s} : threads'[r] = threads[r]
      BY <1>1, <2>2, <3>3
    <3>5. Aside(t, s)
      BY <1>1, <2>1, <2>5, <2>9, <3>2, <3>4 DEF Aside, Record
    <3> QED  BY <1>2, <2>1, <2>5, <2>6, <2>7, <3>5, AsideKeeps
  <2> QED  BY <1>4, <2>8, <2>9
<1> QED  BY <1>3, <1>4 DEF PutAside

-----------------------------------------------------------------------------
(* The ends *)

\* Only threads that sleep are deleted, by the destructor or with the pool.
LEMMA DeleteKeeps ==
  ASSUME Inv, NEW c \in Client, NEW s \in Sched, DeleteThreads(c, s)
  PROVE  Inv'
<1>1. Types /\ Locks /\ Bounded /\ c \in Actor /\ c \notin Thread /\ None \notin Sched
  BY ThreadActor, SchedulerAssumption DEF Inv, SchedulerAssumption
<1>2. threads \in [Sched -> Record] /\ threads[s] \in Record /\ threads[s].suspended \subseteq Thread
  BY <1>1 DEF Types, Record
<1>3. /\ \A t \in Thread : IF t \in threads[s].suspended
                             THEN pc[t] = "parked" /\ pc'[t] = "none" ELSE pc'[t] = pc[t]
      /\ \A d \in Client \ {c} : pc'[d] = pc[d]
      /\ pc'[c] = "idle" /\ DOMAIN pc' = Actor
  BY <1>1, <1>2, ThreadActor DEF DeleteThreads
<1>4. threads' = [threads EXCEPT ![s] = [threads[s] EXCEPT !.suspended = {}]]
  BY <1>2 DEF DeleteThreads
<1>5. /\ threads'[s] = [threads[s] EXCEPT !.suspended = {}]
      /\ \A r \in Sched \ {s} : threads'[r] = threads[r]
      /\ threads' \in [Sched -> Record]
  BY <1>2, <1>4 DEF Record
<1>6. life' = [life EXCEPT ![s] = "gone"]
      /\ UNCHANGED <<pool, allocCount, yetToCreate, lock, owner, suspended, home, target>>
  BY DEF DeleteThreads, poolVars, lockVars, workVars
<1>7. Types'
  <2>1. \A t \in Thread : pc'[t] \in ThreadLabels
    BY <1>1, <1>3 DEF Types, ThreadLabels
  <2> QED  BY <1>1, <1>3, <1>5, <1>6, <2>1 DEF Types
<1>8. ASSUME NEW t \in Thread PROVE Placed(t)'
  <2>1. Placed(t)  BY DEF Inv
  <2>2. \A r \in Sched : /\ threads'[r].running = threads[r].running
                         /\ threads'[r].suspended = IF r = s THEN {} ELSE threads[r].suspended
    BY <1>2, <1>5 DEF Record
  <2>3. CASE t \in threads[s].suspended
    <3>1. /\ owner[t] = s /\ suspended[t] /\ t \notin pool
          /\ \A r \in Sched : t \notin threads[r].running
          /\ \A r \in Sched \ {s} : t \notin threads[r].suspended
      BY <1>1, <2>1, <2>3 DEF Placed
    <3> QED  BY <1>3, <1>6, <2>2, <2>3, <3>1 DEF Placed, Works, Back
  <2>4. CASE t \notin threads[s].suspended
    BY <1>1, <1>3, <1>6, <2>1, <2>2, <2>4 DEF Placed, Types
  <2> QED  BY <2>3, <2>4
<1>9. Locks'
  BY <1>1, <1>3, <1>6, ThreadActor DEF Locks, Back, Out
<1>10. ASSUME NEW r \in Sched PROVE Counts1(r)'
  <2>1. Leaving(r)' = Leaving(r)
    BY <1>3, <1>6 DEF Leaving, Back, Out
  <2>2. Counts1(r)  BY DEF Inv
  <2>3. CASE r = s
    BY <1>1, <1>2, <1>5, <1>6, <2>1, <2>2, <2>3 DEF Counts1, Record, Types
  <2>4. CASE r # s
    BY <1>1, <1>5, <1>6, <2>1, <2>2, <2>4 DEF Counts1, Types
  <2> QED  BY <2>3, <2>4
<1>11. Bounded'
  BY <1>1, <1>6 DEF Bounded, ThreadBound, Size
<1> QED  BY <1>7, <1>8, <1>9, <1>10, <1>11 DEF Inv

\* The end of the pool: it only deletes idle threads.
LEMMA ExitKeeps ==
  ASSUME Inv, NEW c \in Client, Exit(c), NEW t \in pool, pc[t] = "parked",
         pool' = pool \ {t}, Goto(t, "none")
  PROVE  Inv'
<1>1. Types /\ Locks /\ Bounded /\ t \in Thread /\ t \in Actor /\ None \notin Sched /\ Placed(t)
  BY ThreadActor, SchedulerAssumption DEF Inv, Types, SchedulerAssumption
<1>2. UNCHANGED <<threads, life, lock, owner, suspended, home, target, allocCount, yetToCreate>>
  BY DEF Exit, schedVars, workVars
<1>3. pc'[t] = "none" /\ DOMAIN pc' = Actor /\ \A b \in Actor \ {t} : pc'[b] = pc[b]
  BY <1>1 DEF Goto, Types
<1>4. Types'
  BY <1>1, <1>2, <1>3, ThreadActor DEF Types, ThreadLabels
<1>5. ASSUME NEW u \in Thread PROVE Placed(u)'
  <2>1. CASE u = t
    <3>1. owner[t] = None /\ suspended[t]
          /\ \A r \in Sched : t \notin threads[r].running /\ t \notin threads[r].suspended
      BY <1>1 DEF Placed
    <3> QED  BY <1>2, <1>3, <2>1, <3>1 DEF Placed, Works, Back
  <2>2. CASE u # t
    <3>1. Placed(u) /\ pc'[u] = pc[u]
      BY <1>3, <2>2, ThreadActor DEF Inv
    <3> QED  BY <1>2, <2>2, <3>1 DEF Placed
  <2> QED  BY <2>1, <2>2
<1>6. Locks'
  BY <1>1, <1>2, <1>3, ThreadActor DEF Locks, Back, Out
<1>7. ASSUME NEW r \in Sched PROVE Counts1(r)'
  <2>1. Leaving(r)' = Leaving(r)
    BY <1>1, <1>2, <1>3, ThreadActor DEF Leaving, Back, Out
  <2> QED  BY <1>2, <2>1 DEF Inv, Counts1
<1>8. Bounded'
  <2>1. IsFiniteSet(pool)
    BY <1>1, PoolAssumption, FS_Subset DEF Types, PoolAssumption
  <2>2. Cardinality(pool \ {t}) = Cardinality(pool) - 1 /\ Cardinality(pool) \in Nat
    BY <2>1, FS_RemoveElement, FS_CardinalityType
  <2> QED  BY <1>1, <1>2, <2>2, PoolAssumption DEF Bounded, ThreadBound, Size, PoolAssumption
<1> QED  BY <1>4, <1>5, <1>6, <1>7, <1>8 DEF Inv

-----------------------------------------------------------------------------
(* Theorems *)

\* At the start there is no thread.
LEMMA InitInv == Init => Inv
<1> SUFFICES ASSUME Init PROVE Inv  OBVIOUS
<1>1. Types
  BY ThreadActor, SchedulerAssumption, PoolAssumption
  DEF Init, Types, Record, ThreadLabels, SchedulerAssumption, PoolAssumption
<1>2. \A t \in Thread : Placed(t)
  BY ThreadActor DEF Init, Placed, Works, Back
<1>3. Locks
  BY ThreadActor DEF Init, Locks, Back, Out
<1>4. \A s \in Sched : Counts1(s)
  <2> SUFFICES ASSUME NEW s \in Sched PROVE Counts1(s)  OBVIOUS
  <2>1. Cardinality(Leaving(s)) = 0
    <3>1. Leaving(s) = {}  BY ThreadActor DEF Init, Leaving, Back, Out
    <3> QED  BY <3>1, FS_EmptySet
  <2>2. threads[s] = [running |-> {}, suspended |-> {}, runningCount |-> 0,
          suspendedCount |-> 0, yetToCreate |-> threadCount[s],
          fromShared |-> 0, unusedCount |-> threadCount[s] + sharedThreads[s],
          starved |-> FALSE, stopCount |-> 0]
    BY DEF Init
  <2>3. Cardinality({}) = 0 /\ threadCount[s] \in Nat /\ sharedThreads[s] \in Nat
    BY FS_EmptySet, SchedulerAssumption DEF SchedulerAssumption
  <2> QED  BY <2>1, <2>2, <2>3 DEF Counts1
<1>5. Bounded
  BY FS_EmptySet, PoolAssumption DEF Init, Bounded, ThreadBound, Size, PoolAssumption
<1> QED  BY <1>1, <1>2, <1>3, <1>4, <1>5 DEF Inv

\* Every step of a client keeps the invariant ...
LEMMA ClientKeeps ==
  ASSUME Inv, NEW c \in Client, ClientStep(c)
  PROVE  Inv'
<1>1. home[c] \in Sched \cup {None} /\ c \in Actor /\ c \notin Thread
  BY ThreadActor DEF Inv, Types
<1>2. ASSUME NEW s \in Sched, life[s] = "alive",
             \/ Schedule(c, s) \/ Stop(c, s) \/ Resume(c, s)
             \/ WaitForEmptyQueue(c, s, "idle") \/ Destroy(c, s)
             \/ \E watermark \in 0..MaxJobs : Trim(c, s, watermark)
      PROVE  Inv'
  BY <1>2, ScheduleKeeps, ResumeKeeps, ClientQuiet, QuietKeeps DEF Inv
<1>3. ASSUME NEW s \in Sched, s = home[c],
             \/ ResumeLoop(c, s) \/ Starve(c, s)
             \/ BeginWait(c, s) \/ WaitForEmptyQueue(c, s, "woken")
             \/ EndStarvation(c, s) \/ WaitForEmptyQueue(c, s, "destroy") \/ DeleteThreads(c, s)
      PROVE  Inv'
  BY <1>1, <1>3, ResumeLoopKeeps, StarveQuiet, ClientQuiet, QuietKeeps, DeleteKeeps DEF Inv
<1>4. CASE Timeout(c)
  BY <1>4, LonelyQuiet, QuietKeeps DEF Inv
<1>5. CASE Exit(c)
  <2>1. ASSUME NEW t \in pool, pc[t] = "parked", pool' = pool \ {t}, Goto(t, "none")
        PROVE  Inv'
    BY <1>5, <2>1, ExitKeeps
  <2>2. CASE pool' = pool
    BY <1>5, <2>2, LonelyQuiet, QuietKeeps DEF Inv
  <2> QED  BY <1>5, <2>1, <2>2 DEF Exit
<1> QED  BY <1>1, <1>2, <1>3, <1>4, <1>5 DEF ClientStep

\* ... and so does every step of a thread ...
LEMMA ThreadKeeps ==
  ASSUME Inv, NEW t \in Thread, ThreadStep(t)
  PROVE  Inv'
<1>1. /\ home[t] \in Sched \cup {None} /\ owner[t] \in Sched \cup {None}
      /\ target[t] \in Sched \cup {None} /\ t \in Actor /\ t \notin Client
  BY ThreadActor DEF Inv, Types
<1>2. CASE Wake(t) \/ ExecuteJob(t) \/ Select(t)
  BY <1>2, WorkQuiet, QuietKeeps DEF Inv
<1>3. CASE Release(t)
  BY <1>3, ReleaseKeeps
<1>4. CASE \E s \in {owner[t]} \ {None} : TakeJob(t, s) \/ PutAside(t, s)
  BY <1>1, <1>4, ThreadQuiet, QuietKeeps, PutAsideKeeps DEF Inv
<1>5. CASE \E s \in {home[t]} \ {None} : StopStarvation(t, s) \/ Settle(t, s)
  BY <1>1, <1>5, ThreadQuiet, QuietKeeps, SettleKeeps DEF Inv
<1>6. CASE \E s \in {target[t]} \ {None} :
             Notify(t, s) \/ ThreadAvailable(t, s) \/ Starve(t, s)
  BY <1>1, <1>6, ThreadQuiet, QuietKeeps, AvailableKeeps, StarveQuiet DEF Inv
<1> QED  BY <1>2, <1>3, <1>4, <1>5, <1>6 DEF ThreadStep

\* ... and hence every step.
LEMMA StutterKeeps ==
  ASSUME Inv, UNCHANGED vars
  PROVE  Inv'
<1>1. /\ UNCHANGED <<pool, lent, allocCount, maxCount, yetToCreate>>
      /\ UNCHANGED <<threads, life, lock, owner, suspended, pc, home, target>>
  BY DEF vars, poolVars, schedVars, lockVars, workVars, ctrlVars
<1>2. /\ Types /\ Locks /\ Bounded
      /\ (\A t \in Thread : Placed(t)) /\ (\A s \in Sched : Counts1(s))
  BY DEF Inv
<1>3. Types'  BY <1>1, <1>2 DEF Types
<1>4. ASSUME NEW t \in Thread PROVE Placed(t)'
  <2>1. Placed(t)  BY <1>2
  <2> QED  BY <1>1, <2>1 DEF Placed
<1>5. Locks'  BY <1>1, <1>2 DEF Locks
<1>6. ASSUME NEW s \in Sched PROVE Counts1(s)'
  <2>1. Counts1(s) /\ Leaving(s)' = Leaving(s)  BY <1>1, <1>2 DEF Leaving
  <2> QED  BY <1>1, <2>1 DEF Counts1
<1>7. Bounded'  BY <1>1, <1>2 DEF Bounded, ThreadBound, Size
<1> QED  BY <1>3, <1>4, <1>5, <1>6, <1>7 DEF Inv

LEMMA NextInv == Inv /\ [Next]_vars => Inv'
<1> SUFFICES ASSUME Inv, [Next]_vars PROVE Inv'  OBVIOUS
<1>1. CASE UNCHANGED vars  BY <1>1, StutterKeeps
<1> QED  BY <1>1, ClientKeeps, ThreadKeeps DEF Next

\* CThread and AssignJob: whatever schedulers, threads and clients there are, a
\* thread that has been resumed belongs to the scheduler that runs it, so that
\* ThreadFunc may call info->owner->AssignJob without looking.
THEOREM SchedulerOwners == Spec => []ResumedHasOwner
<1>1. Inv => ResumedHasOwner
  BY DEF Inv, Placed, ResumedHasOwner, Works, Back
<1> QED  BY <1>1, InitInv, NextInv, PTL DEF Spec

\* No thread works for two schedulers, or works and is idle in the pool or among
\* its scheduler's suspended ones.
THEOREM SchedulerPlaces == Spec => []OnePlace
<1>1. Inv => OnePlace
  <2> SUFFICES ASSUME Inv, NEW s \in Sched, NEW t \in threads[s].running
               PROVE  /\ t \notin pool /\ t \notin threads[s].suspended
                      /\ \A r \in Sched \ {s} : t \notin threads[r].running
    BY DEF OnePlace
  <2>1. t \in Thread /\ None \notin Sched
    BY SchedulerAssumption DEF Inv, Types, Record, SchedulerAssumption
  <2>2. Placed(t)  BY <2>1 DEF Inv
  <2> QED  BY <2>1, <2>2 DEF Placed
<1> QED  BY <1>1, InitInv, NextInv, PTL DEF Spec

\* SThreads: the cached counts are right whenever a scheduler's mutex is free.
THEOREM SchedulerCounts == Spec => []CountsConsistent
<1>1. Inv => CountsConsistent
  <2> SUFFICES ASSUME Inv, NEW s \in Sched, lock[s] = None, life[s] # "gone"
               PROVE  /\ threads[s].runningCount = Cardinality(threads[s].running)
                      /\ threads[s].suspendedCount = Cardinality(threads[s].suspended)
                      /\ threads[s].fromShared <= sharedThreads[s]
                      /\ threads[s].unusedCount + threads[s].fromShared
                           = threads[s].suspendedCount + threads[s].yetToCreate + sharedThreads[s]
    BY DEF CountsConsistent
  <2>1. Types /\ Locks /\ Counts1(s)  BY DEF Inv
  <2>2. Leaving(s) = {}
    BY <2>1, SchedulerAssumption DEF Locks, Leaving, SchedulerAssumption
  <2>3. Cardinality(threads[s].running) \in Nat /\ Cardinality(Leaving(s)) = 0
    BY <2>1, <2>2, Counted, FS_EmptySet
  <2>4. threads[s].runningCount = Cardinality(threads[s].running)
    BY <2>1, <2>3 DEF Counts1
  <2> QED  BY <2>1, <2>4 DEF Counts1
<1> QED  BY <1>1, InitInv, NextInv, PTL DEF Spec

\* CThreadPool, with the schedulers that use it and the pool's end: the shared
\* threads that exist, and those that may still be created, are no more than
\* there are processors.
THEOREM SchedulerBound == Spec => []ThreadBound
<1>1. Inv => ThreadBound
  BY DEF Inv, Bounded
<1> QED  BY <1>1, InitInv, NextInv, PTL DEF Spec

-----------------------------------------------------------------------------
(* What the numbers of a scheduler say about its work and its debts *)

\* Each thread runs, is idle or has not been created; what was borrowed runs, or is
\* on its way back.
Account(s) ==
  LET th == threads[s]
  IN  /\ th.suspendedCount \in Nat /\ th.yetToCreate \in Nat /\ th.fromShared \in Nat
      /\ th.stopCount \in Nat
      /\ th.runningCount + th.unusedCount = threadCount[s] + sharedThreads[s]
      /\ th.fromShared <= th.runningCount
      /\ Leaving(s) # {} => th.fromShared > 0

\* The pool's count, while threads are being returned.
Borrowed ==
  /\ allocCount \in Int
  /\ IsFiniteSet(Debts) /\ allocCount + Cardinality(Returning) = Cardinality(Debts)

\* Jobs wait only next to a running thread, unless a client is just resuming the
\* scheduler and will look for one.
Work(s) ==
  threadCount[s] > 0 /\ threads[s].stopCount = 0 /\ queue[s] > 0 =>
    threads[s].running # {} \/ \E c \in Client : pc[c] = "resume" /\ home[c] = s

WorkInv ==
  /\ queue \in [Sched -> Nat]
  /\ \A s \in Sched : Account(s) /\ Work(s)
  /\ Borrowed

SameNumbers(p, q) ==
  /\ q.running = p.running
  /\ q.runningCount = p.runningCount
  /\ q.suspendedCount = p.suspendedCount
  /\ q.yetToCreate = p.yetToCreate
  /\ q.fromShared = p.fromShared
  /\ q.unusedCount = p.unusedCount

\* A step that moves no thread and adds no work.
Steady ==
  /\ \A s \in Sched :
       /\ SameNumbers(threads[s], threads'[s])
       /\ threads'[s].stopCount \in Nat /\ threads'[s].stopCount >= threads[s].stopCount
       /\ queue'[s] <= queue[s]
  /\ queue' \in [Sched -> Nat]
  /\ \A t \in Thread : home'[t] = home[t]
                       /\ (pc'[t] \in Back \cup Out <=> pc[t] \in Back \cup Out)
                       /\ (t \in Returning' <=> t \in Returning)
  /\ allocCount' = allocCount
  /\ \A c \in Client : pc[c] = "resume" => pc'[c] = "resume" /\ home'[c] = home[c]

\* Such a step keeps the invariant: there is no more work, and the debts are the same.
LEMMA SteadyKeeps ==
  ASSUME WorkInv, Steady
  PROVE  WorkInv'
<1>1. ASSUME NEW s \in Sched PROVE Account(s)' /\ Work(s)'
  <2>1. Leaving(s)' = Leaving(s)
    BY DEF Leaving, Steady
  <2>2. /\ SameNumbers(threads[s], threads'[s])
        /\ threads'[s].stopCount \in Nat /\ threads'[s].stopCount >= threads[s].stopCount
        /\ queue'[s] <= queue[s] /\ queue'[s] \in Nat /\ queue[s] \in Nat
    BY DEF Steady, WorkInv
  <2>3. Account(s) /\ Work(s)  BY DEF WorkInv
  <2>4. Account(s)'
    BY <2>1, <2>2, <2>3 DEF Account, SameNumbers
  <2>5. Work(s)'
    <3>1. SUFFICES ASSUME threadCount[s] > 0, threads'[s].stopCount = 0, queue'[s] > 0
                   PROVE  \/ threads'[s].running # {}
                          \/ \E c \in Client : pc'[c] = "resume" /\ home'[c] = s
      BY DEF Work
    <3>2. threads[s].stopCount = 0 /\ queue[s] > 0
      BY <2>2, <2>3, <3>1 DEF Account
    <3>3. CASE threads[s].running # {}
      BY <2>2, <3>3 DEF SameNumbers
    <3>4. CASE \E c \in Client : pc[c] = "resume" /\ home[c] = s
      BY <3>4 DEF Steady
    <3> QED  BY <2>3, <3>1, <3>2, <3>3, <3>4 DEF Work
  <2> QED  BY <2>4, <2>5
<1>2. Borrowed'
  <2>1. Returning' = Returning
    BY DEF Returning, Steady
  <2>2. \A s \in Sched : threads'[s].fromShared = threads[s].fromShared
    BY DEF Steady, SameNumbers
  <2>3. Debts' = Debts
    BY <2>2 DEF Debts
  <2>4. Borrowed /\ allocCount' = allocCount  BY DEF WorkInv, Steady
  <2> HIDE DEF Debts, Returning
  <2> QED  BY <2>1, <2>3, <2>4 DEF Borrowed
<1> QED  BY <1>1, <1>2 DEF WorkInv, Steady

\* Most steps are steady.
LEMMA ClientSteady ==
  ASSUME Inv, WorkInv, NEW c \in Client, NEW s \in Sched, NEW n \in Nat, NEW from,
         \/ Stop(c, s) \/ Trim(c, s, n) \/ Destroy(c, s)
         \/ from # "resume" /\ WaitForEmptyQueue(c, s, from)
         \/ BeginWait(c, s) \/ EndStarvation(c, s) \/ DeleteThreads(c, s)
  PROVE  Steady
<1>1. /\ Types /\ c \in Actor /\ c \notin Thread /\ threads \in [Sched -> Record]
      /\ queue \in [Sched -> Nat] /\ (\A r \in Sched : threads[r].stopCount \in Nat)
      /\ DOMAIN pc = Actor
  BY ThreadActor DEF Inv, Types, WorkInv, Account
<1>2. CASE Stop(c, s)
  BY <1>1, <1>2
  DEF Stop, Record, Steady, SameNumbers, Returning, ctrlVars, poolVars
<1>3. CASE Trim(c, s, n)
  BY <1>1, <1>3
  DEF Trim, Record, Steady, SameNumbers, Returning, ctrlVars, poolVars
<1>4. CASE Destroy(c, s)
  BY <1>1, <1>4, ThreadActor
  DEF Destroy, Goto, Record, Steady, SameNumbers, Returning, poolVars, Types
<1>5. CASE from # "resume" /\ WaitForEmptyQueue(c, s, from)
  <2>1. /\ queue' \in [Sched -> Nat] /\ \A r \in Sched : queue'[r] <= queue[r]
        /\ threads' = threads /\ allocCount' = allocCount
    BY <1>1, <1>5 DEF WaitForEmptyQueue, poolVars
  <2>2. /\ \A t \in Thread : pc'[t] = pc[t] /\ home'[t] = home[t]
        /\ \A d \in Client \ {c} : pc'[d] = pc[d] /\ home'[d] = home[d]
        /\ pc[c] # "resume"
    BY <1>1, <1>5, ThreadActor DEF WaitForEmptyQueue, Goto, Types
  <2> QED  BY <1>1, <2>1, <2>2 DEF Steady, SameNumbers, Returning
<1>6. CASE BeginWait(c, s)
  BY <1>1, <1>6, ThreadActor
  DEF BeginWait, Goto, Record, Steady, SameNumbers, Returning, schedVars, poolVars, Types
<1>7. CASE EndStarvation(c, s)
  <2>1. allocCount' = allocCount /\ queue' = queue /\ home' = home
    BY <1>7 DEF EndStarvation, RemoveStarving, poolVars
  <2>2. \A r \in Sched : SameNumbers(threads[r], threads'[r])
                         /\ threads'[r].stopCount = threads[r].stopCount
    BY <1>1, <1>7 DEF EndStarvation, Record, SameNumbers
  <2>3. /\ \A t \in Thread : pc'[t] = pc[t]
        /\ \A d \in Client \ {c} : pc'[d] = pc[d]
        /\ pc[c] # "resume"
    BY <1>1, <1>7, ThreadActor DEF EndStarvation, Goto
  <2> QED  BY <1>1, <2>1, <2>2, <2>3 DEF Steady, Returning
<1>8. CASE DeleteThreads(c, s)
  <2>1. allocCount' = allocCount /\ queue' = queue /\ home' = home
    BY <1>8 DEF DeleteThreads, poolVars
  <2>2. \A r \in Sched : SameNumbers(threads[r], threads'[r])
                         /\ threads'[r].stopCount = threads[r].stopCount
    BY <1>1, <1>8 DEF DeleteThreads, Record, SameNumbers
  <2>3. \A t \in Thread : pc'[t] = pc[t] \/ (pc[t] = "parked" /\ pc'[t] = "none")
    BY <1>1, <1>8, ThreadActor DEF DeleteThreads
  <2>4. \A d \in Client : pc[d] = "resume" => pc'[d] = "resume"
    <3>1. threads[s].suspended \subseteq Thread
      BY <1>1 DEF Record
    <3> QED  BY <1>1, <1>8, <3>1, ThreadActor DEF DeleteThreads
  <2> QED  BY <1>1, <2>1, <2>2, <2>3, <2>4 DEF Steady, Returning, Back, Out
<1> QED  BY <1>2, <1>3, <1>4, <1>5, <1>6, <1>7, <1>8

\* Steps of that kind: a client gives up waiting or ends, ...
LEMMA LonelySteady ==
  ASSUME Inv, WorkInv, NEW c \in Client, Timeout(c) \/ Exit(c)
  PROVE  Steady
<1>1. /\ Types /\ c \in Actor /\ c \notin Thread /\ pool \subseteq Thread
      /\ queue \in [Sched -> Nat] /\ (\A r \in Sched : threads[r].stopCount \in Nat)
      /\ DOMAIN pc = Actor
  BY ThreadActor DEF Inv, Types, WorkInv, Account
<1>2. allocCount' = allocCount /\ queue' = queue /\ home' = home /\ threads' = threads
  BY DEF Timeout, Exit, poolVars, schedVars
<1>3. /\ \A t \in Thread : pc'[t] = pc[t] \/ (pc[t] = "parked" /\ pc'[t] = "none")
      /\ \A d \in Client : pc[d] = "resume" => pc'[d] = "resume"
  BY <1>1, ThreadActor DEF Timeout, Exit, Goto
<1> QED  BY <1>1, <1>2, <1>3 DEF Steady, SameNumbers, Returning, Back, Out

\* ... somebody registers for a thread, ...
LEMMA StarveSteady ==
  ASSUME Inv, WorkInv, NEW a \in Actor, NEW s \in Sched, Starve(a, s)
  PROVE  Steady
<1>1. /\ Types /\ queue \in [Sched -> Nat] /\ (\A r \in Sched : threads[r].stopCount \in Nat)
      /\ DOMAIN pc = Actor
  BY DEF Inv, Types, WorkInv, Account
<1>2. /\ allocCount' = allocCount /\ queue' = queue /\ home' = home /\ threads' = threads
      /\ pc[a] = "starve" /\ pc' = [pc EXCEPT ![a] = IF a \in Client THEN "idle" ELSE "select"]
  BY DEF Starve, AddStarving, Goto, After, schedVars
<1>3. /\ \A t \in Thread : pc'[t] = pc[t] \/ (pc[t] = "starve" /\ pc'[t] = "select")
      /\ \A d \in Client : pc[d] = "resume" => pc'[d] = "resume"
  BY <1>1, <1>2, ThreadActor
<1> QED  BY <1>1, <1>2, <1>3 DEF Steady, SameNumbers, Returning, Back, Out

\* ... or a thread takes a job, works, or passes the news of a thread on.
LEMMA ThreadSteady ==
  ASSUME Inv, WorkInv, NEW t \in Thread,
         \/ \E s \in Sched : TakeJob(t, s) \/ StopStarvation(t, s) \/ Notify(t, s)
         \/ Wake(t) \/ ExecuteJob(t) \/ Select(t)
  PROVE  Steady
<1>1. /\ Types /\ threads \in [Sched -> Record] /\ t \in Actor /\ t \notin Client
      /\ queue \in [Sched -> Nat] /\ (\A r \in Sched : threads[r].stopCount \in Nat)
      /\ DOMAIN pc = Actor
  BY ThreadActor DEF Inv, Types, WorkInv, Account
<1>2. allocCount' = allocCount /\ home' = home
  BY DEF TakeJob, StopStarvation, Notify, Wake, ExecuteJob, Select, RemoveStarving, SelectStarving,
         poolVars
<1>3. queue' \in [Sched -> Nat] /\ \A r \in Sched : queue'[r] <= queue[r]
  BY <1>1 DEF TakeJob, StopStarvation, Notify, Wake, ExecuteJob, Select, schedVars
<1>4. \A r \in Sched : SameNumbers(threads[r], threads'[r])
                       /\ threads'[r].stopCount = threads[r].stopCount
  <2>1. CASE threads' = threads
    BY <1>1, <2>1 DEF SameNumbers
  <2>2. ASSUME NEW s \in Sched, threads' = [threads EXCEPT ![s].starved = FALSE]
        PROVE  \A r \in Sched : SameNumbers(threads[r], threads'[r])
                                 /\ threads'[r].stopCount = threads[r].stopCount
    BY <1>1, <2>2 DEF SameNumbers, Record
  <2> QED
    BY <2>1, <2>2 DEF TakeJob, StopStarvation, Notify, Wake, ExecuteJob, Select, schedVars
<1>5. /\ \A u \in Actor \ {t} : pc'[u] = pc[u]
      /\ \/ pc[t] = "parked" /\ pc'[t] = "assign"
         \/ pc[t] \in Works /\ pc'[t] \in Works
         \/ pc[t] = "unstarve" /\ pc'[t] = "release"
         \/ pc[t] = "select" /\ pc'[t] \in {"settle", "notify"}
         \/ pc[t] = "notify" /\ pc'[t] = "available"
  BY <1>1 DEF TakeJob, StopStarvation, Notify, Wake, ExecuteJob, Select, Goto, Works
<1>6. ASSUME NEW u \in Thread
      PROVE  /\ pc'[u] \in Back \cup Out <=> pc[u] \in Back \cup Out
             /\ u \in Returning' <=> u \in Returning
  <2>1. CASE u = t
    BY <1>5, <2>1 DEF Returning, Back, Out, Works
  <2>2. CASE u # t
    BY <1>5, <2>2, ThreadActor DEF Returning
  <2> QED  BY <2>1, <2>2
<1> QED  BY <1>1, <1>2, <1>3, <1>4, <1>5, <1>6, ThreadActor DEF Steady

\* A thread that joins the running ones is paid for: one fewer is unused, and one
\* from the pool is one more debt.
LEMMA JoinsWork ==
  ASSUME Inv, WorkInv, NEW a \in Actor, NEW s \in Sched, NEW ok, NEW t \in Thread,
         Caller(a, s, ok), Joins(a, s, t), Labels(a, s, t, ok), ok # "resume" \/ a \in Client,
         queue' \in [Sched -> Nat], \A r \in Sched \ {s} : queue'[r] = queue[r],
         pc[a] = "resume" => ok \in {"resume", "leave"} /\ home[a] = s
  PROVE  WorkInv'
<1>1. /\ Types /\ None \notin Sched /\ t \in Actor /\ DOMAIN pc = Actor
      /\ threads[s] \in Record /\ Counts1(s) /\ Account(s)
  BY ThreadActor, SchedulerAssumption DEF Inv, Types, SchedulerAssumption, WorkInv
<1>2. \A u \in Thread \ {a, t} : pc'[u] = pc[u]
  BY <1>1, ThreadActor DEF Labels, Types
<1>3. a \in Thread => pc[a] \in Back /\ pc'[a] \in Back
  BY <1>1, ThreadActor DEF Labels, Types, Caller, After, Back
<1>4. t # a => pc'[t] = IF pc[t] = "none" THEN "parked" ELSE pc[t]
  BY <1>1 DEF Labels, Types
<1>5. \A u \in Thread : home'[u] = home[u]
  BY ThreadActor DEF Caller
<1>6. ASSUME NEW u \in Thread
      PROVE  /\ pc'[u] \in Back \cup Out <=> pc[u] \in Back \cup Out
             /\ u \in Returning' <=> u \in Returning
  <2>1. CASE u # a /\ u # t  BY <1>2, <2>1 DEF Returning
  <2>2. CASE u = a  BY <1>3, <2>2 DEF Returning, Back
  <2>3. CASE u = t /\ u # a  BY <1>4, <2>3 DEF Back, Out, Returning
  <2> QED  BY <2>1, <2>2, <2>3
<1>7. \A r \in Sched : Leaving(r)' = Leaving(r)
  BY <1>5, <1>6 DEF Leaving
<1>8. Returning' = Returning
  BY <1>6 DEF Returning
<1>9. ASSUME NEW r \in Sched PROVE Account(r)' /\ Work(r)'
  <2>1. CASE r = s
    <3>1. /\ threads'[s].runningCount = threads[s].runningCount + 1
          /\ threads'[s].unusedCount = threads[s].unusedCount - 1
          /\ threads'[s].stopCount = threads[s].stopCount
          /\ t \in threads'[s].running
      BY DEF Joins, Source
    <3>2. /\ threads'[s].suspendedCount \in Nat /\ threads'[s].yetToCreate \in Nat
          /\ threads'[s].fromShared \in Nat
          /\ threads'[s].fromShared <= threads[s].fromShared + 1
          /\ threads'[s].fromShared >= threads[s].fromShared
      BY <1>1 DEF Joins, Source, Account
    <3>3. /\ threads[s].runningCount \in Int /\ threads[s].unusedCount \in Int
          /\ threadCount[s] \in Nat /\ sharedThreads[s] \in Nat
      BY <1>1, SchedulerAssumption DEF Record, SchedulerAssumption
    <3>4. Account(s)'
      BY <1>1, <1>7, <3>1, <3>2, <3>3 DEF Account
    <3> QED  BY <2>1, <3>1, <3>4 DEF Work
  <2>2. CASE r # s
    <3>1. threads'[r] = threads[r] /\ queue'[r] = queue[r]
      BY <2>2 DEF Joins
    <3>2. \A c \in Client : pc[c] = "resume" /\ home[c] = r => pc'[c] = "resume" /\ home'[c] = r
      <4> SUFFICES ASSUME NEW c \in Client, pc[c] = "resume", home[c] = r
                   PROVE  pc'[c] = "resume" /\ home'[c] = r
        OBVIOUS
      <4>1. c # a /\ c # t /\ c \in Actor
        BY <2>2, ThreadActor
      <4> QED  BY <1>1, <4>1 DEF Labels, Caller
    <3> QED  BY <1>7, <3>1, <3>2 DEF Account, Work, WorkInv
  <2> QED  BY <2>1, <2>2
<1>10. Borrowed'
  <2>1. Borrowed /\ \A r \in Sched \ {s} : threads'[r].fromShared = threads[r].fromShared
    BY DEF WorkInv, Joins
  <2>2. CASE threads'[s].fromShared = threads[s].fromShared /\ allocCount' = allocCount
    <3>1. Debts' = Debts  BY <2>1, <2>2 DEF Debts
    <3> HIDE DEF Debts, Returning
    <3> QED  BY <1>8, <2>1, <2>2, <3>1 DEF Borrowed
  <2>3. CASE threads'[s].fromShared = threads[s].fromShared + 1 /\ allocCount' = allocCount + 1
    <3> DEFINE new == <<s, threads[s].fromShared + 1>>
    <3>1. Debts' = Debts \cup {new} /\ new \notin Debts
      BY <1>1, <2>1, <2>3 DEF Debts, Account
    <3> HIDE DEF Debts, Returning, new
    <3>2. IsFiniteSet(Debts \cup {new}) /\ Cardinality(Debts \cup {new}) = Cardinality(Debts) + 1
      BY <2>1, <3>1, FS_AddElement DEF Borrowed
    <3>3. Cardinality(Debts) \in Nat /\ Cardinality(Returning) \in Nat
      <4>1. Returning \subseteq Thread  BY DEF Returning
      <4>2. IsFiniteSet(Returning)  BY <4>1, PoolAssumption, FS_Subset DEF PoolAssumption
      <4> QED  BY <2>1, <4>2, FS_CardinalityType DEF Borrowed
    <3> QED  BY <1>8, <2>1, <2>3, <3>1, <3>2, <3>3 DEF Borrowed
  <2> QED  BY <2>2, <2>3 DEF Joins, Source
<1> QED  BY <1>9, <1>10 DEF WorkInv

\* An allocation that fails changes nothing that is counted; it may leave jobs
\* waiting only where somebody works on them or nobody has to.
LEMMA FailWork ==
  ASSUME Inv, WorkInv, NEW a \in Actor, NEW s \in Sched, NEW ok, NEW label \in {"leave", "starve"},
         Caller(a, s, ok), Fails(a, s, label),
         queue' \in [Sched -> Nat], \A r \in Sched \ {s} : queue'[r] = queue[r],
         pc[a] = "resume" => home[a] = s,
         threadCount[s] > 0 /\ threads[s].stopCount = 0 /\ queue'[s] > 0 => threads[s].running # {}
  PROVE  WorkInv'
<1>1. /\ Types /\ a \in Actor /\ DOMAIN pc = Actor /\ threads \in [Sched -> Record]
  BY DEF Inv, Types
<1>2. /\ \A b \in Actor \ {a} : pc'[b] = pc[b] /\ home'[b] = home[b]
      /\ pc'[a] = After(a, label) /\ allocCount' = allocCount
  BY <1>1 DEF Fails, Goto, Caller, poolVars
<1>3. \A r \in Sched : SameNumbers(threads[r], threads'[r])
                       /\ threads'[r].stopCount = threads[r].stopCount
  <2>1. CASE threads' = threads
    BY <1>1, <2>1 DEF SameNumbers
  <2>2. CASE threads' = [threads EXCEPT ![s].starved = TRUE]
    BY <1>1, <2>2 DEF SameNumbers, Record
  <2> QED  BY <2>1, <2>2 DEF Fails
<1>4. a \in Thread => pc[a] \in Back /\ pc'[a] \in Back /\ home'[a] = home[a]
                      /\ a \in Returning /\ a \in Returning'
  BY <1>2, ThreadActor DEF Caller, After, Back, Returning
<1>5. ASSUME NEW u \in Thread
      PROVE  /\ pc'[u] \in Back \cup Out <=> pc[u] \in Back \cup Out
             /\ u \in Returning' <=> u \in Returning
             /\ home'[u] = home[u]
  <2>1. CASE u = a  BY <1>4, <2>1
  <2>2. CASE u # a  BY <1>2, <2>2, ThreadActor DEF Returning
  <2> QED  BY <2>1, <2>2
<1>6. ASSUME NEW r \in Sched PROVE Account(r)' /\ Work(r)'
  <2>1. Leaving(r)' = Leaving(r)
    BY <1>5 DEF Leaving
  <2>2. SameNumbers(threads[r], threads'[r]) /\ threads'[r].stopCount = threads[r].stopCount
    BY <1>3
  <2>3. Account(r) /\ Work(r)  BY DEF WorkInv
  <2>4. Account(r)'
    BY <2>1, <2>2, <2>3 DEF Account, SameNumbers
  <2>5. CASE r = s
    BY <2>2, <2>4, <2>5 DEF Work, SameNumbers
  <2>6. CASE r # s
    <3>1. \A c \in Client : pc[c] = "resume" /\ home[c] = r => pc'[c] = "resume" /\ home'[c] = r
      BY <1>2, <2>6, ThreadActor
    <3> QED  BY <2>2, <2>3, <2>4, <2>6, <3>1 DEF Work, SameNumbers
  <2> QED  BY <2>5, <2>6
<1>7. Borrowed'
  <2>1. Returning' = Returning
    BY <1>5 DEF Returning
  <2>2. \A r \in Sched : threads'[r].fromShared = threads[r].fromShared
    BY <1>3 DEF SameNumbers
  <2>3. Debts' = Debts
    BY <2>2 DEF Debts
  <2>4. Borrowed  BY DEF WorkInv
  <2> HIDE DEF Debts, Returning
  <2> QED  BY <1>2, <2>1, <2>3, <2>4 DEF Borrowed
<1> QED  BY <1>6, <1>7 DEF WorkInv

\* Where nobody runs and nobody leaves, all threads are unused, and some of them
\* are the scheduler's own.
LEMMA AllUnused ==
  ASSUME Inv, WorkInv, NEW s \in Sched, Leaving(s) = {}, threads[s].running = {},
         threadCount[s] > 0
  PROVE  /\ threads[s].runningCount = 0 /\ threads[s].unusedCount > 0
         /\ threads[s].suspendedCount # 0 \/ threads[s].yetToCreate # 0
<1>1. /\ Counts1(s) /\ Account(s) /\ threads[s] \in Record
      /\ threadCount[s] \in Nat /\ sharedThreads[s] \in Nat
  BY SchedulerAssumption DEF Inv, Types, WorkInv, SchedulerAssumption
<1>2. threads[s].runningCount = 0
  BY <1>1, FS_EmptySet DEF Counts1
<1>3. threads[s].unusedCount = threadCount[s] + sharedThreads[s] /\ threads[s].fromShared = 0
  BY <1>1, <1>2 DEF Account, Record
<1>4. threads[s].unusedCount + threads[s].fromShared
        = threads[s].suspendedCount + threads[s].yetToCreate + sharedThreads[s]
  BY <1>1 DEF Counts1
<1> QED  BY <1>1, <1>2, <1>3, <1>4 DEF Record

\* Nobody is on the way back to a scheduler whose mutex a client has or may take.
LEMMA NobodyLeaves ==
  ASSUME Inv, NEW s \in Sched, lock[s] \in Client \cup {None}
  PROVE  Leaving(s) = {}
<1>1. Locks  BY DEF Inv
<1>2. \A t \in Thread : t \notin Client /\ t # None
  BY ThreadActor, SchedulerAssumption DEF SchedulerAssumption
<1> QED  BY <1>1, <1>2 DEF Locks, Leaving

\* Adding a job: if no thread runs, one is woken, created or borrowed.
LEMMA ScheduleWork ==
  ASSUME Inv, WorkInv, NEW c \in Client, NEW s \in Sched, Schedule(c, s)
  PROVE  WorkInv'
<1>1. /\ Types /\ Locks /\ c \in Actor /\ c \notin Thread /\ queue \in [Sched -> Nat]
      /\ threads[s] \in Record
  BY ThreadActor DEF Inv, WorkInv, Types
<1>2. /\ queue' = [queue EXCEPT ![s] = @ + 1] /\ pc[c] = "idle" /\ lock[s] = None
      /\ home' = [home EXCEPT ![c] = s]
      /\ UNCHANGED <<life, target>>
  BY DEF Schedule
<1>3. /\ queue' \in [Sched -> Nat] /\ \A r \in Sched \ {s} : queue'[r] = queue[r]
      /\ queue'[s] = queue[s] + 1
  BY <1>1, <1>2
<1>4. Leaving(s) = {}
  BY <1>2, NobodyLeaves
<1>5. Caller(c, s, "leave")
  BY <1>1, <1>2 DEF Caller, Types
<1>6. CASE AllocateThread(c, s, "leave", "leave")
  <2>1. CASE \E t \in Thread : Joins(c, s, t) /\ Labels(c, s, t, "leave")
    BY <1>1, <1>2, <1>3, <1>5, <2>1, JoinsWork
  <2>2. ASSUME NEW label \in {"leave", "starve"}, Fails(c, s, label),
               threads[s].suspendedCount = 0, threads[s].yetToCreate = 0
        PROVE  WorkInv'
    <3>1. threadCount[s] > 0 => threads[s].running # {}
      BY <1>4, <2>2, AllUnused
    <3> QED  BY <1>1, <1>2, <1>3, <1>5, <2>2, <3>1, FailWork
  <2> QED  BY <1>1, <1>6, <2>1, <2>2, AllocateOutcome
<1>7. CASE /\ ~(threads[s].stopCount = 0 /\ (aggressiveThreading[s]
                  \/ (queue[s] + 1 > 2 * threads[s].runningCount /\ threads[s].unusedCount > 0)))
           /\ UNCHANGED <<poolVars, threads, lockVars, workVars, pc>>
  <2>1. UNCHANGED <<threads, pc, allocCount>> /\ \A u \in Thread : home'[u] = home[u]
    BY <1>1, <1>2, <1>7 DEF poolVars, Types
  <2>2. \A r \in Sched : Leaving(r)' = Leaving(r)
    BY <2>1 DEF Leaving
  <2>3. ASSUME NEW r \in Sched PROVE Account(r)' /\ Work(r)'
    <3>1. Account(r) /\ Work(r)  BY DEF WorkInv
    <3>2. Account(r)'  BY <2>1, <2>2, <3>1 DEF Account
    <3>3. CASE r = s
      <4>1. SUFFICES ASSUME threadCount[s] > 0, threads[s].stopCount = 0, threads[s].running = {}
                     PROVE  FALSE
        BY <2>1, <3>2, <3>3 DEF Work
      <4>2. threads[s].runningCount = 0 /\ threads[s].unusedCount > 0
        BY <1>4, <4>1, AllUnused
      <4> QED  BY <1>1, <1>7, <4>1, <4>2
    <3>4. CASE r # s
      <4>1. \A d \in Client : pc[d] = "resume" /\ home[d] = r => pc'[d] = "resume" /\ home'[d] = r
        BY <1>1, <1>2, <2>1, ThreadActor DEF Types
      <4> QED  BY <1>3, <2>1, <3>1, <3>2, <3>4, <4>1 DEF Work
    <3> QED  BY <3>3, <3>4
  <2>4. Borrowed'
    <3>1. Debts' = Debts /\ Returning' = Returning  BY <2>1 DEF Debts, Returning
    <3>2. Borrowed  BY DEF WorkInv
    <3> HIDE DEF Debts, Returning
    <3> QED  BY <2>1, <3>1, <3>2 DEF Borrowed
  <2> QED  BY <1>3, <2>3, <2>4 DEF WorkInv
<1> QED  BY <1>6, <1>7 DEF Schedule

\* The last Resume goes on to look for threads if there are jobs.
LEMMA ResumeWork ==
  ASSUME Inv, WorkInv, NEW c \in Client, NEW s \in Sched, Resume(c, s)
  PROVE  WorkInv'
<1>1. /\ Types /\ Locks /\ c \in Actor /\ c \notin Thread /\ queue \in [Sched -> Nat]
      /\ threads \in [Sched -> Record] /\ threads[s] \in Record
  BY ThreadActor DEF Inv, WorkInv, Types
<1>2. /\ queue' = queue /\ pc[c] = "idle" /\ lock[s] = None /\ threads[s].stopCount > 0
      /\ home' = [home EXCEPT ![c] = s] /\ allocCount' = allocCount
      /\ threads' = [threads EXCEPT ![s].stopCount = @ - 1]
  BY DEF Resume, poolVars
<1>3. \A r \in Sched : /\ SameNumbers(threads[r], threads'[r])
                       /\ threads'[r].stopCount
                            = IF r = s THEN threads[r].stopCount - 1 ELSE threads[r].stopCount
  BY <1>1, <1>2 DEF SameNumbers, Record
<1>4. /\ IF threads[s].stopCount = 1 THEN pc'[c] = "resume" ELSE pc' = pc
      /\ \A b \in Actor \ {c} : pc'[b] = pc[b] /\ home'[b] = home[b]
      /\ home'[c] = s
  BY <1>1, <1>2 DEF Resume, Goto, Types
<1>5. \A t \in Thread : pc'[t] = pc[t] /\ home'[t] = home[t]
  BY <1>1, <1>4, ThreadActor
<1>6. ASSUME NEW r \in Sched PROVE Account(r)' /\ Work(r)'
  <2>1. Leaving(r)' = Leaving(r)
    BY <1>5 DEF Leaving
  <2>2. Account(r) /\ Work(r)  BY DEF WorkInv
  <2>3. Account(r)'
    BY <1>2, <1>3, <2>1, <2>2 DEF Account, SameNumbers
  <2>4. Work(r)'
    <3>1. SUFFICES ASSUME threadCount[r] > 0, threads'[r].stopCount = 0, queue[r] > 0,
                          threads[r].running = {}
                   PROVE  \E d \in Client : pc'[d] = "resume" /\ home'[d] = r
      BY <1>2, <1>3 DEF Work, SameNumbers
    <3>2. CASE r = s
      <4>1. pc'[c] = "resume" /\ home'[c] = r
        BY <1>2, <1>3, <1>4, <2>2, <3>1, <3>2 DEF Account
      <4> QED  BY <4>1
    <3>3. CASE r # s
      <4>1. PICK d \in Client : pc[d] = "resume" /\ home[d] = r
        BY <1>3, <2>2, <3>1, <3>3 DEF Work
      <4>2. d # c /\ d \in Actor  BY <1>2, <4>1, ThreadActor
      <4>3. pc'[d] = "resume" /\ home'[d] = r  BY <1>4, <4>1, <4>2
      <4> QED  BY <4>3
    <3> QED  BY <3>2, <3>3
  <2> QED  BY <2>3, <2>4
<1>7. Borrowed'
  <2>1. Returning' = Returning
    BY <1>5 DEF Returning
  <2>2. \A r \in Sched : threads'[r].fromShared = threads[r].fromShared
    BY <1>3 DEF SameNumbers
  <2>3. Debts' = Debts
    BY <2>2 DEF Debts
  <2>4. Borrowed  BY DEF WorkInv
  <2> HIDE DEF Debts, Returning
  <2> QED  BY <1>2, <2>1, <2>3, <2>4 DEF Borrowed
<1> QED  BY <1>1, <1>2, <1>6, <1>7 DEF WorkInv

\* That look ends with a running thread if the scheduler has threads of its own.
LEMMA ResumeLoopWork ==
  ASSUME Inv, WorkInv, NEW c \in Client, NEW s \in Sched, s = home[c], ResumeLoop(c, s)
  PROVE  WorkInv'
<1>1. /\ Types /\ Locks /\ c \in Actor /\ c \notin Thread /\ queue \in [Sched -> Nat]
      /\ threads[s] \in Record
  BY ThreadActor DEF Inv, WorkInv, Types
<1>2. queue' = queue /\ pc[c] = "resume" /\ lock[s] = c
  BY <1>1 DEF ResumeLoop, Locks
<1>3. Caller(c, s, "resume")
  BY <1>1 DEF ResumeLoop, Caller, Locks, Types
<1>4. Leaving(s) = {}
  BY <1>2, NobodyLeaves
<1>5. CASE AllocateThread(c, s, "resume", "leave")
  <2>1. CASE \E t \in Thread : Joins(c, s, t) /\ Labels(c, s, t, "resume")
    BY <1>1, <1>2, <1>3, <2>1, JoinsWork
  <2>2. ASSUME NEW label \in {"leave", "starve"}, Fails(c, s, label),
               threads[s].suspendedCount = 0, threads[s].yetToCreate = 0
        PROVE  WorkInv'
    <3>1. threadCount[s] > 0 => threads[s].running # {}
      BY <1>4, <2>2, AllUnused
    <3> QED  BY <1>1, <1>2, <1>3, <2>2, <3>1, FailWork
  <2> QED  BY <1>1, <1>5, <2>1, <2>2, AllocateOutcome
<1>6. CASE /\ ~(\/ queue[s] > threads[s].runningCount /\ aggressiveThreading[s]
                \/ queue[s] > 4 * threads[s].runningCount /\ threads[s].unusedCount > 0)
           /\ Continue(c, s, "leave") /\ Goto(c, "idle") /\ UNCHANGED <<poolVars, threads, workVars>>
  <2>1. Fails(c, s, "leave")
    BY <1>1, <1>6 DEF Fails, After
  <2>2. threadCount[s] > 0 /\ queue[s] > 0 => threads[s].running # {}
    <3>1. SUFFICES ASSUME threadCount[s] > 0, queue[s] > 0, threads[s].running = {} PROVE FALSE
      OBVIOUS
    <3>2. threads[s].runningCount = 0 /\ threads[s].unusedCount > 0
      BY <1>4, <3>1, AllUnused
    <3> QED  BY <1>6, <3>1, <3>2
  <2> QED  BY <1>1, <1>2, <1>3, <2>1, <2>2, FailWork
<1> QED  BY <1>5, <1>6 DEF ResumeLoop

\* ThreadAvailable only looks for threads for a stopped scheduler.
LEMMA AvailableWork ==
  ASSUME Inv, WorkInv, NEW t \in Thread, NEW s \in Sched, s = target[t], ThreadAvailable(t, s)
  PROVE  WorkInv'
<1>1. Types /\ Locks /\ t \in Actor /\ t \notin Client /\ queue \in [Sched -> Nat]
  BY ThreadActor DEF Inv, WorkInv
<1>2. queue' = queue /\ pc[t] = "available" /\ home' = home
  BY DEF ThreadAvailable
<1>3. Caller(t, s, "available")
  BY <1>1 DEF ThreadAvailable, Caller, Locks, Types
<1>4. CASE threads[s].stopCount # 0 /\ threads[s].fromShared < sharedThreads[s]
           /\ AllocateSharedThread(t, s, "available", "leave")
  <2>1. CASE \E u \in Thread : Joins(t, s, u) /\ Labels(t, s, u, "available")
    BY <1>1, <1>2, <1>3, <2>1, JoinsWork
  <2>2. ASSUME NEW label \in {"leave", "starve"}, Fails(t, s, label)
        PROVE  WorkInv'
    BY <1>1, <1>2, <1>3, <1>4, <2>2, FailWork
  <2> QED  BY <1>1, <1>4, <2>1, <2>2, SharedOutcome
<1>5. CASE Continue(t, s, "leave") /\ Goto(t, "select") /\ UNCHANGED <<poolVars, threads, workVars>>
  <2>1. allocCount' = allocCount /\ threads' = threads /\ pc' = [pc EXCEPT ![t] = "select"]
    BY <1>5 DEF poolVars, Goto
  <2>2. \A r \in Sched : threads[r].stopCount \in Nat
    BY DEF WorkInv, Account
  <2>3. Steady
    BY <1>1, <1>2, <2>1, <2>2, ThreadActor
    DEF Steady, SameNumbers, Returning, Back, Out, Types
  <2> QED  BY <2>3, SteadyKeeps
<1> QED  BY <1>4, <1>5 DEF ThreadAvailable

\* A thread is put aside only without jobs to do, or leaves another one running.
LEMMA PutAsideWork ==
  ASSUME Inv, Inv', WorkInv, NEW t \in Thread, NEW s \in Sched, s = owner[t], PutAside(t, s)
  PROVE  WorkInv'
<1> DEFINE th == [threads[s] EXCEPT !.running = @ \ {t}]
<1>1. /\ Types /\ Locks /\ t \in Actor /\ t \notin Client /\ queue \in [Sched -> Nat]
      /\ threads \in [Sched -> Record] /\ threads[s] \in Record
      /\ home \in [Actor -> Sched \cup {None}]
  BY ThreadActor DEF Inv, WorkInv, Types
<1>2. /\ pc[t] = "assign" /\ lock[s] = None /\ (queue[s] = 0 \/ threads[s].stopCount # 0)
      /\ UNCHANGED <<queue, allocCount>>
  BY <1>1 DEF PutAside, poolVars, Record
<1>3. Account(s) /\ Borrowed  BY DEF WorkInv
\* What both ways have in common.
<1>4. ASSUME \A u \in Thread \ {t} : pc'[u] = pc[u] /\ home'[u] = home[u],
             pc'[t] \in {"unstarve", "none", "parked"},
             pc'[t] = "unstarve" => home'[t] = s /\ threads[s].fromShared > 0,
             \A c \in Client : pc[c] = "resume" => pc'[c] = "resume" /\ home'[c] = home[c],
             \A r \in Sched \ {s} : threads'[r] = threads[r],
             threads'[s].suspendedCount \in Nat, threads'[s].yetToCreate \in Nat,
             threads'[s].fromShared = threads[s].fromShared,
             threads'[s].stopCount = threads[s].stopCount,
             threads'[s].runningCount + threads'[s].unusedCount
               = threads[s].runningCount + threads[s].unusedCount,
             threads'[s].fromShared <= threads'[s].runningCount
      PROVE  WorkInv'
  <2>1. ASSUME NEW r \in Sched PROVE Account(r)' /\ Work(r)'
    <3>1. CASE r = s
      <4>1. Leaving(s)' # {} => threads[s].fromShared > 0
        <5>1. SUFFICES ASSUME NEW u \in Leaving(s)' PROVE threads[s].fromShared > 0
          OBVIOUS
        <5>2. CASE u = t
          BY <1>4, <5>1, <5>2 DEF Leaving, Back, Out
        <5>3. CASE u # t
          <6>1. u \in Leaving(s)
            BY <1>4, <5>1, <5>3 DEF Leaving
          <6> QED  BY <1>3, <6>1 DEF Account
        <5> QED  BY <5>2, <5>3
      <4>2. Account(s)'
        BY <1>3, <1>4, <4>1 DEF Account
      <4> QED  BY <1>2, <1>4, <3>1, <4>2 DEF Work
    <3>2. CASE r # s
      <4>1. Leaving(r)' = Leaving(r)
        BY <1>2, <1>4, <3>2 DEF Leaving, Back, Out
      <4>2. threads'[r] = threads[r] /\ Account(r) /\ Work(r)
        BY <1>4, <3>2 DEF WorkInv
      <4>3. Work(r)'
        BY <1>2, <1>4, <4>2 DEF Work
      <4> QED  BY <4>1, <4>2, <4>3 DEF Account
    <3> QED  BY <3>1, <3>2
  <2>2. Borrowed'
    <3>1. Returning' = Returning
      BY <1>2, <1>4 DEF Returning
    <3>2. \A r \in Sched : threads'[r].fromShared = threads[r].fromShared
      BY <1>4
    <3>3. Debts' = Debts
      BY <3>2 DEF Debts
    <3> HIDE DEF Debts, Returning
    <3> QED  BY <1>2, <1>3, <3>1, <3>3 DEF Borrowed
  <2> QED  BY <1>1, <1>2, <2>1, <2>2 DEF WorkInv
<1>5. CASE /\ threads[s].fromShared > 0
           /\ threads' = [threads EXCEPT ![s] = th]
           /\ Goto(t, "unstarve")
           /\ home' = [home EXCEPT ![t] = s]
  <2>1. /\ \A r \in Sched \ {s} : threads'[r] = threads[r]
        /\ threads'[s] = th
    BY <1>1, <1>5
  <2>3. /\ threads'[s].suspendedCount = threads[s].suspendedCount
        /\ threads'[s].yetToCreate = threads[s].yetToCreate
        /\ threads'[s].fromShared = threads[s].fromShared
        /\ threads'[s].runningCount = threads[s].runningCount
        /\ threads'[s].unusedCount = threads[s].unusedCount
        /\ threads'[s].stopCount = threads[s].stopCount
    BY <1>1, <2>1 DEF Record
  <2>4. /\ \A b \in Actor \ {t} : pc'[b] = pc[b] /\ home'[b] = home[b]
        /\ pc'[t] = "unstarve" /\ home'[t] = s
    BY <1>1, <1>5 DEF Goto, Types
  <2> QED  BY <1>3, <1>4, <1>5, <2>1, <2>3, <2>4, ThreadActor DEF Account
<1>6. ASSUME NEW th2, NEW label \in {"none", "parked"}, Retire(t, s, th2, label),
             \/ label = "none" /\ th2 = [th EXCEPT !.yetToCreate = @ + 1]
             \/ label = "parked" /\ th2 = [th EXCEPT !.suspended = @ \cup {t}, !.suspendedCount = @ + 1],
             ~(threads[s].fromShared > 0), home' = home
      PROVE  WorkInv'
  <2>1. /\ pc'[t] = label /\ \A u \in Thread \ {t} : pc'[u] = pc[u]
    BY <1>1, <1>6, RetireLabels
  <2>2. \A c \in Client : pc[c] = "resume" => pc'[c] = "resume"
    BY <1>1, <1>6, ThreadActor DEF Retire, Goto, Types
  <2>3. threads' = [threads EXCEPT ![s] = [th2 EXCEPT !.unusedCount = @ + 1, !.runningCount = @ - 1]]
    BY <1>6 DEF Retire
  <2>4. /\ th2.unusedCount = threads[s].unusedCount /\ th2.runningCount = threads[s].runningCount
        /\ th2.fromShared = threads[s].fromShared /\ th2.stopCount = threads[s].stopCount
        /\ th2.suspendedCount \in Nat /\ th2.yetToCreate \in Nat
        /\ DOMAIN th2 = DOMAIN threads[s]
    <3>1. threads[s].suspendedCount \in Nat /\ threads[s].yetToCreate \in Nat
      BY <1>3 DEF Account
    <3>2. CASE th2 = [th EXCEPT !.yetToCreate = @ + 1]
      <4>1. th2.yetToCreate = threads[s].yetToCreate + 1
            /\ th2.suspendedCount = threads[s].suspendedCount
        BY <1>1, <3>2 DEF Record
      <4> QED  BY <1>1, <3>1, <3>2, <4>1 DEF Record
    <3>3. CASE th2 = [th EXCEPT !.suspended = @ \cup {t}, !.suspendedCount = @ + 1]
      <4>1. th2.suspendedCount = threads[s].suspendedCount + 1
            /\ th2.yetToCreate = threads[s].yetToCreate
        BY <1>1, <3>3 DEF Record
      <4> QED  BY <1>1, <3>1, <3>3, <4>1 DEF Record
    <3> QED  BY <1>6, <3>2, <3>3
  <2>5. /\ \A r \in Sched \ {s} : threads'[r] = threads[r]
        /\ threads'[s] = [th2 EXCEPT !.unusedCount = @ + 1, !.runningCount = @ - 1]
    BY <1>1, <2>3
  <2>6. /\ threads'[s].unusedCount = threads[s].unusedCount + 1
        /\ threads'[s].runningCount = threads[s].runningCount - 1
        /\ threads'[s].fromShared = threads[s].fromShared
        /\ threads'[s].stopCount = threads[s].stopCount
        /\ threads'[s].suspendedCount = th2.suspendedCount
        /\ threads'[s].yetToCreate = th2.yetToCreate
    BY <1>1, <2>4, <2>5 DEF Record
  <2>7. threads[s].fromShared = 0
    BY <1>3, <1>6 DEF Account
  <2>8. 0 <= threads'[s].runningCount
    <3>1. Types' /\ Counts1(s)'  BY DEF Inv
    <3>2. /\ Cardinality(threads'[s].running) \in Nat
          /\ Cardinality(Leaving(s)') \in Nat
      <4>1. threads'[s].running \subseteq Thread /\ Leaving(s)' \subseteq Thread
        BY <3>1 DEF Types, Record, Leaving
      <4> QED  BY <4>1, PoolAssumption, FS_Subset, FS_CardinalityType DEF PoolAssumption
    <3> QED  BY <3>1, <3>2 DEF Counts1
  <2>9. threads[s].unusedCount \in Int /\ threads[s].runningCount \in Int
    BY <1>1 DEF Record
  <2> QED  BY <1>4, <1>6, <2>1, <2>2, <2>4, <2>5, <2>6, <2>7, <2>8, <2>9
<1> QED  BY <1>5, <1>6 DEF PutAside

\* The finite sets whose sizes are compared.
LEMMA CountedReturns ==
  IsFiniteSet(Returning) /\ Cardinality(Returning) \in Nat
<1>1. Returning \subseteq Thread  BY DEF Returning
<1> QED  BY <1>1, PoolAssumption, FS_Subset, FS_CardinalityType DEF PoolAssumption

\* The thread goes back to the pool, and the debt with it.
LEMMA ReleaseWork ==
  ASSUME Inv, WorkInv, NEW t \in Thread, Release(t)
  PROVE  WorkInv'
<1>1. Types /\ t \in Actor /\ t \notin Client /\ Borrowed
  BY ThreadActor DEF Inv, WorkInv
<1>2. /\ pc[t] = "release" /\ UNCHANGED <<threads, queue, home>> /\ allocCount' = allocCount - 1
      /\ \/ pc' = [pc EXCEPT ![t] = "settle"] \/ pc' = [pc EXCEPT ![t] = "select"]
         \/ pc' = [pc EXCEPT ![t] = "overflow"]
  BY DEF Release, Put, Overflow, Goto, schedVars
<1>3. /\ \A b \in Actor \ {t} : pc'[b] = pc[b]
      /\ pc'[t] \in {"settle", "select", "overflow"}
  BY <1>1, <1>2 DEF Types
<1>4. \A r \in Sched : Leaving(r)' = Leaving(r)
  BY <1>2, <1>3, ThreadActor DEF Leaving, Back, Out
<1>5. ASSUME NEW r \in Sched PROVE Account(r)' /\ Work(r)'
  <2>1. Account(r) /\ Work(r)  BY DEF WorkInv
  <2>2. Account(r)'  BY <1>2, <1>4, <2>1 DEF Account
  <2>3. \A c \in Client : pc'[c] = pc[c]  BY <1>1, <1>3, ThreadActor
  <2>4. Work(r)'  BY <1>2, <2>1, <2>3 DEF Work
  <2> QED  BY <2>2, <2>4
<1>6. Borrowed'
  <2>1. Returning' = Returning \cup {t} /\ t \notin Returning
    BY <1>2, <1>3, ThreadActor DEF Returning
  <2>2. Debts' = Debts
    BY <1>2 DEF Debts
  <2> HIDE DEF Debts, Returning
  <2>3. Cardinality(Returning \cup {t}) = Cardinality(Returning) + 1
    BY <2>1, CountedReturns, FS_AddElement
  <2>4. Cardinality(Debts) \in Nat
    BY <1>1, FS_CardinalityType DEF Borrowed
  <2> QED  BY <1>1, <1>2, <2>1, <2>2, <2>3, <2>4, CountedReturns DEF Borrowed
<1> QED  BY <1>2, <1>5, <1>6 DEF WorkInv

\* The scheduler no longer counts the thread that has been returned.
LEMMA SettleWork ==
  ASSUME Inv, WorkInv, NEW t \in Thread, NEW s \in Sched, s = home[t], Settle(t, s)
  PROVE  WorkInv'
<1>1. /\ Types /\ Locks /\ t \in Actor /\ t \notin Client /\ Borrowed /\ Account(s)
      /\ threads \in [Sched -> Record] /\ threads[s] \in Record
  BY ThreadActor DEF Inv, WorkInv, Types
<1>2. /\ pc'[t] = "parked" /\ pc[t] = "settle" /\ \A u \in Thread \ {t} : pc'[u] = pc[u]
      /\ UNCHANGED <<queue, home, allocCount>>
  BY <1>1, RetireLabels DEF Settle, poolVars
<1>3. \A c \in Client : pc[c] = "resume" => pc'[c] = "resume"
  BY <1>1, ThreadActor DEF Settle, Retire, Goto, Types
<1>4. threads' = [threads EXCEPT ![s] = [threads[s] EXCEPT
        !.fromShared = @ - 1, !.unusedCount = @ + 1, !.runningCount = @ - 1]]
  BY DEF Settle, Retire
<1>5. /\ \A r \in Sched \ {s} : threads'[r] = threads[r]
      /\ threads'[s].fromShared = threads[s].fromShared - 1
      /\ threads'[s].unusedCount = threads[s].unusedCount + 1
      /\ threads'[s].runningCount = threads[s].runningCount - 1
      /\ threads'[s].suspendedCount = threads[s].suspendedCount
      /\ threads'[s].yetToCreate = threads[s].yetToCreate
      /\ threads'[s].stopCount = threads[s].stopCount
      /\ threads'[s].running = threads[s].running
  BY <1>1, <1>4 DEF Record
<1>6. t \in Leaving(s) /\ threads[s].fromShared > 0
  BY <1>1, <1>2 DEF Leaving, Back, Out, Account
<1>7. Leaving(s)' = {}
  <2>1. \A u \in Thread \ {t} : pc[u] \in Back \cup Out => home[u] # s
    BY <1>1, <1>2 DEF Locks, Back
  <2>2. \A u \in Thread : ~(pc'[u] \in Back \cup Out /\ home'[u] = s)
    BY <1>2, <2>1 DEF Back, Out
  <2> QED  BY <2>2 DEF Leaving
<1>8. ASSUME NEW r \in Sched PROVE Account(r)' /\ Work(r)'
  <2>1. Account(r) /\ Work(r)  BY DEF WorkInv
  <2>2. CASE r = s
    <3>1. Account(s)'
      BY <1>1, <1>5, <1>6, <1>7 DEF Account, Record
    <3>2. Work(s)'
      BY <1>2, <1>3, <1>5, <2>1, <2>2 DEF Work
    <3> QED  BY <2>2, <3>1, <3>2
  <2>3. CASE r # s
    <3>1. Leaving(r)' = Leaving(r)
      BY <1>2, <2>3 DEF Leaving, Back, Out
    <3>2. threads'[r] = threads[r]  BY <1>5, <2>3
    <3>3. Account(r)'  BY <2>1, <3>1, <3>2 DEF Account
    <3>4. Work(r)'  BY <1>2, <1>3, <2>1, <3>2 DEF Work
    <3> QED  BY <3>3, <3>4
  <2> QED  BY <2>2, <2>3
<1>9. Borrowed'
  <2> DEFINE old == <<s, threads[s].fromShared>>
  <2>1. Returning' = Returning \ {t} /\ t \in Returning
    BY <1>2 DEF Returning
  <2>2. \A r \in Sched \ {s} : threads'[r].fromShared = threads[r].fromShared
    BY <1>5
  <2>3. threads[s].fromShared \in Nat  BY <1>1 DEF Account
  <2>4. Debts' = Debts \ {old} /\ old \in Debts
    BY <1>5, <1>6, <2>2, <2>3 DEF Debts
  <2> HIDE DEF Debts, Returning, old
  <2>5. Cardinality(Returning \ {t}) = Cardinality(Returning) - 1
    BY <2>1, CountedReturns, FS_RemoveElement
  <2>6. /\ Cardinality(Debts \ {old}) = Cardinality(Debts) - 1
        /\ IsFiniteSet(Debts \ {old}) /\ Cardinality(Debts) \in Nat
    BY <1>1, <2>4, FS_RemoveElement, FS_CardinalityType DEF Borrowed
  <2> QED  BY <1>1, <1>2, <2>1, <2>4, <2>5, <2>6, CountedReturns DEF Borrowed
<1> QED  BY <1>2, <1>8, <1>9 DEF WorkInv

\* At the start nothing is borrowed and nothing waits.
LEMMA InitWork == Init => WorkInv
<1> SUFFICES ASSUME Init PROVE WorkInv  OBVIOUS
<1>1. ASSUME NEW s \in Sched PROVE Account(s) /\ Work(s)
  <2>1. threadCount[s] \in Nat /\ sharedThreads[s] \in Nat /\ Leaving(s) = {}
    BY SchedulerAssumption, ThreadActor DEF Init, SchedulerAssumption, Leaving, Back, Out
  <2> QED  BY <2>1 DEF Init, Account, Work
<1>2. Borrowed
  <2>1. Debts = {}
    BY DEF Init, Debts
  <2>2. Returning = {}
    BY ThreadActor DEF Init, Returning
  <2>3. allocCount = 0  BY DEF Init
  <2> HIDE DEF Debts, Returning
  <2> QED  BY <2>1, <2>2, <2>3, FS_EmptySet DEF Borrowed
<1> QED  BY <1>1, <1>2 DEF Init, WorkInv

\* All steps of a client keep the invariant, ...
LEMMA ClientWork ==
  ASSUME Inv, WorkInv, NEW c \in Client, ClientStep(c)
  PROVE  WorkInv'
<1>1. home[c] \in Sched \cup {None} /\ c \in Actor /\ MaxJobs \in Nat
  BY ThreadActor, SchedulerAssumption DEF Inv, Types, SchedulerAssumption
<1>2. ASSUME NEW s \in Sched,
             \/ Schedule(c, s) \/ Stop(c, s) \/ Resume(c, s)
             \/ WaitForEmptyQueue(c, s, "idle") \/ Destroy(c, s)
             \/ \E watermark \in 0..MaxJobs : Trim(c, s, watermark)
      PROVE  WorkInv'
  <2>1. CASE \E watermark \in 0..MaxJobs : Trim(c, s, watermark)
    <3>1. PICK watermark \in 0..MaxJobs : Trim(c, s, watermark)  BY <2>1
    <3>2. watermark \in Nat  BY <1>1
    <3> QED  BY <3>1, <3>2, ClientSteady, SteadyKeeps
  <2>2. CASE Stop(c, s) \/ WaitForEmptyQueue(c, s, "idle") \/ Destroy(c, s)
    <3>1. 0 \in Nat  OBVIOUS
    <3> QED  BY <2>2, <3>1, ClientSteady, SteadyKeeps
  <2> QED  BY <1>2, <2>1, <2>2, ScheduleWork, ResumeWork
<1>3. ASSUME NEW s \in Sched, s = home[c],
             \/ ResumeLoop(c, s) \/ Starve(c, s)
             \/ BeginWait(c, s) \/ WaitForEmptyQueue(c, s, "woken")
             \/ EndStarvation(c, s) \/ WaitForEmptyQueue(c, s, "destroy") \/ DeleteThreads(c, s)
      PROVE  WorkInv'
  <2>1. 0 \in Nat  OBVIOUS
  <2>2. CASE \/ BeginWait(c, s) \/ WaitForEmptyQueue(c, s, "woken") \/ EndStarvation(c, s)
             \/ WaitForEmptyQueue(c, s, "destroy") \/ DeleteThreads(c, s)
    BY <2>1, <2>2, ClientSteady, SteadyKeeps
  <2> QED  BY <1>1, <1>3, <2>2, ResumeLoopWork, StarveSteady, SteadyKeeps
<1>4. CASE Timeout(c) \/ Exit(c)
  BY <1>4, LonelySteady, SteadyKeeps
<1> QED  BY <1>1, <1>2, <1>3, <1>4 DEF ClientStep

\* ... and all steps of a thread.
LEMMA ThreadWork ==
  ASSUME Inv, Inv', WorkInv, NEW t \in Thread, ThreadStep(t)
  PROVE  WorkInv'
<1>1. /\ home[t] \in Sched \cup {None} /\ owner[t] \in Sched \cup {None}
      /\ target[t] \in Sched \cup {None} /\ t \in Actor
  BY ThreadActor DEF Inv, Types
<1>2. CASE Wake(t) \/ ExecuteJob(t) \/ Select(t)
  BY <1>2, ThreadSteady, SteadyKeeps
<1>3. CASE Release(t)
  BY <1>3, ReleaseWork
<1>4. CASE \E s \in {owner[t]} \ {None} : TakeJob(t, s) \/ PutAside(t, s)
  BY <1>1, <1>4, ThreadSteady, SteadyKeeps, PutAsideWork
<1>5. CASE \E s \in {home[t]} \ {None} : StopStarvation(t, s) \/ Settle(t, s)
  BY <1>1, <1>5, ThreadSteady, SteadyKeeps, SettleWork
<1>6. CASE \E s \in {target[t]} \ {None} :
             Notify(t, s) \/ ThreadAvailable(t, s) \/ Starve(t, s)
  BY <1>1, <1>6, ThreadSteady, SteadyKeeps, StarveSteady, AvailableWork
<1> QED  BY <1>2, <1>3, <1>4, <1>5, <1>6 DEF ThreadStep

\* Every step keeps the invariant.
LEMMA NextWork == Inv /\ Inv' /\ WorkInv /\ [Next]_vars => WorkInv'
<1> SUFFICES ASSUME Inv, Inv', WorkInv, [Next]_vars PROVE WorkInv'  OBVIOUS
<1>1. CASE UNCHANGED vars
  BY <1>1
  DEF vars, poolVars, schedVars, ctrlVars, WorkInv, Account, Work, Borrowed, Debts, Returning, Leaving
<1> QED  BY <1>1, ClientWork, ThreadWork DEF Next

\* AssignJob, Schedule and Resume: for any schedulers, threads and clients, while a
\* scheduler with threads of its own is not stopped and has jobs, a thread runs for it.
THEOREM WorkIsInHand == Spec => []WorkInHand
<1>1. Inv /\ WorkInv => WorkInHand
  <2> SUFFICES ASSUME Inv, WorkInv, NEW s \in Sched, lock[s] = None, threadCount[s] > 0,
                      threads[s].stopCount = 0, queue[s] > 0
               PROVE  threads[s].running # {}
    BY DEF WorkInHand
  <2>1. Work(s)  BY DEF WorkInv
  <2>2. \A c \in Client : ~(pc[c] = "resume" /\ home[c] = s)
    BY SchedulerAssumption DEF Inv, Locks, SchedulerAssumption
  <2> QED  BY <2>1, <2>2 DEF Work
<1> QED  BY <1>1, InitInv, NextInv, InitWork, NextWork, PTL DEF Spec

\* CThreadPool: allocCount is what the schedulers owe, but for the threads that are
\* just being returned, and no thread works at two places.
THEOREM PoolBooksKept == Spec => []PoolBooksAgree
<1>1. WorkInv => allocCount + Cardinality(Returning) = Cardinality(Debts)
  BY DEF WorkInv, Borrowed
<1> QED  BY <1>1, SchedulerPlaces, InitInv, NextInv, InitWork, NextWork, PTL DEF Spec, PoolBooksAgree

-----------------------------------------------------------------------------
(* The list of starving schedulers *)

Listed(list) == {list[i] : i \in 1..Len(list)}

\* Nobody is on the list twice.
Once(list) == \A i, j \in 1..Len(list) : list[i] = list[j] => i = j

\* What is true of 0, and of i if it is of i - 1, is true up to n.
LEMMA StepByStep ==
  ASSUME NEW n \in Nat, NEW T, 0 \in T, \A i \in 1..n : i - 1 \in T => i \in T
  PROVE  \A i \in 0..n : i \in T
<1> SUFFICES ASSUME NEW k \in (0..n) \ T PROVE FALSE  OBVIOUS
<1>1. PICK S : S = (0..n) \ T  OBVIOUS
<1>2. S \in SUBSET Nat /\ S # {}  BY <1>1
<1>3. PICK x \in S : \A y \in S : ~ (<<y, x>> \in OpToRel(<, Nat))
  <2> HIDE DEF OpToRel
  <2> QED  BY <1>2, NatLessThanWellFounded, WFMin
<1>4. x # 0 /\ x \in 0..n  BY <1>1
<1>5. x - 1 \in Nat /\ x - 1 < x /\ x - 1 \in 0..n /\ x \in 1..n /\ x \in Nat  BY <1>4
<1>6. x - 1 \notin S
  BY <1>3, <1>5 DEF OpToRel
<1> QED  BY <1>1, <1>5, <1>6

\* RemoveStarving takes a scheduler off the list and leaves the others there.
LEMMA WithoutSound ==
  ASSUME NEW S, NEW list \in Seq(S), Once(list), NEW s
  PROVE  /\ Without(list, s) \in Seq(S) /\ Once(Without(list, s))
         /\ Listed(Without(list, s)) = Listed(list) \ {s}
<1> DEFINE n == Len(list)
           Body(i, g) == IF i = 0 THEN << >>
                         ELSE IF list[i] = s THEN g[i - 1] ELSE Append(g[i - 1], list[i])
           Sol(g) == g = [i \in 0..n |-> Body(i, g)]
<1>1. n \in Nat /\ \A i \in 1..n : list[i] \in S
  OBVIOUS
<1>2. \E g : Sol(g)
  <2> DEFINE T == {k \in 0..n : \E g \in [0..n -> Seq(S)] : \A i \in 0..k : g[i] = Body(i, g)}
  <2>1. 0 \in T
    <3>1. [i \in 0..n |-> << >>] \in [0..n -> Seq(S)]  OBVIOUS
    <3>2. PICK g \in [0..n -> Seq(S)] : g = [i \in 0..n |-> << >>]  BY <3>1
    <3>3. g[0] = Body(0, g)  BY <1>1, <3>2
    <3>4. \A i \in 0..0 : g[i] = Body(i, g)
      <4> HIDE DEF Body
      <4> QED  BY <3>3
    <3>5. 0 \in 0..n  BY <1>1
    <3> HIDE DEF Body, n
    <3> QED  BY <3>4, <3>5
  <2>2. ASSUME NEW k \in 1..n, k - 1 \in T PROVE k \in T
    <3>1. PICK g \in [0..n -> Seq(S)] : \A i \in 0..(k - 1) : g[i] = Body(i, g)
      BY <2>2
    <3>2. PICK h : h = [g EXCEPT ![k] = Body(k, g)]  OBVIOUS
    <3>3. Body(k, g) \in Seq(S)
      BY <1>1, <3>1
    <3>4. h \in [0..n -> Seq(S)] /\ h[k] = Body(k, g) /\ \A i \in 0..n : i # k => h[i] = g[i]
      BY <3>1, <3>2, <3>3
    <3>5. ASSUME NEW i \in 0..k PROVE h[i] = Body(i, h)
      <4>1. Body(i, h) = Body(i, g)
        BY <1>1, <3>4
      <4> QED  BY <3>1, <3>4, <4>1
    <3> QED  BY <3>4, <3>5
  <2>3. \A k \in 0..n : k \in T
    <3> HIDE DEF T
    <3> QED  BY <1>1, <2>1, <2>2, StepByStep
  <2>4. PICK g \in [0..n -> Seq(S)] : \A i \in 0..n : g[i] = Body(i, g)
    <3>1. n \in T
      <4> HIDE DEF T, n
      <4> QED  BY <1>1, <2>3
    <3> HIDE DEF Body, n
    <3> QED  BY <3>1
  <2> QED  BY <2>4
<1>3. PICK f : f = CHOOSE g : Sol(g)
  OBVIOUS
<1>4. Sol(f)
  <2> HIDE DEF Sol
  <2> QED  BY <1>2, <1>3
<1>5. Without(list, s) = f[n]
  BY <1>3 DEF Without
<1> DEFINE First(k) == {list[i] : i \in 1..k}
           U == {k \in 0..n : f[k] \in Seq(S) /\ Once(f[k]) /\ Listed(f[k]) = First(k) \ {s}}
<1>6. 0 \in U
  <2>1. f[0] = << >>  BY <1>1, <1>4
  <2>2. PICK e : e = << >>  OBVIOUS
  <2>3. e \in Seq(S) /\ Len(e) = 0  BY <2>2
  <2>4. Once(e) /\ Listed(e) = {}  BY <2>3 DEF Once, Listed
  <2>5. First(0) = {}  OBVIOUS
  <2>6. 0 \in 0..n  BY <1>1
  <2> HIDE DEF First
  <2> QED  BY <2>1, <2>2, <2>3, <2>4, <2>5, <2>6
<1>7. ASSUME NEW k \in 1..n, k - 1 \in U PROVE k \in U
  <2>1. PICK p : p = f[k - 1]  OBVIOUS
  <2>2. p \in Seq(S) /\ Once(p) /\ Listed(p) = First(k - 1) \ {s}
    BY <1>7, <2>1
  <2>3. First(k) = First(k - 1) \cup {list[k]}
    BY <1>1
  <2>4. f[k] = IF list[k] = s THEN p ELSE Append(p, list[k])
    <3>1. k \in 0..n /\ k # 0  BY <1>1
    <3>2. \A i \in 0..n : f[i] = Body(i, f)
      <4> HIDE DEF Body
      <4> QED  BY <1>4
    <3>3. f[k] = Body(k, f)
      <4> HIDE DEF Body
      <4> QED  BY <3>1, <3>2
    <3> QED  BY <2>1, <3>1, <3>3
  <2>5. CASE list[k] = s
    BY <2>2, <2>3, <2>4, <2>5
  <2>6. CASE list[k] # s
    <3>1. PICK x \in S : x = list[k]  BY <1>1
    <3>2. PICK q : q = Append(p, x)  OBVIOUS
    <3>3. q \in Seq(S) /\ Len(q) = Len(p) + 1 /\ q[Len(q)] = x /\ \A i \in 1..Len(p) : q[i] = p[i]
      BY <2>2, <3>2
    <3>4. x \notin Listed(p)
      <4>1. \A i \in 1..(k - 1) : list[i] # list[k]
        BY <1>1 DEF Once
      <4> QED  BY <2>2, <3>1, <4>1
    <3>5. Listed(q) = Listed(p) \cup {x}
      <4>1. Len(p) \in Nat /\ Len(q) \in 1..Len(q)  BY <2>2, <3>3
      <4>2. ASSUME NEW y \in Listed(q) PROVE y \in Listed(p) \cup {x}
        <5>1. PICK i \in 1..Len(q) : y = q[i]  BY DEF Listed
        <5>2. CASE i = Len(q)  BY <3>3, <5>1, <5>2
        <5>3. CASE i # Len(q)
          <6>1. i \in 1..Len(p)  BY <3>3, <4>1, <5>1, <5>3
          <6>2. y = p[i]  BY <3>3, <5>1, <6>1
          <6> QED  BY <6>1, <6>2 DEF Listed
        <5> QED  BY <5>2, <5>3
      <4>3. ASSUME NEW i \in 1..Len(p) PROVE p[i] \in Listed(q)
        <5>1. i \in 1..Len(q) /\ q[i] = p[i]  BY <3>3, <4>1
        <5> QED  BY <5>1 DEF Listed
      <4>4. x \in Listed(q)
        BY <3>3, <4>1 DEF Listed
      <4> QED  BY <4>2, <4>3, <4>4 DEF Listed
    <3>6. Once(q)
      <4>1. \A i \in 1..Len(p) : p[i] # x
        BY <3>4 DEF Listed
      <4> QED  BY <2>2, <3>3, <4>1 DEF Once
    <3>7. f[k] = q /\ First(k) \ {s} = Listed(q)
      BY <2>2, <2>3, <2>4, <2>6, <3>1, <3>2, <3>5
    <3>8. k \in 0..n  BY <1>1
    <3> HIDE DEF First, n
    <3> QED  BY <3>3, <3>6, <3>7, <3>8
  <2> QED  BY <2>5, <2>6
<1>8. n \in U
  <2>1. \A k \in 0..n : k \in U
    <3> HIDE DEF U
    <3> QED  BY <1>1, <1>6, <1>7, StepByStep
  <2> HIDE DEF U, n
  <2> QED  BY <1>1, <2>1
<1>9. First(n) = Listed(list)
  BY DEF Listed
<1> QED  BY <1>5, <1>8, <1>9

\* A scheduler joins the end of the list ...
LEMMA AppendSound ==
  ASSUME NEW S, NEW list \in Seq(S), Once(list), NEW s \in S, s \notin Listed(list)
  PROVE  /\ Append(list, s) \in Seq(S) /\ Once(Append(list, s))
         /\ Listed(Append(list, s)) = Listed(list) \cup {s}
<1>1. PICK q : q = Append(list, s)  OBVIOUS
<1>2. /\ q \in Seq(S) /\ Len(q) = Len(list) + 1 /\ q[Len(q)] = s
      /\ \A i \in 1..Len(list) : q[i] = list[i]
  BY <1>1
<1>3. \A i \in 1..Len(list) : list[i] # s
  BY DEF Listed
<1>4. Once(q)
  BY <1>2, <1>3 DEF Once
<1>5. Listed(q) = Listed(list) \cup {s}
  BY <1>2 DEF Listed
<1> QED  BY <1>1, <1>2, <1>4, <1>5

\* ... and is taken from its front.
LEMMA TailSound ==
  ASSUME NEW S, NEW list \in Seq(S), Once(list), list # << >>
  PROVE  /\ Tail(list) \in Seq(S) /\ Once(Tail(list)) /\ Head(list) \in Listed(list)
         /\ Listed(Tail(list)) = Listed(list) \ {Head(list)}
<1>1. PICK q : q = Tail(list)  OBVIOUS
<1>2. PICK h : h = Head(list)  OBVIOUS
<1>3. /\ q \in Seq(S) /\ Len(list) \in Nat /\ Len(list) > 0 /\ Len(q) = Len(list) - 1
      /\ h = list[1] /\ \A i \in 1..Len(q) : q[i] = list[i + 1]
  BY <1>1, <1>2
<1>4. h \in Listed(list)
  BY <1>3 DEF Listed
<1>5. Once(q)
  BY <1>3 DEF Once
<1>6. Listed(q) = Listed(list) \ {h}
  <2>1. ASSUME NEW x \in Listed(q) PROVE x \in Listed(list) \ {h}
    <3>1. PICK i \in 1..Len(q) : x = q[i]  BY DEF Listed
    <3>2. i + 1 \in 1..Len(list) /\ 1 \in 1..Len(list) /\ i + 1 # 1 /\ x = list[i + 1]
      BY <1>3, <3>1
    <3>3. x # h  BY <1>3, <3>2 DEF Once
    <3> QED  BY <3>2, <3>3 DEF Listed
  <2>2. ASSUME NEW x \in Listed(list) \ {h} PROVE x \in Listed(q)
    <3>1. PICK i \in 1..Len(list) : x = list[i]  BY DEF Listed
    <3>2. i # 1  BY <1>3, <3>1
    <3>3. i - 1 \in 1..Len(q) /\ x = q[i - 1]  BY <1>3, <3>1, <3>2
    <3> QED  BY <3>3 DEF Listed
  <2> QED  BY <2>1, <2>2
<1> QED  BY <1>1, <1>2, <1>3, <1>4, <1>5, <1>6

\* Those who are telling a starving scheduler of a thread, and those who are
\* about to put it on the list.
Told(s) == {t \in Thread : pc[t] = "notify" /\ target[t] = s}
Asking(s) ==
  {t \in Thread : pc[t] = "starve" /\ target[t] = s}
    \cup {c \in Client : pc[c] = "starve" /\ home[c] = s}

\* The flag says that the scheduler is in exactly one of these places.
Hungry(s) ==
  /\ threads[s].starved <=> s \in Listed(starving) \/ Told(s) # {} \/ Asking(s) # {}
  /\ s \in Listed(starving) => Told(s) = {} /\ Asking(s) = {}
  /\ Told(s) # {} => Asking(s) = {}
  /\ \A t, u \in Told(s) : t = u

ListInv ==
  /\ starving \in Seq(Sched) /\ Once(starving)
  /\ \A s \in Sched : Hungry(s)

\* A step that concerns neither the list nor who is on the way to it.
Fed ==
  /\ starving' = starving
  /\ \A s \in Sched : threads'[s].starved = threads[s].starved
  /\ \A t \in Thread : /\ pc'[t] = pc[t] \/ {pc[t], pc'[t]} \cap {"notify", "starve"} = {}
                       /\ target'[t] = target[t]
  /\ \A c \in Client : \/ pc'[c] = pc[c] /\ home'[c] = home[c]
                       \/ "starve" \notin {pc[c], pc'[c]}

\* Such a step keeps the list in order.
LEMMA FedKeeps ==
  ASSUME ListInv, Fed
  PROVE  ListInv'
<1>1. \A s \in Sched : Told(s)' = Told(s) /\ Asking(s)' = Asking(s)
  <2>1. \A t \in Thread : /\ pc'[t] = "notify" <=> pc[t] = "notify"
                          /\ pc'[t] = "starve" <=> pc[t] = "starve"
                          /\ target'[t] = target[t]
    BY DEF Fed
  <2>2. \A c \in Client, s \in Sched :
           (pc'[c] = "starve" /\ home'[c] = s) <=> (pc[c] = "starve" /\ home[c] = s)
    BY DEF Fed
  <2> QED  BY <2>1, <2>2 DEF Told, Asking
<1>2. ASSUME NEW s \in Sched PROVE Hungry(s)'
  <2>1. Told(s)' = Told(s) /\ Asking(s)' = Asking(s)  BY <1>1
  <2>2. Hungry(s) /\ threads'[s].starved = threads[s].starved /\ starving' = starving
    BY DEF ListInv, Fed
  <2> HIDE DEF Told, Asking
  <2> QED  BY <2>1, <2>2 DEF Hungry
<1> QED  BY <1>2 DEF ListInv, Fed

\* Steps that do not concern the list: of a client, ...
LEMMA ClientFed ==
  ASSUME Inv, NEW c \in Client, NEW s \in Sched, NEW n, NEW from, from # "starve",
         \/ Stop(c, s) \/ Trim(c, s, n) \/ Destroy(c, s) \/ WaitForEmptyQueue(c, s, from)
         \/ BeginWait(c, s) \/ DeleteThreads(c, s) \/ Resume(c, s) \/ Timeout(c) \/ Exit(c)
  PROVE  Fed
<1>1. /\ Types /\ c \in Actor /\ c \notin Thread /\ threads \in [Sched -> Record]
      /\ DOMAIN pc = Actor /\ DOMAIN home = Actor /\ threads[s].suspended \subseteq Thread
      /\ pool \subseteq Thread
  BY ThreadActor DEF Inv, Types, Record
<1>2. starving' = starving /\ target' = target
  BY DEF Stop, Trim, Destroy, WaitForEmptyQueue, BeginWait, DeleteThreads, Resume, Timeout, Exit,
         poolVars, ctrlVars
<1>3. \A r \in Sched : threads'[r].starved = threads[r].starved
  BY <1>1 DEF Stop, Trim, Destroy, WaitForEmptyQueue, BeginWait, DeleteThreads, Resume, Timeout, Exit,
              schedVars, Record
<1>4. /\ \A t \in Thread : pc'[t] = pc[t] \/ (pc[t] = "parked" /\ pc'[t] = "none")
      /\ \A d \in Client \ {c} : pc'[d] = pc[d] /\ home'[d] = home[d]
      /\ \/ pc'[c] = pc[c] /\ home'[c] = home[c]
         \/ "starve" \notin {pc[c], pc'[c]}
  <2>1. CASE Stop(c, s) \/ Trim(c, s, n)
    BY <2>1 DEF Stop, Trim, ctrlVars
  <2>2. CASE Destroy(c, s)
    BY <1>1, <2>2, ThreadActor DEF Destroy, Goto
  <2>3. CASE WaitForEmptyQueue(c, s, from)
    BY <1>1, <2>3, ThreadActor DEF WaitForEmptyQueue, Goto
  <2>4. CASE BeginWait(c, s)
    BY <1>1, <2>4, ThreadActor DEF BeginWait, Goto
  <2>5. CASE DeleteThreads(c, s)
    BY <1>1, <2>5, ThreadActor DEF DeleteThreads
  <2>6. CASE Resume(c, s)
    BY <1>1, <2>6, ThreadActor DEF Resume, Goto
  <2>7. CASE Timeout(c)
    BY <1>1, <2>7, ThreadActor DEF Timeout, Goto
  <2>8. CASE Exit(c)
    BY <1>1, <2>8, ThreadActor DEF Exit, Goto
  <2> QED  BY <2>1, <2>2, <2>3, <2>4, <2>5, <2>6, <2>7, <2>8
<1> QED  BY <1>2, <1>3, <1>4 DEF Fed

\* ... and of a thread.
LEMMA ThreadFed ==
  ASSUME Inv, NEW t \in Thread,
         \/ \E s \in Sched : TakeJob(t, s) \/ PutAside(t, s) \/ Settle(t, s)
         \/ Wake(t) \/ ExecuteJob(t) \/ Release(t)
  PROVE  Fed
<1>1. /\ Types /\ t \in Actor /\ t \notin Client /\ threads \in [Sched -> Record]
      /\ DOMAIN pc = Actor /\ DOMAIN home = Actor
  BY ThreadActor DEF Inv, Types
<1>2. starving' = starving /\ target' = target
  BY DEF TakeJob, PutAside, Settle, Wake, ExecuteJob, Release, Put, Overflow, poolVars
<1>3. \A r \in Sched : threads'[r].starved = threads[r].starved
  <2>1. CASE threads' = threads
    BY <2>1
  <2>2. ASSUME NEW s \in Sched, PutAside(t, s) \/ Settle(t, s)
        PROVE  \A r \in Sched : threads'[r].starved = threads[r].starved
    <3>1. ASSUME NEW th2 \in {[threads[s] EXCEPT !.fromShared = @ - 1],
                              [[threads[s] EXCEPT !.running = @ \ {t}] EXCEPT !.yetToCreate = @ + 1],
                              [[threads[s] EXCEPT !.running = @ \ {t}] EXCEPT
                                 !.suspended = @ \cup {t}, !.suspendedCount = @ + 1]},
                 threads' = [threads EXCEPT ![s] = [th2 EXCEPT
                   !.unusedCount = @ + 1, !.runningCount = @ - 1]]
          PROVE  \A r \in Sched : threads'[r].starved = threads[r].starved
      <4>1. th2.starved = threads[s].starved /\ DOMAIN th2 = DOMAIN threads[s]
        BY <1>1, <3>1 DEF Record
      <4>2. [th2 EXCEPT !.unusedCount = @ + 1, !.runningCount = @ - 1].starved = th2.starved
        BY <1>1, <4>1 DEF Record
      <4> QED  BY <1>1, <3>1, <4>1, <4>2
    <3>2. CASE threads' = [threads EXCEPT ![s] = [threads[s] EXCEPT !.running = @ \ {t}]]
      BY <1>1, <3>2 DEF Record
    <3> QED  BY <2>2, <3>1, <3>2 DEF PutAside, Settle, Retire
  <2> QED  BY <2>1, <2>2 DEF TakeJob, Wake, ExecuteJob, Release, schedVars
<1>4. /\ \A u \in Thread \ {t} : pc'[u] = pc[u]
      /\ {pc[t], pc'[t]} \cap {"notify", "starve"} = {}
      /\ \A c \in Client : home'[c] = home[c] /\ (pc'[c] = pc[c] \/ "starve" \notin {pc[c], pc'[c]})
  <2>1. CASE \E s \in Sched : TakeJob(t, s)
    BY <1>1, <2>1, ThreadActor DEF TakeJob, Goto
  <2>2. ASSUME NEW s \in Sched, NEW th, NEW label, Retire(t, s, th, label)
        PROVE  \A c \in Client : pc'[c] = pc[c] \/ "starve" \notin {pc[c], pc'[c]}
    BY <1>1, <2>2, ThreadActor DEF Retire, Goto
  <2>5. CASE \E s \in Sched : PutAside(t, s)
    <3>1. PICK s \in Sched : PutAside(t, s)  BY <2>5
    <3>2. pc[t] = "assign"  BY <3>1 DEF PutAside
    <3>3. \/ Goto(t, "unstarve") /\ home' = [home EXCEPT ![t] = s]
          \/ \E th, label : Retire(t, s, th, label) /\ label \in {"none", "parked"} /\ home' = home
      BY <3>1 DEF PutAside
    <3>4. CASE Goto(t, "unstarve") /\ home' = [home EXCEPT ![t] = s]
      BY <1>1, <3>2, <3>4, ThreadActor DEF Goto
    <3>5. ASSUME NEW th, NEW label \in {"none", "parked"}, Retire(t, s, th, label), home' = home
          PROVE  /\ \A u \in Thread \ {t} : pc'[u] = pc[u]
                 /\ {pc[t], pc'[t]} \cap {"notify", "starve"} = {}
                 /\ \A c \in Client : home'[c] = home[c]
                                    /\ (pc'[c] = pc[c] \/ "starve" \notin {pc[c], pc'[c]})
      <4>1. pc'[t] = label /\ \A u \in Thread \ {t} : pc'[u] = pc[u]
        BY <1>1, <3>5, RetireLabels
      <4> QED  BY <2>2, <3>2, <3>5, <4>1
    <3> QED  BY <3>3, <3>4, <3>5
  <2>6. CASE \E s \in Sched : Settle(t, s)
    <3>1. PICK s \in Sched : Settle(t, s)  BY <2>6
    <3>2. PICK th : Retire(t, s, th, "parked")  BY <3>1 DEF Settle
    <3>3. pc'[t] = "parked" /\ \A u \in Thread \ {t} : pc'[u] = pc[u]
      BY <1>1, <3>2, RetireLabels
    <3>4. pc[t] = "settle" /\ home' = home  BY <3>1 DEF Settle
    <3> QED  BY <2>2, <3>2, <3>3, <3>4
  <2>7. CASE Wake(t) \/ ExecuteJob(t)
    BY <1>1, <2>7, ThreadActor DEF Wake, ExecuteJob, Goto
  <2>8. CASE Release(t)
    BY <1>1, <2>8, ThreadActor DEF Release, Goto
  <2> QED  BY <2>1, <2>5, <2>6, <2>7, <2>8
<1> QED  BY <1>2, <1>3, <1>4 DEF Fed

\* A step that concerns scheduler s alone.
LEMMA OthersKeep ==
  ASSUME ListInv, NEW s \in Sched, Hungry(s)',
         starving' \in Seq(Sched), Once(starving'),
         \A r \in Sched \ {s} :
           /\ r \in Listed(starving') <=> r \in Listed(starving)
           /\ threads'[r].starved = threads[r].starved
           /\ Told(r)' = Told(r) /\ Asking(r)' = Asking(r)
  PROVE  ListInv'
<1>1. ASSUME NEW r \in Sched \ {s} PROVE Hungry(r)'
  <2>1. Hungry(r)  BY DEF ListInv
  <2>2. Told(r)' = Told(r) /\ Asking(r)' = Asking(r)  OBVIOUS
  <2>3. r \in Listed(starving)' <=> r \in Listed(starving)  OBVIOUS
  <2> HIDE DEF Told, Asking, Listed
  <2> QED  BY <2>1, <2>2, <2>3 DEF Hungry
<1> QED  BY <1>1 DEF ListInv

\* The sets of one scheduler, when one actor goes on and no target changes.
OneMoves(a, s) ==
  /\ \A b \in Actor \ {a} : pc'[b] = pc[b] /\ home'[b] = home[b]
  /\ a \in Client => home'[a] = s \/ home'[a] = home[a]
  /\ \A t \in Thread \ {a} : target'[t] = target[t]

\* One scheduler changes place, and the others stay where they are.
LEMMA OneMovesElsewhere ==
  ASSUME NEW a \in Actor, NEW s \in Sched, OneMoves(a, s), NEW r \in Sched \ {s},
         a \in Thread => /\ pc[a] \in {"notify", "starve"} => target[a] = s
                         /\ pc'[a] \in {"notify", "starve"} => target'[a] = s,
         a \in Client => /\ pc[a] = "starve" => home[a] = s
                         /\ pc'[a] = "starve" => home'[a] = s
  PROVE  Told(r)' = Told(r) /\ Asking(r)' = Asking(r)
<1>1. ASSUME NEW t \in Thread
      PROVE  /\ (pc'[t] = "notify" /\ target'[t] = r) <=> (pc[t] = "notify" /\ target[t] = r)
             /\ (pc'[t] = "starve" /\ target'[t] = r) <=> (pc[t] = "starve" /\ target[t] = r)
  <2>1. CASE t = a  BY <2>1
  <2>2. CASE t # a  BY <2>2, ThreadActor DEF OneMoves
  <2> QED  BY <2>1, <2>2
<1>2. ASSUME NEW c \in Client
      PROVE  (pc'[c] = "starve" /\ home'[c] = r) <=> (pc[c] = "starve" /\ home[c] = r)
  <2>1. CASE c = a  BY <2>1
  <2>2. CASE c # a  BY <2>2, ThreadActor DEF OneMoves
  <2> QED  BY <2>1, <2>2
<1> QED  BY <1>1, <1>2 DEF Told, Asking

\* Who is about to put a scheduler on the list has its mutex.
LEMMA AskerLocks ==
  ASSUME Inv, NEW s \in Sched, NEW a \in Asking(s)
  PROVE  lock[s] = a /\ pc[a] = "starve" /\ a \in Actor
<1>1. Locks  BY DEF Inv
<1>2. None \notin Sched  BY SchedulerAssumption DEF SchedulerAssumption
<1> QED  BY <1>1, <1>2, ThreadActor DEF Locks, Asking

\* A thread that joins was not waiting for one.
LEMMA JoinsList ==
  ASSUME Inv, ListInv, NEW a \in Actor, NEW s \in Sched, NEW ok, NEW t \in Thread,
         Caller(a, s, ok), Joins(a, s, t), Labels(a, s, t, ok), pc[a] # "starve"
  PROVE  ListInv'
<1>1. Types /\ t \in Actor  BY ThreadActor DEF Inv
<1>2. starving' = starving /\ \A r \in Sched : threads'[r].starved = threads[r].starved
  BY DEF Joins, Source
<1>3. \A b \in Actor \ {a} : pc'[b] = pc[b] \/ (pc[b] = "none" /\ pc'[b] = "parked")
  BY <1>1 DEF Labels, Types
<1>4. a \in Client => pc'[a] \in {"idle", "resume"}
  BY <1>1, ThreadActor DEF Labels, Types, Caller, After
<1>5. a \in Thread => pc[a] = "available" /\ pc'[a] = "available"
  BY <1>1, ThreadActor DEF Labels, Types, Caller, After
<1>6. \A u \in Thread : pc'[u] = pc[u] \/ {pc[u], pc'[u]} \cap {"notify", "starve"} = {}
  BY <1>3, <1>5, ThreadActor
<1>7. \A c \in Client : c # a => pc'[c] = pc[c] /\ home'[c] = home[c]
  BY <1>1, ThreadActor DEF Labels, Types, Caller
<1>8. \A c \in Client : \/ pc'[c] = pc[c] /\ home'[c] = home[c]
                        \/ "starve" \notin {pc[c], pc'[c]}
  BY <1>4, <1>7
<1>9. target' = target  BY DEF Caller
<1> QED  BY <1>2, <1>6, <1>8, <1>9, FedKeeps DEF Fed

\* Nor is anybody, in front of an allocation that fails, unless the pool was asked.
LEMMA FailList ==
  ASSUME Inv, ListInv, NEW a \in Actor, NEW s \in Sched, NEW ok, NEW label \in {"leave", "starve"},
         Caller(a, s, ok), Fails(a, s, label), pc[a] # "starve"
  PROVE  ListInv'
<1>1. Types /\ threads \in [Sched -> Record] /\ DOMAIN pc = Actor  BY DEF Inv, Types
<1>2. /\ \A b \in Actor \ {a} : pc'[b] = pc[b] /\ home'[b] = home[b]
      /\ pc'[a] = After(a, label) /\ starving' = starving /\ target' = target
  BY <1>1 DEF Fails, Goto, Caller, poolVars
<1>3. a \in Thread => pc[a] = "available" /\ target[a] = s /\ a \notin Client
  BY ThreadActor DEF Caller
<1>4. a \in Client => home'[a] = s /\ a \notin Thread
  BY ThreadActor DEF Caller
<1>5. CASE label = "leave"
  <2>1. \A r \in Sched : threads'[r].starved = threads[r].starved
    BY <1>5 DEF Fails
  <2>2. pc'[a] \in {"idle", "select"}  BY <1>2, <1>5 DEF After
  <2>3. Fed
    BY <1>2, <1>3, <2>1, <2>2, ThreadActor DEF Fed
  <2> QED  BY <2>3, FedKeeps
<1>6. CASE label = "starve"
  <2>1. /\ ~threads[s].starved /\ threads' = [threads EXCEPT ![s].starved = TRUE]
    BY <1>6 DEF Fails
  <2>2. /\ threads'[s].starved /\ \A r \in Sched \ {s} : threads'[r] = threads[r]
    BY <1>1, <2>1 DEF Record
  <2>3. pc'[a] = "starve"  BY <1>2, <1>6 DEF After
  <2>4. Hungry(s)  BY DEF ListInv
  <2>5. s \notin Listed(starving) /\ Told(s) = {} /\ Asking(s) = {}
    BY <2>1, <2>4 DEF Hungry
  <2>6. Told(s)' = {}
    <3>1. \A t \in Thread : ~(pc'[t] = "notify" /\ target'[t] = s)
      BY <1>2, <2>3, <2>5, ThreadActor DEF Told
    <3> QED  BY <3>1 DEF Told
  <2>7. a \in Asking(s)'
    BY <1>2, <1>3, <1>4, <2>3 DEF Asking, Actor
  <2>8. Hungry(s)'
    <3> HIDE DEF Told, Asking
    <3> QED  BY <1>2, <2>2, <2>5, <2>6, <2>7 DEF Hungry
  <2>9. OneMoves(a, s)
    BY <1>2, <1>4, ThreadActor DEF OneMoves
  <2>10. \A r \in Sched \ {s} : Told(r)' = Told(r) /\ Asking(r)' = Asking(r)
    BY <1>2, <1>3, <1>4, <2>9, OneMovesElsewhere
  <2>11. starving \in Seq(Sched) /\ Once(starving)  BY DEF ListInv
  <2> QED  BY <1>2, <2>2, <2>8, <2>10, <2>11, OthersKeep
<1> QED  BY <1>5, <1>6

\* AddStarving: from about to ask into the list.
LEMMA StarveList ==
  ASSUME Inv, ListInv, NEW a \in Actor, NEW s \in Sched, Starve(a, s),
         a \in Client => s = home[a], a \in Thread => s = target[a]
  PROVE  ListInv'
<1>1. DOMAIN pc = Actor  BY DEF Inv, Types
<1>2. /\ starving' = Append(starving, s) /\ threads' = threads /\ home' = home /\ target' = target
      /\ pc[a] = "starve" /\ pc'[a] \in {"idle", "select"}
      /\ \A b \in Actor \ {a} : pc'[b] = pc[b]
  BY <1>1 DEF Starve, AddStarving, Goto, After, schedVars
<1>3. a \in Asking(s)
  BY <1>2 DEF Asking, Actor
<1>4. Hungry(s) /\ starving \in Seq(Sched) /\ Once(starving)
  BY DEF ListInv
<1>5. threads[s].starved /\ s \notin Listed(starving) /\ Told(s) = {}
  <2> HIDE DEF Told, Asking, Listed
  <2> QED  BY <1>3, <1>4 DEF Hungry
<1>6. starving' \in Seq(Sched) /\ Once(starving') /\ Listed(starving') = Listed(starving) \cup {s}
  BY <1>2, <1>4, <1>5, AppendSound
<1>7. Asking(s)' = {}
  <2>1. \A b \in Asking(s) : b = a
    BY <1>3, AskerLocks
  <2>2. \A b \in Actor \ {a} : pc[b] = "starve" =>
          (b \in Thread => target[b] # s) /\ (b \in Client => home[b] # s)
    BY <2>1 DEF Asking
  <2> QED  BY <1>2, <2>2, ThreadActor DEF Asking
<1>8. Told(s)' = {}
  <2>1. \A t \in Thread : ~(pc'[t] = "notify" /\ target'[t] = s)
    BY <1>2, <1>5, ThreadActor DEF Told
  <2> QED  BY <2>1 DEF Told
<1>9. Hungry(s)'
  <2>1. s \in Listed(starving')  BY <1>6
  <2> HIDE DEF Told, Asking, Listed
  <2> QED  BY <1>2, <1>5, <1>7, <1>8, <2>1 DEF Hungry
<1>10. OneMoves(a, s)  BY <1>2 DEF OneMoves
<1>11. \A r \in Sched \ {s} : Told(r)' = Told(r) /\ Asking(r)' = Asking(r)
  BY <1>2, <1>10, OneMovesElsewhere
<1>12. \A r \in Sched \ {s} : r \in Listed(starving') <=> r \in Listed(starving)
  BY <1>6
<1> QED  BY <1>2, <1>6, <1>9, <1>11, <1>12, OthersKeep

\* Who is taken from the front of the list is told, by one thread.
LEMMA SelectList ==
  ASSUME Inv, ListInv, NEW t \in Thread, Select(t)
  PROVE  ListInv'
<1>1. DOMAIN pc = Actor /\ target \in [Thread -> Sched \cup {None}] /\ t \in Actor /\ t \notin Client
  BY ThreadActor DEF Inv, Types
<1>2. threads' = threads /\ home' = home /\ pc[t] = "select"
  BY DEF Select, schedVars
<1>3. CASE NobodyStarving /\ Goto(t, "settle") /\ UNCHANGED <<poolVars, target>>
  <2>1. Fed
    BY <1>1, <1>2, <1>3, ThreadActor DEF Fed, Goto, poolVars
  <2> QED  BY <2>1, FedKeeps
<1>4. ASSUME NEW s \in Sched, SelectStarving(s), target' = [target EXCEPT ![t] = s], Goto(t, "notify")
      PROVE  ListInv'
  <2>1. /\ starving # << >> /\ s = Head(starving) /\ starving' = Tail(starving)
        /\ pc'[t] = "notify" /\ target'[t] = s
        /\ \A b \in Actor \ {t} : pc'[b] = pc[b]
        /\ \A b \in Thread \ {t} : target'[b] = target[b]
    BY <1>1, <1>4 DEF SelectStarving, Goto
  <2>2. Hungry(s) /\ starving \in Seq(Sched) /\ Once(starving)
    BY DEF ListInv
  <2>3. /\ starving' \in Seq(Sched) /\ Once(starving') /\ s \in Listed(starving)
        /\ Listed(starving') = Listed(starving) \ {s}
    BY <2>1, <2>2, TailSound
  <2>4. threads[s].starved /\ Told(s) = {} /\ Asking(s) = {}
    <3> HIDE DEF Told, Asking, Listed
    <3> QED  BY <2>2, <2>3 DEF Hungry
  <2>5. Asking(s)' = {}
    <3>1. \A u \in Thread : ~(pc'[u] = "starve" /\ target'[u] = s)
      BY <2>1, <2>4, ThreadActor DEF Asking
    <3>2. \A c \in Client : ~(pc'[c] = "starve" /\ home'[c] = s)
      BY <1>1, <1>2, <2>1, <2>4, ThreadActor DEF Asking
    <3> QED  BY <3>1, <3>2 DEF Asking
  <2>6. Told(s)' = {t}
    <3>1. \A u \in Thread \ {t} : ~(pc'[u] = "notify" /\ target'[u] = s)
      BY <2>1, <2>4, ThreadActor DEF Told
    <3> QED  BY <2>1, <3>1 DEF Told
  <2>7. Hungry(s)'
    <3>1. s \notin Listed(starving')  BY <2>3
    <3> HIDE DEF Told, Asking, Listed
    <3> QED  BY <1>2, <2>4, <2>5, <2>6, <3>1 DEF Hungry
  <2>8. OneMoves(t, s)  BY <1>1, <1>2, <2>1 DEF OneMoves
  <2>9. \A r \in Sched \ {s} : Told(r)' = Told(r) /\ Asking(r)' = Asking(r)
    BY <1>1, <1>2, <2>1, <2>8, OneMovesElsewhere
  <2>10. \A r \in Sched \ {s} : r \in Listed(starving') <=> r \in Listed(starving)
    BY <2>3
  <2> QED  BY <1>2, <2>3, <2>7, <2>9, <2>10, OthersKeep
<1> QED  BY <1>3, <1>4 DEF Select

\* The first of the list is taken out to be told.
LEMMA NotifyList ==
  ASSUME Inv, ListInv, NEW t \in Thread, NEW s \in Sched, s = target[t], Notify(t, s)
  PROVE  ListInv'
<1>1. DOMAIN pc = Actor /\ threads \in [Sched -> Record] /\ t \in Actor /\ t \notin Client
  BY ThreadActor DEF Inv, Types
<1>2. /\ starving' = starving /\ home' = home /\ target' = target
      /\ pc[t] = "notify" /\ pc'[t] = "available"
      /\ \A b \in Actor \ {t} : pc'[b] = pc[b]
      /\ ~threads'[s].starved /\ \A r \in Sched \ {s} : threads'[r] = threads[r]
  BY <1>1 DEF Notify, Goto, poolVars, Record
<1>3. Hungry(s) /\ starving \in Seq(Sched) /\ Once(starving)
  BY DEF ListInv
<1>4. t \in Told(s)  BY <1>2 DEF Told
<1>5. s \notin Listed(starving) /\ Asking(s) = {} /\ \A u \in Told(s) : u = t
  <2> HIDE DEF Told, Asking, Listed
  <2> QED  BY <1>3, <1>4 DEF Hungry
<1>6. Told(s)' = {}
  <2>1. \A u \in Thread : ~(pc'[u] = "notify" /\ target'[u] = s)
    BY <1>2, <1>5, ThreadActor DEF Told
  <2> QED  BY <2>1 DEF Told
<1>7. Asking(s)' = {}
  <2>1. \A u \in Thread : ~(pc'[u] = "starve" /\ target'[u] = s)
    BY <1>2, <1>5, ThreadActor DEF Asking
  <2>2. \A c \in Client : ~(pc'[c] = "starve" /\ home'[c] = s)
    BY <1>1, <1>2, <1>5, ThreadActor DEF Asking
  <2> QED  BY <2>1, <2>2 DEF Asking
<1>8. Hungry(s)'
  <2> HIDE DEF Told, Asking, Listed
  <2> QED  BY <1>2, <1>5, <1>6, <1>7 DEF Hungry
<1>9. OneMoves(t, s)  BY <1>1, <1>2 DEF OneMoves
<1>10. \A r \in Sched \ {s} : Told(r)' = Told(r) /\ Asking(r)' = Asking(r)
  BY <1>1, <1>2, <1>9, OneMovesElsewhere
<1> QED  BY <1>2, <1>3, <1>8, <1>10, OthersKeep

\* StopStarvation, in AssignJob and in the destructor.
LEMMA UnstarveList ==
  ASSUME Inv, ListInv, NEW a \in Actor, NEW s \in Sched, StopStarvation(a, s) \/ EndStarvation(a, s)
  PROVE  ListInv'
<1>1. DOMAIN pc = Actor /\ threads \in [Sched -> Record]
  BY DEF Inv, Types
<1>2. /\ home' = home /\ target' = target
      /\ pc[a] = "unstarve" /\ pc'[a] \in {"release", "destroy"}
      /\ \A b \in Actor \ {a} : pc'[b] = pc[b]
      /\ ~threads'[s].starved /\ \A r \in Sched \ {s} : threads'[r] = threads[r]
      /\ IF threads[s].starved
           THEN IsStarving(s) /\ starving' = Without(starving, s)
           ELSE starving' = starving
  BY <1>1 DEF StopStarvation, EndStarvation, RemoveStarving, Goto, poolVars, Record
<1>3. Hungry(s) /\ starving \in Seq(Sched) /\ Once(starving)
  BY DEF ListInv
<1>4. Told(s) = {} /\ Asking(s) = {}
  <2>1. IsStarving(s) => s \in Listed(starving)
    BY <1>3 DEF IsStarving, Listed
  <2> HIDE DEF Told, Asking, Listed
  <2> QED  BY <1>2, <1>3, <2>1 DEF Hungry
<1>5. /\ starving' \in Seq(Sched) /\ Once(starving') /\ Listed(starving') = Listed(starving) \ {s}
  <2>1. CASE threads[s].starved
    BY <1>2, <1>3, <2>1, WithoutSound
  <2>2. CASE ~threads[s].starved
    <3>1. s \notin Listed(starving)
      <4> HIDE DEF Told, Asking, Listed
      <4> QED  BY <1>3, <2>2 DEF Hungry
    <3> QED  BY <1>2, <1>3, <2>2, <3>1
  <2> QED  BY <2>1, <2>2
<1>6. Told(s)' = {}
  <2>1. \A u \in Thread : ~(pc'[u] = "notify" /\ target'[u] = s)
    BY <1>2, <1>4, ThreadActor DEF Told
  <2> QED  BY <2>1 DEF Told
<1>7. Asking(s)' = {}
  <2>1. \A u \in Thread : ~(pc'[u] = "starve" /\ target'[u] = s)
    BY <1>2, <1>4, ThreadActor DEF Asking
  <2>2. \A c \in Client : ~(pc'[c] = "starve" /\ home'[c] = s)
    BY <1>2, <1>4, ThreadActor DEF Asking
  <2> QED  BY <2>1, <2>2 DEF Asking
<1>8. Hungry(s)'
  <2>1. s \notin Listed(starving')  BY <1>5
  <2> HIDE DEF Told, Asking, Listed
  <2> QED  BY <1>2, <1>6, <1>7, <2>1 DEF Hungry
<1>9. OneMoves(a, s)  BY <1>2 DEF OneMoves
<1>10. \A r \in Sched \ {s} : Told(r)' = Told(r) /\ Asking(r)' = Asking(r)
  BY <1>2, <1>9, OneMovesElsewhere
<1>11. \A r \in Sched \ {s} : r \in Listed(starving') <=> r \in Listed(starving)
  BY <1>5
<1> QED  BY <1>2, <1>5, <1>8, <1>10, <1>11, OthersKeep

\* The methods that ask for threads.
LEMMA ScheduleList ==
  ASSUME Inv, ListInv, NEW c \in Client, NEW s \in Sched, Schedule(c, s)
  PROVE  ListInv'
<1>1. /\ Types /\ DOMAIN pc = Actor /\ c \in Actor /\ c \notin Thread
      /\ home \in [Actor -> Sched \cup {None}]
  BY ThreadActor DEF Inv, Types
<1>2. /\ pc[c] = "idle" /\ lock[s] = None /\ home' = [home EXCEPT ![c] = s]
      /\ UNCHANGED <<life, target>>
  BY DEF Schedule
<1>3. Caller(c, s, "leave")
  BY <1>1, <1>2 DEF Caller
<1>4. CASE AllocateThread(c, s, "leave", "leave")
  BY <1>1, <1>2, <1>3, <1>4, AllocateOutcome, JoinsList, FailList
<1>5. CASE UNCHANGED <<poolVars, threads, lockVars, workVars, pc>>
  <2>1. Fed
    BY <1>1, <1>2, <1>5 DEF Fed, poolVars
  <2> QED  BY <2>1, FedKeeps
<1> QED  BY <1>4, <1>5 DEF Schedule

\* A client that finds no thread to borrow is about to ask.
LEMMA ResumeLoopList ==
  ASSUME Inv, ListInv, NEW c \in Client, NEW s \in Sched, s = home[c], ResumeLoop(c, s)
  PROVE  ListInv'
<1>1. Types /\ Locks /\ DOMAIN pc = Actor /\ c \in Actor /\ c \notin Thread
  BY ThreadActor DEF Inv, Types
<1>2. pc[c] = "resume"  BY DEF ResumeLoop
<1>3. Caller(c, s, "resume")
  BY <1>1 DEF ResumeLoop, Caller, Locks, Types
<1>4. CASE AllocateThread(c, s, "resume", "leave")
  BY <1>1, <1>2, <1>3, <1>4, AllocateOutcome, JoinsList, FailList
<1>5. CASE Continue(c, s, "leave") /\ Goto(c, "idle") /\ UNCHANGED <<poolVars, threads, workVars>>
  <2>1. Fails(c, s, "leave")  BY <1>5 DEF Fails, After
  <2> QED  BY <1>1, <1>2, <1>3, <2>1, FailList
<1> QED  BY <1>4, <1>5 DEF ResumeLoop

\* The scheduler that is told is hungry no more.
LEMMA AvailableList ==
  ASSUME Inv, ListInv, NEW t \in Thread, NEW s \in Sched, s = target[t], ThreadAvailable(t, s)
  PROVE  ListInv'
<1>1. Types /\ Locks /\ DOMAIN pc = Actor /\ t \in Actor /\ t \notin Client
  BY ThreadActor DEF Inv, Types
<1>2. pc[t] = "available"  BY DEF ThreadAvailable
<1>3. Caller(t, s, "available")
  BY <1>1 DEF ThreadAvailable, Caller, Locks, Types
<1>4. CASE threads[s].fromShared < sharedThreads[s]
           /\ AllocateSharedThread(t, s, "available", "leave")
  BY <1>1, <1>2, <1>3, <1>4, SharedOutcome, JoinsList, FailList
<1>5. CASE Continue(t, s, "leave") /\ Goto(t, "select") /\ UNCHANGED <<poolVars, threads, workVars>>
  <2>1. Fails(t, s, "leave")  BY <1>1, <1>5 DEF Fails, After
  <2> QED  BY <1>1, <1>2, <1>3, <2>1, FailList
<1> QED  BY <1>4, <1>5 DEF ThreadAvailable

\* At the start nobody starves.
LEMMA InitList == Init => ListInv
<1> SUFFICES ASSUME Init PROVE ListInv  OBVIOUS
<1>1. Listed(starving) = {} /\ starving \in Seq(Sched) /\ Once(starving)
  <2>1. PICK e : e = << >>  OBVIOUS
  <2>2. Len(e) = 0 /\ e \in Seq(Sched) /\ starving = e  BY <2>1 DEF Init
  <2> QED  BY <2>2 DEF Listed, Once
<1>2. ASSUME NEW s \in Sched PROVE Hungry(s)
  <2>1. Told(s) = {} /\ Asking(s) = {}
    BY ThreadActor DEF Init, Told, Asking
  <2>2. ~threads[s].starved  BY DEF Init
  <2> HIDE DEF Told, Asking, Listed
  <2> QED  BY <1>1, <2>1, <2>2 DEF Hungry
<1> QED  BY <1>1, <1>2 DEF ListInv

\* All steps of a client keep the list, ...
LEMMA ClientList ==
  ASSUME Inv, ListInv, NEW c \in Client, ClientStep(c)
  PROVE  ListInv'
<1>1. home[c] \in Sched \cup {None} /\ c \in Actor /\ c \notin Thread
  BY ThreadActor DEF Inv, Types
<1>2. ASSUME NEW s \in Sched,
             \/ Schedule(c, s) \/ Stop(c, s) \/ Resume(c, s)
             \/ WaitForEmptyQueue(c, s, "idle") \/ Destroy(c, s)
             \/ \E watermark \in 0..MaxJobs : Trim(c, s, watermark)
      PROVE  ListInv'
  <2>1. CASE \E watermark \in 0..MaxJobs : Trim(c, s, watermark)
    <3>1. PICK watermark : Trim(c, s, watermark)  BY <2>1
    <3>2. Fed  BY <3>1, ClientFed
    <3> QED  BY <3>2, FedKeeps
  <2>2. CASE Stop(c, s) \/ Resume(c, s) \/ WaitForEmptyQueue(c, s, "idle") \/ Destroy(c, s)
    <3>1. Fed  BY <2>2, ClientFed
    <3> QED  BY <3>1, FedKeeps
  <2> QED  BY <1>2, <2>1, <2>2, ScheduleList
<1>3. ASSUME NEW s \in Sched, s = home[c],
             \/ ResumeLoop(c, s) \/ Starve(c, s)
             \/ BeginWait(c, s) \/ WaitForEmptyQueue(c, s, "woken")
             \/ EndStarvation(c, s) \/ WaitForEmptyQueue(c, s, "destroy") \/ DeleteThreads(c, s)
      PROVE  ListInv'
  <2>1. CASE \/ BeginWait(c, s) \/ DeleteThreads(c, s)
    <3>1. Fed  BY <2>1, ClientFed
    <3> QED  BY <3>1, FedKeeps
  <2>2. CASE WaitForEmptyQueue(c, s, "woken") \/ WaitForEmptyQueue(c, s, "destroy")
    <3>1. Fed  BY <2>2, ClientFed
    <3> QED  BY <3>1, FedKeeps
  <2> QED  BY <1>1, <1>3, <2>1, <2>2, ResumeLoopList, StarveList, UnstarveList
<1>4. CASE Timeout(c) \/ Exit(c)
  <2>1. ASSUME NEW s \in Sched PROVE Fed  BY <1>4, ClientFed
  <2>2. CASE Sched # {}  BY <2>1, <2>2, FedKeeps
  <2>3. CASE Sched = {}
    <3>1. starving' = starving  BY <1>4 DEF Timeout, Exit, poolVars
    <3> QED  BY <2>3, <3>1 DEF ListInv
  <2> QED  BY <2>2, <2>3
<1> QED  BY <1>1, <1>2, <1>3, <1>4 DEF ClientStep

\* ... and all steps of a thread.
LEMMA ThreadList ==
  ASSUME Inv, ListInv, NEW t \in Thread, ThreadStep(t)
  PROVE  ListInv'
<1>1. /\ home[t] \in Sched \cup {None} /\ owner[t] \in Sched \cup {None}
      /\ target[t] \in Sched \cup {None} /\ t \in Actor /\ t \notin Client
  BY ThreadActor DEF Inv, Types
<1>2. CASE Wake(t) \/ ExecuteJob(t) \/ Release(t)
  <2>1. Fed  BY <1>2, ThreadFed
  <2> QED  BY <2>1, FedKeeps
<1>3. CASE Select(t)
  BY <1>3, SelectList
<1>4. CASE \E s \in {owner[t]} \ {None} : TakeJob(t, s) \/ PutAside(t, s)
  <2>1. Fed  BY <1>1, <1>4, ThreadFed
  <2> QED  BY <2>1, FedKeeps
<1>5. CASE \E s \in {home[t]} \ {None} : StopStarvation(t, s)
  BY <1>1, <1>5, UnstarveList
<1>6. CASE \E s \in {home[t]} \ {None} : Settle(t, s)
  <2>1. Fed  BY <1>1, <1>6, ThreadFed
  <2> QED  BY <2>1, FedKeeps
<1>7. CASE \E s \in {target[t]} \ {None} :
             Notify(t, s) \/ ThreadAvailable(t, s) \/ Starve(t, s)
  BY <1>1, <1>7, NotifyList, AvailableList, StarveList
<1> QED  BY <1>2, <1>3, <1>4, <1>5, <1>6, <1>7 DEF ThreadStep

\* Every step keeps the list.
LEMMA NextList == Inv /\ ListInv /\ [Next]_vars => ListInv'
<1> SUFFICES ASSUME Inv, ListInv, [Next]_vars PROVE ListInv'  OBVIOUS
<1>1. CASE UNCHANGED vars
  <2>1. Fed  BY <1>1 DEF vars, poolVars, schedVars, ctrlVars, Fed
  <2> QED  BY <2>1, FedKeeps
<1> QED  BY <1>1, ClientList, ThreadList DEF Next

\* Nobody is on a list twice.
LEMMA OnceCounted ==
  ASSUME NEW list, Once(list), Len(list) \in Nat, DOMAIN list = 1..Len(list), NEW s
  PROVE  Cardinality({i \in DOMAIN list : list[i] = s}) <= 1
<1> DEFINE I == {i \in DOMAIN list : list[i] = s}
<1>1. CASE I = {}
  BY <1>1, FS_EmptySet
<1>2. CASE I # {}
  <2>1. PICK i : i \in I  BY <1>2
  <2>2. I = {i}  BY <2>1 DEF Once
  <2> HIDE DEF I
  <2>3. Cardinality({i}) = 1  BY FS_Singleton
  <2>4. Cardinality(I) <= 1  BY <2>2, <2>3
  <2> QED  BY <2>4 DEF I
<1> QED  BY <1>1, <1>2

\* CThreadPool::AddStarving, StopStarvation: a scheduler that has stopped asking for
\* threads is on the list, once, or is just being told that there is one.
THEOREM StarvedListed == Spec => []StarvedIsListed
<1>1. Inv /\ ListInv => StarvedIsListed
  <2> SUFFICES ASSUME Inv, ListInv, NEW s \in Sched
               PROVE  /\ lock[s] = None /\ threads[s].starved =>
                           \/ IsStarving(s)
                           \/ \E t \in Thread : pc[t] = "notify" /\ target[t] = s
                      /\ Cardinality({i \in DOMAIN starving : starving[i] = s}) <= 1
    BY DEF StarvedIsListed
  <2>1. /\ Hungry(s) /\ Once(starving) /\ Len(starving) \in Nat
        /\ DOMAIN starving = 1..Len(starving)
    BY DEF ListInv
  <2>2. ASSUME lock[s] = None, threads[s].starved
        PROVE  IsStarving(s) \/ \E t \in Thread : pc[t] = "notify" /\ target[t] = s
    <3>1. Asking(s) = {}
      <4>1. \A a \in Actor : a # None
        BY SchedulerAssumption DEF SchedulerAssumption, Actor
      <4>2. ASSUME NEW a \in Asking(s) PROVE FALSE
        BY <2>2, <4>1, AskerLocks
      <4> QED  BY <4>2
    <3>2. s \in Listed(starving) \/ Told(s) # {}
      <4> HIDE DEF Told, Asking, Listed
      <4> QED  BY <2>1, <2>2, <3>1 DEF Hungry
    <3> QED  BY <2>1, <3>2 DEF IsStarving, Listed, Told
  <2>3. Cardinality({i \in DOMAIN starving : starving[i] = s}) <= 1
    BY <2>1, OnceCounted
  <2> QED  BY <2>2, <2>3
<1> QED  BY <1>1, InitInv, NextInv, InitList, NextList, PTL DEF Spec

-----------------------------------------------------------------------------
(* The end of a scheduler *)

\* A client is in one of the methods.
Busy(c, s) == home[c] = s /\ pc[c] \notin {"idle", "exit"}

\* The destructor has waited for the last thread.
Ended(s) == life[s] = "gone" \/ \E c \in Client : Busy(c, s) /\ pc[c] = "delete"

\* Who destroys a scheduler is alone with its threads; once the list does not name
\* it and the last thread has returned, nobody comes back.
Ending(s) ==
  /\ life[s] # "alive" =>
       /\ threads[s].stopCount = 0
       /\ \A c, d \in Client : Busy(c, s) /\ Busy(d, s) => c = d
       /\ \A c \in Client : Busy(c, s) => pc[c] \notin {"resume", "starve"}
  /\ life[s] = "alive" => \A c \in Client : Busy(c, s) => pc[c] \notin {"unstarve", "destroy", "delete"}
  /\ life[s] = "gone" => \A c \in Client : ~Busy(c, s)
  /\ life[s] # "alive" /\ (\A c \in Client : Busy(c, s) => pc[c] # "unstarve") => ~threads[s].starved
  /\ Ended(s) => threads[s].runningCount = 0 /\ lock[s] = None

EndInv ==
  /\ life \in [Sched -> {"alive", "dying", "gone"}]
  /\ \A s \in Sched : Ending(s)

\* A step that leaves the numbers of a scheduler that is being destroyed alone ...
Untouched(s) ==
  /\ life'[s] = life[s]
  /\ life[s] # "alive" => /\ threads'[s].stopCount = threads[s].stopCount
                          /\ threads'[s].starved => threads[s].starved
  /\ Ended(s) => threads'[s].runningCount = 0 /\ lock'[s] = None

\* ... and the client that destroys it where it waits.
Follows(c, s) ==
  /\ Busy(c, s)' => \/ Busy(c, s) /\ (pc'[c] = pc[c] \/ pc'[c] \in {"armed", "blocked", "woken"})
                    \/ life[s] = "alive" /\ pc'[c] \notin {"unstarve", "destroy", "delete"}
  /\ Busy(c, s) /\ pc[c] = "unstarve" => Busy(c, s)' /\ pc'[c] = "unstarve"

\* What keeps Ending of one scheduler, step by step, ...
LEMMA EndingKept ==
  ASSUME NEW s \in Sched, Ending(s), Untouched(s), \A c \in Client : Follows(c, s)
  PROVE  Ending(s)'
<1>1. ASSUME NEW c \in Client, life[s] # "alive", Busy(c, s)'
      PROVE  Busy(c, s) /\ (pc'[c] = pc[c] \/ pc'[c] \in {"armed", "blocked", "woken"})
  BY <1>1 DEF Follows
<1>2. life[s] = "alive" =>
        \A c \in Client : Busy(c, s)' => pc'[c] \notin {"unstarve", "destroy", "delete"}
  <2> SUFFICES ASSUME life[s] = "alive", NEW c \in Client, Busy(c, s)'
               PROVE  pc'[c] \notin {"unstarve", "destroy", "delete"}
    OBVIOUS
  <2>1. CASE Busy(c, s) /\ (pc'[c] = pc[c] \/ pc'[c] \in {"armed", "blocked", "woken"})
    BY <2>1 DEF Ending
  <2> QED  BY <2>1 DEF Follows
<1>3. Ended(s)' => Ended(s)
  <2> SUFFICES ASSUME Ended(s)' PROVE Ended(s)  OBVIOUS
  <2>1. CASE life'[s] = "gone"
    BY <2>1 DEF Ended, Untouched
  <2>2. ASSUME NEW c \in Client, Busy(c, s)', pc'[c] = "delete"
        PROVE  Ended(s)
    <3>1. life[s] # "alive"  BY <1>2, <2>2
    <3> QED  BY <1>1, <2>2, <3>1 DEF Ended
  <2> QED  BY <2>1, <2>2 DEF Ended
<1>4. (\A c \in Client : Busy(c, s)' => pc'[c] # "unstarve")
        => \A c \in Client : Busy(c, s) => pc[c] # "unstarve"
  BY DEF Follows
<1>5. life'[s] = life[s]  BY DEF Untouched
<1>6. life[s] # "alive" =>
       /\ threads'[s].stopCount = 0
       /\ \A c, d \in Client : Busy(c, s)' /\ Busy(d, s)' => c = d
       /\ \A c \in Client : Busy(c, s)' => pc'[c] \notin {"resume", "starve"}
  <2> HIDE DEF Busy
  <2> QED  BY <1>1 DEF Ending, Untouched
<1>7. life[s] = "gone" => \A c \in Client : ~Busy(c, s)'
  <2> HIDE DEF Busy
  <2> QED  BY <1>1 DEF Ending
<1>8. life[s] # "alive" /\ (\A c \in Client : Busy(c, s)' => pc'[c] # "unstarve") => ~threads'[s].starved
  <2> HIDE DEF Busy
  <2> QED  BY <1>4 DEF Ending, Untouched
<1>9. Ended(s)' => threads'[s].runningCount = 0 /\ lock'[s] = None
  BY <1>3 DEF Untouched
<1> HIDE DEF Busy, Ended
<1> QED  BY <1>2, <1>5, <1>6, <1>7, <1>8, <1>9 DEF Ending

\* ... and of all schedulers.
LEMMA AllKept ==
  ASSUME EndInv, life' = life, \A s \in Sched : Untouched(s), \A s \in Sched, c \in Client : Follows(c, s)
  PROVE  EndInv'
<1>1. ASSUME NEW s \in Sched PROVE Ending(s)'
  <2>1. Ending(s) /\ Untouched(s)  BY DEF EndInv
  <2> QED  BY <2>1, EndingKept
<1> QED  BY <1>1 DEF EndInv

\* What happens in a scheduler that lives does not matter here.
LEMMA AliveUntouched ==
  ASSUME EndInv, NEW s \in Sched, life' = life, life[s] = "alive" \/ Untouched(s),
         \A r \in Sched \ {s} : threads'[r] = threads[r] /\ lock'[r] = lock[r]
  PROVE  \A r \in Sched : Untouched(r)
<1> SUFFICES ASSUME NEW r \in Sched PROVE Untouched(r)  OBVIOUS
<1>1. Ending(r)  BY DEF EndInv
<1>2. CASE r # s
  BY <1>1, <1>2 DEF Untouched, Ending
<1>3. CASE r = s /\ life[s] = "alive"
  <2>1. ~Ended(r)  BY <1>1, <1>3 DEF Ended, Ending
  <2> QED  BY <1>3, <2>1 DEF Untouched
<1> QED  BY <1>2, <1>3

\* A client goes on in a scheduler that lives, or waits on.
LEMMA OneFollows ==
  ASSUME EndInv, NEW c \in Client, NEW s \in Sched,
         \A d \in Client \ {c} : pc'[d] = pc[d] /\ home'[d] = home[d],
         pc[c] \notin {"unstarve", "delete"},
         \/ pc'[c] \in {"idle", "exit"}
         \/ home'[c] = s /\ life[s] = "alive" /\ pc'[c] \notin {"unstarve", "destroy", "delete"}
         \/ home'[c] = home[c] /\ pc[c] \notin {"idle", "exit"} /\ pc'[c] \in {"armed", "blocked", "woken"}
         \/ home'[c] = home[c] /\ pc'[c] = pc[c]
  PROVE  \A r \in Sched, d \in Client : Follows(d, r)
<1> SUFFICES ASSUME NEW r \in Sched, NEW d \in Client PROVE Follows(d, r)  OBVIOUS
<1>1. CASE d # c  BY <1>1 DEF Follows, Busy
<1>2. CASE d = c  BY <1>2 DEF Follows, Busy
<1> QED  BY <1>1, <1>2

\* What an allocation changes, whether or not there is a thread.
LEMMA AllocationScope ==
  ASSUME Inv, NEW a \in Actor, NEW s \in Sched, NEW ok, Caller(a, s, ok),
         \/ \E t \in Thread : Joins(a, s, t) /\ Labels(a, s, t, ok)
         \/ \E label \in {"leave", "starve"} : Fails(a, s, label)
  PROVE  /\ \A r \in Sched \ {s} : threads'[r] = threads[r] /\ lock'[r] = lock[r]
         /\ \A c \in Client \ {a} : pc'[c] = pc[c]
         /\ pc'[a] \in {After(a, ok), After(a, "leave"), "starve"}
<1>1. DOMAIN pc = Actor /\ DOMAIN lock = Sched /\ threads \in [Sched -> Record] /\ a \in Actor
  BY DEF Inv, Types
<1>2. ASSUME NEW t \in Thread, Joins(a, s, t), Labels(a, s, t, ok)
      PROVE  /\ \A r \in Sched \ {s} : threads'[r] = threads[r] /\ lock'[r] = lock[r]
             /\ \A c \in Client \ {a} : pc'[c] = pc[c]
             /\ pc'[a] \in {After(a, ok), After(a, "leave"), "starve"}
  BY <1>1, <1>2, ThreadActor DEF Joins, Labels
<1>3. ASSUME NEW label \in {"leave", "starve"}, Fails(a, s, label)
      PROVE  /\ \A r \in Sched \ {s} : threads'[r] = threads[r] /\ lock'[r] = lock[r]
             /\ \A c \in Client \ {a} : pc'[c] = pc[c]
             /\ pc'[a] \in {After(a, ok), After(a, "leave"), "starve"}
  BY <1>1, <1>3, ThreadActor DEF Fails, Goto, Continue, After
<1> QED  BY <1>2, <1>3

\* Scheduling a job, in a scheduler that is not being destroyed.
LEMMA ScheduleEnd ==
  ASSUME Inv, EndInv, NEW c \in Client, NEW s \in Sched, life[s] = "alive", Schedule(c, s)
  PROVE  EndInv'
<1>1. /\ Types /\ DOMAIN pc = Actor /\ c \in Actor /\ c \notin Thread
      /\ home \in [Actor -> Sched \cup {None}]
  BY ThreadActor DEF Inv, Types
<1>2. /\ pc[c] = "idle" /\ lock[s] = None /\ home' = [home EXCEPT ![c] = s]
      /\ UNCHANGED <<life, target>>
  BY DEF Schedule
<1>3. Caller(c, s, "leave")
  BY <1>1, <1>2 DEF Caller
<1>4. /\ \A r \in Sched \ {s} : threads'[r] = threads[r] /\ lock'[r] = lock[r]
      /\ \A d \in Client \ {c} : pc'[d] = pc[d]
      /\ pc'[c] \in {"idle", "starve"}
  <2>1. CASE AllocateThread(c, s, "leave", "leave")
    <3>1. After(c, "leave") = "idle"  BY DEF After
    <3>2. \/ \E t \in Thread : Joins(c, s, t) /\ Labels(c, s, t, "leave")
          \/ \E label \in {"leave", "starve"} : Fails(c, s, label)
      BY <1>1, <2>1, AllocateOutcome
    <3> QED  BY <1>1, <1>3, <3>1, <3>2, AllocationScope
  <2>2. CASE UNCHANGED <<poolVars, threads, lockVars, workVars, pc>>
    BY <1>2, <2>2 DEF lockVars
  <2> QED  BY <2>1, <2>2 DEF Schedule
<1>5. \A d \in Client \ {c} : home'[d] = home[d]
  BY <1>1, <1>2, ThreadActor
<1>6. home'[c] = s
  BY <1>1, <1>2
<1>7. \A r \in Sched : Untouched(r)
  BY <1>2, <1>4, AliveUntouched
<1>8. \A r \in Sched, d \in Client : Follows(d, r)
  BY <1>2, <1>4, <1>5, <1>6, OneFollows
<1> QED  BY <1>2, <1>7, <1>8, AllKept

\* So it is with looking for threads after Resume.
LEMMA ResumeLoopEnd ==
  ASSUME Inv, EndInv, NEW c \in Client, NEW s \in Sched, s = home[c], ResumeLoop(c, s)
  PROVE  EndInv'
<1>1. Types /\ Locks /\ DOMAIN pc = Actor /\ c \in Actor /\ c \notin Thread
  BY ThreadActor DEF Inv, Types
<1>2. pc[c] = "resume" /\ UNCHANGED <<life, home>>  BY DEF ResumeLoop
<1>3. Caller(c, s, "resume")
  BY <1>1 DEF ResumeLoop, Caller, Locks, Types
<1>4. life[s] = "alive"
  <2>1. Ending(s) /\ Busy(c, s)  BY <1>2 DEF EndInv, Busy
  <2> QED  BY <1>2, <2>1 DEF Ending
<1>5. \/ \E t \in Thread : Joins(c, s, t) /\ Labels(c, s, t, "resume")
      \/ \E label \in {"leave", "starve"} : Fails(c, s, label)
  <2>1. CASE AllocateThread(c, s, "resume", "leave")
    BY <1>1, <2>1, AllocateOutcome
  <2>2. CASE Continue(c, s, "leave") /\ Goto(c, "idle") /\ UNCHANGED <<poolVars, threads, workVars>>
    BY <2>2 DEF Fails, After
  <2> QED  BY <2>1, <2>2 DEF ResumeLoop
<1>6. /\ \A r \in Sched \ {s} : threads'[r] = threads[r] /\ lock'[r] = lock[r]
      /\ \A d \in Client \ {c} : pc'[d] = pc[d]
      /\ pc'[c] \in {"idle", "starve", "resume"}
  <2>1. After(c, "leave") = "idle" /\ After(c, "resume") = "resume"  BY DEF After
  <2> QED  BY <1>1, <1>3, <1>5, <2>1, AllocationScope
<1>7. \A r \in Sched : Untouched(r)
  BY <1>2, <1>4, <1>6, AliveUntouched
<1>8. \A r \in Sched, d \in Client : Follows(d, r)
  BY <1>2, <1>4, <1>6, OneFollows
<1> QED  BY <1>2, <1>7, <1>8, AllKept

\* The other methods of a scheduler that lives.
LEMMA AliveEnd ==
  ASSUME Inv, EndInv, NEW c \in Client, NEW s \in Sched, NEW n, life[s] = "alive",
         Stop(c, s) \/ Trim(c, s, n) \/ Resume(c, s) \/ WaitForEmptyQueue(c, s, "idle")
  PROVE  EndInv'
<1>1. /\ DOMAIN pc = Actor /\ DOMAIN home = Actor /\ DOMAIN lock = Sched /\ c \in Actor
      /\ threads \in [Sched -> Record]
  BY ThreadActor DEF Inv, Types
<1>2. life' = life /\ pc[c] = "idle"
  BY DEF Stop, Trim, Resume, WaitForEmptyQueue
<1>3. \A r \in Sched \ {s} : threads'[r] = threads[r] /\ lock'[r] = lock[r]
  BY <1>1 DEF Stop, Trim, Resume, WaitForEmptyQueue, Continue, lockVars
<1>4. /\ \A d \in Client \ {c} : pc'[d] = pc[d] /\ home'[d] = home[d]
      /\ \/ home'[c] = home[c] /\ pc'[c] = pc[c]
         \/ home'[c] = s /\ pc'[c] \in {"idle", "resume", "armed"}
  <2>1. CASE Stop(c, s) \/ Trim(c, s, n)
    BY <2>1 DEF Stop, Trim, ctrlVars
  <2>2. CASE Resume(c, s)
    BY <1>1, <1>2, <2>2, ThreadActor DEF Resume, Goto
  <2>3. CASE WaitForEmptyQueue(c, s, "idle")
    BY <1>1, <2>3, ThreadActor DEF WaitForEmptyQueue, Goto
  <2> QED  BY <2>1, <2>2, <2>3
<1>5. \A r \in Sched : Untouched(r)
  BY <1>2, <1>3, AliveUntouched
<1>6. \A r \in Sched, d \in Client : Follows(d, r)
  <2>1. CASE home'[c] = home[c] /\ pc'[c] = pc[c]
    BY <1>2, <1>4, <2>1, OneFollows
  <2>2. CASE home'[c] = s /\ pc'[c] \in {"idle", "resume", "armed"}
    BY <1>2, <1>4, <2>2, OneFollows
  <2> QED  BY <1>4, <2>1, <2>2
<1> QED  BY <1>2, <1>5, <1>6, AllKept

\* Waiting, and the end of a failed allocation, change no numbers.
LEMMA WaitEnd ==
  ASSUME Inv, EndInv, NEW c \in Client,
         \/ Timeout(c) \/ Exit(c)
         \/ home[c] \in Sched /\ BeginWait(c, home[c])
         \/ home[c] \in Sched /\ Starve(c, home[c])
  PROVE  EndInv'
<1>1. /\ DOMAIN pc = Actor /\ DOMAIN home = Actor /\ DOMAIN lock = Sched /\ c \in Actor
      /\ threads \in [Sched -> Record] /\ pool \subseteq Thread /\ c \notin Thread
  BY ThreadActor DEF Inv, Types
<1>2. life' = life /\ threads' = threads /\ home' = home /\ pc[c] \notin {"unstarve", "delete"}
  BY DEF Timeout, Exit, BeginWait, Starve, schedVars
<1>3. \A r \in Sched : Untouched(r)
  <2> SUFFICES ASSUME NEW r \in Sched PROVE Untouched(r)  OBVIOUS
  <2>1. Ending(r)  BY DEF EndInv
  <2>2. lock'[r] = lock[r] \/ lock'[r] = None
    BY <1>1 DEF Timeout, Exit, BeginWait, Starve, Continue, lockVars
  <2> QED  BY <1>2, <2>1, <2>2 DEF Untouched, Ending
<1>4. /\ \A d \in Client \ {c} : pc'[d] = pc[d] /\ home'[d] = home[d]
      /\ \/ pc'[c] \in {"idle", "exit"}
         \/ home'[c] = home[c] /\ pc'[c] = pc[c]
         \/ home'[c] = home[c] /\ pc[c] = "armed" /\ pc'[c] \in {"blocked", "woken"}
  <2>1. CASE Timeout(c)
    BY <1>1, <1>2, <2>1, ThreadActor DEF Timeout, Goto
  <2>2. CASE Exit(c)
    BY <1>1, <1>2, <2>2, ThreadActor DEF Exit, Goto
  <2>3. CASE BeginWait(c, home[c])
    BY <1>1, <1>2, <2>3, ThreadActor DEF BeginWait, Goto
  <2>4. CASE Starve(c, home[c])
    BY <1>1, <1>2, <2>4, ThreadActor DEF Starve, Goto, After
  <2> QED  BY <2>1, <2>2, <2>3, <2>4
<1>5. ASSUME NEW r \in Sched, NEW d \in Client PROVE Follows(d, r)
  BY <1>2, <1>4, OneFollows
<1> QED  BY <1>2, <1>3, <1>5, AllKept

\* The steps of the destructor itself.
LEMMA OneEnds ==
  ASSUME EndInv, NEW s \in Sched, life' \in [Sched -> {"alive", "dying", "gone"}], Ending(s)',
         \A r \in Sched \ {s} : Untouched(r) /\ \A c \in Client : Follows(c, r)
  PROVE  EndInv'
<1>1. ASSUME NEW r \in Sched \ {s} PROVE Ending(r)'
  <2>1. Ending(r)  BY DEF EndInv
  <2> QED  BY <2>1, EndingKept
<1> QED  BY <1>1 DEF EndInv

\* Elsewhere such a step changes nothing.
LEMMA ElsewhereKept ==
  ASSUME EndInv, NEW s \in Sched, NEW c \in Client, NEW r \in Sched \ {s},
         life'[r] = life[r], threads'[r] = threads[r], lock'[r] = lock[r],
         home[c] = s \/ pc[c] \in {"idle", "exit"}, home'[c] = s,
         \A d \in Client \ {c} : pc'[d] = pc[d] /\ home'[d] = home[d]
  PROVE  Untouched(r) /\ \A d \in Client : Follows(d, r)
<1>1. Ending(r)  BY DEF EndInv
<1>2. Untouched(r)  BY <1>1 DEF Untouched, Ending
<1>3. ASSUME NEW d \in Client PROVE Follows(d, r)
  <2>1. CASE d = c  BY <2>1 DEF Follows, Busy
  <2>2. CASE d # c  BY <2>2 DEF Follows, Busy
  <2> QED  BY <2>1, <2>2
<1> QED  BY <1>2, <1>3

\* The destructor comes when nobody else is in a method.
LEMMA DestroyEnd ==
  ASSUME Inv, EndInv, NEW c \in Client, NEW s \in Sched, life[s] = "alive", Destroy(c, s)
  PROVE  EndInv'
<1>1. /\ DOMAIN pc = Actor /\ DOMAIN home = Actor /\ c \in Actor /\ life \in [Sched -> {"alive", "dying", "gone"}]
  BY ThreadActor DEF Inv, Types, EndInv
<1>2. /\ threads' = threads /\ lock' = lock /\ threads[s].stopCount = 0 /\ pc[c] = "idle"
      /\ life'[s] = "dying" /\ \A r \in Sched \ {s} : life'[r] = life[r]
      /\ life' \in [Sched -> {"alive", "dying", "gone"}]
      /\ pc'[c] = "unstarve" /\ home'[c] = s
      /\ \A d \in Client \ {c} : pc'[d] = pc[d] /\ home'[d] = home[d]
      /\ \A d \in Client : home[d] = s => pc[d] \in {"idle", "exit"}
  BY <1>1, ThreadActor DEF Destroy, Goto, lockVars
<1>3. \A d \in Client : Busy(d, s)' => d = c
  BY <1>2 DEF Busy
<1>4. Busy(c, s)'  BY <1>2 DEF Busy
<1>5. ~Ended(s)'  BY <1>2, <1>3 DEF Ended
<1>6. Ending(s)'
  <2> HIDE DEF Busy, Ended
  <2> QED  BY <1>2, <1>3, <1>4, <1>5 DEF Ending
<1>7. \A r \in Sched \ {s} : Untouched(r) /\ \A d \in Client : Follows(d, r)
  BY <1>2, ElsewhereKept
<1> QED  BY <1>2, <1>6, <1>7, OneEnds

\* Having been taken out of the list, the scheduler is hungry no more.
LEMMA EndStarvationEnd ==
  ASSUME Inv, EndInv, NEW c \in Client, NEW s \in Sched, s = home[c], EndStarvation(c, s)
  PROVE  EndInv'
<1>1. /\ DOMAIN pc = Actor /\ c \in Actor /\ life \in [Sched -> {"alive", "dying", "gone"}] /\ Ending(s)
      /\ threads \in [Sched -> Record]
  BY ThreadActor DEF Inv, Types, EndInv
<1>2. /\ lock' = lock /\ pc[c] = "unstarve" /\ life' = life /\ home' = home
      /\ threads'[s].stopCount = threads[s].stopCount /\ ~threads'[s].starved
      /\ \A r \in Sched \ {s} : threads'[r] = threads[r]
      /\ pc'[c] = "destroy"
      /\ \A d \in Client \ {c} : pc'[d] = pc[d]
  BY <1>1, ThreadActor DEF EndStarvation, Goto, lockVars, Record
<1>3. Busy(c, s)  BY <1>2 DEF Busy
<1>4. life[s] = "dying" /\ threads[s].stopCount = 0 /\ \A d \in Client : Busy(d, s) => d = c
  <2>1. life[s] # "alive" /\ life[s] # "gone"  BY <1>1, <1>2, <1>3 DEF Ending
  <2> HIDE DEF Busy
  <2> QED  BY <1>1, <1>3, <2>1 DEF Ending
<1>5. \A d \in Client : Busy(d, s)' => d = c
  BY <1>2, <1>4 DEF Busy
<1>6. ~Ended(s)'  BY <1>2, <1>4, <1>5 DEF Ended
<1>7. Ending(s)'
  <2> HIDE DEF Busy, Ended
  <2> QED  BY <1>2, <1>4, <1>5, <1>6 DEF Ending
<1>8. \A r \in Sched \ {s} : Untouched(r) /\ \A d \in Client : Follows(d, r)
  BY <1>2, ElsewhereKept
<1> QED  BY <1>1, <1>2, <1>7, <1>8, OneEnds

\* In the destructor or not, the wait goes on until nobody runs.
LEMMA WaitForEmptyQueueEnd ==
  ASSUME Inv, EndInv, NEW c \in Client, NEW s \in Sched, s = home[c],
         NEW from \in {"woken", "destroy"}, WaitForEmptyQueue(c, s, from)
  PROVE  EndInv'
<1>1. /\ DOMAIN pc = Actor /\ home \in [Actor -> Sched \cup {None}] /\ c \in Actor /\ Ending(s)
      /\ life \in [Sched -> {"alive", "dying", "gone"}]
  BY ThreadActor DEF Inv, Types, EndInv
<1>2. /\ threads' = threads /\ lock' = lock /\ life' = life /\ home' = home
      /\ pc[c] = from /\ lock[s] = None
      /\ \A d \in Client \ {c} : pc'[d] = pc[d]
      /\ \/ pc'[c] = "armed"
         \/ pc'[c] = "idle"
         \/ threads[s].runningCount = 0 /\ life[s] = "dying" /\ pc'[c] = "delete"
  <2>1. threads' = threads /\ lock' = lock /\ life' = life /\ pc[c] = from /\ lock[s] = None
    BY DEF WaitForEmptyQueue, lockVars
  <2>2. home' = home
    BY <1>1 DEF WaitForEmptyQueue
  <2>3. \/ Goto(c, "armed") \/ Goto(c, "idle")
        \/ threads[s].runningCount = 0 /\ life[s] = "dying" /\ Goto(c, "delete")
    BY DEF WaitForEmptyQueue
  <2> QED  BY <1>1, <2>1, <2>2, <2>3, ThreadActor DEF Goto
<1>3. Busy(c, s)  BY <1>2 DEF Busy
<1>4. CASE pc'[c] \in {"armed", "idle"}
  <2>1. \A r \in Sched \ {s} : Untouched(r) /\ \A d \in Client : Follows(d, r)
    BY <1>2, ElsewhereKept
  <2>2. Untouched(s)
    BY <1>1, <1>2 DEF Untouched, Ending
  <2>3. \A r \in Sched, d \in Client : Follows(d, r)
    BY <1>2, <1>4, OneFollows
  <2> QED  BY <1>2, <2>1, <2>2, <2>3, AllKept
<1>5. CASE threads[s].runningCount = 0 /\ life[s] = "dying" /\ pc'[c] = "delete"
  <2>1. threads[s].stopCount = 0 /\ \A d \in Client : Busy(d, s) => d = c
    <3> HIDE DEF Busy
    <3> QED  BY <1>1, <1>3, <1>5 DEF Ending
  <2>2. \A d \in Client : Busy(d, s)' => d = c
    BY <1>2, <2>1 DEF Busy
  <2>3. ~threads[s].starved
    <3>1. \A d \in Client : Busy(d, s) => pc[d] # "unstarve"
      BY <1>2, <2>1
    <3> HIDE DEF Busy
    <3> QED  BY <1>1, <1>5, <3>1 DEF Ending
  <2>4. Ending(s)'
    <3> HIDE DEF Busy, Ended
    <3> QED  BY <1>2, <1>5, <2>1, <2>2, <2>3 DEF Ending
  <2>5. \A r \in Sched \ {s} : Untouched(r) /\ \A d \in Client : Follows(d, r)
    BY <1>2, ElsewhereKept
  <2> QED  BY <1>1, <1>2, <2>4, <2>5, OneEnds
<1> QED  BY <1>2, <1>4, <1>5

\* Without running threads the destructor gets to its end.
LEMMA DeleteEnd ==
  ASSUME Inv, EndInv, NEW c \in Client, NEW s \in Sched, s = home[c], DeleteThreads(c, s)
  PROVE  EndInv'
<1>1. /\ c \in Actor /\ life \in [Sched -> {"alive", "dying", "gone"}] /\ Ending(s)
      /\ threads \in [Sched -> Record] /\ threads[s].suspended \subseteq Thread
  BY ThreadActor DEF Inv, Types, EndInv, Record
<1>2. /\ lock' = lock /\ pc[c] = "delete" /\ home' = home
      /\ life'[s] = "gone" /\ \A r \in Sched \ {s} : life'[r] = life[r]
      /\ life' \in [Sched -> {"alive", "dying", "gone"}]
      /\ threads'[s].stopCount = threads[s].stopCount /\ threads'[s].starved = threads[s].starved
      /\ threads'[s].runningCount = threads[s].runningCount
      /\ \A r \in Sched \ {s} : threads'[r] = threads[r]
      /\ pc'[c] = "idle"
      /\ \A d \in Client \ {c} : pc'[d] = pc[d]
  BY <1>1, ThreadActor DEF DeleteThreads, lockVars, Record
<1>3. Busy(c, s)  BY <1>2 DEF Busy
<1>4. Ended(s) /\ life[s] # "alive"
  BY <1>1, <1>2, <1>3 DEF Ended, Ending
<1>5. \A d \in Client : Busy(d, s) => d = c
  <2> HIDE DEF Busy
  <2> QED  BY <1>1, <1>3, <1>4 DEF Ending
<1>6. \A d \in Client : ~Busy(d, s)'
  BY <1>2, <1>5 DEF Busy
<1>7. \A d \in Client : Busy(d, s) => pc[d] # "unstarve"
  BY <1>2, <1>5
<1>8. Ending(s)'
  <2> HIDE DEF Busy, Ended
  <2> QED  BY <1>1, <1>2, <1>4, <1>6, <1>7 DEF Ending
<1>9. \A r \in Sched \ {s} : Untouched(r) /\ \A d \in Client : Follows(d, r)
  BY <1>2, ElsewhereKept
<1> QED  BY <1>2, <1>8, <1>9, OneEnds

\* When the last thread has returned, the scheduler starves no more.
LEMMA EndedStill ==
  ASSUME EndInv, NEW s \in Sched, Ended(s)
  PROVE  ~threads[s].starved /\ threads[s].runningCount = 0 /\ lock[s] = None
<1>1. Ending(s)  BY DEF EndInv
<1>2. life[s] # "alive"
  BY <1>1 DEF Ended, Ending
<1>3. \A c \in Client : Busy(c, s) => pc[c] # "unstarve"
  <2>1. CASE life[s] = "gone"
    <3> HIDE DEF Busy
    <3> QED  BY <1>1, <2>1 DEF Ending
  <2>2. ASSUME NEW c \in Client, Busy(c, s), pc[c] = "delete"
        PROVE  \A d \in Client : Busy(d, s) => pc[d] # "unstarve"
    <3>1. \A d \in Client : Busy(d, s) => d = c
      <4> HIDE DEF Busy
      <4> QED  BY <1>1, <1>2, <2>2 DEF Ending
    <3> QED  BY <2>2, <3>1
  <2> QED  BY <2>1, <2>2 DEF Ended
<1> HIDE DEF Busy, Ended
<1> QED  BY <1>1, <1>2, <1>3 DEF Ending

\* Threads wake clients, and otherwise leave them where they are.
LEMMA ThreadsFollow ==
  ASSUME NEW t \in Thread,
         \A c \in Client : /\ home'[c] = home[c]
                           /\ pc'[c] = pc[c] \/ (pc[c] = "blocked" /\ pc'[c] = "woken")
  PROVE  \A r \in Sched, c \in Client : Follows(c, r)
BY DEF Follows, Busy

\* Threads that change no number and take no mutex.
LEMMA QuietEnd ==
  ASSUME Inv, EndInv, NEW t \in Thread,
         \/ \E s \in Sched : TakeJob(t, s) \/ StopStarvation(t, s) \/ Starve(t, s)
         \/ Wake(t) \/ ExecuteJob(t) \/ Select(t) \/ Release(t)
  PROVE  EndInv'
<1>1. /\ DOMAIN pc = Actor /\ DOMAIN lock = Sched /\ threads \in [Sched -> Record]
      /\ t \in Actor /\ t \notin Client
  BY ThreadActor DEF Inv, Types
<1>2. life' = life /\ home' = home
  BY DEF TakeJob, StopStarvation, Starve, Wake, ExecuteJob, Select, Release, schedVars
<1>3. \A r \in Sched : lock'[r] \in {lock[r], None}
  BY <1>1 DEF TakeJob, StopStarvation, Starve, Wake, ExecuteJob, Select, Release, Continue, lockVars
<1>4. \A r \in Sched : /\ threads'[r].stopCount = threads[r].stopCount
                       /\ threads'[r].runningCount = threads[r].runningCount
                       /\ threads'[r].starved => threads[r].starved
  <2>1. CASE threads' = threads  BY <2>1
  <2>2. ASSUME NEW s \in Sched, threads' = [threads EXCEPT ![s].starved = FALSE]
        PROVE  \A r \in Sched : /\ threads'[r].stopCount = threads[r].stopCount
                                /\ threads'[r].runningCount = threads[r].runningCount
                                /\ threads'[r].starved => threads[r].starved
    BY <1>1, <2>2 DEF Record
  <2> QED  BY <2>1, <2>2
           DEF TakeJob, StopStarvation, Starve, Wake, ExecuteJob, Select, Release, schedVars
<1>5. \A c \in Client : pc'[c] = pc[c]
  BY <1>1, ThreadActor
  DEF TakeJob, StopStarvation, Starve, Wake, ExecuteJob, Select, Release, Goto
<1>6. \A r \in Sched : Untouched(r)
  BY <1>2, <1>3, <1>4, EndedStill DEF Untouched
<1>7. \A r \in Sched, c \in Client : Follows(c, r)
  BY <1>2, <1>5, ThreadsFollow
<1> QED  BY <1>2, <1>6, <1>7, AllKept

\* The steps of a thread in a scheduler that it keeps from ending.
LEMMA HeldEnd ==
  ASSUME Inv, EndInv, NEW t \in Thread, NEW s \in Sched, ~Ended(s), life' = life,
         threads'[s].stopCount = threads[s].stopCount,
         life[s] = "alive" \/ (threads'[s].starved => threads[s].starved),
         \A r \in Sched \ {s} : threads'[r] = threads[r] /\ lock'[r] = lock[r],
         \A c \in Client : /\ home'[c] = home[c]
                           /\ pc'[c] = pc[c] \/ (pc[c] = "blocked" /\ pc'[c] = "woken")
  PROVE  EndInv'
<1>1. life[s] = "alive" \/ Untouched(s)
  BY DEF Untouched
<1>2. \A r \in Sched : Untouched(r)
  BY <1>1, AliveUntouched
<1>3. \A r \in Sched, c \in Client : Follows(c, r)
  BY ThreadsFollow
<1> QED  BY <1>2, <1>3, AllKept

\* Who is told of a thread is hungry, and so has not passed StopStarvation.
LEMMA NotifyEnd ==
  ASSUME Inv, ListInv, EndInv, NEW t \in Thread, NEW s \in Sched, s = target[t], Notify(t, s)
  PROVE  EndInv'
<1>1. /\ DOMAIN pc = Actor /\ DOMAIN lock = Sched /\ threads \in [Sched -> Record]
      /\ t \in Actor /\ t \notin Client
  BY ThreadActor DEF Inv, Types
<1>2. ~Ended(s)
  <2>1. Told(s) # {}  BY DEF Told, Notify
  <2>2. Hungry(s)  BY DEF ListInv
  <2>3. threads[s].starved
    <3> HIDE DEF Told, Asking, Listed
    <3> QED  BY <2>1, <2>2 DEF Hungry
  <2> QED  BY <2>3, EndedStill
<1>3. /\ life' = life /\ home' = home /\ ~threads'[s].starved
      /\ threads'[s].stopCount = threads[s].stopCount
      /\ \A r \in Sched \ {s} : threads'[r] = threads[r] /\ lock'[r] = lock[r]
  BY <1>1 DEF Notify, Continue, Record
<1>4. \A c \in Client : pc'[c] = pc[c]
  BY <1>1, ThreadActor DEF Notify, Goto
<1> QED  BY <1>2, <1>3, <1>4, HeldEnd

\* It does not get hungry by being told.
LEMMA AvailableEnd ==
  ASSUME Inv, EndInv, NEW t \in Thread, NEW s \in Sched, s = target[t], ThreadAvailable(t, s)
  PROVE  EndInv'
<1>1. /\ Types /\ Locks /\ DOMAIN pc = Actor /\ DOMAIN lock = Sched /\ threads \in [Sched -> Record]
      /\ t \in Actor /\ t \notin Client
  BY ThreadActor DEF Inv, Types
<1>2. pc[t] = "available" /\ lock[s] = t /\ life' = life /\ home' = home /\ t # None
  BY <1>1, SchedulerAssumption DEF ThreadAvailable, Locks, SchedulerAssumption
<1>3. ~Ended(s)  BY <1>2, EndedStill
<1>4. Caller(t, s, "available")
  BY <1>1 DEF ThreadAvailable, Caller, Locks, Types
<1>5. CASE /\ threads[s].stopCount # 0 /\ threads[s].fromShared < sharedThreads[s]
           /\ AllocateSharedThread(t, s, "available", "leave")
  <2>1. life[s] = "alive"
    BY <1>5 DEF EndInv, Ending
  <2>2. \/ \E u \in Thread : Joins(t, s, u) /\ Labels(t, s, u, "available")
        \/ \E label \in {"leave", "starve"} : Fails(t, s, label)
    BY <1>1, <1>5, SharedOutcome
  <2>3. /\ \A r \in Sched \ {s} : threads'[r] = threads[r] /\ lock'[r] = lock[r]
        /\ \A c \in Client : pc'[c] = pc[c]
    BY <1>1, <1>4, <2>2, AllocationScope
  <2>4. threads'[s].stopCount = threads[s].stopCount
    BY <1>1, <2>2 DEF Joins, Source, Fails, Record
  <2> QED  BY <1>2, <1>3, <2>1, <2>3, <2>4, HeldEnd
<1>6. CASE Continue(t, s, "leave") /\ Goto(t, "select") /\ UNCHANGED <<poolVars, threads, workVars>>
  <2>1. /\ \A r \in Sched \ {s} : lock'[r] = lock[r]
        /\ \A c \in Client : pc'[c] = pc[c]
    BY <1>1, <1>6, ThreadActor DEF Continue, Goto
  <2> QED  BY <1>2, <1>3, <1>6, <2>1, HeldEnd
<1> QED  BY <1>5, <1>6 DEF ThreadAvailable

\* A thread that retires wakes who waits.
LEMMA RetireWakes ==
  ASSUME Types, NEW t \in Thread, NEW s \in Sched, NEW th, NEW label, Retire(t, s, th, label)
  PROVE  \A c \in Client : pc'[c] = pc[c] \/ (pc[c] = "blocked" /\ pc'[c] = "woken")
<1>1. DOMAIN pc = Actor /\ t \in Actor /\ t \notin Client  BY ThreadActor DEF Types
<1> QED  BY <1>1, ThreadActor DEF Retire, Goto

\* The last thread leaves.
LEMMA SettleEnd ==
  ASSUME Inv, EndInv, NEW t \in Thread, NEW s \in Sched, s = home[t], Settle(t, s)
  PROVE  EndInv'
<1>1. /\ Types /\ Locks /\ DOMAIN lock = Sched /\ threads \in [Sched -> Record] /\ t # None
  BY SchedulerAssumption DEF Inv, Types, SchedulerAssumption
<1>2. lock[s] = t  BY <1>1 DEF Settle, Locks, Back
<1>3. ~Ended(s)  BY <1>1, <1>2, EndedStill
<1>4. /\ threads' = [threads EXCEPT ![s] = [threads[s] EXCEPT
           !.fromShared = @ - 1, !.unusedCount = @ + 1, !.runningCount = @ - 1]]
      /\ life' = life /\ home' = home /\ lock' = [lock EXCEPT ![s] = None]
  BY DEF Settle, Retire
<1>5. /\ threads'[s].stopCount = threads[s].stopCount /\ threads'[s].starved = threads[s].starved
      /\ \A r \in Sched \ {s} : threads'[r] = threads[r] /\ lock'[r] = lock[r]
  BY <1>1, <1>4 DEF Record
<1>6. \A c \in Client : pc'[c] = pc[c] \/ (pc[c] = "blocked" /\ pc'[c] = "woken")
  BY <1>1, RetireWakes DEF Settle
<1> QED  BY <1>3, <1>4, <1>5, <1>6, HeldEnd

\* Putting a thread aside: it was running, so that the destructor still waits.
LEMMA PutAsideEnd ==
  ASSUME Inv, EndInv, NEW t \in Thread, NEW s \in Sched, s = owner[t], PutAside(t, s)
  PROVE  EndInv'
<1> DEFINE th == [threads[s] EXCEPT !.running = @ \ {t}]
<1>1. /\ Types /\ threads \in [Sched -> Record] /\ threads[s] \in Record
      /\ DOMAIN lock = Sched /\ DOMAIN pc = Actor
      /\ home \in [Actor -> Sched \cup {None}] /\ t \in Actor /\ t \notin Client /\ Placed(t)
      /\ Counts1(s)
  BY ThreadActor DEF Inv, Types
<1>2. ~Ended(s)
  <2>1. t \in threads[s].running
    BY <1>1 DEF PutAside, Placed, Works
  <2>2. Cardinality(threads[s].running) # 0 /\ Cardinality(threads[s].running) \in Nat
    <3>1. IsFiniteSet(threads[s].running)
      BY <1>1, PoolAssumption, FS_Subset DEF Record, PoolAssumption
    <3> QED  BY <2>1, <3>1, FS_EmptySet, FS_CardinalityType
  <2>3. Cardinality(Leaving(s)) \in Nat
    <3>1. Leaving(s) \subseteq Thread  BY DEF Leaving
    <3> QED  BY <3>1, PoolAssumption, FS_Subset, FS_CardinalityType DEF PoolAssumption
  <2>4. threads[s].runningCount # 0
    BY <1>1, <2>2, <2>3 DEF Counts1
  <2> QED  BY <2>4, EndedStill
<1>3. life' = life  BY DEF PutAside
<1>4. CASE /\ threads' = [threads EXCEPT ![s] = th] /\ lock' = [lock EXCEPT ![s] = t]
           /\ Goto(t, "unstarve") /\ home' = [home EXCEPT ![t] = s]
  <2>1. /\ threads'[s].stopCount = threads[s].stopCount /\ threads'[s].starved = threads[s].starved
        /\ \A r \in Sched \ {s} : threads'[r] = threads[r] /\ lock'[r] = lock[r]
    BY <1>1, <1>4 DEF Record
  <2>2. \A c \in Client : pc'[c] = pc[c] /\ home'[c] = home[c]
    BY <1>1, <1>4, ThreadActor DEF Goto
  <2> QED  BY <1>2, <1>3, <2>1, <2>2, HeldEnd
<1>5. ASSUME NEW th2, NEW label, Retire(t, s, th2, label), UNCHANGED <<lock, home>>,
             \/ th2 = [th EXCEPT !.yetToCreate = @ + 1]
             \/ th2 = [th EXCEPT !.suspended = @ \cup {t}, !.suspendedCount = @ + 1]
      PROVE  EndInv'
  <2>1. threads' = [threads EXCEPT ![s] = [th2 EXCEPT !.unusedCount = @ + 1, !.runningCount = @ - 1]]
    BY <1>5 DEF Retire
  <2>2. /\ th2.stopCount = threads[s].stopCount /\ th2.starved = threads[s].starved
        /\ DOMAIN th2 = DOMAIN threads[s]
    BY <1>1, <1>5 DEF Record
  <2>3. /\ \A r \in Sched \ {s} : threads'[r] = threads[r]
        /\ threads'[s] = [th2 EXCEPT !.unusedCount = @ + 1, !.runningCount = @ - 1]
    BY <1>1, <2>1
  <2>4. threads'[s].stopCount = threads[s].stopCount /\ threads'[s].starved = threads[s].starved
    BY <1>1, <2>2, <2>3 DEF Record
  <2>5. \A c \in Client : pc'[c] = pc[c] \/ (pc[c] = "blocked" /\ pc'[c] = "woken")
    BY <1>1, <1>5, RetireWakes
  <2> QED  BY <1>2, <1>3, <1>5, <2>3, <2>4, <2>5, HeldEnd
<1> QED  BY <1>4, <1>5 DEF PutAside

\* Every scheduler is alive in the beginning.
LEMMA InitEnd == Init => EndInv
<1> SUFFICES ASSUME Init PROVE EndInv  OBVIOUS
<1>1. ASSUME NEW s \in Sched PROVE Ending(s)
  <2>1. \A c \in Client : ~Busy(c, s)
    BY SchedulerAssumption, ThreadActor DEF Init, Busy, SchedulerAssumption
  <2>2. ~Ended(s)  BY <2>1 DEF Init, Ended
  <2> HIDE DEF Busy, Ended
  <2> QED  BY <2>1, <2>2 DEF Init, Ending
<1> QED  BY <1>1 DEF Init, EndInv

\* All steps of a client keep the invariant, ...
LEMMA ClientEnd ==
  ASSUME Inv, EndInv, NEW c \in Client, ClientStep(c)
  PROVE  EndInv'
<1>1. home[c] \in Sched \cup {None} /\ c \in Actor
  BY ThreadActor DEF Inv, Types
<1>2. ASSUME NEW s \in Sched, life[s] = "alive",
             \/ Schedule(c, s) \/ Stop(c, s) \/ Resume(c, s)
             \/ WaitForEmptyQueue(c, s, "idle") \/ Destroy(c, s)
             \/ \E watermark \in 0..MaxJobs : Trim(c, s, watermark)
      PROVE  EndInv'
  <2>1. ASSUME NEW n, Trim(c, s, n) PROVE EndInv'
    BY <1>2, <2>1, AliveEnd
  <2>2. CASE Stop(c, s) \/ Resume(c, s) \/ WaitForEmptyQueue(c, s, "idle")
    BY <1>2, <2>2, AliveEnd
  <2> QED  BY <1>2, <2>1, <2>2, ScheduleEnd, DestroyEnd
<1>3. ASSUME NEW s \in Sched, s = home[c],
             \/ ResumeLoop(c, s) \/ Starve(c, s)
             \/ BeginWait(c, s) \/ WaitForEmptyQueue(c, s, "woken")
             \/ EndStarvation(c, s) \/ WaitForEmptyQueue(c, s, "destroy") \/ DeleteThreads(c, s)
      PROVE  EndInv'
  BY <1>3, ResumeLoopEnd, WaitEnd, WaitForEmptyQueueEnd, EndStarvationEnd, DeleteEnd
<1>4. CASE Timeout(c) \/ Exit(c)
  BY <1>4, WaitEnd
<1> QED  BY <1>1, <1>2, <1>3, <1>4 DEF ClientStep

\* ... and all steps of a thread.
LEMMA ThreadEnd ==
  ASSUME Inv, ListInv, EndInv, NEW t \in Thread, ThreadStep(t)
  PROVE  EndInv'
<1>1. /\ home[t] \in Sched \cup {None} /\ owner[t] \in Sched \cup {None}
      /\ target[t] \in Sched \cup {None} /\ t \in Actor
  BY ThreadActor DEF Inv, Types
<1>2. CASE Wake(t) \/ ExecuteJob(t) \/ Release(t) \/ Select(t)
  BY <1>2, QuietEnd
<1>3. CASE \E s \in {owner[t]} \ {None} : TakeJob(t, s) \/ PutAside(t, s)
  BY <1>1, <1>3, QuietEnd, PutAsideEnd
<1>4. CASE \E s \in {home[t]} \ {None} : StopStarvation(t, s) \/ Settle(t, s)
  BY <1>1, <1>4, QuietEnd, SettleEnd
<1>5. CASE \E s \in {target[t]} \ {None} :
             Notify(t, s) \/ ThreadAvailable(t, s) \/ Starve(t, s)
  BY <1>1, <1>5, QuietEnd, NotifyEnd, AvailableEnd
<1> QED  BY <1>2, <1>3, <1>4, <1>5 DEF ThreadStep

\* Every step keeps the invariant.
LEMMA NextEnd == Inv /\ ListInv /\ EndInv /\ [Next]_vars => EndInv'
<1> SUFFICES ASSUME Inv, ListInv, EndInv, [Next]_vars PROVE EndInv'  OBVIOUS
<1>1. CASE UNCHANGED vars
  <2>1. UNCHANGED <<life, threads, lock, pc, home>>
    BY <1>1 DEF vars, schedVars, lockVars, ctrlVars
  <2>2. \A s \in Sched : Untouched(s)
    BY <2>1, EndedStill DEF Untouched
  <2>3. \A s \in Sched, c \in Client : Follows(c, s)
    BY <2>1 DEF Follows, Busy
  <2> QED  BY <2>1, <2>2, <2>3, AllKept
<1> QED  BY <1>1, ClientEnd, ThreadEnd DEF Next

\* Who is in one of a scheduler's methods, or will be, is counted, has its mutex or
\* has been told that it starves.
LEMMA NobodyEnters ==
  ASSUME Inv, ListInv, NEW s \in Sched, ~threads[s].starved, threads[s].runningCount = 0,
         lock[s] = None
  PROVE  ~IsStarving(s) /\ threads[s].running = {} /\ \A t \in Thread : ~Enters(t, s)
<1>1. /\ Types /\ Locks /\ Counts1(s) /\ threads[s].running \subseteq Thread /\ None \notin Thread
  BY SchedulerAssumption DEF Inv, Types, Record, SchedulerAssumption
<1>2. threads[s].running = {} /\ Leaving(s) = {}
  <2>1. IsFiniteSet(threads[s].running) /\ IsFiniteSet(Leaving(s))
    BY <1>1, PoolAssumption, FS_Subset DEF PoolAssumption, Leaving
  <2>2. Cardinality(threads[s].running) = 0 /\ Cardinality(Leaving(s)) = 0
    BY <1>1, <2>1, FS_CardinalityType DEF Counts1
  <2> HIDE DEF Leaving
  <2> QED  BY <2>1, <2>2, FS_EmptySet
<1>3. s \notin Listed(starving) /\ Told(s) = {}
  <2>1. Hungry(s)  BY DEF ListInv
  <2> HIDE DEF Told, Asking, Listed
  <2> QED  BY <2>1 DEF Hungry
<1>4. ~IsStarving(s)
  <2>1. DOMAIN starving = 1..Len(starving)  BY DEF ListInv
  <2> QED  BY <1>3, <2>1 DEF IsStarving, Listed
<1>5. ASSUME NEW t \in Thread, Enters(t, s) PROVE FALSE
  <2>1. CASE owner[t] = s /\ (pc[t] \in {"assign", "execute"} \/ (pc[t] = "parked" /\ ~suspended[t]))
    <3>1. Placed(t)  BY DEF Inv
    <3> QED  BY <1>2, <2>1, <3>1 DEF Placed, Works
  <2>2. CASE home[t] = s /\ (pc[t] \in {"unstarve", "release"} \/ t \in Returning)
    BY <1>2, <2>2 DEF Leaving, Returning, Back, Out
  <2>3. CASE target[t] = s /\ pc[t] \in {"notify", "available", "starve"}
    <3>1. pc[t] # "notify"  BY <1>3, <2>3 DEF Told
    <3>2. lock[s] = t  BY <1>1, <2>3, <3>1 DEF Locks
    <3> QED  BY <1>1, <3>2
  <2> QED  BY <1>5, <2>1, <2>2, <2>3 DEF Enters
<1> QED  BY <1>2, <1>4, <1>5

\* ~CJobScheduler: for any schedulers, threads and clients, a scheduler that has been
\* destroyed is not entered again, neither by a thread that worked for it nor by
\* one that returned to the pool and notifies starving schedulers.
THEOREM NobodyEntersAtEnd == Spec => []NobodyAtEnd
<1>1. Inv /\ WorkInv /\ ListInv /\ EndInv => NobodyAtEnd
  <2> SUFFICES ASSUME Inv, WorkInv, ListInv, EndInv, NEW s \in Sched, life[s] = "gone"
               PROVE  /\ ~IsStarving(s) /\ \A t \in Thread : ~Enters(t, s)
                      /\ threads[s].running = {} /\ threads[s].fromShared = 0
    BY DEF NobodyAtEnd
  <2>1. ~threads[s].starved /\ threads[s].runningCount = 0 /\ lock[s] = None
    BY EndedStill DEF Ended
  <2>2. threads[s].fromShared = 0
    BY <2>1 DEF WorkInv, Account
  <2>3. ~IsStarving(s) /\ threads[s].running = {} /\ \A t \in Thread : ~Enters(t, s)
    BY <2>1, NobodyEnters
  <2> QED  BY <2>2, <2>3
<1> QED
  BY <1>1, InitInv, NextInv, InitWork, NextWork, InitList, NextList, InitEnd, NextEnd, PTL DEF Spec

-----------------------------------------------------------------------------
(* CThreadPool by itself, with schedulers that borrow and return threads as
   they like and any sequence of limits: its books are right, and if the limit
   is set once, the threads stay within it. *)

\* The numbers, what they count, and the limit on idle threads.  Each part
\* needs the others: Release is safe because a thread that is returned has
\* been counted, and its test is right because the counts are.
Books == ThreadsTyped /\ LentCounted /\ PoolFits

\* The sets of threads are finite and the two cardinalities are numbers.
LEMMA Finite ==
  ASSUME ThreadsTyped
  PROVE  /\ IsFiniteSet(pool) /\ IsFiniteSet(lent)
         /\ Size \in Nat /\ Cardinality(lent) \in Nat
         /\ Size = 0 <=> pool = {}
<1>1. IsFiniteSet(pool) /\ IsFiniteSet(lent)
  BY FS_Subset, PoolAssumption DEF ThreadsTyped, PoolAssumption
<1>2. Size \in Nat /\ Cardinality(lent) \in Nat
  BY <1>1, FS_CardinalityType DEF Size
<1> QED  BY <1>1, <1>2, FS_EmptySet DEF Size

\* What TryAlloc does to the two sets: the thread was not handed out before.
LEMMA AllocSets ==
  ASSUME Books, NEW t \in Thread, TryAlloc(t, Unused)
  PROVE  /\ ThreadsTyped' /\ LentCounted'
         /\ \/ /\ pool = {} /\ Size' = 0 /\ yetToCreate > 0
               /\ yetToCreate' = yetToCreate - 1
            \/ /\ pool # {} /\ Size' = Size - 1
               /\ yetToCreate' = yetToCreate
<1>1. ThreadsTyped /\ LentCounted  BY DEF Books
<1>2. t \notin lent
  BY <1>1 DEF TryAlloc, Unused, LentCounted
<1>3. Cardinality(lent') = Cardinality(lent) + 1
  BY <1>1, <1>2, Finite, FS_AddElement DEF TryAlloc
<1>4. \/ pool = {} /\ Size' = 0 /\ yetToCreate > 0 /\ yetToCreate' = yetToCreate - 1
      \/ pool # {} /\ Size' = Size - 1 /\ yetToCreate' = yetToCreate
  <2>1. CASE pool = {} /\ yetToCreate > 0 /\ yetToCreate' = yetToCreate - 1
    <3>1. pool' = {}  BY <2>1 DEF TryAlloc
    <3> QED  BY <2>1, <3>1, FS_EmptySet DEF Size
  <2>2. CASE t \in pool /\ yetToCreate' = yetToCreate
    <3>1. pool' = pool \ {t}  BY DEF TryAlloc
    <3>2. Cardinality(pool \ {t}) = Cardinality(pool) - 1
      BY <1>1, <2>2, Finite, FS_RemoveElement
    <3> QED  BY <2>2, <3>1, <3>2 DEF Size
  <2> QED  BY <2>1, <2>2 DEF TryAlloc
<1>5. ThreadsTyped'
  BY <1>1, <1>4 DEF TryAlloc, ThreadsTyped
<1>6. LentCounted'
  BY <1>1, <1>2, <1>3 DEF TryAlloc, LentCounted
<1> QED  BY <1>4, <1>5, <1>6

\* A thread that is returned has been counted: allocCount is at least 1.
LEMMA ReturnSets ==
  ASSUME Books, NEW t \in lent, Put(t) \/ Overflow(t)
  PROVE  /\ ThreadsTyped' /\ LentCounted'
         /\ allocCount > 0 /\ allocCount' = allocCount - 1
         /\ Put(t) => Size' = Size + 1
<1>1. ThreadsTyped /\ LentCounted  BY DEF Books
<1>2. t \notin pool  BY <1>1 DEF LentCounted
<1>3. /\ Cardinality(lent \ {t}) = Cardinality(lent) - 1
      /\ Cardinality(lent \ {t}) \in Nat
  BY <1>1, Finite, FS_RemoveElement, FS_CardinalityType
<1>4. allocCount > 0 /\ allocCount' = allocCount - 1 /\ lent' = lent \ {t}
  BY <1>1, <1>3, Finite DEF Put, Overflow, LentCounted
<1>5. Put(t) => Size' = Size + 1
  BY <1>1, <1>2, Finite, FS_AddElement DEF Put, Size
<1>6. ThreadsTyped'
  BY <1>1, <1>4 DEF Put, Overflow, ThreadsTyped
<1>7. LentCounted'
  BY <1>1, <1>3, <1>4 DEF Put, Overflow, LentCounted
<1> QED  BY <1>4, <1>5, <1>6, <1>7

\* SetThreadCount removes idle threads only, and as many as it has to.
LEMMA ResizeSets ==
  ASSUME Books, NEW count \in Nat, SetThreadCount(count)
  PROVE  ThreadsTyped' /\ LentCounted' /\ Size' = Kept(count)
<1>1. ThreadsTyped /\ LentCounted  BY DEF Books
<1>2. /\ pool' \subseteq pool /\ Size' = Kept(count)
      /\ lent' = lent /\ allocCount' = allocCount /\ maxCount' = count
  BY DEF SetThreadCount, Size
<1>3. yetToCreate' \in Nat
  BY <1>1, Finite DEF SetThreadCount, ThreadsTyped
<1>4. ThreadsTyped'
  BY <1>1, <1>2, <1>3 DEF ThreadsTyped
<1>5. LentCounted'
  BY <1>1, <1>2 DEF LentCounted
<1> QED  BY <1>2, <1>4, <1>5

\* Steps that only touch the list of starving schedulers.
LEMMA ListSteps ==
  ASSUME NEW s, SelectStarving(s) \/ AddStarving(s) \/ RemoveStarving(s)
  PROVE  UNCHANGED <<pool, lent, allocCount, maxCount, yetToCreate>>
BY DEF SelectStarving, AddStarving, RemoveStarving

\* Every operation of the pool keeps the books right.
LEMMA PoolNextBooks ==
  ASSUME Books, [PoolNext]_poolVars
  PROVE  Books'
<1>1. ThreadsTyped /\ LentCounted /\ PoolFits  BY DEF Books
<1>2. CASE UNCHANGED <<pool, lent, allocCount, maxCount, yetToCreate>>
  BY <1>1, <1>2 DEF Books, ThreadsTyped, LentCounted, PoolFits, Size
<1>3. ASSUME NEW count \in Nat, SetThreadCount(count)
      PROVE  Books'
  <2>1. ThreadsTyped' /\ LentCounted' /\ Size' = Kept(count)
    BY <1>3, ResizeSets
  <2>2. Size' = 0 => pool' = {}
    BY <2>1, PoolAssumption, FS_Subset, FS_EmptySet
    DEF ThreadsTyped, PoolAssumption, Size
  <2>3. Size' = 0 \/ Size' + allocCount' <= maxCount'
    BY <1>1, <1>3, <2>1, Finite DEF Kept, SetThreadCount, ThreadsTyped
  <2> QED  BY <2>1, <2>2, <2>3 DEF Books, PoolFits
<1>4. ASSUME NEW t \in Thread, TryAlloc(t, Unused)
      PROVE  Books'
  <2>1. /\ ThreadsTyped' /\ LentCounted'
        /\ \/ pool = {} /\ Size' = 0
           \/ pool # {} /\ Size' = Size - 1
    BY <1>4, AllocSets
  <2>2. allocCount' = allocCount + 1 /\ maxCount' = maxCount /\ pool' = pool \ {t}
    BY <1>4 DEF TryAlloc
  <2>3. pool' # {} => Size' + allocCount' <= maxCount'
    BY <1>1, <2>1, <2>2, Finite DEF PoolFits, ThreadsTyped
  <2> QED  BY <2>1, <2>3 DEF Books, PoolFits
<1>5. ASSUME NEW t \in lent, Put(t) \/ Overflow(t)
      PROVE  Books'
  <2>1. /\ ThreadsTyped' /\ LentCounted'
        /\ allocCount > 0 /\ allocCount' = allocCount - 1
        /\ Put(t) => Size' = Size + 1
    BY <1>5, ReturnSets
  <2>2. CASE Put(t)
    <3>1. Size' + allocCount' <= maxCount'
      BY <1>1, <2>1, <2>2, Finite DEF Put, ThreadsTyped
    <3> QED  BY <2>1, <3>1 DEF Books, PoolFits
  <2>3. CASE Overflow(t)
    <3>1. pool' = pool /\ Size' = Size /\ maxCount' = maxCount
      BY <2>3 DEF Overflow, Size
    <3>2. pool' # {} => Size' + allocCount' <= maxCount'
      BY <1>1, <2>1, <3>1, Finite DEF PoolFits, ThreadsTyped
    <3> QED  BY <2>1, <3>2 DEF Books, PoolFits
  <2> QED  BY <1>5, <2>2, <2>3
<1>6. CASE maxCount = 0 /\ SetThreadCount(HWThreads)
  BY <1>3, <1>6, PoolAssumption DEF PoolAssumption
<1>7. CASE \E count \in Counts : SetThreadCount(count)
  BY <1>3, <1>7, PoolAssumption DEF PoolAssumption
<1>8. CASE \E s \in Sched : SelectStarving(s) \/ AddStarving(s) \/ RemoveStarving(s)
  BY <1>2, <1>8, ListSteps
<1>9. CASE UNCHANGED poolVars
  BY <1>2, <1>9 DEF poolVars
<1> QED
  BY <1>4, <1>5, <1>6, <1>7, <1>8, <1>9 DEF PoolNext

\* A new pool is empty.
LEMMA PoolInitBooks == PoolInit => Books
BY FS_EmptySet DEF PoolInit, Books, ThreadsTyped, LentCounted, PoolFits

\* CThreadPool: allocCount is the number of threads handed out, so that the
\* unchecked decrement in Release never wraps around, and no thread is idle and
\* handed out at once: for any threads, schedulers and limits.
THEOREM PoolBooks == PoolSpec => [](ThreadsTyped /\ LentCounted)
<1>1. Books /\ [PoolNext]_poolVars => Books'
  BY PoolNextBooks
<1> QED  BY <1>1, PoolInitBooks, PTL DEF PoolSpec, Books

\* CThreadPool: neither Release nor SetThreadCount leaves an idle thread beyond
\* the limit, however often the limit changes while threads are handed out.
THEOREM PoolIdle == PoolSpec => []PoolFits
<1>1. Books /\ [PoolNext]_poolVars => Books'
  BY PoolNextBooks
<1> QED  BY <1>1, PoolInitBooks, PTL DEF PoolSpec, Books

-----------------------------------------------------------------------------
(* The limit is set by the first scheduler only. *)

\* The inductive form: the limit is not yet set, or the one of the first
\* scheduler, and all threads count against it.
WithinLimit ==
  /\ maxCount \in {0, HWThreads}
  /\ Size + allocCount + yetToCreate <= maxCount

\* While nobody but the first scheduler sets the limit, every step keeps the
\* threads that exist, and those that may be created, within it.
LEMMA PoolNextBound ==
  ASSUME Counts = {}, Books, WithinLimit, [PoolNext]_poolVars
  PROVE  WithinLimit'
<1>1. ThreadsTyped /\ LentCounted /\ Size \in Nat
  BY Finite DEF Books
<1>2. CASE UNCHANGED <<pool, lent, allocCount, maxCount, yetToCreate>>
  BY <1>2 DEF WithinLimit, Size
<1>3. CASE maxCount = 0 /\ SetThreadCount(HWThreads)
  <2>1. Size' = Kept(HWThreads)
    BY <1>3, ResizeSets, PoolAssumption DEF PoolAssumption
  <2>2. Size = 0 /\ allocCount = 0
    BY <1>1, <1>3 DEF WithinLimit, ThreadsTyped
  <2> QED
    BY <1>3, <2>1, <2>2, PoolAssumption
    DEF SetThreadCount, Kept, WithinLimit, PoolAssumption
<1>4. ASSUME NEW t \in Thread, TryAlloc(t, Unused)
      PROVE  WithinLimit'
  <2>1. /\ \/ /\ pool = {} /\ Size' = 0 /\ yetToCreate > 0
              /\ yetToCreate' = yetToCreate - 1
           \/ /\ pool # {} /\ Size' = Size - 1
              /\ yetToCreate' = yetToCreate
    BY <1>4, AllocSets
  <2>2. allocCount' = allocCount + 1 /\ maxCount' = maxCount
    BY <1>4 DEF TryAlloc
  <2> QED  BY <1>1, <2>1, <2>2 DEF WithinLimit, ThreadsTyped
<1>5. ASSUME NEW t \in lent, Put(t) \/ Overflow(t)
      PROVE  WithinLimit'
  <2>1. allocCount > 0 /\ allocCount' = allocCount - 1
    BY <1>5, ReturnSets
  <2>2. /\ Size' = Size \/ Size' = Size + 1
        /\ maxCount' = maxCount /\ yetToCreate' = yetToCreate
    BY <1>5, ReturnSets DEF Put, Overflow, Size
  <2> QED  BY <1>1, <2>1, <2>2 DEF WithinLimit, ThreadsTyped
<1>6. CASE \E s \in Sched : SelectStarving(s) \/ AddStarving(s) \/ RemoveStarving(s)
  BY <1>2, <1>6, ListSteps
<1>7. CASE UNCHANGED poolVars
  BY <1>2, <1>7 DEF poolVars
<1> QED
  BY <1>3, <1>4, <1>5, <1>6, <1>7 DEF PoolNext

\* The threads that exist and those that may still be created are no more than
\* there are processors, for any number of them, as long as nobody calls
\* SetSharedThreadCount after the first scheduler.
THEOREM PoolBound == ASSUME Counts = {} PROVE PoolSpec => []ThreadBound
<1>1. PoolInit => WithinLimit
  BY FS_EmptySet DEF PoolInit, WithinLimit, Size
<1>2. Books /\ WithinLimit /\ [PoolNext]_poolVars => WithinLimit'
  BY PoolNextBound
<1>3. Books /\ [PoolNext]_poolVars => Books'
  BY PoolNextBooks
<1>4. Books /\ WithinLimit => ThreadBound
  <2> SUFFICES ASSUME Books, WithinLimit PROVE ThreadBound  OBVIOUS
  <2>1. ThreadsTyped /\ Size \in Nat
    BY Finite DEF Books
  <2> QED  BY <2>1, PoolAssumption DEF ThreadBound, WithinLimit, ThreadsTyped, PoolAssumption
<1> QED  BY <1>1, <1>2, <1>3, <1>4, PoolInitBooks, PTL DEF PoolSpec

=============================================================================
