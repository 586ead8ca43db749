-------------------------------- MODULE Job --------------------------------
(***************************************************************************)
(* The life of one job object: CJobBase with its two COneShotEvents, seen  *)
(* by the threads that touch it without a common lock:                     *)
(*   owner    the client that schedules, waits for and deletes the job;    *)
(*   worker   the scheduler thread that executes it (ThreadFunc);          *)
(*   remover  the thread that takes waiting jobs out of the queue, either  *)
(*            to hand them to its caller (RemoveJobFromQueue) or to drop   *)
(*            them from a stopped scheduler (WaitForEmptyQueueOrTimeout).  *)
(* Every read, interlocked exchange and event call is a step of its own.   *)
(* A label names the next step of a thread; ret is where a called routine  *)
(* returns to and ev the event that Set and WaitFor work on.               *)
(***************************************************************************)
EXTENDS Naturals, FiniteSets

CONSTANT
  Scenarios  \* sets of things that clients do with a job, each of them of:
             \* "own"        hand it to the scheduler with transferOwnership
             \* "lend"       schedule it and keep the ownership
             \* "wait"       WaitUntilDone without inline execution
             \* "inline"     WaitUntilDone with inline execution
             \* "timed"      WaitUntilDoneOrTimeout
             \* "terminate"  Terminate
             \* "delete"     Delete, with and without terminate
             \* "trim"       RemoveJobFromQueue
             \* "reschedule" Schedule again what RemoveJobFromQueue returned
             \* "drain"      WaitForEmptyQueue on a stopped scheduler

ASSUME ScenariosAssumption ==
  Scenarios \subseteq SUBSET {"own", "lend", "wait", "inline", "timed", "terminate",
                              "delete", "trim", "reschedule", "drain"}

VARIABLES
  uses,        \* what the clients do with this job, one of Scenarios
  waiting, terminated, scheduled,  \* the flags of CJobBase
  state,       \* [Event -> BOOLEAN]: COneShotEvent::state
  handle,      \* [Event -> "null", "reset", "signalled"]: the OS event
  owned,       \* transferOwnership
  inQueue,     \* the scheduler's queue refers to the job
  alive,       \* the object has not been destroyed
  executions,  \* calls of InternalExecute
  result,      \* what InternalExecute has left behind
  verdict,     \* last return value of WaitUntilDoneOrTimeout
  pc, ret, ev

flags == <<waiting, terminated, scheduled>>
events == <<state, handle>>
effects == <<executions, result, verdict>>
vars == <<uses, flags, events, owned, inQueue, alive, effects, pc, ret, ev>>

Thread == {"owner", "worker", "remover"}
Event  == {"executionDone", "deletable"}

NewEvents ==
  /\ state = [e \in Event |-> FALSE]
  /\ handle = [e \in Event |-> "null"]

Init ==
  /\ uses \in Scenarios
  /\ waiting = TRUE /\ terminated = FALSE /\ scheduled = FALSE
  /\ NewEvents
  /\ owned \in {o \in BOOLEAN : IF o THEN "own" \in uses ELSE "lend" \in uses}
  /\ inQueue = FALSE
  /\ alive = TRUE
  /\ executions = 0 /\ result = "none" /\ verdict = "none"
  /\ pc = [t \in Thread |-> IF t = "owner" THEN "schedule" ELSE "idle"]
  /\ ret = [t \in Thread |-> "idle"]
  /\ ev = [t \in Thread |-> "executionDone"]

Go(t, from, to) ==
  /\ pc[t] = from
  /\ pc' = [pc EXCEPT ![t] = to]

Call(t, from, routine, back) ==
  /\ Go(t, from, routine)
  /\ ret' = [ret EXCEPT ![t] = back]

\* The values a read can return: anything once the object is destroyed.
Seen(v) == IF alive THEN {v} ELSE BOOLEAN

-----------------------------------------------------------------------------
(* COneShotEvent *)

AfterSet(t) == IF ev[t] = "executionDone" THEN "x.scheduled" ELSE ret[t]

SetExchange(t) ==
  /\ \E was \in Seen(state[ev[t]]) :
       Go(t, "s.exchange", IF was THEN AfterSet(t) ELSE "s.signal")
  /\ state' = [state EXCEPT ![ev[t]] = TRUE]
  /\ UNCHANGED <<flags, handle, owned, inQueue, alive, effects, ret, ev>>

SetSignal(t) ==
  /\ Go(t, "s.signal", AfterSet(t))
  /\ handle' = [handle EXCEPT ![ev[t]] = IF @ = "null" THEN @ ELSE "signalled"]
  /\ UNCHANGED <<flags, state, owned, inQueue, alive, effects, ret, ev>>

\* AutoAlloc; the pool only hands out events that have been reset.
Alloc(t, from, to) ==
  /\ Go(t, from, to)
  /\ handle' = [handle EXCEPT ![ev[t]] = IF @ = "null" THEN "reset" ELSE @]
  /\ UNCHANGED <<flags, state, owned, inQueue, alive, effects, ret, ev>>

Test(t, from, ifNotSet) ==
  /\ Go(t, from, IF state[ev[t]] THEN ret[t] ELSE ifNotSet)
  /\ UNCHANGED <<flags, events, owned, inQueue, alive, effects, ret, ev>>

WaitBlock(t) ==
  /\ handle[ev[t]] = "signalled"
  /\ Go(t, "w.block", ret[t])
  /\ UNCHANGED <<flags, events, owned, inQueue, alive, effects, ret, ev>>

\* fault: the second look at the state is missing
WaitFor_NoRetest(t) ==
  \/ Test(t, "w.test", "w.alloc")
  \/ Alloc(t, "w.alloc", "w.block")
  \/ WaitBlock(t)

\* fault: the wait is given up like one with a timeout
WaitFor_Impatient(t) ==
  \/ Test(t, "w.test", "w.alloc")
  \/ Alloc(t, "w.alloc", "w.retest")
  \/ /\ Go(t, "w.retest", ret[t])
     /\ UNCHANGED <<flags, events, owned, inQueue, alive, effects, ret, ev>>

WaitFor(t) ==
  \/ Test(t, "w.test", "w.alloc")
  \/ Alloc(t, "w.alloc", "w.retest")
  \/ Test(t, "w.retest", "w.block")
  \/ WaitBlock(t)

\* The timeout may strike at any moment; a signalled event wins.
WaitForEndOrTimeout(t) ==
  \/ /\ Go(t, "t.test", IF state[ev[t]] THEN ret[t] ELSE "t.alloc")
     /\ verdict' = IF state[ev[t]] THEN "true" ELSE verdict
     /\ UNCHANGED <<flags, events, owned, inQueue, alive, executions, result,
                    ret, ev>>
  \/ Alloc(t, "t.alloc", "t.block")
  \/ /\ Go(t, "t.block", ret[t])
     /\ verdict' = IF handle[ev[t]] = "signalled" THEN "true" ELSE "false"
     /\ UNCHANGED <<flags, events, owned, inQueue, alive, executions, result,
                    ret, ev>>

-----------------------------------------------------------------------------
(* CJobBase *)

\* fault: the flag is written without looking at its old value
ExecuteExchange_NoTest(t) ==
  /\ Go(t, "x.exchange", "x.run")
  /\ waiting' = FALSE
  /\ UNCHANGED <<terminated, scheduled, events, owned, inQueue, alive, effects,
                 ret, ev>>

\* one-shot: only the first caller gets past the exchange
ExecuteExchange(t) ==
  /\ Go(t, "x.exchange", IF waiting THEN "x.run" ELSE ret[t])
  /\ waiting' = FALSE
  /\ UNCHANGED <<terminated, scheduled, events, owned, inQueue, alive, effects,
                 ret, ev>>

\* InternalExecute starts unless the job has been cancelled
ExecuteRun(t) ==
  /\ Go(t, "x.run", IF terminated THEN "s.exchange" ELSE "x.finish")
  /\ IF terminated THEN UNCHANGED <<executions, result>>
                   ELSE executions' = executions + 1 /\ result' = "partial"
  /\ ev' = [ev EXCEPT ![t] = "executionDone"]
  /\ UNCHANGED <<flags, events, owned, inQueue, alive, verdict, ret>>

\* InternalExecute ends, early if it notices HasBeenTerminated
ExecuteFinish(t) ==
  /\ Go(t, "x.finish", "s.exchange")
  /\ result' \in {"complete"} \cup (IF terminated THEN {"cancelled"} ELSE {})
  /\ UNCHANGED <<flags, events, owned, inQueue, alive, executions, verdict,
                 ret, ev>>

\* fault: deletable is set whether or not the scheduler refers to the job
ExecuteTest_Always(t) ==
  /\ Go(t, "x.scheduled", "s.exchange")
  /\ ev' = [ev EXCEPT ![t] = "deletable"]
  /\ UNCHANGED <<flags, events, owned, inQueue, alive, effects, ret>>

ExecuteTest(t) ==
  /\ Go(t, "x.scheduled", IF scheduled THEN ret[t] ELSE "s.exchange")
  /\ ev' = [ev EXCEPT ![t] = "deletable"]
  /\ UNCHANGED <<flags, events, owned, inQueue, alive, effects, ret>>

Execute(t) ==
  ExecuteExchange(t) \/ ExecuteRun(t) \/ ExecuteFinish(t) \/ ExecuteTest(t)

\* fault: the flag is not reset
UnScheduleExchange_Keep(t) ==
  /\ Go(t, "u.exchange", IF scheduled THEN "u.test" ELSE ret[t])
  /\ UNCHANGED <<flags, events, owned, inQueue, alive, effects, ret, ev>>

UnScheduleExchange(t) ==
  /\ Go(t, "u.exchange", IF scheduled THEN "u.test" ELSE ret[t])
  /\ scheduled' = FALSE
  /\ UNCHANGED <<waiting, terminated, events, owned, inQueue, alive, effects,
                 ret, ev>>

\* fault: deletable is left to the thread that executes the job
UnScheduleTest_Skip(t) ==
  /\ Go(t, "u.test", ret[t])
  /\ UNCHANGED <<flags, events, owned, inQueue, alive, effects, ret, ev>>

UnScheduleTest(t) ==
  /\ \E done \in Seen(state["executionDone"]) :
       Go(t, "u.test", IF done THEN "s.exchange" ELSE ret[t])
  /\ ev' = [ev EXCEPT ![t] = "deletable"]
  /\ UNCHANGED <<flags, events, owned, inQueue, alive, effects, ret>>

OnUnSchedule(t) == UnScheduleExchange(t) \/ UnScheduleTest(t)

\* ~CJobBase
Destroy(t) ==
  /\ Go(t, "delete", "gone")
  /\ alive' = FALSE
  /\ UNCHANGED <<flags, events, owned, inQueue, effects, ret, ev>>

-----------------------------------------------------------------------------
(* The threads *)

\* CJobScheduler::Schedule: OnSchedule outside of the scheduler's lock, the
\* push under it.
Schedule(t, from, back) ==
  \/ /\ Call(t, from, "push", back)
     /\ scheduled' = TRUE
     /\ UNCHANGED <<waiting, terminated, events, owned, inQueue, alive,
                    effects, ev>>
  \/ /\ Go(t, "push", ret[t])
     /\ inQueue' = TRUE
     /\ UNCHANGED <<flags, events, owned, alive, effects, ret, ev>>

\* CRepositoryLister, the one client of RemoveJobFromQueue, trims the queue
\* and deletes queries under the same lock of its own.
Trimming == pc["remover"] # "idle" /\ "trim" \in uses
Deleting == \/ pc["owner"] \in {"d.waiting", "gone"}
            \/ ret["owner"] \in {"d.wait", "delete"}

DeleteStart(t, from) ==
  \E terminate \in BOOLEAN :
    /\ "delete" \in uses
    /\ ~Trimming
    /\ Go(t, from, "d.waiting")
    /\ terminated' = (terminated \/ terminate)
    /\ UNCHANGED <<waiting, scheduled, events, owned, inQueue, alive, effects,
                   ret, ev>>

DeleteExecute(t) ==
  /\ Call(t, "d.waiting", IF waiting THEN "x.exchange" ELSE "d.wait", "d.wait")
  /\ UNCHANGED <<flags, events, owned, inQueue, alive, effects, ev>>

DeleteWait(t) ==
  /\ Call(t, "d.wait", "w.test", "delete")
  /\ ev' = [ev EXCEPT ![t] = "deletable"]
  /\ UNCHANGED <<flags, events, owned, inQueue, alive, effects>>

Delete(t, from) == DeleteStart(t, from) \/ DeleteExecute(t) \/ DeleteWait(t)

\* One call of a client that leaves the job in place.
Observe(t, from) ==
  \/ /\ "terminate" \in uses
     /\ Go(t, from, from)
     /\ terminated' = TRUE
     /\ UNCHANGED <<waiting, scheduled, events, owned, inQueue, alive, effects,
                    ret, ev>>
  \/ /\ \/ "wait" \in uses /\ Call(t, from, "o.wait", from)
        \/ "inline" \in uses /\ Call(t, from, "x.exchange", "o.wait")
     /\ UNCHANGED <<flags, events, owned, inQueue, alive, effects, ev>>
  \/ /\ Call(t, "o.wait", "w.test", from)
     /\ ev' = [ev EXCEPT ![t] = "executionDone"]
     /\ UNCHANGED <<flags, events, owned, inQueue, alive, effects>>
  \/ /\ "timed" \in uses
     /\ Call(t, from, "t.test", from)
     /\ ev' = [ev EXCEPT ![t] = "executionDone"]
     /\ UNCHANGED <<flags, events, owned, inQueue, alive, effects>>

\* A client that gives the job away does not touch it any more.
OwnerStep ==
  LET t == "owner"
  IN /\ UNCHANGED uses
     /\ \/ Schedule(t, "schedule", IF owned THEN "gone" ELSE "client")
        \/ Observe(t, "client") \/ Delete(t, "client")
        \/ Execute(t) \/ SetExchange(t) \/ SetSignal(t)
        \/ WaitFor(t) \/ WaitForEndOrTimeout(t)
        \/ Destroy(t)

\* A thread that takes the job out of the queue.
Take(t, routine, back) ==
  /\ inQueue
  /\ inQueue' = FALSE
  /\ Call(t, "idle", routine, back)
  /\ UNCHANGED <<flags, events, owned, alive, effects, ev>>

\* fault: the ownership flag is ignored
Cleanup_Leak(t) ==
  /\ Go(t, "cleanup", "idle")
  /\ UNCHANGED <<flags, events, owned, inQueue, alive, effects, ret, ev>>

\* is it our responsibility to clean up this job?
Cleanup(t) ==
  /\ Go(t, "cleanup", IF owned THEN "delete" ELSE "idle")
  /\ UNCHANGED <<flags, events, owned, inQueue, alive, effects, ret, ev>>

\* CJobScheduler::ThreadFunc
WorkerStep ==
  LET t == "worker"
  IN /\ UNCHANGED uses
     /\ \/ Take(t, "x.exchange", "unschedule")
        \/ Execute(t)
        \/ Call(t, "unschedule", "u.exchange", "cleanup")
           /\ UNCHANGED <<flags, events, owned, inQueue, alive, effects, ev>>
        \/ OnUnSchedule(t) \/ SetExchange(t) \/ SetSignal(t)
        \/ Cleanup(t) \/ Destroy(t)

RemoverStep ==
  LET t == "remover"
  IN /\ UNCHANGED uses
     /\ \/ "trim" \in uses /\ ~owned /\ ~Deleting /\ Take(t, "u.exchange", "removed")
        \/ "drain" \in uses /\ Take(t, "u.exchange", "cleanup")
        \/ OnUnSchedule(t) \/ SetExchange(t) \/ SetSignal(t)
        \/ /\ Go(t, "removed", IF "reschedule" \in uses /\ ~terminated
                                  THEN "reschedule" ELSE "idle")
           /\ UNCHANGED <<flags, events, owned, inQueue, alive, effects, ret, ev>>
        \/ Schedule(t, "reschedule", "idle")
        \/ Cleanup(t) \/ Destroy(t)

Next == OwnerStep \/ WorkerStep \/ RemoverStep

\* Threads that can run are run; a worker gets round to every queued job.
Spec ==
  /\ Init /\ [][Next]_vars
  /\ WF_vars(OwnerStep) /\ WF_vars(WorkerStep)
  /\ WF_vars(RemoverStep /\ pc["remover"] # "idle")

-----------------------------------------------------------------------------
(* Properties *)

Label == {"schedule", "push", "client", "gone", "idle", "removed",
          "reschedule", "unschedule", "cleanup", "delete",
          "x.exchange", "x.run", "x.finish", "x.scheduled",
          "s.exchange", "s.signal", "u.exchange", "u.test",
          "w.test", "w.alloc", "w.retest", "w.block",
          "t.test", "t.alloc", "t.block", "d.waiting", "d.wait", "o.wait"}

\* Where a routine may return to.
BackLabel == {"idle", "gone", "client", "removed", "unschedule", "cleanup",
              "delete", "d.wait", "o.wait"}

JobTyped ==
  /\ waiting \in BOOLEAN /\ terminated \in BOOLEAN /\ scheduled \in BOOLEAN
  /\ owned \in BOOLEAN /\ inQueue \in BOOLEAN /\ alive \in BOOLEAN
  /\ state \in [Event -> BOOLEAN]
  /\ handle \in [Event -> {"null", "reset", "signalled"}]
  /\ executions \in Nat
  /\ result \in {"none", "partial", "complete", "cancelled"}
  /\ verdict \in {"none", "true", "false"}
  /\ pc \in [Thread -> Label]
  /\ ret \in [Thread -> BackLabel]
  /\ ev \in [Thread -> Event]

TypeOK == uses \in Scenarios /\ JobTyped

At(t, labels) == pc[t] \in labels

\* IJob.h: "Jobs will be executed only once making the done state the final
\* state of the internal state machine."  However many threads call Execute,
\* InternalExecute runs at most once, and once executionDone is set nobody is
\* inside it any more and what it left is final (a job without result has
\* been cancelled before it started).
ExecutedOnce ==
  /\ executions <= 1
  /\ state["executionDone"] =>
       /\ \A t \in Thread : ~At(t, {"x.run", "x.finish"})
       /\ result # "partial"
       /\ result = "none" => terminated

\* CFuture::GetResult: what WaitUntilDone returns on is a finished job.
WaitMeansDone ==
  [][\A t \in Thread :
       At(t, {"w.test", "w.retest", "w.block"}) /\ pc'[t] = "client"
         => result \in {"complete", "cancelled"} \/ terminated]_vars

\* IJob.h: "The job must not be deleted before this function [OnUnSchedule]
\* has been called."  A destroyed job is in no queue, not marked as scheduled
\* and nobody executes it, whoever of the owner, the worker and the remover
\* came first.
NotDeletedWhileScheduled ==
  ~alive => /\ ~inQueue /\ ~scheduled
            /\ \A t \in Thread :
                 ~At(t, {"push", "x.exchange", "x.run", "x.finish",
                         "x.scheduled", "u.exchange"})

\* CJobBase::~CJobBase: assert (deletable.Test()).
DeletableWhenDestroyed ==
  \A t \in Thread : At(t, {"delete"}) => state["deletable"]

\* CJobBase::OnSchedule and OnUnSchedule: assert (0) is never reached, no job
\* is scheduled twice or taken out twice.
ScheduledConsistently ==
  \A t \in Thread :
    /\ At(t, {"schedule", "reschedule"}) => ~scheduled /\ ~inQueue
    /\ At(t, {"push", "u.exchange"}) => scheduled

\* JobBase.h, Delete: "Call delete on this job as soon as it is safe to do
\* so."  A client that has asked for the deletion does not wait forever,
\* wherever the job was at that moment.
DeleteCompletes == pc["owner"] = "d.waiting" ~> ~alive

\* A job given to the scheduler with transferOwnership is destroyed.
OwnedIsFreed == owned ~> ~alive

\* IJob.h, WaitUntilDone: a client that offers to execute the job itself
\* gets it done, even if the job has been taken out of the queue.  One that
\* only waits, like CFuture::GetResult, gets the result of a job that is
\* scheduled, unless somebody takes it out of the queue.
WaitCompletes ==
  /\ pc["owner"] = "o.wait"
  /\ "wait" \in uses => scheduled /\ uses \cap {"trim", "drain"} = {}
  ~> pc["owner"] = "client"

\* JobBase.h, Delete: "as soon as it is safe to do so": no thread touches the
\* job after it has been destroyed.
NoUseAfterDelete ==
  ~alive => \A t \in Thread : ~At(t, {"u.test", "s.exchange", "s.signal"})

\* WaitableEvent.h, WaitForEndOrTimeout: "returns false in case of a
\* timeout", that is, not for an event whose Set has been completed.
FalseMeansTimeout ==
  [][At("owner", {"t.block"}) /\ verdict' = "false" /\ ~At("owner", {"t.block"})'
       => \/ ~state["executionDone"]
          \/ \E u \in Thread : At(u, {"s.signal"}) /\ ev[u] = "executionDone"]_vars

=============================================================================
