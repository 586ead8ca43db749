----------------------------- MODULE ThreadPool -----------------------------
(***************************************************************************)
(* CJobScheduler::CThreadPool: the process-wide pool of threads that job   *)
(* schedulers borrow, and the list of schedulers that wait for one.        *)
(* Every operation holds the pool's mutex from start to end and is one     *)
(* action.  Threads are created when first needed.                         *)
(*                                                                         *)
(* The module stands alone, with schedulers that borrow and return threads *)
(* as they like; JobScheduler uses its operations.                         *)
(***************************************************************************)
EXTENDS Naturals, Sequences, FiniteSets

CONSTANTS
  Sched,      \* job schedulers
  Thread,     \* threads that exist at the same time
  HWThreads,  \* GetHWThreadCount
  Counts      \* later arguments of SetSharedThreadCount

ASSUME PoolAssumption ==
  /\ IsFiniteSet(Thread)
  /\ HWThreads \in Nat \ {0}
  /\ Counts \subseteq Nat

VARIABLES
  pool,         \* idle shared threads
  lent,         \* threads handed out and not returned
  allocCount,   \* the code's count of those
  maxCount,
  yetToCreate,  \* threads that may still be created
  starving      \* the schedulers that want more threads, first come first

poolVars == <<pool, lent, allocCount, maxCount, yetToCreate, starving>>

PoolInit ==
  /\ pool = {} /\ lent = {}
  /\ allocCount = 0 /\ maxCount = 0 /\ yetToCreate = 0
  /\ starving = << >>

Size == Cardinality(pool)

-----------------------------------------------------------------------------
(* Operations.  fresh is the set of threads that do not exist yet. *)

\* fault: a created thread is not taken off the number to create
TryAlloc_NoCount(t, fresh) ==
  /\ IF pool = {} THEN yetToCreate > 0 /\ t \in fresh ELSE t \in pool
  /\ pool' = pool \ {t}
  /\ lent' = lent \cup {t}
  /\ allocCount' = allocCount + 1
  /\ UNCHANGED <<yetToCreate, maxCount, starving>>

TryAlloc(t, fresh) ==
  /\ \/ pool = {} /\ yetToCreate > 0 /\ t \in fresh
        /\ yetToCreate' = yetToCreate - 1
     \/ t \in pool /\ UNCHANGED yetToCreate
  /\ pool' = pool \ {t}
  /\ lent' = lent \cup {t}
  /\ allocCount' = allocCount + 1
  /\ UNCHANGED <<maxCount, starving>>

TryAllocFails == pool = {} /\ yetToCreate = 0

\* Release: back into the pool, unless its capacity has been exceeded ...
Put(t) ==
  /\ Size + (allocCount - 1) < maxCount
  /\ pool' = pool \cup {t}
  /\ lent' = lent \ {t}
  /\ allocCount' = allocCount - 1
  /\ UNCHANGED <<maxCount, yetToCreate, starving>>

\* ... in which case the thread is deleted.
Overflow(t) ==
  /\ ~(Size + (allocCount - 1) < maxCount)
  /\ lent' = lent \ {t}
  /\ allocCount' = allocCount - 1
  /\ UNCHANGED <<pool, maxCount, yetToCreate, starving>>

SelectStarving(s) ==
  /\ starving # << >> /\ pool # {}
  /\ s = Head(starving)
  /\ starving' = Tail(starving)
  /\ UNCHANGED <<pool, lent, allocCount, maxCount, yetToCreate>>

NobodyStarving == starving = << >> \/ pool = {}

AddStarving(s) ==
  /\ starving' = Append(starving, s)
  /\ UNCHANGED <<pool, lent, allocCount, maxCount, yetToCreate>>

IsStarving(s) == \E i \in DOMAIN starving : starving[i] = s

\* std::remove_copy: what is left of the list without s, in its order.
Without(list, s) ==
  LET kept[i \in 0..Len(list)] ==
        IF i = 0 THEN << >>
        ELSE IF list[i] = s THEN kept[i - 1] ELSE Append(kept[i - 1], list[i])
  IN  kept[Len(list)]

RemoveStarving(s) ==
  /\ starving' = Without(starving, s)
  /\ UNCHANGED <<pool, lent, allocCount, maxCount, yetToCreate>>

\* fault: the surplus is computed from the idle threads alone
Kept_PoolOnly(count) == IF Size <= count THEN Size ELSE count

\* What is left of the idle threads when the loop of SetThreadCount ends.
Kept(count) ==
  IF Size + allocCount <= count THEN Size
  ELSE IF allocCount <= count THEN count - allocCount ELSE 0

SetThreadCount(count) ==
  /\ maxCount' = count
  /\ yetToCreate' = IF Size + allocCount < count
                      THEN count - Size + allocCount ELSE yetToCreate
  /\ pool' \in {keep \in SUBSET pool : Cardinality(keep) = Kept(count)}
  /\ UNCHANGED <<lent, allocCount, starving>>

-----------------------------------------------------------------------------
(* The pool with its users: schedulers borrow, register and return.  The   *)
(* first scheduler sets the size of the pool.                              *)

Unused == Thread \ (pool \cup lent)

PoolNext ==
  \/ maxCount = 0 /\ SetThreadCount(HWThreads)
  \/ \E count \in Counts : SetThreadCount(count)
  \/ \E t \in Thread : TryAlloc(t, Unused)
  \/ \E t \in lent : Put(t) \/ Overflow(t)
  \/ \E s \in Sched : SelectStarving(s)
  \/ \E s \in Sched : TryAllocFails /\ ~IsStarving(s) /\ AddStarving(s)
  \/ \E s \in Sched : IsStarving(s) /\ RemoveStarving(s)

PoolSpec == PoolInit /\ [][PoolNext]_poolVars

-----------------------------------------------------------------------------
(* Properties *)

ThreadsTyped ==
  /\ pool \subseteq Thread /\ lent \subseteq Thread
  /\ allocCount \in Nat /\ maxCount \in Nat /\ yetToCreate \in Nat

\* The type invariant; its first half says that the counters, which are
\* unsigned in the code, do not wrap around.
PoolTypeOK == ThreadsTyped /\ starving \in Seq(Sched)

\* The count that Release decrements without a check never falls below zero:
\* it is the number of threads handed out, and no thread is idle and handed
\* out at the same time.
LentCounted == allocCount = Cardinality(lent) /\ pool \cap lent = {}

\* However often the limit is changed: Release and SetThreadCount keep no
\* idle thread beyond the limit.
PoolFits == pool # {} => Size + allocCount <= maxCount

\* While the limit is only set by the first scheduler, and perhaps to 0 by the
\* pool's destructor, the threads that exist and those that may still be
\* created are no more than there are processors.
ThreadBound == Size + allocCount + yetToCreate <= HWThreads

\* JobScheduler.h, CThreadPool: "The number of threads handed out to job
\* schedulers (allocCount) plus the number of threads still in the pool will
\* not exceed maxCount."  Checked where the limit is never reduced.
WithinMaxCount == Size + allocCount <= maxCount

\* The same for a limit that has been reduced, after which threads handed out
\* earlier may be surplus: no further thread is handed out beyond the limit.
LendsWithinMaxCount ==
  [][allocCount' > allocCount => Size' + allocCount' <= maxCount]_poolVars

=============================================================================
