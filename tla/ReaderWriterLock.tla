-------------------------- MODULE ReaderWriterLock --------------------------
(***************************************************************************)
(* CReaderWriterLock, the re-entrant reader-writer lock of the status      *)
(* cache and of the list controls, on top of the counters and OS events of *)
(* CReaderWriterLockNonReentrance.                                         *)
(* What happens inside the critical section is one action; a thread that   *)
(* waits for an event is outside of it, as is one whose wait has just      *)
(* ended, with or without a timeout.                                       *)
(***************************************************************************)
EXTENDS Naturals, FiniteSets

CONSTANTS
  Thread,    \* threads that use the lock
  Timed,     \* SUBSET BOOLEAN: calls without and with a timeout are made
  MaxDepth   \* bound: nested calls of one kind by one thread

ASSUME LockAssumption ==
  IsFiniteSet(Thread) /\ Timed \subseteq BOOLEAN /\ MaxDepth \in Nat \ {0}

VARIABLES
  writers,         \* m_iNumOfWriter: writers that are in or wait
  readers,         \* m_iNumOfReaderEntered
  readersWaiting,  \* m_iNumOfReaderWaiting
  readEvent,       \* m_hSafeToReadEvent, manual reset
  writeEvent,      \* m_hSafeToWriteEvent, automatic reset
  map,             \* m_map: [Thread -> nested calls as reader and as writer]
  pc,              \* where a thread is
  timed            \* its call has a timeout

vars == <<writers, readers, readersWaiting, readEvent, writeEvent, map, pc, timed>>

Init ==
  /\ writers = 0 /\ readers = 0 /\ readersWaiting = 0
  /\ readEvent = "null" /\ writeEvent = "null"
  /\ map = [t \in Thread |-> [r |-> 0, w |-> 0]]
  /\ pc = [t \in Thread |-> "idle"]
  /\ timed = [t \in Thread |-> FALSE]

Known(t) == map[t].r > 0 \/ map[t].w > 0

Go(t, label) == pc' = [pc EXCEPT ![t] = label]

-----------------------------------------------------------------------------
(* CReaderWriterLockNonReentrance *)

\* _ReaderWait up to the wait ...
ReaderWait ==
  /\ readersWaiting' = readersWaiting + 1
  /\ readEvent' = IF readEvent = "null" THEN "reset" ELSE readEvent

\* ... and after it.
ReaderWaited ==
  /\ readersWaiting' = readersWaiting - 1
  /\ readEvent' = IF readersWaiting = 1 THEN "null" ELSE readEvent

ReaderRelease ==
  /\ readers' = readers - 1
  /\ writeEvent' = IF readers = 1 /\ writeEvent # "null" THEN "set" ELSE writeEvent

\* _WriterWaitAndLeaveCSIfSuccess up to the wait
WriterWait ==
  /\ writers' = writers + 1
  /\ readEvent' = IF writers = 0 /\ readEvent # "null" THEN "reset" ELSE readEvent
  /\ writeEvent' = IF writeEvent = "null" THEN "reset" ELSE writeEvent

\* fault: the event is not closed
WriterRelease_KeepEvent(downgrade) ==
  /\ readers' = IF downgrade THEN readers + 1 ELSE readers
  /\ writers' = writers - 1
  /\ readEvent' = IF writers = 1 /\ readEvent # "null" THEN "set" ELSE readEvent
  /\ writeEvent' = IF writers = 1 \/ downgrade THEN writeEvent ELSE "set"

\* fault: the next writer is not woken
WriterRelease_NoSignal(downgrade) ==
  /\ readers' = IF downgrade THEN readers + 1 ELSE readers
  /\ writers' = writers - 1
  /\ readEvent' = IF writers = 1 /\ readEvent # "null" THEN "set" ELSE readEvent
  /\ writeEvent' = IF writers = 1 THEN "null" ELSE writeEvent

WriterRelease(downgrade) ==
  /\ readers' = IF downgrade THEN readers + 1 ELSE readers
  /\ writers' = writers - 1
  /\ IF writers = 1
       THEN /\ writeEvent' = "null"
            /\ readEvent' = IF readEvent # "null" THEN "set" ELSE readEvent
       ELSE /\ writeEvent' = IF downgrade THEN writeEvent ELSE "set"
            /\ UNCHANGED readEvent

-----------------------------------------------------------------------------
(* CReaderWriterLock: readers *)

\* fault: readers join readers although writers wait
AcquireReaderLock_Barging(t, withTimeout) ==
  /\ pc[t] = "idle" /\ ~Known(t)
  /\ writers = 0 \/ readers # 0
  /\ readers' = readers + 1
  /\ map' = [map EXCEPT ![t].r = 1]
  /\ UNCHANGED <<writers, readersWaiting, readEvent, writeEvent, pc, timed>>

AcquireReaderLock(t, withTimeout) ==
  /\ pc[t] = "idle"
  /\ \/ /\ Known(t) /\ map[t].r < MaxDepth
        /\ map' = [map EXCEPT ![t].r = @ + 1]
        /\ UNCHANGED <<writers, readers, readersWaiting, readEvent, writeEvent,
                       pc, timed>>
     \/ /\ ~Known(t) /\ writers = 0
        /\ readers' = readers + 1
        /\ map' = [map EXCEPT ![t].r = 1]
        /\ UNCHANGED <<writers, readersWaiting, readEvent, writeEvent, pc, timed>>
     \/ /\ ~Known(t) /\ writers # 0
        /\ ReaderWait
        /\ Go(t, "r.wait")
        /\ timed' = [timed EXCEPT ![t] = withTimeout]
        /\ UNCHANGED <<writers, readers, writeEvent, map>>

\* WaitForSingleObject returns, because of the event or the timeout.
ReaderWake(t) ==
  /\ \/ pc[t] = "r.wait" /\ readEvent = "set" /\ Go(t, "r.woken")
     \/ pc[t] = "r.wait" /\ timed[t] /\ Go(t, "r.expired")
     \/ pc[t] = "u.reader" /\ readEvent = "set" /\ Go(t, "u.woken")
  /\ UNCHANGED <<writers, readers, readersWaiting, readEvent, writeEvent, map,
                 timed>>

\* fault: the writers are not looked at again after the wait
ReaderEnter_NoRecheck(t) ==
  /\ pc[t] \in {"r.woken", "r.expired"}
  /\ readers' = readers + 1
  /\ map' = [map EXCEPT ![t].r = 1]
  /\ ReaderWaited
  /\ Go(t, "idle")
  /\ UNCHANGED <<writers, writeEvent, timed>>

\* Back in the critical section: it is safe to be a reader ...
ReaderEnter(t) ==
  /\ pc[t] \in {"r.woken", "r.expired"} /\ writers = 0
  /\ readers' = readers + 1
  /\ map' = [map EXCEPT ![t].r = 1]
  /\ ReaderWaited
  /\ Go(t, "idle")
  /\ UNCHANGED <<writers, writeEvent, timed>>

\* ... or a writer has just entered: try again, or find that it is too late,
\* in which case nobody looks at the writers again.
ReaderRetry(t) ==
  /\ pc[t] = "r.woken" /\ writers # 0
  /\ \/ Go(t, "r.wait")
     \/ timed[t] /\ Go(t, "r.late")
  /\ UNCHANGED <<writers, readers, readersWaiting, readEvent, writeEvent, map,
                 timed>>

ReaderGiveUp(t) ==
  /\ \/ pc[t] = "r.expired" /\ writers # 0
     \/ pc[t] = "r.late"
  /\ ReaderWaited
  /\ Go(t, "idle")
  /\ UNCHANGED <<writers, readers, writeEvent, map, timed>>

ReleaseReaderLock(t) ==
  /\ pc[t] = "idle" /\ map[t].r > 0
  /\ map' = [map EXCEPT ![t].r = @ - 1]
  /\ IF map[t].r = 1 /\ map[t].w = 0
       THEN ReaderRelease
       ELSE UNCHANGED <<readers, writeEvent>>
  /\ UNCHANGED <<writers, readersWaiting, readEvent, pc, timed>>

-----------------------------------------------------------------------------
(* CReaderWriterLock: writers *)

\* fault: a reader is upgraded next to other readers
AcquireWriterLock_Eager(t) ==
  /\ pc[t] = "idle" /\ map[t].w < MaxDepth
  /\ IF map[t].r > 0 THEN readers # 0 ELSE writers = 0 /\ readers = 0
  /\ readers' = IF map[t].r > 0 THEN readers - 1 ELSE readers
  /\ writers' = writers + 1
  /\ map' = [map EXCEPT ![t].w = @ + 1]
  /\ UNCHANGED <<readersWaiting, readEvent, writeEvent, pc, timed>>

\* A thread that is already a writer, that is the only reader, or that finds
\* the lock free.
AcquireWriterLock(t) ==
  /\ pc[t] = "idle" /\ map[t].w < MaxDepth
  /\ \/ /\ map[t].w > 0
        /\ UNCHANGED <<writers, readers>>
     \/ /\ map[t].w = 0 /\ map[t].r > 0 /\ readers = 1
        /\ readers' = 0
        /\ writers' = writers + 1
     \/ /\ ~Known(t) /\ writers = 0 /\ readers = 0
        /\ writers' = writers + 1
        /\ UNCHANGED readers
  /\ map' = [map EXCEPT ![t].w = @ + 1]
  /\ UNCHANGED <<readersWaiting, readEvent, writeEvent, pc, timed>>

\* A thread that has to wait; a reader gives up its lock first.
AwaitWriterLock(t, withTimeout) ==
  /\ pc[t] = "idle" /\ map[t].w = 0
  /\ \/ /\ map[t].r > 0 /\ readers # 1
        /\ readers' = readers - 1
        /\ Go(t, "u.wait")
     \/ /\ ~Known(t) /\ ~(writers = 0 /\ readers = 0)
        /\ Go(t, "w.wait")
        /\ UNCHANGED readers
  /\ WriterWait
  /\ timed' = [timed EXCEPT ![t] = withTimeout]
  /\ UNCHANGED <<readersWaiting, map>>

\* The event lets one thread pass and is reset.
WriterWake(t) ==
  /\ writeEvent = "set"
  /\ \/ pc[t] = "w.wait" /\ Go(t, "w.granted")
     \/ pc[t] = "u.wait" /\ Go(t, "u.granted")
  /\ writeEvent' = "reset"
  /\ UNCHANGED <<writers, readers, readersWaiting, readEvent, map, timed>>

WriterTimeout(t) ==
  /\ timed[t]
  /\ \/ pc[t] = "w.wait" /\ Go(t, "w.expired")
     \/ pc[t] = "u.wait" /\ Go(t, "u.expired")
  /\ UNCHANGED <<writers, readers, readersWaiting, readEvent, writeEvent, map,
                 timed>>

\* After a timeout nobody has the lock: still safe to be the writer.
WriterRescue(t) ==
  /\ writers = 1 /\ readers = 0
  /\ \/ pc[t] = "w.expired" /\ Go(t, "w.granted")
     \/ pc[t] = "u.expired" /\ Go(t, "u.granted")
  /\ writeEvent' = "null"
  /\ UNCHANGED <<writers, readers, readersWaiting, readEvent, map, timed>>

\* After a timeout others have the lock.  The last waiting writer lets the
\* readers in again, and a thread that wanted to be upgraded becomes a reader
\* again.
WriterGiveUp(t) ==
  /\ pc[t] \in {"w.expired", "u.expired"}
  /\ writers = 1 /\ readers # 0
  /\ writers' = 0
  /\ writeEvent' = "null"
  /\ readEvent' = IF readEvent # "null" THEN "set" ELSE readEvent
  /\ readers' = IF pc[t] = "u.expired" THEN readers + 1 ELSE readers
  /\ Go(t, "idle")
  /\ UNCHANGED <<readersWaiting, map, timed>>

\* fault: the writer that timed out is still counted
WriterStepBack_Counted(t) ==
  /\ pc[t] = "w.expired" /\ writers # 1
  /\ Go(t, "idle")
  /\ UNCHANGED <<writers, readers, readersWaiting, readEvent, writeEvent, map,
                 timed>>

\* There are other writers: a thread that wanted to be upgraded has to wait
\* until it can be a reader again, without a timeout.
WriterStepBack(t) ==
  /\ writers # 1
  /\ writers' = writers - 1
  /\ \/ /\ pc[t] = "w.expired" /\ Go(t, "idle")
        /\ UNCHANGED <<readersWaiting, readEvent>>
     \/ /\ pc[t] = "u.expired" /\ Go(t, "u.reader")
        /\ ReaderWait
  /\ UNCHANGED <<readers, writeEvent, map, timed>>

\* The end of that wait.  A single reader becomes the writer after all.
UpgradeFallback(t) ==
  /\ pc[t] = "u.woken"
  /\ IF writers # 0
       THEN Go(t, "u.reader") /\ UNCHANGED <<writers, readers, readersWaiting, readEvent>>
       ELSE /\ ReaderWaited
            /\ IF readers = 0
                 THEN writers' = 1 /\ readers' = 0 /\ Go(t, "u.granted")
                 ELSE readers' = readers + 1 /\ Go(t, "idle") /\ UNCHANGED writers
  /\ UNCHANGED <<writeEvent, map, timed>>

\* The critical section is entered once more to take note of the new writer.
WriterEnter(t) ==
  /\ pc[t] \in {"w.granted", "u.granted"}
  /\ map' = [map EXCEPT ![t].w = @ + 1]
  /\ Go(t, "idle")
  /\ UNCHANGED <<writers, readers, readersWaiting, readEvent, writeEvent, timed>>

ReleaseWriterLock(t) ==
  /\ pc[t] = "idle" /\ map[t].w > 0
  /\ map' = [map EXCEPT ![t].w = @ - 1]
  /\ IF map[t].w = 1
       THEN WriterRelease(map[t].r > 0)
       ELSE UNCHANGED <<writers, readers, readEvent, writeEvent>>
  /\ UNCHANGED <<readersWaiting, pc, timed>>

ReleaseAllLocks(t) ==
  /\ pc[t] = "idle" /\ Known(t)
  /\ map' = [map EXCEPT ![t] = [r |-> 0, w |-> 0]]
  /\ IF map[t].w > 0
       THEN WriterRelease(FALSE)
       ELSE ReaderRelease /\ UNCHANGED <<writers, readEvent>>
  /\ UNCHANGED <<readersWaiting, pc, timed>>

-----------------------------------------------------------------------------
\* Steps of a call that has been begun.
Proceed(t) ==
  \/ ReaderWake(t) \/ ReaderEnter(t) \/ ReaderRetry(t) \/ ReaderGiveUp(t)
  \/ WriterTimeout(t) \/ WriterRescue(t) \/ WriterGiveUp(t) \/ WriterStepBack(t)
  \/ UpgradeFallback(t) \/ WriterEnter(t)

Next ==
  \E t \in Thread :
    \/ \E b \in Timed : AcquireReaderLock(t, b) \/ AwaitWriterLock(t, b)
    \/ AcquireWriterLock(t) \/ WriterWake(t) \/ Proceed(t)
    \/ ReleaseReaderLock(t) \/ ReleaseWriterLock(t) \/ ReleaseAllLocks(t)

\* Threads go on with their calls.  Locks are held by guard objects
\* (CAutoReadLock, CAutoWriteLock): a thread that is not waiting unwinds all
\* of its guards in the end, which amounts to ReleaseAllLocks.  The event
\* serves every thread that keeps waiting for it.
Spec ==
  /\ Init /\ [][Next]_vars
  /\ \A t \in Thread : /\ WF_vars(Proceed(t)) /\ WF_vars(ReleaseAllLocks(t))
                       /\ SF_vars(WriterWake(t))

-----------------------------------------------------------------------------
(* Properties *)

Label == {"idle", "r.wait", "r.woken", "r.expired", "r.late",
          "w.wait", "w.expired", "w.granted",
          "u.wait", "u.expired", "u.granted", "u.reader", "u.woken"}

TypeOK ==
  /\ writers \in Nat /\ readers \in Nat /\ readersWaiting \in Nat
  /\ readEvent \in {"null", "reset", "set"}
  /\ writeEvent \in {"null", "reset", "set"}
  /\ map \in [Thread -> [r : Nat, w : Nat]]
  /\ pc \in [Thread -> Label]
  /\ timed \in [Thread -> BOOLEAN]

\* Who has what.  A thread in an upgrade is still in the map as a reader.
Writing == {t \in Thread : map[t].w > 0 \/ pc[t] \in {"w.granted", "u.granted"}}
Reading == {t \in Thread : map[t].r > 0 /\ map[t].w = 0 /\ pc[t] = "idle"}
WaitingToWrite == {t \in Thread : pc[t] \in {"w.wait", "w.expired", "u.wait", "u.expired"}}
WaitingToRead == {t \in Thread : pc[t] \in {"r.wait", "r.woken", "r.expired",
                                            "r.late", "u.reader", "u.woken"}}

\* ReaderWriterLock.h: "At any given time, it allows either concurrent read
\* access for multiple threads, or write access for a single thread", through
\* upgrades, downgrades and timeouts.
Exclusive ==
  /\ \A t, u \in Writing : t = u
  /\ Writing # {} => Reading = {}

\* The counters on which every decision is based: readers that have given
\* their lock up for an upgrade, and writers that timed out, are not counted.
CountsExact ==
  /\ readers = Cardinality(Reading)
  /\ writers = Cardinality(Writing) + Cardinality(WaitingToWrite)
  /\ readersWaiting = Cardinality(WaitingToRead)

\* ~CReaderWriterLockNonReentrance: the events have been closed when nobody
\* needs them, and nobody waits for an event that has been closed.
EventsManaged ==
  /\ readEvent = "null" <=> WaitingToRead = {}
  /\ writeEvent = "null" => WaitingToWrite = {}
  /\ writers = 0 => writeEvent = "null"

\* Nobody sleeps next to a free lock: if neither readers nor writers are in,
\* the writers that wait have their signal, and if there are no writers at
\* all, the readers have theirs.
NoLostWakeup ==
  /\ Reading = {} /\ Writing = {} /\ WaitingToWrite # {} => writeEvent = "set"
  /\ writers = 0 /\ WaitingToRead # {} => readEvent = "set"

\* The promise, with the lock's state seen as who holds it.
Held == [t \in Thread |-> IF t \in Writing THEN "write"
                          ELSE IF t \in Reading THEN "read" ELSE "none"]
Lock == INSTANCE RWLockSpec WITH held <- Held
LockSpec == Lock!Spec

\* ReaderWriterLock.h: readers that have to queue help "protect writers
\* against indefinite blockage by readers": every call for a writer's lock
\* ends, also one for an upgrade, unless its timeout forces the thread to wait
\* until it can be a reader again.
WriterGetsIn ==
  \A t \in Thread : pc[t] \in {"w.wait", "u.wait"} ~> pc[t] \in {"idle", "u.reader"}

=============================================================================
