----------------------- MODULE ReaderWriterLock_proofs -----------------------
(***************************************************************************)
(* CReaderWriterLock: mutual exclusion of writers, and of readers and      *)
(* writers, for any number of threads, any nesting and any timeouts.       *)
(***************************************************************************)
EXTENDS ReaderWriterLock, FiniteSetTheorems, TLAPS

\* A thread that waits for its first lock is not in the map; one that waits
\* for an upgrade is there as a reader.
Shape ==
  \A t \in Thread :
    /\ pc[t] \in {"r.wait", "r.woken", "r.expired", "r.late",
                  "w.wait", "w.expired", "w.granted"}
         => map[t].r = 0 /\ map[t].w = 0
    /\ pc[t] \in {"u.wait", "u.expired", "u.granted", "u.reader", "u.woken"}
         => map[t].r > 0 /\ map[t].w = 0

\* The signal for writers is only given when the lock is free, and the event
\* lives no longer than there are writers.
SignalInv ==
  /\ writeEvent = "set" => Reading = {} /\ Writing = {}
  /\ writers = 0 => writeEvent = "null"

Inv == TypeOK /\ Shape /\ CountsExact /\ Exclusive /\ SignalInv

-----------------------------------------------------------------------------
(* A step of thread t changes only what the sets say about t. *)

Frame(t) ==
  \A u \in Thread \ {t} : map'[u] = map[u] /\ pc'[u] = pc[u]

B(x) == IF x THEN 1 ELSE 0

\* Adding an element to a finite set, or removing it, changes its size by at
\* most one.
LEMMA OneElement ==
  ASSUME NEW S, NEW T, NEW t, IsFiniteSet(S), IsFiniteSet(T),
         S \ {t} = T \ {t}
  PROVE  Cardinality(T) + B(t \in S) = Cardinality(S) + B(t \in T)
<1>1. /\ Cardinality(S \ {t}) = IF t \in S THEN Cardinality(S) - 1 ELSE Cardinality(S)
      /\ Cardinality(T \ {t}) = IF t \in T THEN Cardinality(T) - 1 ELSE Cardinality(T)
  BY FS_RemoveElement
<1>2. Cardinality(S) \in Nat /\ Cardinality(T) \in Nat
  BY FS_CardinalityType
<1> QED  BY <1>1, <1>2 DEF B

\* Sets of threads are finite, in the present and in the next state.
LEMMA FiniteSets4 ==
  /\ IsFiniteSet(Writing) /\ IsFiniteSet(Reading)
  /\ IsFiniteSet(WaitingToWrite) /\ IsFiniteSet(WaitingToRead)
BY FS_Subset, LockAssumption
DEF LockAssumption, Writing, Reading, WaitingToWrite, WaitingToRead

\* What a step of t does to the sets and to their sizes.
LEMMA FrameSets ==
  ASSUME NEW t \in Thread, Frame(t)
  PROVE  /\ Writing' \ {t} = Writing \ {t}
         /\ Reading' \ {t} = Reading \ {t}
         /\ WaitingToWrite' \ {t} = WaitingToWrite \ {t}
         /\ WaitingToRead' \ {t} = WaitingToRead \ {t}
         /\ Cardinality(Writing') + B(t \in Writing)
              = Cardinality(Writing) + B(t \in Writing')
         /\ Cardinality(Reading') + B(t \in Reading)
              = Cardinality(Reading) + B(t \in Reading')
         /\ Cardinality(WaitingToWrite') + B(t \in WaitingToWrite)
              = Cardinality(WaitingToWrite) + B(t \in WaitingToWrite')
         /\ Cardinality(WaitingToRead') + B(t \in WaitingToRead)
              = Cardinality(WaitingToRead) + B(t \in WaitingToRead')
<1>1. Writing' \ {t} = Writing \ {t}
  BY DEF Frame, Writing
<1>2. Reading' \ {t} = Reading \ {t}
  BY DEF Frame, Reading
<1>3. WaitingToWrite' \ {t} = WaitingToWrite \ {t}
  BY DEF Frame, WaitingToWrite
<1>4. WaitingToRead' \ {t} = WaitingToRead \ {t}
  BY DEF Frame, WaitingToRead
<1>5. /\ IsFiniteSet(Writing') /\ IsFiniteSet(Reading')
      /\ IsFiniteSet(WaitingToWrite') /\ IsFiniteSet(WaitingToRead')
  BY FS_Subset, LockAssumption
  DEF LockAssumption, Writing, Reading, WaitingToWrite, WaitingToRead
<1>6. Cardinality(Writing') + B(t \in Writing) = Cardinality(Writing) + B(t \in Writing')
  BY <1>1, <1>5, FiniteSets4, OneElement
<1>7. Cardinality(Reading') + B(t \in Reading) = Cardinality(Reading) + B(t \in Reading')
  BY <1>2, <1>5, FiniteSets4, OneElement
<1>8. Cardinality(WaitingToWrite') + B(t \in WaitingToWrite)
        = Cardinality(WaitingToWrite) + B(t \in WaitingToWrite')
  BY <1>3, <1>5, FiniteSets4, OneElement
<1>9. Cardinality(WaitingToRead') + B(t \in WaitingToRead)
        = Cardinality(WaitingToRead) + B(t \in WaitingToRead')
  BY <1>4, <1>5, FiniteSets4, OneElement
<1> QED  BY <1>1, <1>2, <1>3, <1>4, <1>6, <1>7, <1>8, <1>9

\* What the counters tell about the sets.
LEMMA CountsTell ==
  ASSUME Inv
  PROVE  /\ Cardinality(Writing) \in Nat /\ Cardinality(Reading) \in Nat
         /\ Cardinality(WaitingToWrite) \in Nat /\ Cardinality(WaitingToRead) \in Nat
         /\ readers = 0 => Reading = {}
         /\ writers = 0 => Writing = {} /\ WaitingToWrite = {}
         /\ \A t \in Reading : readers > 0 /\ (readers = 1 => Reading = {t})
         /\ \A t \in Writing : writers > 0 /\ Writing = {t} /\ Reading = {}
         /\ \A t \in WaitingToWrite : writers > 0 /\ (writers = 1 => Writing = {})
         /\ \A t \in WaitingToRead : readersWaiting > 0
<1>1. /\ Cardinality(Writing) \in Nat /\ Cardinality(Reading) \in Nat
      /\ Cardinality(WaitingToWrite) \in Nat /\ Cardinality(WaitingToRead) \in Nat
  BY FiniteSets4, FS_CardinalityType
<1>2. /\ Cardinality(Writing) = 0 <=> Writing = {}
      /\ Cardinality(Reading) = 0 <=> Reading = {}
      /\ Cardinality(WaitingToWrite) = 0 <=> WaitingToWrite = {}
      /\ Cardinality(WaitingToRead) = 0 <=> WaitingToRead = {}
  BY FiniteSets4, FS_EmptySet
<1>3. Cardinality(Reading) = 1 => \E x : Reading = {x}
  BY FiniteSets4, FS_Singleton
<1>4. CountsExact /\ Exclusive  BY DEF Inv
<1>5. readers = 0 => Reading = {}
  BY <1>2, <1>4 DEF CountsExact
<1>6. writers = 0 => Writing = {} /\ WaitingToWrite = {}
  BY <1>1, <1>2, <1>4 DEF CountsExact
<1>7. \A t \in Reading : readers > 0 /\ (readers = 1 => Reading = {t})
  BY <1>1, <1>2, <1>3, <1>4 DEF CountsExact
<1>8. \A t \in Writing : writers > 0 /\ Writing = {t} /\ Reading = {}
  BY <1>1, <1>2, <1>4 DEF CountsExact, Exclusive
<1>9. \A t \in WaitingToWrite : writers > 0 /\ (writers = 1 => Writing = {})
  <2> SUFFICES ASSUME NEW t \in WaitingToWrite
               PROVE  writers > 0 /\ (writers = 1 => Writing = {})
    OBVIOUS
  <2>1. Cardinality(WaitingToWrite) > 0  BY <1>1, <1>2
  <2> QED  BY <1>1, <1>2, <1>4, <2>1 DEF CountsExact
<1>10. \A t \in WaitingToRead : readersWaiting > 0
  BY <1>1, <1>2, <1>4 DEF CountsExact
<1> QED  BY <1>1, <1>5, <1>6, <1>7, <1>8, <1>9, <1>10

\* A step of t keeps writers and readers apart if t becomes a writer only when
\* it is alone and a reader only when nobody else writes.
LEMMA ExclusiveStep ==
  ASSUME Inv, NEW t \in Thread, Frame(t),
         t \in Writing' => Writing \ {t} = {} /\ Reading \ {t} = {},
         t \in Reading' => Writing \ {t} = {} /\ t \notin Writing'
  PROVE  Exclusive'
<1>1. Writing' \ {t} = Writing \ {t} /\ Reading' \ {t} = Reading \ {t}
  BY FrameSets
<1>2. Exclusive  BY DEF Inv
<1>3. \A u, v \in Writing' : u = v
  BY <1>1, <1>2 DEF Exclusive
<1>4. Writing' # {} => Reading' = {}
  <2> SUFFICES ASSUME NEW u \in Writing', NEW v \in Reading' PROVE FALSE
    OBVIOUS
  <2>1. CASE u = t /\ v = t  BY <2>1
  <2>2. CASE u = t /\ v # t  BY <1>1, <2>2
  <2>3. CASE u # t /\ v = t  BY <1>1, <2>3
  <2>4. CASE u # t /\ v # t  BY <1>1, <1>2, <2>4 DEF Exclusive
  <2> QED  BY <2>1, <2>2, <2>3, <2>4
<1> QED  BY <1>3, <1>4 DEF Exclusive

-----------------------------------------------------------------------------
(* The obligations of a step of t: the counters follow t's moves, t becomes  *)
(* a reader or a writer only when it may, and the signal is not left behind. *)

Books(t) ==
  /\ readers' + B(t \in Reading) = readers + B(t \in Reading')
  /\ writers' + B(t \in Writing) + B(t \in WaitingToWrite)
       = writers + B(t \in Writing') + B(t \in WaitingToWrite')
  /\ readersWaiting' + B(t \in WaitingToRead)
       = readersWaiting + B(t \in WaitingToRead')

Admitted(t) ==
  /\ t \in Writing' => Writing \ {t} = {} /\ Reading \ {t} = {}
  /\ t \in Reading' => Writing \ {t} = {} /\ t \notin Writing'

Signalled(t) ==
  /\ writeEvent' = "set" => /\ t \notin Reading' /\ t \notin Writing'
                            /\ Reading \ {t} = {} /\ Writing \ {t} = {}
  /\ writers' = 0 => writeEvent' = "null"

\* A step of t that is admitted is a step of the abstract lock.
LEMMA HeldStep ==
  ASSUME NEW t \in Thread, Frame(t), Admitted(t)
  PROVE  [Lock!Next]_Held
<1>1. \A u \in Thread \ {t} : Held'[u] = Held[u]
  BY FrameSets DEF Held
<1>2. Held' = [Held EXCEPT ![t] = Held'[t]]
  BY <1>1 DEF Held
<1>3. CASE Held'[t] = "write" /\ Held[t] # "write"
  <2>1. \A u \in Thread \ {t} : Held[u] = "none"
    BY <1>3 DEF Held, Admitted
  <2> QED  BY <1>2, <1>3, <2>1 DEF Lock!Next, Lock!Write, Lock!Become
<1>4. CASE Held'[t] = "read" /\ Held[t] = "none"
  <2>1. \A u \in Thread : Held[u] # "write"
    BY <1>4 DEF Held, Admitted
  <2> QED  BY <1>2, <1>4, <2>1 DEF Lock!Next, Lock!Read, Lock!Become
<1>5. CASE Held'[t] = "read" /\ Held[t] = "write"
  BY <1>2, <1>5 DEF Lock!Next, Lock!Downgrade, Lock!Become
<1>6. CASE Held'[t] = "none" /\ Held[t] # "none"
  BY <1>2, <1>6 DEF Lock!Next, Lock!Release, Lock!Become
<1>7. CASE Held'[t] = Held[t]
  BY <1>2, <1>7 DEF Held
<1>8. Held[t] \in {"none", "read", "write"} /\ Held'[t] \in {"none", "read", "write"}
  BY DEF Held
<1> QED  BY <1>3, <1>4, <1>5, <1>6, <1>7, <1>8

LEMMA StepInv ==
  ASSUME Inv, NEW t \in Thread, Frame(t), TypeOK', Shape',
         Books(t), Admitted(t), Signalled(t)
  PROVE  Inv' /\ [Lock!Next]_Held
<1>1. Exclusive'
  BY ExclusiveStep DEF Admitted
<1>2. SignalInv'
  BY FrameSets DEF SignalInv, Signalled
<1>3. /\ IsFiniteSet(Writing') /\ IsFiniteSet(Reading')
      /\ IsFiniteSet(WaitingToWrite') /\ IsFiniteSet(WaitingToRead')
  BY FS_Subset, LockAssumption
  DEF LockAssumption, Writing, Reading, WaitingToWrite, WaitingToRead
<1>4. /\ Cardinality(Writing') \in Nat /\ Cardinality(Reading') \in Nat
      /\ Cardinality(WaitingToWrite') \in Nat /\ Cardinality(WaitingToRead') \in Nat
  BY <1>3, FS_CardinalityType
<1>5. CountsExact'
  <2>1. /\ B(t \in Writing) \in Nat /\ B(t \in Writing') \in Nat
        /\ B(t \in Reading) \in Nat /\ B(t \in Reading') \in Nat
        /\ B(t \in WaitingToWrite) \in Nat /\ B(t \in WaitingToWrite') \in Nat
        /\ B(t \in WaitingToRead) \in Nat /\ B(t \in WaitingToRead') \in Nat
    BY DEF B
  <2>2. CountsExact /\ TypeOK  BY DEF Inv
  <2>3. readers' = Cardinality(Reading')
    BY <1>4, <2>1, <2>2, FrameSets, CountsTell DEF Books, CountsExact, TypeOK
  <2>4. writers' = Cardinality(Writing') + Cardinality(WaitingToWrite')
    BY <1>4, <2>1, <2>2, FrameSets, CountsTell DEF Books, CountsExact, TypeOK
  <2>5. readersWaiting' = Cardinality(WaitingToRead')
    BY <1>4, <2>1, <2>2, FrameSets, CountsTell DEF Books, CountsExact, TypeOK
  <2> QED  BY <2>3, <2>4, <2>5 DEF CountsExact
<1> QED  BY <1>1, <1>2, <1>5, HeldStep DEF Inv

\* Where a thread is, in terms of its own state.
LEMMA Members ==
  ASSUME NEW t \in Thread
  PROVE  /\ t \in Writing <=> map[t].w > 0 \/ pc[t] \in {"w.granted", "u.granted"}
         /\ t \in Reading <=> map[t].r > 0 /\ map[t].w = 0 /\ pc[t] = "idle"
         /\ t \in WaitingToWrite <=> pc[t] \in {"w.wait", "w.expired", "u.wait", "u.expired"}
         /\ t \in WaitingToRead <=> pc[t] \in {"r.wait", "r.woken", "r.expired",
                                               "r.late", "u.reader", "u.woken"}
         /\ t \in Writing' <=> map'[t].w > 0 \/ pc'[t] \in {"w.granted", "u.granted"}
         /\ t \in Reading' <=> map'[t].r > 0 /\ map'[t].w = 0 /\ pc'[t] = "idle"
         /\ t \in WaitingToWrite' <=> pc'[t] \in {"w.wait", "w.expired", "u.wait", "u.expired"}
         /\ t \in WaitingToRead' <=> pc'[t] \in {"r.wait", "r.woken", "r.expired",
                                               "r.late", "u.reader", "u.woken"}
BY DEF Writing, Reading, WaitingToWrite, WaitingToRead

\* A new reader finds no writers.
LEMMA AcquireReaderLockInv ==
  ASSUME Inv, NEW t \in Thread, NEW b \in Timed, AcquireReaderLock(t, b)
  PROVE  Inv' /\ [Lock!Next]_Held
<1> USE LockAssumption, Members, CountsTell DEF LockAssumption, TypeOK, Shape, AcquireReaderLock, Go, ReaderWait, Known
<1>0. TypeOK /\ Shape /\ SignalInv  BY DEF Inv
<1>1. Frame(t) /\ TypeOK' /\ Shape'  BY <1>0 DEF Frame, Label
<1>2. Books(t)  BY <1>0 DEF Books, B
<1>3. Admitted(t)  BY <1>0 DEF Admitted
<1>4. Signalled(t)  BY <1>0 DEF Signalled, SignalInv
<1> QED  BY <1>1, <1>2, <1>3, <1>4, StepInv

\* A wait ends; nobody gets in yet.
LEMMA ReaderWakeInv ==
  ASSUME Inv, NEW t \in Thread, ReaderWake(t)
  PROVE  Inv' /\ [Lock!Next]_Held
<1> USE LockAssumption, Members, CountsTell DEF LockAssumption, TypeOK, Shape, ReaderWake, Go
<1>0. TypeOK /\ Shape /\ SignalInv  BY DEF Inv
<1>1. Frame(t) /\ TypeOK' /\ Shape'  BY <1>0 DEF Frame, Label
<1>2. Books(t)  BY <1>0 DEF Books, B
<1>3. Admitted(t)  BY <1>0 DEF Admitted
<1>4. Signalled(t)  BY <1>0 DEF Signalled, SignalInv
<1> QED  BY <1>1, <1>2, <1>3, <1>4, StepInv

\* A reader enters after it has looked at the writers again.
LEMMA ReaderEnterInv ==
  ASSUME Inv, NEW t \in Thread, ReaderEnter(t)
  PROVE  Inv' /\ [Lock!Next]_Held
<1> USE LockAssumption, Members, CountsTell DEF LockAssumption, TypeOK, Shape, ReaderEnter, Go, ReaderWaited
<1>0. TypeOK /\ Shape /\ SignalInv  BY DEF Inv
<1>1. Frame(t) /\ TypeOK' /\ Shape'  BY <1>0 DEF Frame, Label
<1>2. Books(t)
  <2>1. t \notin Writing /\ t \notin Reading /\ t \notin WaitingToWrite /\ t \in WaitingToRead
    BY <1>0
  <2>2. t \notin Writing' /\ t \in Reading' /\ t \notin WaitingToWrite' /\ t \notin WaitingToRead'
    BY <1>0
  <2> QED  BY <1>0, <2>1, <2>2 DEF Books, B
<1>3. Admitted(t)  BY <1>0 DEF Admitted
<1>4. Signalled(t)  BY <1>0 DEF Signalled, SignalInv
<1> QED  BY <1>1, <1>2, <1>3, <1>4, StepInv

\* A reader that is not let in keeps waiting.
LEMMA ReaderRetryInv ==
  ASSUME Inv, NEW t \in Thread, ReaderRetry(t)
  PROVE  Inv' /\ [Lock!Next]_Held
<1> USE LockAssumption, Members, CountsTell DEF LockAssumption, TypeOK, Shape, ReaderRetry, Go
<1>0. TypeOK /\ Shape /\ SignalInv  BY DEF Inv
<1>1. Frame(t) /\ TypeOK' /\ Shape'  BY <1>0 DEF Frame, Label
<1>2. Books(t)  BY <1>0 DEF Books, B
<1>3. Admitted(t)  BY <1>0 DEF Admitted
<1>4. Signalled(t)  BY <1>0 DEF Signalled, SignalInv
<1> QED  BY <1>1, <1>2, <1>3, <1>4, StepInv

\* A reader that gives up is no longer counted.
LEMMA ReaderGiveUpInv ==
  ASSUME Inv, NEW t \in Thread, ReaderGiveUp(t)
  PROVE  Inv' /\ [Lock!Next]_Held
<1> USE LockAssumption, Members, CountsTell DEF LockAssumption, TypeOK, Shape, ReaderGiveUp, Go, ReaderWaited
<1>0. TypeOK /\ Shape /\ SignalInv  BY DEF Inv
<1>1. Frame(t) /\ TypeOK' /\ Shape'  BY <1>0 DEF Frame, Label
<1>2. Books(t)  BY <1>0 DEF Books, B
<1>3. Admitted(t)  BY <1>0 DEF Admitted
<1>4. Signalled(t)  BY <1>0 DEF Signalled, SignalInv
<1> QED  BY <1>1, <1>2, <1>3, <1>4, StepInv

\* The last reader signals a free lock; a nested lock is no reader.
LEMMA ReleaseReaderLockInv ==
  ASSUME Inv, NEW t \in Thread, ReleaseReaderLock(t)
  PROVE  Inv' /\ [Lock!Next]_Held
<1> USE LockAssumption, Members, CountsTell DEF LockAssumption, TypeOK, Shape, ReleaseReaderLock, ReaderRelease
<1>0. TypeOK /\ Shape /\ SignalInv  BY DEF Inv
<1>1. Frame(t) /\ TypeOK' /\ Shape'  BY <1>0 DEF Frame, Label
<1>2. Books(t)  BY <1>0 DEF Books, B
<1>3. Admitted(t)  BY <1>0 DEF Admitted
<1>4. Signalled(t)  BY <1>0 DEF Signalled, SignalInv
<1> QED  BY <1>1, <1>2, <1>3, <1>4, StepInv

\* A new writer is alone: readers = 1 means that it is the reader.
LEMMA AcquireWriterLockInv ==
  ASSUME Inv, NEW t \in Thread, AcquireWriterLock(t)
  PROVE  Inv' /\ [Lock!Next]_Held
<1> USE LockAssumption, Members, CountsTell DEF LockAssumption, TypeOK, Shape, AcquireWriterLock, Known
<1>0. TypeOK /\ Shape /\ SignalInv  BY DEF Inv
<1>1. Frame(t) /\ TypeOK' /\ Shape'  BY <1>0 DEF Frame, Label
<1>2. Books(t)  BY <1>0 DEF Books, B
<1>3. Admitted(t)  BY <1>0 DEF Admitted
<1>4. Signalled(t)  BY <1>0 DEF Signalled, SignalInv
<1> QED  BY <1>1, <1>2, <1>3, <1>4, StepInv

\* A reader gives up its lock before it waits.
LEMMA AwaitWriterLockInv ==
  ASSUME Inv, NEW t \in Thread, NEW b \in Timed, AwaitWriterLock(t, b)
  PROVE  Inv' /\ [Lock!Next]_Held
<1> USE LockAssumption, Members, CountsTell DEF LockAssumption, TypeOK, Shape, AwaitWriterLock, Go, WriterWait, Known
<1>0. TypeOK /\ Shape /\ SignalInv  BY DEF Inv
<1>1. Frame(t) /\ TypeOK' /\ Shape'  BY <1>0 DEF Frame, Label
<1>2. Books(t)  BY <1>0 DEF Books, B
<1>3. Admitted(t)  BY <1>0 DEF Admitted
<1>4. Signalled(t)  BY <1>0 DEF Signalled, SignalInv
<1> QED  BY <1>1, <1>2, <1>3, <1>4, StepInv

\* The signal means that the lock is free, and it is used up.
LEMMA WriterWakeInv ==
  ASSUME Inv, NEW t \in Thread, WriterWake(t)
  PROVE  Inv' /\ [Lock!Next]_Held
<1> USE LockAssumption, Members, CountsTell DEF LockAssumption, TypeOK, Shape, WriterWake, Go
<1>0. TypeOK /\ Shape /\ SignalInv  BY DEF Inv
<1>1. Frame(t) /\ TypeOK' /\ Shape'  BY <1>0 DEF Frame, Label
<1>2. Books(t)  BY <1>0 DEF Books, B
<1>3. Admitted(t)
  <2>1. Writing = {} /\ Reading = {}  BY <1>0 DEF SignalInv
  <2>2. t \notin Reading'  BY <1>0
  <2> QED  BY <2>1, <2>2 DEF Admitted
<1>4. Signalled(t)  BY <1>0 DEF Signalled, SignalInv
<1> QED  BY <1>1, <1>2, <1>3, <1>4, StepInv

\* A writer whose wait timed out is still counted.
LEMMA WriterTimeoutInv ==
  ASSUME Inv, NEW t \in Thread, WriterTimeout(t)
  PROVE  Inv' /\ [Lock!Next]_Held
<1> USE LockAssumption, Members, CountsTell DEF LockAssumption, TypeOK, Shape, WriterTimeout, Go
<1>0. TypeOK /\ Shape /\ SignalInv  BY DEF Inv
<1>1. Frame(t) /\ TypeOK' /\ Shape'  BY <1>0 DEF Frame, Label
<1>2. Books(t)  BY <1>0 DEF Books, B
<1>3. Admitted(t)  BY <1>0 DEF Admitted
<1>4. Signalled(t)  BY <1>0 DEF Signalled, SignalInv
<1> QED  BY <1>1, <1>2, <1>3, <1>4, StepInv

\* The only counted writer is the one that timed out, so nobody writes.
LEMMA WriterRescueInv ==
  ASSUME Inv, NEW t \in Thread, WriterRescue(t)
  PROVE  Inv' /\ [Lock!Next]_Held
<1> USE LockAssumption, Members, CountsTell DEF LockAssumption, TypeOK, Shape, WriterRescue, Go
<1>0. TypeOK /\ Shape /\ SignalInv  BY DEF Inv
<1>1. Frame(t) /\ TypeOK' /\ Shape'  BY <1>0 DEF Frame, Label
<1>2. Books(t)  BY <1>0 DEF Books, B
<1>3. Admitted(t)  BY <1>0 DEF Admitted
<1>4. Signalled(t)  BY <1>0 DEF Signalled, SignalInv
<1> QED  BY <1>1, <1>2, <1>3, <1>4, StepInv

\* The same count lets a thread become a reader again.
LEMMA WriterGiveUpInv ==
  ASSUME Inv, NEW t \in Thread, WriterGiveUp(t)
  PROVE  Inv' /\ [Lock!Next]_Held
<1> USE LockAssumption, Members, CountsTell DEF LockAssumption, TypeOK, Shape, WriterGiveUp, Go
<1>0. TypeOK /\ Shape /\ SignalInv  BY DEF Inv
<1>1. Frame(t) /\ TypeOK' /\ Shape'  BY <1>0 DEF Frame, Label
<1>2. Books(t)  BY <1>0 DEF Books, B
<1>3. Admitted(t)  BY <1>0 DEF Admitted
<1>4. Signalled(t)  BY <1>0 DEF Signalled, SignalInv
<1> QED  BY <1>1, <1>2, <1>3, <1>4, StepInv

\* With other writers around, the thread waits as a reader.
LEMMA WriterStepBackInv ==
  ASSUME Inv, NEW t \in Thread, WriterStepBack(t)
  PROVE  Inv' /\ [Lock!Next]_Held
<1> USE LockAssumption, Members, CountsTell DEF LockAssumption, TypeOK, Shape, WriterStepBack, Go, ReaderWait
<1>0. TypeOK /\ Shape /\ SignalInv  BY DEF Inv
<1>1. Frame(t) /\ TypeOK' /\ Shape'  BY <1>0 DEF Frame, Label
<1>2. Books(t)  BY <1>0 DEF Books, B
<1>3. Admitted(t)  BY <1>0 DEF Admitted
<1>4. Signalled(t)  BY <1>0 DEF Signalled, SignalInv
<1> QED  BY <1>1, <1>2, <1>3, <1>4, StepInv

\* Without writers and readers it becomes the writer.
LEMMA UpgradeFallbackInv ==
  ASSUME Inv, NEW t \in Thread, UpgradeFallback(t)
  PROVE  Inv' /\ [Lock!Next]_Held
<1> USE LockAssumption, Members, CountsTell DEF LockAssumption, TypeOK, Shape, UpgradeFallback, Go, ReaderWaited
<1>0. TypeOK /\ Shape /\ SignalInv  BY DEF Inv
<1>1. Frame(t) /\ TypeOK' /\ Shape'  BY <1>0 DEF Frame, Label
<1>2. Books(t)
  <2>1. t \notin Writing /\ t \notin Reading /\ t \notin WaitingToWrite /\ t \in WaitingToRead
    BY <1>0
  <2>2. t \notin WaitingToWrite'  BY <1>0
  <2>3. CASE writers # 0
    <3>1. t \notin Writing' /\ t \notin Reading' /\ t \in WaitingToRead'  BY <1>0, <2>3
    <3> QED  BY <1>0, <2>1, <2>2, <2>3, <3>1 DEF Books, B
  <2>4. CASE writers = 0 /\ readers = 0
    <3>1. t \in Writing' /\ t \notin Reading' /\ t \notin WaitingToRead'  BY <1>0, <2>4
    <3> QED  BY <1>0, <2>1, <2>2, <2>4, <3>1 DEF Books, B
  <2>5. CASE writers = 0 /\ readers # 0
    <3>1. t \notin Writing' /\ t \in Reading' /\ t \notin WaitingToRead'  BY <1>0, <2>5
    <3> QED  BY <1>0, <2>1, <2>2, <2>5, <3>1 DEF Books, B
  <2> QED  BY <2>3, <2>4, <2>5
<1>3. Admitted(t)  BY <1>0 DEF Admitted
<1>4. Signalled(t)  BY <1>0 DEF Signalled, SignalInv
<1> QED  BY <1>1, <1>2, <1>3, <1>4, StepInv

\* A writer that was let in takes note of it.
LEMMA WriterEnterInv ==
  ASSUME Inv, NEW t \in Thread, WriterEnter(t)
  PROVE  Inv' /\ [Lock!Next]_Held
<1> USE LockAssumption, Members, CountsTell DEF LockAssumption, TypeOK, Shape, WriterEnter, Go
<1>0. TypeOK /\ Shape /\ SignalInv  BY DEF Inv
<1>1. Frame(t) /\ TypeOK' /\ Shape'  BY <1>0 DEF Frame, Label
<1>2. Books(t)  BY <1>0 DEF Books, B
<1>3. Admitted(t)  BY <1>0 DEF Admitted
<1>4. Signalled(t)  BY <1>0 DEF Signalled, SignalInv
<1> QED  BY <1>1, <1>2, <1>3, <1>4, StepInv

\* A writer leaves or becomes a reader; it was alone.
LEMMA ReleaseWriterLockInv ==
  ASSUME Inv, NEW t \in Thread, ReleaseWriterLock(t)
  PROVE  Inv' /\ [Lock!Next]_Held
<1> USE LockAssumption, Members, CountsTell DEF LockAssumption, TypeOK, Shape, ReleaseWriterLock, WriterRelease
<1>0. TypeOK /\ Shape /\ SignalInv  BY DEF Inv
<1>1. Frame(t) /\ TypeOK' /\ Shape'  BY <1>0 DEF Frame, Label
<1>2. Books(t)  BY <1>0 DEF Books, B
<1>3. Admitted(t)  BY <1>0 DEF Admitted
<1>4. Signalled(t)  BY <1>0 DEF Signalled, SignalInv
<1> QED  BY <1>1, <1>2, <1>3, <1>4, StepInv

\* A thread leaves, whatever it was.
LEMMA ReleaseAllLocksInv ==
  ASSUME Inv, NEW t \in Thread, ReleaseAllLocks(t)
  PROVE  Inv' /\ [Lock!Next]_Held
<1> USE LockAssumption, Members, CountsTell DEF LockAssumption, TypeOK, Shape, ReleaseAllLocks, WriterRelease, ReaderRelease, Known
<1>0. TypeOK /\ Shape /\ SignalInv  BY DEF Inv
<1>1. Frame(t) /\ TypeOK' /\ Shape'  BY <1>0 DEF Frame, Label
<1>2. Books(t)  BY <1>0 DEF Books, B
<1>3. Admitted(t)  BY <1>0 DEF Admitted
<1>4. Signalled(t)  BY <1>0 DEF Signalled, SignalInv
<1> QED  BY <1>1, <1>2, <1>3, <1>4, StepInv

-----------------------------------------------------------------------------
LEMMA InitInv == Init => Inv
<1> SUFFICES ASSUME Init PROVE Inv  OBVIOUS
<1>1. TypeOK /\ Shape  BY DEF Init, TypeOK, Shape, Label
<1>2. Writing = {} /\ Reading = {} /\ WaitingToWrite = {} /\ WaitingToRead = {}
  BY DEF Init, Writing, Reading, WaitingToWrite, WaitingToRead
<1>3. CountsExact  BY <1>2, FS_EmptySet DEF CountsExact, Init
<1>4. Exclusive /\ SignalInv  BY <1>2 DEF Exclusive, SignalInv, Init
<1> QED  BY <1>1, <1>3, <1>4 DEF Inv

LEMMA NextInv == Inv /\ [Next]_vars => Inv' /\ [Lock!Next]_Held
<1> SUFFICES ASSUME Inv, [Next]_vars PROVE Inv' /\ [Lock!Next]_Held  OBVIOUS
<1>1. CASE UNCHANGED vars
  BY <1>1 DEF vars, Inv, TypeOK, Shape, CountsExact, Exclusive, SignalInv, Held,
              Writing, Reading, WaitingToWrite, WaitingToRead
<1>2. ASSUME NEW t \in Thread, NEW b \in Timed,
             AcquireReaderLock(t, b) \/ AwaitWriterLock(t, b)
      PROVE  Inv' /\ [Lock!Next]_Held
  BY <1>2, AcquireReaderLockInv, AwaitWriterLockInv
<1>3. ASSUME NEW t \in Thread, Proceed(t) PROVE Inv' /\ [Lock!Next]_Held
  BY <1>3, ReaderWakeInv, ReaderEnterInv, ReaderRetryInv, ReaderGiveUpInv,
     WriterTimeoutInv, WriterRescueInv, WriterGiveUpInv, WriterStepBackInv,
     UpgradeFallbackInv, WriterEnterInv
  DEF Proceed
<1>4. ASSUME NEW t \in Thread,
             \/ AcquireWriterLock(t) \/ WriterWake(t)
             \/ ReleaseReaderLock(t) \/ ReleaseWriterLock(t) \/ ReleaseAllLocks(t)
      PROVE  Inv' /\ [Lock!Next]_Held
  BY <1>4, AcquireWriterLockInv, WriterWakeInv, ReleaseReaderLockInv,
     ReleaseWriterLockInv, ReleaseAllLocksInv
<1> QED  BY <1>1, <1>2, <1>3, <1>4 DEF Next

\* For any number of threads, with nested calls, upgrades, downgrades and
\* timeouts, a writer is alone.
THEOREM LockExclusive == Spec => [](TypeOK /\ Exclusive)
<1>1. Inv => TypeOK /\ Exclusive  BY DEF Inv
<1> QED  BY InitInv, NextInv, <1>1, PTL DEF Spec

\* The counters on which CReaderWriterLock bases its decisions are exact.
THEOREM LockCounts == Spec => []CountsExact
<1>1. Inv => CountsExact  BY DEF Inv
<1> QED  BY InitInv, NextInv, <1>1, PTL DEF Spec

\* The lock, with all its events, counters and retries, is a reader-writer
\* lock: what a thread gains or gives up in a step is what RWLockSpec allows.
THEOREM LockRefines == Spec => LockSpec
<1>1. Init => Lock!Init
  BY DEF Init, Lock!Init, Held, Writing, Reading
<1> QED  BY InitInv, NextInv, <1>1, PTL DEF Spec, LockSpec, Lock!Spec

-----------------------------------------------------------------------------
(* The events *)

\* Read off the counters: there is an event for those who wait, and it is set
\* when they may go on.
EventInv ==
  /\ readEvent = "null" <=> readersWaiting = 0
  /\ writers = 0 /\ readersWaiting # 0 => readEvent = "set"
  /\ writeEvent = "null" => WaitingToWrite = {}
  /\ readers = 0 /\ Writing = {} /\ WaitingToWrite # {} => writeEvent = "set"

\* What the counters tell, in a form that can be primed.
Tell ==
  /\ readers = 0 <=> Reading = {}
  /\ writers = 0 <=> Writing = {} /\ WaitingToWrite = {}
  /\ readersWaiting = 0 <=> WaitingToRead = {}
  /\ \A t \in Writing : Writing = {t} /\ (writers = 1 => WaitingToWrite = {})

LEMMA InvTells == Inv => Tell
<1> SUFFICES ASSUME Inv PROVE Tell  OBVIOUS
<1>1. CountsExact /\ Exclusive  BY DEF Inv
<1>2. /\ Cardinality(Writing) = 0 <=> Writing = {}
      /\ Cardinality(Reading) = 0 <=> Reading = {}
      /\ Cardinality(WaitingToWrite) = 0 <=> WaitingToWrite = {}
      /\ Cardinality(WaitingToRead) = 0 <=> WaitingToRead = {}
  BY FiniteSets4, FS_EmptySet
<1>3. /\ readers = 0 <=> Reading = {}
      /\ readersWaiting = 0 <=> WaitingToRead = {}
  BY <1>1, <1>2 DEF CountsExact
<1>4. writers = 0 <=> Writing = {} /\ WaitingToWrite = {}
  BY <1>1, <1>2, CountsTell DEF CountsExact
<1>5. ASSUME NEW t \in Writing PROVE Writing = {t} /\ (writers = 1 => WaitingToWrite = {})
  BY <1>1, <1>2, <1>5, CountsTell DEF CountsExact
<1> QED  BY <1>3, <1>4, <1>5 DEF Tell

LEMMA InvTellsNext == Inv' => Tell'
BY InvTells, PTL

\* Readers come and go.
LEMMA ReadersEvents ==
  ASSUME Inv, Inv', EventInv, NEW t \in Thread,
         \/ \E b \in Timed : AcquireReaderLock(t, b)
         \/ ReaderWake(t) \/ ReaderEnter(t) \/ ReaderRetry(t) \/ ReaderGiveUp(t)
         \/ ReleaseReaderLock(t)
  PROVE  EventInv'
<1>1. Tell /\ Tell' /\ TypeOK /\ Shape  BY InvTells, InvTellsNext DEF Inv
<1>2. Frame(t)
  BY <1>1 DEF Frame, TypeOK, AcquireReaderLock, ReaderWake, ReaderEnter, ReaderRetry,
              ReaderGiveUp, ReleaseReaderLock, Go
<1>3. Writing' \ {t} = Writing \ {t} /\ WaitingToWrite' \ {t} = WaitingToWrite \ {t}
  BY <1>2, FrameSets
<1> USE <1>1, <1>3, Members DEF EventInv, Tell, TypeOK, Shape, Go, Known
<1>4. CASE \E b \in Timed : AcquireReaderLock(t, b)
  BY <1>4 DEF AcquireReaderLock, ReaderWait
<1>5. CASE ReaderWake(t) \/ ReaderRetry(t)
  BY <1>5 DEF ReaderWake, ReaderRetry
<1>6. CASE ReaderEnter(t)
  BY <1>6 DEF ReaderEnter, ReaderWaited
<1>7. CASE ReaderGiveUp(t)
  BY <1>7 DEF ReaderGiveUp, ReaderWaited
<1>8. CASE ReleaseReaderLock(t)
  BY <1>8 DEF ReleaseReaderLock, ReaderRelease
<1> QED  BY <1>4, <1>5, <1>6, <1>7, <1>8

\* Writers come and go.
LEMMA WritersEvents ==
  ASSUME Inv, Inv', EventInv, NEW t \in Thread,
         \/ \E b \in Timed : AwaitWriterLock(t, b)
         \/ AcquireWriterLock(t) \/ WriterWake(t) \/ WriterTimeout(t) \/ WriterRescue(t)
         \/ WriterGiveUp(t) \/ WriterStepBack(t) \/ UpgradeFallback(t) \/ WriterEnter(t)
         \/ ReleaseWriterLock(t) \/ ReleaseAllLocks(t)
  PROVE  EventInv'
<1>1. Tell /\ Tell' /\ TypeOK /\ Shape  BY InvTells, InvTellsNext DEF Inv
<1>2. Frame(t)
  BY <1>1 DEF Frame, TypeOK, AwaitWriterLock, AcquireWriterLock, WriterWake, WriterTimeout,
              WriterRescue, WriterGiveUp, WriterStepBack, UpgradeFallback, WriterEnter,
              ReleaseWriterLock, ReleaseAllLocks, Go
<1>3. Writing' \ {t} = Writing \ {t} /\ WaitingToWrite' \ {t} = WaitingToWrite \ {t}
  BY <1>2, FrameSets
<1> USE <1>1, <1>3, Members DEF EventInv, Tell, TypeOK, Shape, Go, Known
<1>4. CASE \E b \in Timed : AwaitWriterLock(t, b)
  BY <1>4 DEF AwaitWriterLock, WriterWait
<1>5. CASE AcquireWriterLock(t)
  BY <1>5 DEF AcquireWriterLock
<1>6. CASE WriterWake(t) \/ WriterTimeout(t) \/ WriterEnter(t)
  BY <1>6 DEF WriterWake, WriterTimeout, WriterEnter
<1>7. CASE WriterRescue(t)
  BY <1>7 DEF WriterRescue
<1>8. CASE WriterGiveUp(t)
  BY <1>8 DEF WriterGiveUp
<1>9. CASE WriterStepBack(t)
  BY <1>9 DEF WriterStepBack, ReaderWait
<1>10. CASE UpgradeFallback(t)
  BY <1>10 DEF UpgradeFallback, ReaderWaited
<1>11. CASE ReleaseWriterLock(t)
  BY <1>11 DEF ReleaseWriterLock, WriterRelease
<1>12. CASE ReleaseAllLocks(t)
  BY <1>12 DEF ReleaseAllLocks, WriterRelease, ReaderRelease
<1> QED  BY <1>4, <1>5, <1>6, <1>7, <1>8, <1>9, <1>10, <1>11, <1>12

LEMMA EventsInit == Init => EventInv
BY DEF Init, EventInv, WaitingToWrite

LEMMA EventsNext == Inv /\ Inv' /\ EventInv /\ [Next]_vars => EventInv'
<1> SUFFICES ASSUME Inv, Inv', EventInv, [Next]_vars PROVE EventInv'  OBVIOUS
<1>1. CASE UNCHANGED vars
  BY <1>1 DEF vars, EventInv, Writing, WaitingToWrite
<1>2. CASE Next
  BY <1>2, ReadersEvents, WritersEvents DEF Next, Proceed
<1> QED  BY <1>1, <1>2

\* The events are closed exactly when nobody needs them.
THEOREM LockEvents == Spec => []EventsManaged
<1>1. Inv /\ EventInv => EventsManaged
  BY InvTells DEF Tell, Inv, SignalInv, EventInv, EventsManaged
<1>2. Inv /\ [Next]_vars => Inv'  BY NextInv
<1> QED  BY InitInv, <1>2, EventsInit, EventsNext, <1>1, PTL DEF Spec

\* No signal is lost: whatever interleaving of releases, timeouts, downgrades and
\* fallbacks has led there, the event of those who may go on is set.
THEOREM LockWakes == Spec => []NoLostWakeup
<1>1. Inv /\ EventInv => NoLostWakeup
  BY InvTells DEF Tell, Inv, EventInv, NoLostWakeup
<1>2. Inv /\ [Next]_vars => Inv'  BY NextInv
<1> QED  BY InitInv, <1>2, EventsInit, EventsNext, <1>1, PTL DEF Spec

=============================================================================
