-------------------------- MODULE JobQueue_proofs --------------------------
(***************************************************************************)
(* Proofs about the job queue for every buffer size and every bound on the *)
(* number of waiting jobs: the buffer is never overrun, its size stays     *)
(* proportional to the number of jobs, and it implements the unbounded     *)
(* queue of JobQueueSpec.                                                  *)
(***************************************************************************)
EXTENDS JobQueue, SequenceTheorems, TLAPS

\* The inductive invariant: besides the properties that TLC checks it says
\* that the valid part of the buffer holds jobs only.
ValidJobs == \A i \in first..(last - 1) : data[i] \in Job

QueueInv ==
  /\ TypeOK
  /\ RoomForPush
  /\ ValidJobs
  /\ size <= MaxQueue
  /\ BufferBound

\* A new queue has an empty valid part inside its buffer.
LEMMA InitInv == Init => QueueInv
  BY SizeAssumption
  DEF Init, QueueInv, TypeOK, RoomForPush, ValidJobs, size, BufferBound, Nothing

\* CQueue::push, with the shift or the doubling done by AutoGrow.
LEMMA PushInv ==
  ASSUME QueueInv, NEW job \in Job, push(job)
  PROVE  QueueInv'
<1> USE DEF QueueInv, RoomForPush, size, capacity
<1> DEFINE buf == [data EXCEPT ![last] = job]
<1>1. /\ first \in Nat /\ last \in Nat /\ end \in Nat
      /\ first <= last /\ last < end /\ last - first < MaxQueue
      /\ MaxQueue \in Nat /\ InitialSize \in Nat
      BY SizeAssumption DEF push, TypeOK
<1>2. /\ buf \in [0..(end - 1) -> Job \cup {NoJob}]
      /\ \A i \in first..last : buf[i] \in Job
      BY <1>1 DEF TypeOK, ValidJobs
<1>3. /\ out' \in [by : {"none", "pop", "oldest", "newest"}, jobs : Seq(Job)]
      /\ fifo' \in BOOLEAN
      BY DEF push, Nothing, TypeOK
<1> HIDE DEF buf
<1>4. CASE last + 1 # end
  <2>1. data' = buf /\ last' = last + 1 /\ first' = first /\ end' = end
        BY <1>4 DEF push, buf
  <2> QED BY <1>1, <1>2, <1>3, <1>4, <2>1 DEF TypeOK, ValidJobs, BufferBound
<1>5. CASE last + 1 = end /\ (size + 1) * 2 <= capacity
  <2>1. Shift(buf, size + 1)
        BY <1>5 DEF push, AutoGrow, buf
  <2>2. /\ data' = [i \in 0..(end - 1) |->
                      IF i < size + 1 THEN buf[first + i] ELSE buf[i]]
        /\ first' = 0 /\ last' = size + 1 /\ end' = end
        BY <2>1 DEF Shift
  <2>3. \A i \in 0..size : data'[i] \in Job
        BY <1>1, <1>2, <1>5, <2>2
  <2>4. data' \in [0..(end - 1) -> Job \cup {NoJob}]
        BY <1>1, <1>2, <1>5, <2>2
  <2>5. first' <= last' /\ last' < end' /\ last' - first' <= MaxQueue
        BY <1>1, <1>5, <2>2
  <2>6. first' \in Nat /\ last' \in Nat /\ end' \in Nat
        BY <1>1, <2>2
  <2>7. ValidJobs'
    <3>1. first' = 0 /\ last' - 1 = size
          BY <1>1, <2>2
    <3> QED BY <2>3, <3>1 DEF ValidJobs
  <2>8. BufferBound'
        BY <1>1, <1>5, <2>2 DEF BufferBound
  <2>9. TypeOK'
        BY <1>3, <2>4, <2>2, <2>6 DEF TypeOK
  <2> QED BY <2>5, <2>7, <2>8, <2>9
<1>6. CASE last + 1 = end /\ ~((size + 1) * 2 <= capacity)
  <2>1. Grow(buf, size + 1, capacity * 2)
        BY <1>6 DEF push, AutoGrow, buf
  <2>2. /\ data' = [i \in 0..(end * 2 - 1) |->
                      IF i < size + 1 THEN buf[first + i] ELSE NoJob]
        /\ first' = 0 /\ last' = size + 1 /\ end' = end * 2
        BY <2>1 DEF Grow
  <2>3. \A i \in 0..size : data'[i] \in Job
        BY <1>1, <1>2, <1>6, <2>2
  <2>4. data' \in [0..(end' - 1) -> Job \cup {NoJob}]
        BY <1>1, <1>2, <1>6, <2>2
  <2>5. first' <= last' /\ last' < end' /\ last' - first' <= MaxQueue
        BY <1>1, <1>6, <2>2
  <2>6. first' \in Nat /\ last' \in Nat /\ end' \in Nat
        BY <1>1, <2>2
  <2>7. ValidJobs'
    <3>1. first' = 0 /\ last' - 1 = size
          BY <1>1, <2>2
    <3> QED BY <2>3, <3>1 DEF ValidJobs
  <2>8. BufferBound'
        BY <1>1, <1>6, <2>2 DEF BufferBound
  <2>9. TypeOK'
        BY <1>3, <2>4, <2>6 DEF TypeOK
  <2> QED BY <2>5, <2>7, <2>8, <2>9
<1> QED BY <1>4, <1>5, <1>6

\* Taking jobs at either end leaves a valid part inside the buffer and hands
\* out jobs only.
LEMMA ExtractInv ==
  ASSUME QueueInv, NEW n \in 1..size, NEW atFront \in BOOLEAN,
         NEW by \in {"pop", "oldest", "newest"}, Extract(by, n, atFront)
  PROVE  QueueInv'
<1> USE DEF QueueInv, RoomForPush, size
<1>1. /\ first \in Nat /\ last \in Nat /\ end \in Nat /\ n \in Nat
      /\ first <= last /\ last < end /\ last - first <= MaxQueue
      /\ MaxQueue \in Nat
      BY SizeAssumption DEF TypeOK
<1> DEFINE taken == [i \in 1..n |-> IF atFront THEN data[first + i - 1]
                                               ELSE data[last - i]]
<1>2. \A i \in 1..n : taken[i] \in Job
      BY <1>1 DEF ValidJobs
<1>3. taken \in Seq(Job)
      BY <1>1, <1>2
<1>4. out' = [by |-> by, jobs |-> taken]
      BY DEF Extract
<1> HIDE DEF taken
<1>5. out' \in [by : {"none", "pop", "oldest", "newest"}, jobs : Seq(Job)]
      BY <1>3, <1>4
<1>6. CASE atFront
  <2>1. first' = first + n /\ last' = last /\ data' = data /\ end' = end
        /\ fifo' = fifo
        BY <1>6 DEF Extract
  <2> QED BY <1>1, <1>5, <2>1 DEF TypeOK, ValidJobs, BufferBound
<1>7. CASE ~atFront
  <2>1. first' = first /\ last' = last - n /\ data' = data /\ end' = end
        /\ fifo' = fifo
        BY <1>7 DEF Extract
  <2> QED BY <1>1, <1>5, <2>1 DEF TypeOK, ValidJobs, BufferBound
<1> QED BY <1>6, <1>7

\* Every step of the queue preserves the invariant.
LEMMA NextInv == QueueInv /\ [Next]_vars => QueueInv'
<1> SUFFICES ASSUME QueueInv, [Next]_vars PROVE QueueInv'
    OBVIOUS
<1>1. ASSUME NEW job \in Job, push(job) PROVE QueueInv'
      BY <1>1, PushInv
<1>2. ASSUME pop PROVE QueueInv'
  <2>1. 1 \in 1..size /\ fifo \in BOOLEAN
        BY <1>2 DEF pop, QueueInv, TypeOK, RoomForPush, size
  <2> QED BY <1>2, <2>1, ExtractInv DEF pop
<1>3. ASSUME NEW watermark \in 0..MaxQueue, NEW oldest \in BOOLEAN,
             RemoveJobFromQueue(watermark, oldest)
      PROVE  QueueInv'
  <2>1. CASE size > watermark
    <3>1. size - watermark \in 1..size /\ (oldest = fifo) \in BOOLEAN
          BY <2>1, SizeAssumption DEF QueueInv, TypeOK, RoomForPush, size
    <3> DEFINE by == IF oldest THEN "oldest" ELSE "newest"
    <3>2. by \in {"pop", "oldest", "newest"}
          OBVIOUS
    <3>3. Extract(by, size - watermark, oldest = fifo)
          BY <1>3, <2>1 DEF RemoveJobFromQueue
    <3> HIDE DEF by
    <3> QED BY <3>1, <3>2, <3>3, ExtractInv
  <2>2. CASE ~(size > watermark)
    <3>1. UNCHANGED <<data, first, last, end, fifo>>
          BY <1>3, <2>2 DEF RemoveJobFromQueue
    <3>2. out' = Nothing(IF oldest THEN "oldest" ELSE "newest")
          BY <1>3, <2>2 DEF RemoveJobFromQueue
    <3>3. << >> \in Seq(Job)
          OBVIOUS
    <3>4. out' \in [by : {"none", "pop", "oldest", "newest"}, jobs : Seq(Job)]
          BY <3>2, <3>3 DEF Nothing
    <3> QED BY <3>1, <3>4
            DEF QueueInv, TypeOK, RoomForPush, ValidJobs, size, BufferBound
  <2> QED BY <2>1, <2>2
<1>4. CASE UNCHANGED vars
      BY <1>4 DEF vars, QueueInv, TypeOK, RoomForPush, ValidJobs, size,
                  BufferBound
<1> QED BY <1>1, <1>2, <1>3, <1>4 DEF Next

\* CQueue: the next push has a free entry, and what lies between first and last
\* is what was pushed, for every initial size and every load.
THEOREM QueueSafe == Spec => [](TypeOK /\ RoomForPush)
<1>1. QueueInv => TypeOK /\ RoomForPush
      BY DEF QueueInv
<1> QED BY <1>1, InitInv, NextInv, PTL DEF Spec

\* AutoGrow: the buffer grows with the largest load only, not with the number of
\* jobs that go through the queue.
THEOREM QueueBuffer == Spec => []BufferBound
<1>1. QueueInv => BufferBound
      BY DEF QueueInv
<1> QED BY <1>1, InitInv, NextInv, PTL DEF Spec

-----------------------------------------------------------------------------
(* The buffer implements the queue of JobQueueSpec. *)

\* The jobs in the valid part form a sequence as long as that part.
LEMMA WaitingSeq ==
  ASSUME QueueInv
  PROVE  /\ waiting \in Seq(Job)
         /\ Len(waiting) = size
         /\ size \in Nat
         /\ \A i \in 1..size : waiting[i] = data[first + i - 1]
<1>1. first \in Nat /\ last \in Nat /\ size \in Nat
      BY DEF QueueInv, TypeOK, RoomForPush, size
<1>2. \A i \in 1..size : data[first + i - 1] \in Job
      BY <1>1 DEF QueueInv, ValidJobs, size
<1> QED BY <1>1, <1>2 DEF waiting

\* Shifting and growing move the jobs without changing their order: after a
\* push the waiting jobs are the old ones followed by the new one.
LEMMA PushAppends ==
  ASSUME QueueInv, QueueInv', NEW job \in Job, push(job)
  PROVE  waiting' = Append(waiting, job)
<1> USE DEF size, capacity
<1> DEFINE buf == [data EXCEPT ![last] = job]
<1>1. /\ first \in Nat /\ last \in Nat /\ end \in Nat
      /\ first <= last /\ last < end /\ size \in Nat
      BY DEF QueueInv, TypeOK, RoomForPush
<1>2. \A i \in 1..(size + 1) :
        buf[first + i - 1] = IF i <= size THEN data[first + i - 1] ELSE job
      BY <1>1 DEF QueueInv, TypeOK
<1> HIDE DEF buf
<1>3. /\ last' - first' = size + 1
      /\ \A i \in 1..(size + 1) : data'[first' + i - 1] = buf[first + i - 1]
  <2>1. CASE last + 1 # end
    <3>1. data' = buf /\ last' = last + 1 /\ first' = first
          BY <2>1 DEF push, buf
    <3> QED BY <1>1, <3>1
  <2>2. CASE last + 1 = end /\ (size + 1) * 2 <= capacity
    <3>1. Shift(buf, size + 1)
          BY <2>2 DEF push, AutoGrow, buf
    <3>2. /\ data' = [i \in 0..(end - 1) |->
                        IF i < size + 1 THEN buf[first + i] ELSE buf[i]]
          /\ first' = 0 /\ last' = size + 1
          BY <3>1 DEF Shift
    <3>3. last' - first' = size + 1
          BY <1>1, <3>2
    <3>4. ASSUME NEW i \in 1..(size + 1)
          PROVE  data'[first' + i - 1] = buf[first + i - 1]
      <4>1. /\ i - 1 \in 0..(end - 1) /\ i - 1 < size + 1
            /\ first + (i - 1) = first + i - 1 /\ first' + i - 1 = i - 1
            BY <1>1, <2>2, <3>2
      <4> QED BY <4>1, <3>2
    <3> QED BY <3>3, <3>4
  <2>3. CASE last + 1 = end /\ ~((size + 1) * 2 <= capacity)
    <3>1. Grow(buf, size + 1, capacity * 2)
          BY <2>3 DEF push, AutoGrow, buf
    <3>2. /\ data' = [i \in 0..(end * 2 - 1) |->
                        IF i < size + 1 THEN buf[first + i] ELSE NoJob]
          /\ first' = 0 /\ last' = size + 1
          BY <3>1 DEF Grow
    <3>3. last' - first' = size + 1
          BY <1>1, <3>2
    <3>4. ASSUME NEW i \in 1..(size + 1)
          PROVE  data'[first' + i - 1] = buf[first + i - 1]
      <4>1. /\ i - 1 \in 0..(end * 2 - 1) /\ i - 1 < size + 1
            /\ first + (i - 1) = first + i - 1 /\ first' + i - 1 = i - 1
            BY <1>1, <2>3, <3>2
      <4> QED BY <4>1, <3>2
    <3> QED BY <3>3, <3>4
  <2> QED BY <2>1, <2>2, <2>3
<1>4. /\ waiting' \in Seq(Job) /\ Len(waiting') = size + 1
      /\ \A i \in 1..(size + 1) :
           waiting'[i] = IF i <= size THEN data[first + i - 1] ELSE job
  <2>1. waiting' = [i \in 1..(size + 1) |-> data'[first' + i - 1]]
        BY <1>3 DEF waiting
  <2>2. \A i \in 1..(size + 1) : data'[first' + i - 1] =
                                   IF i <= size THEN data[first + i - 1] ELSE job
        BY <1>2, <1>3
  <2>3. \A i \in 1..size : data[first + i - 1] \in Job
        BY <1>1 DEF QueueInv, ValidJobs
  <2>4. \A i \in 1..(size + 1) :
          (IF i <= size THEN data[first + i - 1] ELSE job) \in Job
        BY <1>1, <2>3
  <2>5. waiting' = [i \in 1..(size + 1) |->
                      IF i <= size THEN data[first + i - 1] ELSE job]
        BY <2>1, <2>2
  <2>6. size + 1 \in Nat
        BY <1>1
  <2> HIDE DEF size
  <2> QED BY <2>4, <2>5, <2>6
<1>5. /\ Append(waiting, job) \in Seq(Job)
      /\ Len(Append(waiting, job)) = size + 1
      /\ \A i \in 1..size : Append(waiting, job)[i] = data[first + i - 1]
      /\ Append(waiting, job)[size + 1] = job
      BY WaitingSeq, AppendProperties
<1>6. \A i \in 1..(size + 1) : waiting'[i] = Append(waiting, job)[i]
      BY <1>1, <1>4, <1>5
<1> QED BY <1>4, <1>5, <1>6, SeqEqual

\* Taking n jobs from the buffer is taking them from the queue.
LEMMA ExtractTakes ==
  ASSUME QueueInv, QueueInv', NEW n \in 1..size, NEW atFront \in BOOLEAN,
         NEW by, Extract(by, n, atFront)
  PROVE  Abstract!Take(by, n, atFront)
<1> USE DEF size
<1>1. /\ first \in Nat /\ last \in Nat /\ size \in Nat /\ n \in Nat
      /\ 1 <= n /\ n <= size
      BY DEF QueueInv, TypeOK, RoomForPush
<1>2. data' = data /\ fifo' = fifo
      BY DEF Extract
<1>3. CASE atFront
  <2>1. /\ first' = first + n /\ last' = last
        /\ out' = [by |-> by, jobs |-> [i \in 1..n |-> data[first + i - 1]]]
        BY <1>3 DEF Extract
  <2>2. [i \in 1..n |-> data[first + i - 1]] = SubSeq(waiting, 1, n)
        BY <1>1, WaitingSeq
  <2>3. waiting' = SubSeq(waiting, n + 1, Len(waiting))
    <3>1. waiting' = [i \in 1..(size - n) |-> data[first + n + i - 1]]
          BY <1>1, <1>2, <2>1 DEF waiting
    <3>2. SubSeq(waiting, n + 1, size) =
            [i \in 1..(size - n) |-> data[first + n + i - 1]]
          BY <1>1, WaitingSeq
    <3> QED BY <3>1, <3>2, WaitingSeq
  <2> QED BY <1>2, <1>3, <2>1, <2>2, <2>3 DEF Abstract!Take, Abstract!Front
<1>4. CASE ~atFront
  <2>1. /\ first' = first /\ last' = last - n
        /\ out' = [by |-> by, jobs |-> [i \in 1..n |-> data[last - i]]]
        BY <1>4 DEF Extract
  <2>2. [i \in 1..n |-> data[last - i]] =
          [i \in 1..n |-> waiting[Len(waiting) + 1 - i]]
    <3>1. ASSUME NEW i \in 1..n
          PROVE  data[last - i] = waiting[Len(waiting) + 1 - i]
      <4>1. size + 1 - i \in 1..size /\ first + (size + 1 - i) - 1 = last - i
            BY <1>1
      <4> QED BY <4>1, WaitingSeq
    <3> QED BY <3>1
  <2>3. waiting' = SubSeq(waiting, 1, Len(waiting) - n)
    <3>1. waiting' = [i \in 1..(size - n) |-> data[first + i - 1]]
          BY <1>1, <1>2, <2>1 DEF waiting
    <3>2. SubSeq(waiting, 1, size - n) =
            [i \in 1..(size - n) |-> data[first + i - 1]]
          BY <1>1, WaitingSeq
    <3> QED BY <3>1, <3>2, WaitingSeq
  <2> QED BY <1>2, <1>4, <2>1, <2>2, <2>3 DEF Abstract!Take, Abstract!Back
<1> QED BY <1>3, <1>4

\* CQueue implements JobQueueSpec: nothing that was pushed is lost,
\* duplicated or reordered by CQueue::AutoGrow, pops and trims come from the
\* ends that the abstract queue promises, for every buffer size and load.
THEOREM QueueRefines == Spec => AbstractSpec
<1>1. Init => Abstract!Init
  <2> SUFFICES ASSUME Init PROVE Abstract!Init
      OBVIOUS
  <2>1. waiting = << >>
        BY DEF Init, waiting, size
  <2> QED BY <2>1 DEF Init, Abstract!Init, Nothing, Abstract!Nothing
<1>2. QueueInv /\ QueueInv' /\ [Next]_vars => [Abstract!Next]_(Abstract!vars)
  <2> SUFFICES ASSUME QueueInv, QueueInv', [Next]_vars
               PROVE  [Abstract!Next]_(Abstract!vars)
      OBVIOUS
  <2>1. ASSUME NEW job \in Job, push(job) PROVE Abstract!Push(job)
        BY <2>1, PushAppends, WaitingSeq
        DEF push, Abstract!Push, Nothing, Abstract!Nothing
  <2>2. ASSUME pop PROVE Abstract!Pop
    <3>1. 1 \in 1..size /\ fifo \in BOOLEAN
          BY <2>2 DEF pop, QueueInv, TypeOK, RoomForPush, size
    <3>2. Abstract!Take("pop", 1, fifo)
          BY <2>2, <3>1, ExtractTakes DEF pop
    <3>3. waiting # << >>
          BY <3>1, WaitingSeq
    <3> QED BY <3>2, <3>3 DEF Abstract!Pop
  <2>3. ASSUME NEW watermark \in 0..MaxQueue, NEW oldest \in BOOLEAN,
               RemoveJobFromQueue(watermark, oldest)
        PROVE  \E by \in {"oldest", "newest"} : Abstract!Trim(watermark, by)
    <3> DEFINE by == IF oldest THEN "oldest" ELSE "newest"
    <3>1. by \in {"oldest", "newest"} /\ (by = "oldest") = oldest
          OBVIOUS
    <3>2. CASE size > watermark
      <4>1. size - watermark \in 1..size /\ (oldest = fifo) \in BOOLEAN
            BY <3>2, SizeAssumption DEF QueueInv, TypeOK, RoomForPush, size
      <4>2. Extract(by, size - watermark, oldest = fifo)
            BY <2>3, <3>2 DEF RemoveJobFromQueue
      <4>3. Abstract!Take(by, size - watermark, oldest = fifo)
            BY <4>1, <4>2, ExtractTakes
      <4>4. fifo => (oldest = fifo) = (by = "oldest")
            BY <3>1 DEF QueueInv, TypeOK
      <4> HIDE DEF by
      <4>5. Abstract!Trim(watermark, by)
            BY <3>2, <4>1, <4>3, <4>4, WaitingSeq DEF Abstract!Trim
      <4> QED BY <3>1, <4>5
    <3>3. CASE ~(size > watermark)
      <4>1. /\ UNCHANGED <<data, first, last, end, fifo>>
            /\ out' = Nothing(by)
            BY <2>3, <3>3 DEF RemoveJobFromQueue
      <4>2. waiting' = waiting
            BY <4>1 DEF waiting, size
      <4> HIDE DEF by
      <4>3. Abstract!Trim(watermark, by)
            BY <3>3, <4>1, <4>2, WaitingSeq
            DEF Abstract!Trim, Nothing, Abstract!Nothing
      <4> QED BY <3>1, <4>3
    <3> QED BY <3>2, <3>3
  <2>4. CASE UNCHANGED vars
        BY <2>4 DEF vars, Abstract!vars, waiting, size
  <2> QED BY <2>1, <2>2, <2>3, <2>4 DEF Next, Abstract!Next
<1>3. Spec => []QueueInv
      BY InitInv, NextInv, PTL DEF Spec
<1> QED BY <1>1, <1>2, <1>3, PTL DEF Spec, AbstractSpec, Abstract!Spec

=============================================================================
