------------------------------ MODULE JobQueue ------------------------------
(***************************************************************************)
(* CJobScheduler::CQueue: the job queue of a scheduler, kept in one buffer *)
(* whose valid part is [first, last).  Pushing writes *last and shifts or  *)
(* doubles the buffer when last reaches end; popping moves first or last   *)
(* and never moves data.  Pointers are offsets into the buffer.            *)
(*                                                                         *)
(* Every operation runs under the scheduler's mutex, so each one is a      *)
(* single action.  RemoveJobFromQueue is the one operation that switches   *)
(* the extraction order for the time of a call.                            *)
(***************************************************************************)
EXTENDS Naturals, Sequences

CONSTANTS
  Job,          \* the entries (TJob: job pointer and ownership flag)
  NoJob,        \* the default-constructed entry of a fresh buffer
  InitialSize,  \* entries in the buffer of a new queue (1024 in the code)
  MaxQueue      \* bound: no more than MaxQueue jobs wait at a time

ASSUME SizeAssumption == InitialSize \in Nat \ {0} /\ MaxQueue \in Nat
ASSUME JobAssumption  == NoJob \notin Job

VARIABLES
  data,    \* the buffer, indexed from 0
  first,   \* offset of the entry that has waited longest
  last,    \* offset behind the entry added most recently
  end,     \* offset behind the buffer
  fifo,    \* extraction order
  out      \* what the last operation returned to its caller: the jobs and
           \* which operation it was

vars == <<data, first, last, end, fifo, out>>

Nothing(by) == [by |-> by, jobs |-> << >>]

size     == last - first
capacity == end

Init ==
  /\ data = [i \in 0..(InitialSize - 1) |-> NoJob]
  /\ first = 0 /\ last = 0
  /\ end = InitialSize
  /\ fifo \in BOOLEAN
  /\ out = Nothing("none")

\* The contents buf[first .. first+count-1] move into a new buffer.
Grow(buf, count, newSize) ==
  /\ data' = [i \in 0..(newSize - 1) |->
                IF i < count THEN buf[first + i] ELSE NoJob]
  /\ end' = newSize
  /\ first' = 0
  /\ last' = count

\* fault: the pointers are reset but the entries stay where they were
Shift_NoMove(buf, count) ==
  /\ data' = buf
  /\ first' = 0
  /\ last' = count
  /\ UNCHANGED end

\* The contents move to the start of the same buffer.
Shift(buf, count) ==
  /\ data' = [i \in 0..(end - 1) |->
                IF i < count THEN buf[first + i] ELSE buf[i]]
  /\ first' = 0
  /\ last' = count
  /\ UNCHANGED end

\* fault: the buffer grows however few entries are in use
AutoGrow_Always(buf, count) == Grow(buf, count, capacity * 2)

AutoGrow(buf, count) ==
  IF count * 2 <= capacity THEN Shift(buf, count)
                           ELSE Grow(buf, count, capacity * 2)

\* fault: the end of the buffer is noticed one entry too late
push_Late(job) ==
  LET buf == [data EXCEPT ![last] = job]
  IN  /\ size < MaxQueue
      /\ IF last = end
           THEN AutoGrow(buf, size + 1)
           ELSE data' = buf /\ last' = last + 1 /\ UNCHANGED <<first, end>>
      /\ out' = Nothing("none")
      /\ UNCHANGED fifo

push(job) ==
  LET buf == [data EXCEPT ![last] = job]
  IN  /\ size < MaxQueue
      /\ IF last + 1 = end
           THEN AutoGrow(buf, size + 1)
           ELSE data' = buf /\ last' = last + 1 /\ UNCHANGED <<first, end>>
      /\ out' = Nothing("none")
      /\ UNCHANGED fifo

\* n calls of pop with the extraction order set to atFront
Extract(by, n, atFront) ==
  /\ out' = [by |-> by,
             jobs |-> [i \in 1..n |-> IF atFront THEN data[first + i - 1]
                                                 ELSE data[last - i]]]
  /\ IF atFront THEN first' = first + n /\ UNCHANGED last
                ELSE last' = last - n /\ UNCHANGED first
  /\ UNCHANGED <<data, end, fifo>>

\* fault: the caller does not look at empty()
pop_Unchecked == Extract("pop", 1, fifo)

\* The callers of pop look at empty() first.
pop ==
  /\ first # last
  /\ Extract("pop", 1, fifo)

RemoveJobFromQueue(watermark, oldest) ==
  LET by == IF oldest THEN "oldest" ELSE "newest"
  IN  IF size > watermark
        THEN Extract(by, size - watermark, oldest = fifo)
        ELSE out' = Nothing(by) /\ UNCHANGED <<data, first, last, end, fifo>>

Next ==
  \/ \E job \in Job : push(job)
  \/ pop
  \/ \E watermark \in 0..MaxQueue, oldest \in BOOLEAN :
       RemoveJobFromQueue(watermark, oldest)

Spec == Init /\ [][Next]_vars

-----------------------------------------------------------------------------
(* Properties *)

\* Types; in particular no operation ever hands out an entry of the buffer
\* that was not pushed (CQueue::pop dereferences without looking).
TypeOK ==
  /\ first \in Nat /\ last \in Nat /\ end \in Nat
  /\ data \in [0..(end - 1) -> Job \cup {NoJob}]
  /\ fifo \in BOOLEAN
  /\ out \in [by : {"none", "pop", "oldest", "newest"}, jobs : Seq(Job)]

\* The valid part lies inside the buffer and one free entry is always left:
\* the write *last = job at the start of CQueue::push never lands behind the
\* buffer, whatever pops and trims came before.
RoomForPush == first <= last /\ last < end

\* CQueue::AutoGrow only doubles the buffer while more than half of it is in
\* use, so it stays below four times the largest number of waiting jobs.
BufferBound == end = InitialSize \/ end < 4 * MaxQueue

\* The queue keeps the promise of JobQueueSpec: nothing that was pushed is
\* lost, duplicated or reordered by the shifting and growing in AutoGrow.
waiting == [i \in 1..size |-> data[first + i - 1]]

Abstract == INSTANCE JobQueueSpec WITH queue <- waiting

AbstractSpec == Abstract!Spec

\* JobScheduler.cpp, RemoveJobFromQueue: "such that we remove jobs from the
\* requested end".  Trimming the oldest jobs hands out the ones that were
\* added first, in whatever order the scheduler runs its jobs.
RemovesOldest ==
  [][out'.by = "oldest" =>
       out'.jobs = SubSeq(waiting, 1, Len(out'.jobs))]_vars

=============================================================================
