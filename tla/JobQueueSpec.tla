---------------------------- MODULE JobQueueSpec ----------------------------
(***************************************************************************)
(* What the job queue of CJobScheduler promises to the scheduler: an       *)
(* unbounded double-ended sequence of jobs, filled at the back, drained at *)
(* the end that the extraction order asks for.  No buffer, no pointers.    *)
(***************************************************************************)
EXTENDS Naturals, Sequences

CONSTANTS
  Job,       \* the entries: job pointers with their ownership flag
  MaxQueue   \* bound: no more than MaxQueue jobs wait at a time

VARIABLES
  queue,     \* the waiting jobs, in the order in which they were added
  fifo,      \* extraction order, fixed when the scheduler is built
  out        \* what the last operation handed out: the jobs, in that order,
             \* and the caller ("pop", "oldest", "newest"; "none" for a push)

vars == <<queue, fifo, out>>

Front(n) == SubSeq(queue, 1, n)
Back(n)  == [i \in 1..n |-> queue[Len(queue) + 1 - i]]

Nothing(by) == [by |-> by, jobs |-> << >>]

Init ==
  /\ queue = << >>
  /\ fifo \in BOOLEAN
  /\ out = Nothing("none")

Push(job) ==
  /\ Len(queue) < MaxQueue
  /\ queue' = Append(queue, job)
  /\ out' = Nothing("none")
  /\ UNCHANGED fifo

\* Takes n jobs out of the queue, one after the other, at one of its ends.
Take(by, n, atFront) ==
  /\ out' = [by |-> by, jobs |-> IF atFront THEN Front(n) ELSE Back(n)]
  /\ queue' = IF atFront THEN SubSeq(queue, n + 1, Len(queue))
                         ELSE SubSeq(queue, 1, Len(queue) - n)
  /\ UNCHANGED fifo

Pop == queue # << >> /\ Take("pop", 1, fifo)

\* Cuts the queue down to the watermark.  Which end is cut is promised to
\* the users of first-in-first-out schedulers only.
Trim(watermark, by) ==
  IF Len(queue) > watermark
    THEN \E atFront \in BOOLEAN :
           /\ fifo => atFront = (by = "oldest")
           /\ Take(by, Len(queue) - watermark, atFront)
    ELSE out' = Nothing(by) /\ UNCHANGED <<queue, fifo>>

Next ==
  \/ \E job \in Job : Push(job)
  \/ Pop
  \/ \E watermark \in 0..MaxQueue, by \in {"oldest", "newest"} :
       Trim(watermark, by)

Spec == Init /\ [][Next]_vars

=============================================================================
