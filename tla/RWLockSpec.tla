----------------------------- MODULE RWLockSpec -----------------------------
(***************************************************************************)
(* What a reader-writer lock promises: "At any given time, it allows       *)
(* either concurrent read access for multiple threads, or write access for *)
(* a single thread" (ReaderWriterLock.h).  Waiting, events, timeouts and   *)
(* nested calls are details of the implementation.                         *)
(***************************************************************************)
CONSTANT Thread

VARIABLE held   \* [Thread -> "none", "read" or "write"]

Init == held = [t \in Thread |-> "none"]

Become(t, mode) == held' = [held EXCEPT ![t] = mode]

\* A new reader, while nobody writes.
Read(t) ==
  /\ held[t] = "none"
  /\ \A u \in Thread : held[u] # "write"
  /\ Become(t, "read")

\* A new writer, be it an upgraded reader, if it is alone.
Write(t) ==
  /\ held[t] # "write"
  /\ \A u \in Thread \ {t} : held[u] = "none"
  /\ Become(t, "write")

Downgrade(t) == held[t] = "write" /\ Become(t, "read")

\* Also a reader that is to be upgraded: "other threads might write to the
\* resource before current thread is successfully upgraded".
Release(t) == held[t] # "none" /\ Become(t, "none")

Next == \E t \in Thread : Read(t) \/ Write(t) \/ Downgrade(t) \/ Release(t)

Spec == Init /\ [][Next]_held

=============================================================================
