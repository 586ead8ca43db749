---------------------------- MODULE MCScheduler ----------------------------
(***************************************************************************)
(* Instances of JobScheduler for TLC, after the schedulers that the        *)
(* program creates (private threads, shared threads, aggressive):          *)
(*   LogDlg, FileDiffDlg (1, 0, true); FullHistory diskIO (2, 0, true) and *)
(*   cpuLoad (1, INT_MAX, true); SVNStatusListCtrl (0, n, false);          *)
(*   RepositoryBrowser (0, 1, true); the default scheduler (0, max, false).*)
(***************************************************************************)
EXTENDS JobScheduler, TLC

\* Schedulers with two private threads, keeping them and not keeping them.
PrivateOnly     == [s \in Sched |-> 2]
NoShared        == [s \in Sched |-> 0]
IsAggressive    == [s \in Sched |-> TRUE]
IsRelaxed       == [s \in Sched |-> FALSE]

\* "cpu" has a thread of its own and borrows, like FullHistory's cpuLoad;
\* "bg" only borrows, like the default scheduler.
OneAndNone      == ("cpu" :> 1) @@ ("bg" :> 0)
BorrowOne       == ("cpu" :> 1) @@ ("bg" :> 1)
BorrowTwo       == ("cpu" :> 2) @@ ("bg" :> 2)
BorrowersOnly   == ("cpu" :> 0) @@ ("bg" :> 0)
CpuEager        == ("cpu" :> TRUE) @@ ("bg" :> FALSE)

\* Threads are interchangeable: TryAlloc and AllocateThread take any of them.
ThreadSymmetry  == Permutations(Thread)

=============================================================================
