------------------------ MODULE DirectoryWatcher_proofs ------------------------
(***************************************************************************)
(* For any directories, any number of info objects and any number of calls *)
(* and failures: InfosAccounted, NoDangling and WatchedOrGap are           *)
(* invariants of DirectoryWatcher.                                         *)
(***************************************************************************)
EXTENDS DirectoryWatcher, FiniteSetTheorems, WellFoundedInduction, TLAPS

\* Reads that are outstanding, and completions that wait at the port.
Pending == reading \cup ToSet(packets)

Typed ==
  /\ DOMAIN pc = Thread
  /\ packets \in Seq(Info)
  /\ map \subseteq Info /\ scheduled \subseteq Info

\* What is pending for infos that are not in the map finds the map empty, so that
\* WorkerThread does not look at it.
Orphans == Pending \subseteq map \/ map = {}

\* Without a port nothing is pending and no directory of the map is open.
PortClosed ==
  /\ ~hPort \/ pc[Worker] = "null" \/ (\E c \in Client : pc[c] = "null") => ~port
  /\ ~port => Pending = {}
  /\ ~port /\ pc[Worker] \notin {"null", "restart"} => open \cap map = {}

\* While it watches all paths again, the worker has no orphans, or the counts tell.
Counted ==
  /\ pc[Worker] = "open" => Pending \subseteq map
  /\ pc[Worker] \in {"register", "relock"} /\ (map # {} \/ ~(Pending \subseteq map))
       => w.numWatch # 0

Locked ==
  /\ pc[Worker] = "open" => lock = Worker
  /\ \A c \in Client : pc[c] \in {"port", "null"} => lock = c /\ open \cap map = {}

\* The completion the worker has got.
Looked ==
  /\ pc[Worker] = "check" => pdi \in DOMAIN dir \/ map = {} \/ cleaned
  /\ pc[Worker] = "packet" => pdi \in DOMAIN dir \/ cleaned

Inv ==
  Typed /\ InfosAccounted /\ Orphans /\ PortClosed /\ Counted /\ Locked /\ Looked

-----------------------------------------------------------------------------
\* The set of a sequence that SetToSeq makes of infos.
LEMMA SetToSeqSound ==
  ASSUME NEW S \in SUBSET Info
  PROVE  SetToSeq(S) \in Seq(Info) /\ ToSet(SetToSeq(S)) \subseteq S
<1>1. IsFiniteSet(S)  BY WatcherAssumption, FS_Subset
<1>2. PICK f \in [1..Cardinality(S) -> S] : IsInjective(f)
  BY <1>1, FS_CardinalityType DEF ExistsBijection, Bijection, Injection, IsInjective
<1>3. SetToSeq(S) \in [1..Cardinality(S) -> S]  BY <1>2 DEF SetToSeq
<1>4. Cardinality(S) \in Nat  BY <1>1, FS_CardinalityType
<1> QED  BY <1>3, <1>4 DEF ToSet

\* What a longer and a shorter queue of completions hold.
LEMMA Queued ==
  ASSUME NEW p \in Seq(Info)
  PROVE  /\ \A q \in Seq(Info) : p \o q \in Seq(Info) /\ ToSet(p \o q) \subseteq ToSet(p) \cup ToSet(q)
         /\ \A k \in Info : Append(p, k) \in Seq(Info) /\ ToSet(Append(p, k)) \subseteq ToSet(p) \cup {k}
         /\ p # <<>> => /\ Tail(p) \in Seq(Info) /\ ToSet(Tail(p)) \subseteq ToSet(p)
                       /\ Head(p) \in ToSet(p)
         /\ ToSet(p) \subseteq Info
         /\ ToSet(<<>>) = {}
<1> QED  BY DEF ToSet

\* Nothing is watched in the beginning.
LEMMA InitInv == Init => Inv
<1> USE DEF Thread, Client, Worker, Crawler, Ui, Pipe
<1> SUFFICES ASSUME Init PROVE Inv  OBVIOUS
<1>1. Pending = {} /\ packets \in Seq(Info)  BY DEF Init, Pending, ToSet
<1> QED
  BY <1>1 DEF Init, Inv, Typed, InfosAccounted, Orphans, PortClosed, Counted, Locked, Looked

-----------------------------------------------------------------------------
\* No step of WorkerThread breaks the invariant.
LEMMA WorkerInv ==
  ASSUME Inv, Work \/ WaitTimesOut
  PROVE  Inv'
<1> USE DEF Thread, Client, Worker, Crawler, Ui, Pipe, Go, Free, vars, io, lists, infos, Inv, Typed,
            InfosAccounted, Orphans, PortClosed, Counted, Locked, Looked, Pending
<1>0. /\ ToSet(<<>>) = {} /\ <<>> \in Seq(Info) /\ ToSet(packets) \subseteq Info
      /\ \A S \in SUBSET Info : /\ packets \o SetToSeq(S) \in Seq(Info)
                              /\ ToSet(packets \o SetToSeq(S)) \subseteq ToSet(packets) \cup S
  BY Queued, SetToSeqSound
<1>1. CASE Loop  BY <1>1 DEF Loop
<1>2. CASE Reset  BY <1>2 DEF Reset
<1>3. CASE Check  BY <1>3 DEF Check
<1>4. CASE PortGone  BY <1>4 DEF PortGone
<1>5. CASE WaitTimesOut  BY <1>5 DEF WaitTimesOut
<1>6. CASE NullPort  BY <1>6 DEF NullPort
<1>7. CASE OpenFails  BY <1>7 DEF OpenFails
<1>8. CASE AllOpen  BY <1>8 DEF AllOpen
<1>9. CASE Register  BY <1>9 DEF Register
<1>10. CASE Dismiss  BY <1>10 DEF Dismiss
<1>11. CASE Rearm  BY <1>11 DEF Rearm
<1>12. CASE Failed
  <2>1. CASE running /\ hPort
    BY <1>12, <1>0, <2>1 DEF Failed, ClosePort
  <2>2. CASE ~(running /\ hPort)
    <3>1. pc' \in {[pc EXCEPT !["worker"] = "end"], [pc EXCEPT !["worker"] = "restart"]}
          /\ UNCHANGED <<port, packets, reading>>
      BY <1>12, <2>2 DEF Failed
    <3> QED  BY <1>12, <3>1 DEF Failed
  <2> QED  BY <2>1, <2>2
<1>13. CASE Restart  BY <1>13, <1>0 DEF Restart, ClearAndCleanup
<1>14. CASE Changed  BY <1>14, <1>0 DEF Changed, ClearAndCleanup
<1>15. CASE WatchFails
  BY <1>15, <1>0 DEF WatchFails, ClearAndCleanup
<1>16. CASE Cleanup
  <2>1. packets' \in Seq(Info) /\ ToSet(packets') \subseteq ToSet(packets) \cup reading
    BY <1>16, <1>0, reading \cap scheduled \in SUBSET Info DEF Cleanup, CleanupWatchInfo, Delete
  <2> QED  BY <1>16, <2>1 DEF Cleanup, CleanupWatchInfo, Delete
<1>17. CASE Tell
  <2>1. packets' \in Seq(Info) /\ ToSet(packets') \subseteq ToSet(packets) \cup reading
    BY <1>17, <1>0, reading \cap scheduled \in SUBSET Info DEF Tell, CleanupWatchInfo, Delete
  <2> QED  BY <1>17, <2>1 DEF Tell, CleanupWatchInfo, Delete
<1>18. CASE Open
  <2>1. map # {} => Cardinality(map) # 0
    BY FS_Subset, FS_EmptySet, WatcherAssumption
  <2> QED  BY <1>18, <2>1 DEF Open
<1>19. CASE GetPacket
  <2>1. packets \in Seq(Info) /\ packets # <<>>  BY <1>19 DEF GetPacket
  <2>2. packets' \in Seq(Info) /\ Pending' \subseteq Pending /\ pdi' \in Pending
    BY <1>19, <2>1, Queued DEF GetPacket, Pending
  <2> QED  BY <1>19, <2>2 DEF GetPacket
<1>20. CASE Watch
  <2>1. PICK k \in NewInfos :
          /\ dir' = [x \in DOMAIN dir \cup {k} |-> IF x = k THEN w.path ELSE dir[x]]
          /\ open' = open \cup {k} /\ reading' = reading \cup {k} /\ map' = map \cup {k}
    BY <1>20 DEF Watch
  <2>2. DOMAIN dir' = DOMAIN dir \cup {k} /\ k \in Info /\ k \notin DOMAIN dir
    BY <2>1 DEF NewInfos
  <2>3. map # {} \/ ~(Pending \subseteq map) => Cardinality(map) # 0
    BY <1>20 DEF Watch, Same
  <2>4. Pending \subseteq map
    BY <2>3, FS_EmptySet
  <2> QED  BY <1>20, <2>1, <2>2, <2>4 DEF Watch
<1> QED  BY <1>1, <1>2, <1>3, <1>4, <1>5, <1>6, <1>7, <1>8, <1>9, <1>10,
     <1>11, <1>12, <1>13, <1>14, <1>15, <1>16, <1>17, <1>18, <1>19, <1>20
  DEF Work

\* Nor does a step of a client.
LEMMA ClientInv ==
  ASSUME Inv, NEW c \in Client, Lockless(c) \/ Locking(c) \/ GuardTimesOut(c)
  PROVE  Inv'
<1> USE DEF Thread, Client, Worker, Crawler, Ui, Pipe, Go, Free, AfterGuard, Unguard, Call,
            vars, io, lists, infos, Inv, Typed,
            InfosAccounted, Orphans, PortClosed, Counted, Locked, Looked, Pending
<1>0. /\ ToSet(<<>>) = {} /\ <<>> \in Seq(Info) /\ ToSet(packets) \subseteq Info
      /\ \A S \in SUBSET Info : /\ packets \o SetToSeq(S) \in Seq(Info)
                              /\ ToSet(packets \o SetToSeq(S)) \subseteq ToSet(packets) \cup S
  BY Queued, SetToSeqSound
<1>1. CASE TakeGuard(c)  BY <1>1 DEF TakeGuard
<1>2. CASE GuardTimesOut(c)  BY <1>2 DEF GuardTimesOut
<1>3. CASE Stop(c)  BY <1>3 DEF Stop
<1>4. CASE LetGo(c)  BY <1>4 DEF LetGo
<1>5. CASE Join(c)  BY <1>5 DEF Join
<1>6. CASE Destroy(c)  BY <1>6 DEF Destroy
<1>7. CASE c = Ui /\ Loaded  BY <1>7 DEF Loaded
<1>8. CASE AddPath(c)
  <2>1. CASE IsPathWatched(op[c].path)
    BY <1>8, <2>1 DEF AddPath
  <2>2. CASE ~IsPathWatched(op[c].path)
    <3>1. packets' = packets \o SetToSeq(reading \cap map)
      BY <1>8, <2>2 DEF AddPath, CloseDirectories
    <3>2. packets' \in Seq(Info) /\ ToSet(packets') \subseteq ToSet(packets) \cup (reading \cap map)
      BY <3>1, <1>0, reading \cap map \in SUBSET Info
    <3> QED  BY <1>8, <2>2, <3>2 DEF AddPath, CloseDirectories
  <2> QED  BY <2>1, <2>2
<1>9. CASE CloseWatchHandles(c)
  <2>1. packets' \in Seq(Info) /\ ToSet(packets') \subseteq ToSet(packets) \cup (reading \cap map)
    BY <1>9, <1>0, reading \cap map \in SUBSET Info DEF CloseWatchHandles, CloseDirectories
  <2> QED  BY <1>9, <2>1 DEF CloseWatchHandles, CloseDirectories
<1>10. CASE CloseCompletionPort(c)
  BY <1>10, <1>0 DEF CloseCompletionPort, ClosePort
<1>11. CASE ClearMap(c)
  BY <1>11 DEF ClearMap, ScheduleForDeletion
<1>12. CASE ClearInfoMap(c)
  BY <1>12 DEF ClearInfoMap, ScheduleForDeletion
<1>13. CASE Destroyed(c)  BY <1>13, <1>0 DEF Destroyed, ClearAndCleanup
<1> QED  BY <1>1, <1>2, <1>3, <1>4, <1>5, <1>6, <1>7, <1>8, <1>9, <1>10, <1>11, <1>12, <1>13
  DEF Lockless, Locking

\* A call that begins, what the file system does, the end of a block, and stuttering.
LEMMA OtherInv ==
  ASSUME Inv,
         \/ Begin \/ (\E k \in Info : Change(k)) \/ BlockEnds
         \/ UNCHANGED vars
  PROVE  Inv'
<1> USE DEF Thread, Client, Worker, Crawler, Ui, Pipe, Go, Free, Call, vars, io, lists,
            infos, Inv, Typed, InfosAccounted, Orphans, PortClosed, Counted, Locked, Looked, Pending
<1>1. ASSUME NEW p \in Dir, LoadPath(p)  PROVE Inv'
  BY <1>1 DEF LoadPath
<1>2. ASSUME NEW p \in Dir, AskWatch(p)  PROVE Inv'
  BY <1>2 DEF AskWatch
<1>3. ASSUME NEW c \in Client, NEW o, CloseWatcherHandles(c, o)  PROVE Inv'
  BY <1>3 DEF CloseWatcherHandles
<1>4. CASE Shutdown  BY <1>4 DEF Shutdown
<1>5. ASSUME NEW k \in Info, Change(k)  PROVE Inv'
  <2>1. packets' \in Seq(Info) /\ Pending' \subseteq Pending
    BY <1>5, Queued DEF Change, Pending
  <2> QED  BY <1>5, <2>1 DEF Change
<1>6. CASE BlockEnds  BY <1>6 DEF BlockEnds
<1>7. CASE UNCHANGED vars  BY <1>7
<1> QED  BY <1>1, <1>2, <1>3, <1>4, <1>5, <1>6, <1>7 DEF Begin

-----------------------------------------------------------------------------
\* The inductive invariant about the infos holds.
THEOREM InvHolds == Spec => []Inv
<1>1. Inv /\ [Next]_vars => Inv'
  BY WorkerInv, ClientInv, OtherInv DEF Next
<1> QED  BY <1>1, InitInv, PTL DEF Spec

\* InfosAccounted: for any number of infos, calls and failures every info of
\* CDirectoryWatcher is in the map or scheduled for deletion, and handles and reads
\* are of such infos.
THEOREM NoneLeaks == Spec => []InfosAccounted
<1>1. Inv => InfosAccounted  BY DEF Inv
<1> QED  BY <1>1, InvHolds, PTL

\* NoDangling: for any number of infos, calls and failures WorkerThread never works
\* on a completion whose info has been deleted.
THEOREM NoneDangles == Spec => []NoDangling
<1>1. Inv => NoDangling  BY DEF Inv, Looked, NoDangling
<1> QED  BY <1>1, InvHolds, PTL

-----------------------------------------------------------------------------
(* The list of watched paths.  It stays a list, whatever SortSeq does, and what *)
(* OpenFails drops from its end is no loss.                                     *)

\* What is true of 0, and of i if it is of i - 1, is true up to n.
LEMMA StepByStep ==
  ASSUME NEW n \in Nat, NEW T, 0 \in T, \A i \in 1..n : i - 1 \in T => i \in T
  PROVE  \A i \in 0..n : i \in T
<1> SUFFICES ASSUME NEW k \in (0..n) \ T PROVE FALSE  OBVIOUS
<1>1. PICK S : S = (0..n) \ T  OBVIOUS
<1>2. S \in SUBSET Nat /\ S # {}  BY <1>1
<1>3. PICK x \in S : \A y \in S : ~ (<<y, x>> \in OpToRel(<, Nat))
  <2> HIDE DEF OpToRel
  <2> QED  BY <1>2, NatLessThanWellFounded, WFMin
<1>4. x # 0 /\ x \in 0..n  BY <1>1
<1>5. x - 1 \in Nat /\ x - 1 < x /\ x - 1 \in 0..n /\ x \in 1..n /\ x \in Nat  BY <1>4
<1>6. x - 1 \notin S
  BY <1>3, <1>5 DEF OpToRel
<1> QED  BY <1>1, <1>5, <1>6

\* A list that begins empty and to which each step may append a member of T.
Grows(f, n, val) ==
  f[0] = << >> /\ \A i \in 1..n : f[i] = f[i - 1] \/ f[i] = Append(f[i - 1], val[i])

\* Such a list is a sequence over T.
LEMMA GrowsSound ==
  ASSUME NEW n \in Nat, NEW T, NEW val, \A i \in 1..n : val[i] \in T, NEW f, Grows(f, n, val)
  PROVE  f[n] \in Seq(T)
<1> DEFINE U == {k \in 0..n : f[k] \in Seq(T)}
<1>1. 0 \in U
  <2>1. PICK e : e = << >>  OBVIOUS
  <2>2. e \in Seq(T)  BY <2>1
  <2>3. f[0] = e  BY <2>1 DEF Grows
  <2>4. 0 \in 0..n  OBVIOUS
  <2> QED  BY <2>2, <2>3, <2>4
<1>2. ASSUME NEW k \in 1..n, k - 1 \in U PROVE k \in U
  <2>1. PICK p : p = f[k - 1]  OBVIOUS
  <2>2. PICK q : q = Append(p, val[k])  OBVIOUS
  <2>3. p \in Seq(T) /\ q \in Seq(T)  BY <1>2, <2>1, <2>2
  <2>4. f[k] = p \/ f[k] = q  BY <2>1, <2>2 DEF Grows
  <2> QED  BY <2>3, <2>4
<1>3. \A k \in 0..n : k \in U
  <2> HIDE DEF U
  <2> QED  BY <1>1, <1>2, StepByStep
<1> QED  BY <1>3

\* There is such a list whatever decides which members are skipped.
Extended(i, g, val, skip) ==
  IF i = 0 THEN << >> ELSE IF <<i, g[i - 1]>> \in skip THEN g[i - 1] ELSE Append(g[i - 1], val[i])

Members(val, n, T) == \A i \in 1..n : val[i] \in T
Grown(n, T, val, skip) ==
  \E g \in [0..n -> Seq(T)] : \A i \in 0..n : g[i] = Extended(i, g, val, skip)

\* The recursive function that builds such a list exists.
LEMMA GrowsExists ==
  ASSUME NEW n \in Nat, NEW T, NEW val, Members(val, n, T), NEW skip
  PROVE  Grown(n, T, val, skip)
<1> USE DEF Members, Grown
<1> DEFINE U == {k \in 0..n : \E g \in [0..n -> Seq(T)] : \A i \in 0..k : g[i] = Extended(i, g, val, skip)}
<1>1. 0 \in U
  <2>1. [i \in 0..n |-> << >>] \in [0..n -> Seq(T)]  OBVIOUS
  <2>2. PICK g \in [0..n -> Seq(T)] : g = [i \in 0..n |-> << >>]  BY <2>1
  <2>3. g[0] = Extended(0, g, val, skip)  BY <2>2 DEF Extended
  <2> QED  BY <2>3
<1>2. ASSUME NEW k \in 1..n, k - 1 \in U PROVE k \in U
  <2>1. PICK g \in [0..n -> Seq(T)] : \A i \in 0..(k - 1) : g[i] = Extended(i, g, val, skip)
    BY <1>2
  <2>2. PICK x : x = Extended(k, g, val, skip)  OBVIOUS
  <2>3. x \in Seq(T)
    <3>1. PICK p \in Seq(T) : p = g[k - 1]  BY <2>1
    <3>2. PICK y \in T : y = val[k]  OBVIOUS
    <3>3. PICK q : q = Append(p, y)  OBVIOUS
    <3>4. q \in Seq(T)  BY <3>3
    <3>5. x = p \/ x = q  BY <2>2, <3>1, <3>2, <3>3 DEF Extended
    <3> QED  BY <3>4, <3>5
  <2>4. PICK h : h = [g EXCEPT ![k] = x]  OBVIOUS
  <2>5. h \in [0..n -> Seq(T)] /\ h[k] = x /\ \A i \in 0..n : i # k => h[i] = g[i]
    BY <2>1, <2>3, <2>4
  <2>6. ASSUME NEW i \in 0..k PROVE h[i] = Extended(i, h, val, skip)
    <3>1. i = 0 \/ (i - 1 \in 0..n /\ i - 1 # k)  OBVIOUS
    <3>2. Extended(i, h, val, skip) = Extended(i, g, val, skip)
      BY <2>5, <3>1 DEF Extended
    <3>3. i = k \/ (i \in 0..(k - 1) /\ i \in 0..n)  OBVIOUS
    <3> HIDE DEF U
    <3> QED  BY <2>1, <2>2, <2>5, <3>2, <3>3
  <2>7. k \in 0..n  OBVIOUS
  <2> QED  BY <2>5, <2>6, <2>7
<1>3. \A k \in 0..n : k \in U
  <2> HIDE DEF U
  <2> QED  BY <1>1, <1>2, StepByStep
<1> QED  BY <1>3

Listing(q) == q \in Seq(ToSet(q))

\* Every sequence lists its elements.
LEMMA ListingOf == ASSUME NEW T, NEW q \in Seq(T) PROVE Listing(q)
<1>1. Len(q) \in Nat /\ DOMAIN q = 1..Len(q) /\ \A i \in 1..Len(q) : q[i] \in ToSet(q)
  BY DEF ToSet
<1>2. q = [i \in 1..Len(q) |-> q[i]]  OBVIOUS
<1> QED  BY <1>1, <1>2 DEF Listing

\* Taking paths off the list, and sorting it, leaves a list.
LEMMA WithoutSound ==
  ASSUME NEW list, Listing(list), NEW S
  PROVE  Listing(Without(list, S))
<1> DEFINE n == Len(list)
           T == ToSet(list)
           Off(i) == \E p \in S : IsAncestorOf(p, list[i])
           Body(i, g) == IF i = 0 THEN << >>
                         ELSE IF Off(i) THEN g[i - 1] ELSE Append(g[i - 1], list[i])
           Sol(g) == g = [i \in 0..n |-> Body(i, g)]
<1>1. n \in Nat /\ \A i \in 1..n : list[i] \in T
  BY DEF Listing, ToSet
<1>2. \E g : Sol(g)
  <2>1. PICK skip : skip = {i \in 1..n : Off(i)} \X Seq(T)  OBVIOUS
  <2>2. PICK g \in [0..n -> Seq(T)] : \A i \in 0..n : g[i] = Extended(i, g, list, skip)
    <3>1. Members(list, n, T)  BY <1>1 DEF Members
    <3>2. Grown(n, T, list, skip)
      <4> HIDE DEF n, T
      <4> QED  BY <1>1, <3>1, GrowsExists
    <3> HIDE DEF n, T
    <3> QED  BY <3>2 DEF Grown
  <2>3. ASSUME NEW i \in 0..n PROVE g[i] = Body(i, g)
    <3>1. CASE i = 0  BY <2>2, <3>1 DEF Extended
    <3>2. CASE i # 0
      <4>1. i \in 1..n /\ i - 1 \in 0..n  BY <1>1, <3>2
      <4>2. g[i - 1] \in Seq(T)  BY <4>1
      <4>3. <<i, g[i - 1]>> \in skip <=> Off(i)
        <5> HIDE DEF Off, T, n
        <5> QED  BY <2>1, <4>1, <4>2
      <4> HIDE DEF Off, T, n
      <4> QED  BY <2>2, <3>2, <4>3 DEF Extended
    <3> QED  BY <3>1, <3>2
  <2> HIDE DEF Body
  <2> QED  BY <2>3
<1>3. PICK f : f = CHOOSE g : Sol(g)
  OBVIOUS
<1>4. Sol(f)
  <2> HIDE DEF Sol
  <2> QED  BY <1>2, <1>3
<1>5. Without(list, S) = f[n]
  BY <1>3 DEF Without
<1>6. Grows(f, n, list)
  <2>1. \A i \in 0..n : f[i] = Body(i, f)
    <3> HIDE DEF Body
    <3> QED  BY <1>4
  <2>2. f[0] = << >>  BY <1>1, <2>1
  <2>3. ASSUME NEW i \in 1..n PROVE f[i] = f[i - 1] \/ f[i] = Append(f[i - 1], list[i])
    <3>1. i \in 0..n /\ i # 0  BY <1>1
    <3> HIDE DEF Off, n
    <3> QED  BY <2>1, <3>1
  <2> HIDE DEF Off, n
  <2> QED  BY <2>2, <2>3 DEF Grows
<1>7. f[n] \in Seq(T)
  <2> HIDE DEF n, T
  <2> QED  BY <1>1, <1>6, GrowsSound
<1> HIDE DEF T
<1> QED  BY <1>5, <1>7, ListingOf

\* So does RemoveChildren.
LEMMA ChildrenSound ==
  ASSUME NEW list, Listing(list)
  PROVE  Listing(RemoveChildren(list))
<1> DEFINE n == Len(list)
           sorted == SortSeq(list, LAMBDA a, b : Order[a] < Order[b])
           T == {sorted[i] : i \in 1..n}
           Off(i, p) == p # << >> /\ IsAncestorOf(Last(p), sorted[i])
           Body(i, g) == IF i = 0 THEN << >>
                         ELSE IF Off(i, g[i - 1]) THEN g[i - 1] ELSE Append(g[i - 1], sorted[i])
           Sol(g) == g = [i \in 0..n |-> Body(i, g)]
<1> HIDE DEF sorted
<1>1. n \in Nat /\ \A i \in 1..n : sorted[i] \in T
  BY DEF Listing
<1>2. \E g : Sol(g)
  <2>1. PICK skip : skip = {x \in (1..n) \X Seq(T) : Off(x[1], x[2])}  OBVIOUS
  <2>2. PICK g \in [0..n -> Seq(T)] : \A i \in 0..n : g[i] = Extended(i, g, sorted, skip)
    <3>1. Members(sorted, n, T)  BY <1>1 DEF Members
    <3>2. Grown(n, T, sorted, skip)
      <4> HIDE DEF n, T
      <4> QED  BY <1>1, <3>1, GrowsExists
    <3> HIDE DEF n, T
    <3> QED  BY <3>2 DEF Grown
  <2>3. ASSUME NEW i \in 0..n PROVE g[i] = Body(i, g)
    <3>1. CASE i = 0  BY <2>2, <3>1 DEF Extended
    <3>2. CASE i # 0
      <4>1. i \in 1..n /\ i - 1 \in 0..n  BY <1>1, <3>2
      <4>2. g[i - 1] \in Seq(T)  BY <4>1
      <4>3. <<i, g[i - 1]>> \in skip <=> Off(i, g[i - 1])
        <5> HIDE DEF Off, T, n
        <5> QED  BY <2>1, <4>1, <4>2
      <4> HIDE DEF Off, T, n
      <4> QED  BY <2>2, <3>2, <4>3 DEF Extended
    <3> QED  BY <3>1, <3>2
  <2> HIDE DEF Body
  <2> QED  BY <2>3
<1>3. PICK f : f = CHOOSE g : Sol(g)
  OBVIOUS
<1>4. Sol(f)
  <2> HIDE DEF Sol
  <2> QED  BY <1>2, <1>3
<1>5. RemoveChildren(list) = f[n]
  BY <1>3 DEF RemoveChildren, sorted
<1>6. Grows(f, n, sorted)
  <2>1. \A i \in 0..n : f[i] = Body(i, f)
    <3> HIDE DEF Body
    <3> QED  BY <1>4
  <2>2. f[0] = << >>  BY <1>1, <2>1
  <2>3. ASSUME NEW i \in 1..n PROVE f[i] = f[i - 1] \/ f[i] = Append(f[i - 1], sorted[i])
    <3>1. i \in 0..n /\ i # 0  BY <1>1
    <3> HIDE DEF Off, n
    <3> QED  BY <2>1, <3>1
  <2> HIDE DEF Off, n
  <2> QED  BY <2>2, <2>3 DEF Grows
<1>7. f[n] \in Seq(T)
  <2> HIDE DEF n, T
  <2> QED  BY <1>1, <1>6, GrowsSound
<1> HIDE DEF T
<1> QED  BY <1>5, <1>7, ListingOf

\* Adding a path to a list makes a list.
LEMMA AddedSound ==
  ASSUME Listing(watched), NEW p
  PROVE  Listing(Added(p))
<1>1. ASSUME NEW x PROVE Listing(Append(watched, x))
  <2>1. PICK q : q = Append(watched, x)  OBVIOUS
  <2>2. PICK T : T = ToSet(watched) \cup {x}  OBVIOUS
  <2>3. watched \in Seq(T) /\ x \in T  BY <2>2 DEF Listing
  <2>4. q \in Seq(T)  BY <2>1, <2>3
  <2> QED  BY <2>1, <2>4, ListingOf
<1>2. ASSUME NEW x PROVE Listing(RemoveChildren(Append(watched, x)))
  <2>1. PICK q : q = Append(watched, x)  OBVIOUS
  <2> QED  BY <1>1, <2>1, ChildrenSound
<1> QED  BY <1>1, <1>2 DEF Added

\* What RemoveFirst takes off the end of the list is no loss if it is there before.
LEMMA ConcatSound ==
  ASSUME NEW T, NEW a \in Seq(T), NEW b \in Seq(T), NEW q, q = a \o b
  PROVE  /\ q \in Seq(T) /\ Len(q) = Len(a) + Len(b)
         /\ \A k \in 1..Len(q) : q[k] = IF k <= Len(a) THEN a[k] ELSE b[k - Len(a)]
<1> QED  OBVIOUS

\* Dropping a path leaves a list; if it was the last, of what was listed before it.
LEMMA DropSound ==
  ASSUME NEW list, Listing(list), NEW i \in 1..Len(list)
  PROVE  /\ Listing(RemoveFirst(list, list[i]))
         /\ i = Len(list) =>
              \A n \in 1..Len(RemoveFirst(list, list[i])) :
                \E j \in 1..Len(list) : j < i /\ RemoveFirst(list, list[i])[n] = list[j]
<1> DEFINE I == {k \in 1..Len(list) : list[k] = list[i]}
           T == ToSet(list)
           L == Len(list)
<1>1. L \in Nat /\ list \in Seq(T)  BY DEF Listing
<1>2. PICK m \in I : m = Min(I)
  <2>1. I \in SUBSET Nat /\ I # {}  BY <1>1
  <2>2. \E m \in I : \A k \in I : m <= k
    <3>1. PICK m \in I : \A k \in I : ~ (<<k, m>> \in OpToRel(<, Nat))
      <4> HIDE DEF OpToRel, I
      <4> QED  BY <2>1, NatLessThanWellFounded, WFMin
    <3>2. \A k \in I : ~ (k < m)
      <4> HIDE DEF I
      <4> QED  BY <2>1, <3>1 DEF OpToRel
    <3>3. \A k \in I : m <= k
      <4> HIDE DEF I
      <4> QED  BY <2>1, <3>2
    <3> QED  BY <3>3
  <2> HIDE DEF I
  <2> QED  BY <2>2 DEF Min
<1>3. m \in 1..L /\ list[m] = list[i] /\ SelectInSeq(list, LAMBDA v : v = list[i]) = m
  <2>1. SelectInSeq(list, LAMBDA v : v = list[i]) = Min(I)
    BY <1>2 DEF SelectInSeq
  <2> QED  BY <1>2, <2>1
<1>4. RemoveFirst(list, list[i]) = SubSeq(list, 1, m - 1) \o SubSeq(list, m + 1, L)
  BY <1>3 DEF RemoveFirst, RemoveAt
<1>5. PICK a : a = SubSeq(list, 1, m - 1)  OBVIOUS
<1>6. a \in Seq(T) /\ Len(a) = m - 1 /\ \A k \in 1..(m - 1) : a[k] = list[k]
  BY <1>1, <1>3, <1>5
<1>7. PICK b : b = SubSeq(list, m + 1, L)  OBVIOUS
<1>8. b \in Seq(T) /\ Len(b) = L - m /\ \A k \in 1..(L - m) : b[k] = list[m + k]
  BY <1>1, <1>3, <1>7
<1>9. PICK q : q = a \o b  OBVIOUS
<1>10. /\ q \in Seq(T) /\ Len(q) = L - 1
       /\ \A k \in 1..(L - 1) : q[k] = IF k < m THEN list[k] ELSE list[k + 1]
  <2>0. a \in Seq(T) /\ b \in Seq(T)  BY <1>6, <1>8
  <2>1. q \in Seq(T) /\ Len(q) = Len(a) + Len(b)
    <3> HIDE DEF T, I, L
    <3> QED  BY <2>0, <1>9, ConcatSound
  <2>2. \A k \in 1..Len(q) : q[k] = IF k <= Len(a) THEN a[k] ELSE b[k - Len(a)]
    <3> HIDE DEF T, I
    <3> QED  BY <1>6, <1>8, <1>9, ConcatSound
  <2>3. Len(q) = L - 1  BY <1>1, <1>3, <1>6, <1>8, <2>1
  <2>4. ASSUME NEW k \in 1..(L - 1) PROVE q[k] = IF k < m THEN list[k] ELSE list[k + 1]
    <3>1. CASE k < m
      <4>1. k \in 1..(m - 1) /\ k <= Len(a)  BY <1>1, <1>3, <1>6, <3>1
      <4> QED  BY <1>6, <2>2, <2>3, <3>1, <4>1
    <3>2. CASE ~ (k < m)
      <4>1. k - (m - 1) \in 1..(L - m) /\ ~ (k <= Len(a)) /\ m + (k - (m - 1)) = k + 1
        BY <1>1, <1>3, <1>6, <3>2
      <4>2. q[k] = b[k - (m - 1)]  BY <1>6, <2>2, <2>3, <4>1
      <4> QED  BY <1>8, <3>2, <4>1, <4>2
    <3> QED  BY <3>1, <3>2
  <2> QED  BY <2>1, <2>3, <2>4
<1>11. ASSUME i = L, NEW n \in 1..Len(q) PROVE \E j \in 1..L : j < i /\ q[n] = list[j]
  <2>1. n \in 1..(L - 1)  BY <1>10
  <2>2. CASE n < m  BY <1>1, <1>3, <1>10, <1>11, <2>1, <2>2
  <2>3. CASE ~ (n < m) /\ n + 1 < L  BY <1>1, <1>3, <1>10, <1>11, <2>1, <2>3
  <2>4. CASE ~ (n < m) /\ n + 1 = L  BY <1>1, <1>3, <1>10, <1>11, <2>1, <2>4
  <2> QED  BY <1>1, <2>1, <2>2, <2>3, <2>4
<1>12. RemoveFirst(list, list[i]) = q  BY <1>4, <1>5, <1>7, <1>9
<1>13. Listing(q)  BY <1>10, ListingOf
<1> QED  BY <1>11, <1>12, <1>13

-----------------------------------------------------------------------------
(* What is watched *)

\* The completion that the worker has in its hand ...
InHand == IF pc[Worker] \in {"check", "packet"} THEN {pdi} ELSE {}

\* ... and the paths that are watched: what changes below them is or will be told.
Covers == {dir[k] : k \in {k \in map \cap open : k \in reading \/ k \in ToSet(packets) \/ k \in InHand}}

Registering == pc[Worker] \in {"register", "relock"}

\* Before Loaded the other threads have not been started, and nothing that is added
\* to the list closes the directories.
Loading == op[Ui].kind = "load" /\ pc[Ui] \in {"load", "enter"}

\* Who loads is alone; who has stopped the watcher or destroys it has told the worker.
Calls ==
  /\ \A c \in Client : op[c].kind = "load" => c = Ui /\ \A x \in Client \ {Ui} : pc[x] = "off"
  /\ pc[Ui] = "load" => op[Ui].kind = "load"
  /\ \A c \in Client :
       op[c].kind = "destroy" \/ pc[c] \in {"join", "stopped"}
         \/ (op[c].kind = "stop" /\ pc[c] \notin {"guard", "stop"})
       => ~running

\* The completion the worker is about to take has not been cleaned under its hands.
Fresh == running /\ pc[Worker] \in {"wait", "check", "packet"} => ~cleaned

\* Who closes handles during the registration leaves a trace, or there was nothing
\* to close.
Touch ==
  /\ touched => Registering
  /\ Registering => \A c \in Client : pc[c] \in {"port", "null"} => touched \/ map = {}

\* The loop begins without a port.
Begun == pc[Worker] = "open" \/ Registering => w.i \in Nat /\ w.i >= 1 /\ (w.i = 1 => ~port)

\* Watching all paths again: what lies before w.i is watched, unless somebody came.
Upto(i) == \A n \in 1..Len(watched) : n < i => watched[n] \in Covers

Looping ==
  /\ running /\ ~gap /\ pc[Worker] = "open" => Upto(w.i)
  /\ running /\ ~gap /\ ~touched /\ Registering =>
       w.i <= Len(watched) /\ w.path = watched[w.i] /\ Upto(w.i)

\* Otherwise the whole list is, as long as the port is there and nobody is just
\* about to close it.
Full ==
  /\ running /\ ~gap /\ port /\ pc[Worker] \notin {"open", "register", "relock"}
  /\ ~Loading /\ \A c \in Client : pc[c] # "port"
  => \A n \in 1..Len(watched) : watched[n] \in Covers

\* The types that the steps need.
OpTyped == DOMAIN op = Client /\ DOMAIN pc = Thread

WatchInv == OpTyped /\ Listing(watched) /\ Calls /\ Fresh /\ Touch /\ Begun /\ Looping /\ Full

\* A larger queue has what the smaller one had.
LEMMA QueuedMore ==
  ASSUME NEW p \in Seq(Info)
  PROVE  /\ \A q \in Seq(Info) : ToSet(p) \subseteq ToSet(p \o q)
         /\ \A k \in Info : ToSet(Append(p, k)) = ToSet(p) \cup {k}
         /\ p # <<>> => ToSet(p) = {Head(p)} \cup ToSet(Tail(p))
<1>1. ASSUME NEW q \in Seq(Info) PROVE ToSet(p) \subseteq ToSet(p \o q)
  <2>1. PICK r : r = p \o q  OBVIOUS
  <2>2. r \in Seq(Info) /\ Len(r) = Len(p) + Len(q) /\ \A i \in 1..Len(p) : r[i] = p[i]
    BY <2>1
  <2>3. DOMAIN p = 1..Len(p) /\ DOMAIN r = 1..Len(r) /\ Len(p) \in Nat /\ Len(q) \in Nat
    BY <2>2
  <2>4. \A i \in 1..Len(p) : i \in 1..Len(r)  BY <2>2, <2>3
  <2> QED  BY <2>1, <2>2, <2>3, <2>4 DEF ToSet
<1>2. ASSUME NEW k \in Info PROVE ToSet(Append(p, k)) = ToSet(p) \cup {k}
  <2>1. PICK r : r = Append(p, k)  OBVIOUS
  <2>2. /\ r \in Seq(Info) /\ Len(r) = Len(p) + 1 /\ r[Len(p) + 1] = k
        /\ \A i \in 1..Len(p) : r[i] = p[i]
    BY <2>1
  <2>3. DOMAIN p = 1..Len(p) /\ DOMAIN r = 1..(Len(p) + 1) /\ Len(p) \in Nat
    BY <2>2
  <2>4. \A i : i \in 1..(Len(p) + 1) <=> i \in 1..Len(p) \/ i = Len(p) + 1  BY <2>3
  <2>5. ToSet(r) = {r[i] : i \in 1..(Len(p) + 1)} /\ ToSet(p) = {p[i] : i \in 1..Len(p)}
    BY <2>3 DEF ToSet
  <2>6. ToSet(r) = ToSet(p) \cup {k}
    BY <2>2, <2>4, <2>5
  <2> QED  BY <2>1, <2>6
<1>3. ASSUME p # <<>> PROVE ToSet(p) = {Head(p)} \cup ToSet(Tail(p))
  <2>1. PICK r : r = Tail(p)  OBVIOUS
  <2>2. /\ r \in Seq(Info) /\ Len(r) = Len(p) - 1 /\ Len(p) \in Nat /\ Len(p) # 0
        /\ \A i \in 1..(Len(p) - 1) : r[i] = p[i + 1]
    BY <1>3, <2>1
  <2>3. Head(p) = p[1]  BY <1>3
  <2>4. DOMAIN p = 1..Len(p) /\ DOMAIN r = 1..(Len(p) - 1)
    BY <2>2
  <2>5. ToSet(r) = {r[i] : i \in 1..(Len(p) - 1)} /\ ToSet(p) = {p[i] : i \in 1..Len(p)}
    BY <2>4 DEF ToSet
  <2>6. \A i \in 1..Len(p) : i = 1 \/ (i - 1 \in 1..(Len(p) - 1) /\ p[i] = r[i - 1])
    BY <2>2
  <2>7. \A i \in 1..(Len(p) - 1) : i + 1 \in 1..Len(p) /\ r[i] = p[i + 1]
    BY <2>2
  <2>8. 1 \in 1..Len(p)  BY <2>2
  <2>9. ToSet(p) = {Head(p)} \cup ToSet(r)
    BY <2>3, <2>5, <2>6, <2>7, <2>8
  <2> QED  BY <2>1, <2>9
<1> QED  BY <1>1, <1>2, <1>3

\* The list is empty in the beginning.
LEMMA InitWatch == Init => WatchInv
<1> USE DEF Thread, Client, Worker, Crawler, Ui, Pipe
<1> SUFFICES ASSUME Init PROVE WatchInv  OBVIOUS
<1>1. Listing(watched)
  <2>1. PICK e : e = << >>  OBVIOUS
  <2>2. e \in Seq({})  BY <2>1
  <2>3. Listing(e)
    <3>1. ToSet(e) = {}  BY <2>1, <2>2 DEF ToSet
    <3> QED  BY <2>2, <3>1 DEF Listing
  <2> QED  BY <2>1, <2>3 DEF Init
<1> QED
  BY <1>1 DEF Init, NoCall, WatchInv, OpTyped, Calls, Fresh, Touch, Begun, Registering, Looping, Full, Loading

InLoop(label) == label \in {"open", "register", "relock"}

\* A step of the worker that has nothing to do with watching all paths again: the
\* paths stay as they are, and what was watched still is, or the port is closed.
LEMMA Elsewhere ==
  ASSUME WatchInv, OpTyped', \A c \in Client : pc'[c] = pc[c],
         ~InLoop(pc[Worker]), ~InLoop(pc'[Worker]),
         UNCHANGED <<running, watched, op, touched>>,
         running /\ ~gap' /\ port' => ~gap /\ port /\ Covers \subseteq Covers',
         Fresh'
  PROVE  WatchInv'
<1> USE DEF Client, Crawler, Ui, Pipe, WatchInv, InLoop
<1>1. Listing(watched)'  BY DEF Listing
<1>2. Calls'  BY DEF Calls
<1>3. Touch' /\ Begun' /\ Looping'
  BY DEF Touch, Begun, Looping, Registering
<1>4. Full'
  <2> HIDE DEF Covers
  <2> QED  BY DEF Full, Loading
<1> QED  BY <1>1, <1>2, <1>3, <1>4

\* Which steps of the worker are such.
LEMMA ElsewhereSteps ==
  ASSUME Inv, Inv', WatchInv,
         \/ Loop \/ Cleanup \/ Reset \/ GetPacket \/ Check \/ PortGone \/ WaitTimesOut
         \/ Failed \/ NullPort \/ Rearm \/ Dismiss \/ Tell
  PROVE  WatchInv'
<1> USE DEF Worker, Go
<1>0. /\ Worker \notin Client /\ Worker \in Thread /\ Client \subseteq Thread
      /\ DOMAIN pc = Thread /\ DOMAIN op = Client
  BY DEF Thread, Client, Crawler, Ui, Pipe, WatchInv, OpTyped
<1>1. PICK l : pc' = [pc EXCEPT ![Worker] = l]
  BY DEF Loop, Cleanup, Reset, GetPacket, Check, PortGone, WaitTimesOut, Failed, NullPort,
         Rearm, Dismiss, Tell
<1>2. UNCHANGED <<running, watched, op, touched>>
  BY DEF Loop, Cleanup, Reset, GetPacket, Check, PortGone, WaitTimesOut, Failed, NullPort,
         Rearm, Dismiss, Tell, lists
<1>3. OpTyped' /\ \A c \in Client : pc'[c] = pc[c]
  BY <1>0, <1>1, <1>2 DEF OpTyped
<1>4. ~InLoop(pc[Worker]) /\ ~InLoop(pc'[Worker])
  BY <1>0 DEF InLoop, Loop, Cleanup, Reset, GetPacket, Check, PortGone, WaitTimesOut, Failed,
      NullPort, Rearm, Dismiss, Tell
<1>5. Fresh'
  BY <1>0 DEF Fresh, WatchInv, Loop, Cleanup, Reset, GetPacket, Check, PortGone, WaitTimesOut, Failed,
      NullPort, Rearm, Dismiss, Tell, CleanupWatchInfo
<1>6. running /\ ~gap' /\ port' => ~gap /\ port /\ Covers \subseteq Covers'
  <2> SUFFICES ASSUME running, ~gap', port' PROVE ~gap /\ port /\ Covers \subseteq Covers'
    OBVIOUS
  <2> USE <1>0 DEF Covers, InHand, Inv
  <2>1. CASE Loop \/ Reset \/ PortGone \/ WaitTimesOut \/ NullPort
    <3>1. /\ UNCHANGED <<gap, port, map, dir, open, reading, packets>>
          /\ pc[Worker] \notin {"check", "packet"}
      BY <2>1 DEF Loop, Reset, PortGone, WaitTimesOut, NullPort, io, infos
    <3> QED  BY <3>1
  <2>2. CASE Cleanup \/ Tell
    <3>1. CleanupWatchInfo /\ UNCHANGED <<gap, pdi>> /\ pc[Worker] \notin {"check", "packet"}
      BY <2>2 DEF Cleanup, Tell
    <3>2. map \cap scheduled = {} /\ map \subseteq DOMAIN dir /\ packets \in Seq(Info) /\ scheduled \subseteq Info
      BY DEF InfosAccounted, Typed
    <3>3. ToSet(packets) \subseteq ToSet(packets')
      <4>1. PICK q : q = SetToSeq(reading \cap scheduled)  OBVIOUS
      <4>2. q \in Seq(Info)  BY <3>2, <4>1, SetToSeqSound
      <4>3. packets' = packets \o q  BY <3>1, <4>1 DEF CleanupWatchInfo, Delete
      <4> QED  BY <3>2, <4>2, <4>3, QueuedMore
    <3>4. \A k \in map : k \in DOMAIN dir' /\ dir'[k] = dir[k]
      BY <3>1, <3>2 DEF CleanupWatchInfo, Delete
    <3>5. map' = map /\ open \cap map \subseteq open' /\ reading \cap map \subseteq reading' /\ port' = port
      BY <3>1, <3>2 DEF CleanupWatchInfo, Delete
    <3> QED  BY <3>1, <3>3, <3>4, <3>5
  <2>3. CASE GetPacket
    <3>1. ToSet(packets) = {pdi'} \cup ToSet(packets')
      BY <2>3, QueuedMore DEF GetPacket, Typed
    <3>2. pc'[Worker] = "check" /\ pc[Worker] = "wait" /\ UNCHANGED <<gap, port, map, dir, open, reading>>
      BY <2>3 DEF GetPacket, infos
    <3> QED  BY <3>1, <3>2
  <2>4. CASE Check
    BY <2>4 DEF Check, io, infos
  <2>5. CASE Failed
    <3>1. CASE hPort  BY <2>5, <3>1 DEF Failed, ClosePort
    <3>2. CASE ~hPort
      <4>1. ~port /\ port' = port  BY <2>5, <3>2 DEF Failed, PortClosed
      <4> QED  BY <4>1
    <3> QED  BY <3>1, <3>2
  <2>6. CASE Rearm
    BY <2>6 DEF Rearm, infos
  <2>7. CASE Dismiss
    <3>1. ~cleaned  BY <2>7 DEF Dismiss, WatchInv, Fresh
    <3> QED  BY <2>7, <3>1 DEF Dismiss, io, infos
  <2> QED  BY <2>1, <2>2, <2>3, <2>4, <2>5, <2>6, <2>7
<1> QED
  <2> HIDE DEF Worker, Go
  <2> QED  BY <1>2, <1>3, <1>4, <1>5, <1>6, Elsewhere

\* The steps in which the worker watches all paths again.
LEMMA LoopSteps ==
  ASSUME Inv, Inv', WatchInv,
         \/ Restart \/ Open \/ OpenFails \/ AllOpen \/ Register \/ Changed \/ Watch \/ WatchFails
  PROVE  WatchInv'
<1> USE DEF Worker, Go
<1>0. /\ Worker \notin Client /\ Worker \in Thread /\ Client \subseteq Thread /\ Ui \in Client
      /\ DOMAIN pc = Thread /\ DOMAIN op = Client
  BY DEF Thread, Client, Crawler, Ui, Pipe, WatchInv, OpTyped
<1>1. PICK l : pc' = [pc EXCEPT ![Worker] = l]
  BY DEF Restart, Open, OpenFails, AllOpen, Register, Changed, Watch, WatchFails
<1>2. UNCHANGED <<running, op>>
  BY DEF Restart, Open, OpenFails, AllOpen, Register, Changed, Watch, WatchFails, lists
<1>3. OpTyped' /\ pc'[Worker] = l /\ \A c \in Client : pc'[c] = pc[c]
  BY <1>0, <1>1, <1>2 DEF OpTyped
<1>4. Calls' /\ Fresh'
  <2>1. pc'[Worker] \notin {"wait", "check", "packet"}
    BY <1>0 DEF Restart, Open, OpenFails, AllOpen, Register, Changed, Watch, WatchFails
  <2> HIDE DEF Worker, Go
  <2> QED  BY <1>0, <1>2, <1>3, <2>1 DEF Calls, Fresh, WatchInv
<1>5. CASE Restart
  <2>1. /\ pc[Worker] = "restart" /\ pc'[Worker] = "open" /\ ~port' /\ w'.i = 1
        /\ UNCHANGED <<watched, touched>>
    BY <1>0, <1>3, <1>5 DEF Restart, ClearAndCleanup, lists
  <2> QED  BY <1>3, <1>4, <2>1 DEF WatchInv, Listing, Touch, Begun, Looping, Full, Registering, Upto
<1>6. CASE Open
  <2>1. /\ pc[Worker] = "open" /\ pc'[Worker] = "register" /\ lock = Worker
        /\ w'.i = w.i /\ w'.path = watched[w.i] /\ w.i <= Len(watched)
        /\ UNCHANGED <<watched, touched, gap, port, map, dir, open, reading, packets, pdi>>
    BY <1>0, <1>3, <1>6 DEF Open, lists, io, infos, Inv, Locked
  <2>2. \A c \in Client : pc'[c] \notin {"port", "null"}
    BY <1>0, <1>3, <2>1 DEF Inv, Locked
  <2>3. Covers' = Covers
    BY <2>1 DEF Covers, InHand
  <2> HIDE DEF Covers
  <2> QED  BY <1>2, <1>3, <1>4, <2>1, <2>2, <2>3
    DEF WatchInv, Listing, Touch, Begun, Looping, Full, Registering, Upto
<1>7. CASE AllOpen
  <2>1. /\ pc[Worker] = "open" /\ pc'[Worker] = "loop"
        /\ w.i > Len(watched)
        /\ UNCHANGED <<watched, touched, gap, port, map, dir, open, reading, packets, pdi>>
    BY <1>0, <1>3, <1>7 DEF AllOpen, lists, io, infos
  <2>2. Covers' = Covers
    BY <2>1 DEF Covers, InHand
  <2>3. Len(watched) \in Nat /\ w.i \in Nat  BY <2>1 DEF WatchInv, Listing, Begun
  <2> HIDE DEF Covers
  <2> QED  BY <1>2, <1>3, <1>4, <2>1, <2>2, <2>3
    DEF WatchInv, Listing, Touch, Begun, Looping, Full, Registering, Upto
<1>8. CASE Register
  <2>1. /\ pc[Worker] = "register" /\ pc'[Worker] = "relock"
        /\ UNCHANGED <<watched, touched, gap, port, w, map, dir, open, reading, packets, pdi>>
    BY <1>0, <1>3, <1>8 DEF Register, lists, io, infos
  <2>2. Covers' = Covers
    BY <2>1 DEF Covers, InHand
  <2> HIDE DEF Covers
  <2> QED  BY <1>2, <1>3, <1>4, <2>1, <2>2
    DEF WatchInv, Listing, Touch, Begun, Looping, Full, Registering, Upto
<1>9. CASE Changed
  <2>1. /\ pc'[Worker] = "loop" /\ ~port' /\ ~touched' /\ UNCHANGED watched
    BY <1>0, <1>3, <1>9 DEF Changed, ClearAndCleanup, lists
  <2> QED  BY <1>3, <1>4, <2>1 DEF WatchInv, Listing, Touch, Begun, Looping, Full, Registering
<1>10. CASE WatchFails
  <2>1. /\ pc[Worker] = "relock" /\ pc'[Worker] = "loop" /\ ~port' /\ ~touched'
        /\ watched' = RemoveFirst(watched, w.path)
    BY <1>0, <1>3, <1>10 DEF WatchFails, ClearAndCleanup
  <2>2. Listing(watched)'
    <3>1. CASE \E i \in 1..Len(watched) : watched[i] = w.path
      <4>1. PICK i \in 1..Len(watched) : watched[i] = w.path  BY <3>1
      <4> QED  BY <2>1, <4>1, DropSound DEF WatchInv
    <3>2. CASE ~ \E i \in 1..Len(watched) : watched[i] = w.path
      BY <2>1, <3>2 DEF RemoveFirst, WatchInv
    <3> QED  BY <3>1, <3>2
  <2> QED  BY <1>3, <1>4, <2>1, <2>2 DEF WatchInv, Touch, Begun, Looping, Full, Registering
<1>11. CASE OpenFails
  <2>1. /\ pc[Worker] = "open" /\ pc'[Worker] = "loop" /\ w.i <= Len(watched)
        /\ watched' = RemoveFirst(watched, watched[w.i])
        /\ gap' = (gap \/ (w.i > 1 /\ w.i < Len(watched)))
        /\ UNCHANGED <<touched, port, map, dir, open, reading, packets, pdi>>
    BY <1>0, <1>3, <1>11 DEF OpenFails, io, infos
  <2>2. Covers' = Covers
    BY <2>1 DEF Covers, InHand
  <2>3. Len(watched) \in Nat /\ w.i \in Nat /\ w.i \in 1..Len(watched)
    BY <2>1 DEF WatchInv, Listing, Begun
  <2>4. Listing(watched)'
    BY <2>1, <2>3, DropSound DEF WatchInv
  <2>5. Full'
    <3> SUFFICES ASSUME running', ~gap', port' PROVE \A n \in 1..Len(watched') : watched'[n] \in Covers'
      BY DEF Full
    <3>1. w.i = Len(watched) /\ ~gap
      <4>1. port /\ ~gap /\ ~(w.i > 1 /\ w.i < Len(watched))  BY <2>1
      <4>2. w.i # 1  BY <2>1, <4>1 DEF WatchInv, Begun
      <4> QED  BY <2>3, <4>1, <4>2
    <3>2. Upto(w.i)
      BY <1>2, <2>1, <3>1 DEF WatchInv, Looping
    <3>3. \A n \in 1..Len(watched') : \E j \in 1..Len(watched) : j < w.i /\ watched'[n] = watched[j]
      BY <2>1, <2>3, <3>1, DropSound DEF WatchInv
    <3> HIDE DEF Covers
    <3> QED  BY <2>2, <3>2, <3>3 DEF Upto
  <2> QED  BY <1>3, <1>4, <2>1, <2>4, <2>5 DEF WatchInv, Touch, Begun, Looping, Registering
<1>12. CASE Watch
  <2>1. PICK k \in NewInfos :
          /\ dir' = [x \in DOMAIN dir \cup {k} |-> IF x = k THEN w.path ELSE dir[x]]
          /\ open' = open \cup {k} /\ reading' = reading \cup {k} /\ map' = map \cup {k}
    BY <1>12 DEF Watch
  <2>2. /\ pc[Worker] = "relock" /\ pc'[Worker] = "open" /\ ~touched' /\ UNCHANGED <<watched, packets>>
        /\ w' = [w EXCEPT !.i = w.i + 1] /\ gap' = (gap \/ Unnoticed) /\ Same
    BY <1>0, <1>3, <1>12 DEF Watch, lists
  <2>3. k \notin DOMAIN dir /\ map \subseteq DOMAIN dir
    BY <2>1 DEF NewInfos, Inv, InfosAccounted
  <2>4. Covers \cup {w.path} \subseteq Covers'
    BY <2>1, <2>2, <2>3 DEF Covers, InHand
  <2>5. w.i \in Nat /\ w.i >= 1
    BY <2>2 DEF WatchInv, Begun, Registering
  <2>6. w'.i = w.i + 1
    BY <2>2
  <2>7. Looping'
    <3> SUFFICES ASSUME running', ~gap' PROVE Upto(w.i)'
      BY <2>2 DEF Looping, Registering
    <3>1. ~touched /\ ~gap
      BY <2>2 DEF Unnoticed, Same
    <3>2. w.path = watched[w.i] /\ Upto(w.i)
      BY <1>2, <2>2, <3>1 DEF WatchInv, Looping, Registering
    <3>3. ASSUME NEW n \in 1..Len(watched), n < w.i + 1 PROVE watched[n] \in Covers'
      <4>1. n < w.i \/ n = w.i  BY <2>5, <3>3
      <4> HIDE DEF Covers
      <4> QED  BY <2>4, <3>2, <4>1 DEF Upto
    <3> HIDE DEF Covers
    <3> QED  BY <2>2, <2>6, <3>3 DEF Upto
  <2>8. Begun'
    BY <2>5, <2>6 DEF Begun
  <2> QED  BY <1>3, <1>4, <2>2, <2>7, <2>8 DEF WatchInv, Listing, Touch, Full, Registering
<1> QED  BY <1>5, <1>6, <1>7, <1>8, <1>9, <1>10, <1>11, <1>12

AtPort == \E c \in Client : pc[c] = "port"

\* A step of somebody else that leaves alone what the worker depends on.
LEMMA Quietly ==
  ASSUME WatchInv, OpTyped', Calls', running' => running,
         UNCHANGED <<cleaned, watched, port, map, w, gap, touched>>, pc'[Worker] = pc[Worker],
         Covers \subseteq Covers',
         \A c \in Client : pc'[c] \in {"port", "null"} => pc[c] \in {"port", "null"},
         Loading => Loading', AtPort /\ port => AtPort'
  PROVE  WatchInv'
<1> USE DEF WatchInv
<1>1. Listing(watched)'  BY DEF Listing
<1>2. Fresh' /\ Touch' /\ Begun'
  BY DEF Fresh, Touch, Begun, Registering
<1>3. \A i : Upto(i) => Upto(i)'
  <2> HIDE DEF Covers
  <2> QED  BY DEF Upto
<1>4. Looping'
  <2> HIDE DEF Covers, Upto
  <2>1. running' /\ ~gap' /\ pc'[Worker] = "open" => Upto(w.i)'
    <3> SUFFICES ASSUME running', ~gap', pc'[Worker] = "open" PROVE Upto(w.i)'  OBVIOUS
    <3>1. Upto(w.i)  BY DEF Looping
    <3>2. Upto(w.i)'  BY <1>3, <3>1 DEF Upto
    <3> QED  BY <3>2
  <2>2. running' /\ ~gap' /\ ~touched' /\ Registering' =>
          w'.i <= Len(watched') /\ w'.path = watched'[w'.i] /\ Upto(w.i)'
    <3> SUFFICES ASSUME running', ~gap', ~touched', Registering'
                 PROVE  w'.i <= Len(watched') /\ w'.path = watched'[w'.i] /\ Upto(w.i)'
      OBVIOUS
    <3>1. w.i <= Len(watched) /\ w.path = watched[w.i] /\ Upto(w.i)
      BY DEF Looping, Registering
    <3>2. Upto(w.i)'  BY <1>3, <3>1 DEF Upto
    <3> QED  BY <3>1, <3>2
  <2> QED  BY <2>1, <2>2 DEF Looping
<1>5. Full'
  <2> HIDE DEF Covers
  <2> SUFFICES ASSUME running', ~gap', port', pc'[Worker] \notin {"open", "register", "relock"},
                      ~Loading', \A c \in Client : pc'[c] # "port"
               PROVE  \A n \in 1..Len(watched') : watched'[n] \in Covers'
    BY DEF Full
  <2>1. \A c \in Client : pc[c] # "port"  BY DEF AtPort
  <2>2. \A n \in 1..Len(watched) : watched[n] \in Covers
    BY <2>1 DEF Full
  <2> QED  BY <2>2
<1> QED  BY <1>1, <1>2, <1>4, <1>5

\* Steps of clients, calls that begin and events that are such steps.
LEMMA QuietSteps ==
  ASSUME Inv, WatchInv, NEW c \in Client,
         TakeGuard(c) \/ GuardTimesOut(c) \/ Stop(c) \/ LetGo(c) \/ Join(c) \/ Destroy(c)
         \/ (c = Ui /\ Loaded)
  PROVE  WatchInv'
<1> USE DEF Worker, Ui, Crawler, Pipe, Client, Go
<1>0. /\ Worker \notin Client /\ Worker \in Thread /\ c \in Thread /\ Client \subseteq Thread
      /\ DOMAIN pc = Thread /\ DOMAIN op = Client
  BY DEF Thread, WatchInv, OpTyped
<1>1. PICK l : pc' = [pc EXCEPT ![c] = l]
  BY DEF TakeGuard, GuardTimesOut, Stop, LetGo, Join, Destroy, Loaded, AfterGuard
<1>2. UNCHANGED <<cleaned, watched, port, map, w, gap, touched, dir, open, reading, packets, pdi>>
  BY DEF TakeGuard, GuardTimesOut, Stop, LetGo, Join, Destroy, Loaded, lists, io, infos
<1>3. Covers' = Covers /\ pc'[Worker] = pc[Worker]
  BY <1>0, <1>1, <1>2 DEF Covers, InHand
<1>4. op' = op \/ (Destroy(c) /\ op' = [op EXCEPT ![c] = [kind |-> "destroy"]])
  BY DEF TakeGuard, GuardTimesOut, Stop, LetGo, Join, Destroy, Loaded, Call
<1>5. OpTyped' /\ (running' => running)
  BY <1>0, <1>1, <1>4 DEF OpTyped, TakeGuard, GuardTimesOut, Stop, LetGo, Join, Destroy, Loaded
<1>6. Calls'
  <2>1. CASE TakeGuard(c) \/ GuardTimesOut(c)
    BY <1>0, <2>1 DEF TakeGuard, GuardTimesOut, AfterGuard, WatchInv, Calls
  <2>2. CASE Stop(c)  BY <1>0, <2>2 DEF Stop, WatchInv, Calls
  <2>3. CASE LetGo(c)  BY <1>0, <2>3 DEF LetGo, WatchInv, Calls
  <2>4. CASE Join(c)  BY <1>0, <2>4 DEF Join, WatchInv, Calls
  <2>5. CASE Destroy(c)
    <3>1. op' = [op EXCEPT ![c] = [kind |-> "destroy"]] /\ ~running /\ ~running'
      BY <2>5 DEF Destroy, Call, WatchInv, Calls
    <3> QED  BY <1>0, <2>5, <3>1 DEF Destroy, WatchInv, Calls
  <2>6. CASE c = Ui /\ Loaded  BY <1>0, <2>6 DEF Loaded, WatchInv, Calls
  <2> QED  BY <2>1, <2>2, <2>3, <2>4, <2>5, <2>6
<1>7. \A x \in Client : pc'[x] \in {"port", "null"} => pc[x] \in {"port", "null"}
  BY <1>0 DEF TakeGuard, GuardTimesOut, Stop, LetGo, Join, Destroy, Loaded, AfterGuard
<1>8. Loading => Loading'
  BY <1>0 DEF Loading, TakeGuard, GuardTimesOut, Stop, LetGo, Join, Destroy, Loaded, AfterGuard, WatchInv, Calls
<1>9. AtPort /\ port => AtPort'
  BY <1>0 DEF AtPort, TakeGuard, GuardTimesOut, Stop, LetGo, Join, Destroy, Loaded, AfterGuard, Inv, PortClosed
<1> HIDE DEF Worker, Ui, Crawler, Pipe, Client, Go, Covers
<1> QED  BY <1>2, <1>3, <1>5, <1>6, <1>7, <1>8, <1>9, Quietly

\* A thread begins a call.
LEMMA QuietCalls ==
  ASSUME Inv, WatchInv, NEW c \in Client, NEW o, o.kind \notin {"load", "destroy"},
         pc[c] = "idle", op' = [op EXCEPT ![c] = o],
         pc' = [pc EXCEPT ![c] = "guard"] \/ (pc' = [pc EXCEPT ![c] = "enter"] /\ o.kind = "add"),
         UNCHANGED <<running, cleaned, watched, port, map, w, gap, touched, dir, open, reading,
                     packets, pdi>>
  PROVE  WatchInv'
<1> USE DEF Worker, Ui, Crawler, Pipe, Client
<1>0. /\ Worker \notin Client /\ Worker \in Thread /\ c \in Thread /\ Client \subseteq Thread
      /\ DOMAIN pc = Thread /\ DOMAIN op = Client
  BY DEF Thread, WatchInv, OpTyped
<1>1. Covers' = Covers /\ pc'[Worker] = pc[Worker]
  BY <1>0 DEF Covers, InHand
<1>2. OpTyped'
  BY <1>0 DEF OpTyped
<1>3. op'[c] = o /\ pc'[c] \in {"guard", "enter"} /\ (pc'[c] = "enter" => o.kind = "add")
      /\ \A x \in Client \ {c} : op'[x] = op[x] /\ pc'[x] = pc[x]
  BY <1>0
<1>4. Calls'
  BY <1>3 DEF WatchInv, Calls
<1>5. \A x \in Client : pc'[x] \in {"port", "null"} => pc[x] \in {"port", "null"}
  BY <1>3
<1>6. (Loading => Loading') /\ (AtPort => AtPort')
  BY <1>3 DEF Loading, AtPort
<1> HIDE DEF Worker, Ui, Crawler, Pipe, Client, Covers
<1> QED  BY <1>1, <1>2, <1>4, <1>5, <1>6, Quietly

\* A call that begins, what the file system does, the end of a block, and stuttering.
LEMMA OtherWatch ==
  ASSUME Inv, WatchInv,
         \/ Begin \/ (\E k \in Info : Change(k)) \/ BlockEnds
         \/ UNCHANGED vars
  PROVE  WatchInv'
<1>0. /\ Crawler \in Client /\ Ui \in Client /\ Pipe \in Client /\ Worker \notin Client
      /\ Worker \in Thread /\ Client \subseteq Thread
      /\ DOMAIN pc = Thread /\ DOMAIN op = Client
  BY DEF Client, Thread, Worker, Crawler, Ui, Pipe, WatchInv, OpTyped
<1>1. ASSUME NEW p \in Dir, LoadPath(p)  PROVE WatchInv'
  <2>1. /\ pc[Ui] = "load" /\ lock \in {"free", Ui}
        /\ watched' = Added(p) /\ Came
        /\ UNCHANGED <<running, cleaned, pc, op, w, gap, port, map, dir, open, reading, packets, pdi>>
    BY <1>1 DEF LoadPath, Free, io, infos
  <2>2. Covers' = Covers  BY <2>1 DEF Covers, InHand
  <2>3. Listing(watched)'  BY <2>1, AddedSound DEF WatchInv
  <2>4. OpTyped' /\ Calls' /\ Fresh' /\ Begun'
    BY <2>1 DEF WatchInv, OpTyped, Calls, Fresh, Begun, Registering
  <2>5. Touch'
    BY <2>1 DEF WatchInv, Touch, Came, Registering
  <2>6. Full'
    BY <2>1 DEF WatchInv, Calls, Full, Loading
  <2>7. pc[Worker] # "open"
    BY <2>1 DEF Inv, Locked, Worker, Ui
  <2>8. ~touched' /\ Registering => ~touched /\ watched' = watched
    BY <2>1 DEF Came, Registering
  <2>9. Looping'
    <3> HIDE DEF Covers
    <3> QED  BY <2>1, <2>2, <2>7, <2>8 DEF WatchInv, Looping, Registering, Upto
  <2> QED  BY <2>3, <2>4, <2>5, <2>6, <2>9 DEF WatchInv
<1>2. ASSUME NEW p \in Dir, AskWatch(p)  PROVE WatchInv'
  <2>1. PICK o : o = [kind |-> "add", path |-> p]  OBVIOUS
  <2>2. o.kind = "add"  BY <2>1
  <2> QED
    BY <1>0, <1>2, <2>1, <2>2, QuietCalls DEF AskWatch, Call, Go, lists, io, infos
<1>3. ASSUME NEW c \in Client, NEW o, o.kind \notin {"load", "destroy"}, CloseWatcherHandles(c, o)
      PROVE  WatchInv'
  BY <1>0, <1>3, QuietCalls DEF CloseWatcherHandles, Call, Go, lists, io, infos
<1>4. CASE Shutdown
  <2>1. PICK o : o = [kind |-> "stop"]  OBVIOUS
  <2>2. o.kind = "stop"  BY <2>1
  <2> QED
    BY <1>0, <1>4, <2>1, <2>2, QuietCalls DEF Shutdown, Call, Go, lists, io, infos
<1>5. ASSUME NEW k \in Info, Change(k)  PROVE WatchInv'
  <2>1. /\ k \in reading /\ reading' = reading \ {k} /\ packets' = Append(packets, k)
        /\ UNCHANGED <<running, cleaned, watched, pc, op, w, gap, touched, port, map, dir, open, pdi>>
    BY <1>5 DEF Change, lists, infos
  <2>2. ToSet(packets') = ToSet(packets) \cup {k}
    BY <2>1, QueuedMore DEF Inv, Typed
  <2>3. Covers \subseteq Covers'  BY <2>1, <2>2 DEF Covers, InHand
  <2>4. OpTyped' /\ Calls' /\ (Loading => Loading') /\ (AtPort => AtPort')
    BY <2>1 DEF WatchInv, OpTyped, Calls, Loading, AtPort
  <2> HIDE DEF Covers
  <2> QED  BY <2>1, <2>3, <2>4, Quietly
<1>6. CASE BlockEnds \/ UNCHANGED vars
  <2>1. UNCHANGED <<running, cleaned, watched, pc, op, w, gap, touched, port, map, dir, open, reading,
                    packets, pdi>>
    BY <1>6 DEF BlockEnds, vars, lists, io, infos
  <2>2. Covers' = Covers  BY <2>1 DEF Covers, InHand
  <2>3. OpTyped' /\ Calls' /\ (Loading => Loading') /\ (AtPort => AtPort')
    BY <2>1 DEF WatchInv, OpTyped, Calls, Loading, AtPort
  <2> HIDE DEF Covers
  <2> QED  BY <2>1, <2>2, <2>3, Quietly
<1>7. ASSUME Begin PROVE WatchInv'
  <2>1. CASE \E p \in Dir : LoadPath(p) \/ AskWatch(p)  BY <2>1, <1>1, <1>2
  <2>2. CASE Shutdown  BY <2>2, <1>4
  <2>3. ASSUME NEW k, CloseWatcherHandles(Ui, [kind |-> "info", info |-> k])  PROVE WatchInv'
    <3>1. PICK o : o = [kind |-> "info", info |-> k]  OBVIOUS
    <3>2. o.kind = "info"  BY <3>1
    <3> QED  BY <1>0, <1>3, <2>3, <3>1, <3>2
  <2>4. ASSUME CloseWatcherHandles(Ui, [kind |-> "clear"])  PROVE WatchInv'
    <3>1. PICK o : o = [kind |-> "clear"]  OBVIOUS
    <3>2. o.kind = "clear"  BY <3>1
    <3> QED  BY <1>0, <1>3, <2>4, <3>1, <3>2
  <2>5. ASSUME NEW c \in Client, NEW p, CloseWatcherHandles(c, [kind |-> "path", path |-> p])
        PROVE WatchInv'
    <3>1. PICK o : o = [kind |-> "path", path |-> p]  OBVIOUS
    <3>2. o.kind = "path"  BY <3>1
    <3> QED  BY <1>3, <2>5, <3>1, <3>2
  <2> QED  BY <1>0, <1>7, <2>1, <2>2, <2>3, <2>4, <2>5 DEF Begin
<1> QED  BY <1>5, <1>6, <1>7

\* The calls that close handles, and forget what was watched.
LEMMA LoudSteps ==
  ASSUME Inv, WatchInv, NEW c \in Client,
         AddPath(c) \/ CloseWatchHandles(c) \/ CloseCompletionPort(c) \/ ClearMap(c)
         \/ ClearInfoMap(c) \/ Destroyed(c)
  PROVE  WatchInv'
<1>0. /\ Crawler \in Client /\ Ui \in Client /\ Pipe \in Client /\ Worker \notin Client
      /\ Worker \in Thread /\ Client \subseteq Thread /\ "free" # Worker
      /\ DOMAIN pc = Thread /\ DOMAIN op = Client /\ c \in Thread /\ c # Worker
  BY DEF Client, Thread, Worker, Crawler, Ui, Pipe, WatchInv, OpTyped
<1>1. CASE AddPath(c) /\ IsPathWatched(op[c].path)
  <2>1. /\ pc[c] = "enter" /\ op[c].kind = "add"
        /\ pc' = [pc EXCEPT ![c] = "idle"] /\ op' = [op EXCEPT ![c] = NoCall]
        /\ UNCHANGED <<running, cleaned, watched, w, gap, touched, port, map, dir, open, reading,
                       packets, pdi>>
    BY <1>1 DEF AddPath, Go, Call, lists, io, infos
  <2>2. pc'[c] = "idle" /\ op'[c].kind = "none"
        /\ \A x \in Thread \ {c} : pc'[x] = pc[x] /\ (x \in Client => op'[x] = op[x])
    BY <1>0, <2>1 DEF NoCall
  <2>3. Covers' = Covers /\ pc'[Worker] = pc[Worker]
    BY <1>0, <2>1, <2>2 DEF Covers, InHand
  <2>4. OpTyped'  BY <1>0, <2>1 DEF OpTyped
  <2>5. Calls'  BY <1>0, <2>1, <2>2 DEF WatchInv, Calls
  <2>6. (Loading => Loading') /\ (AtPort => AtPort')
        /\ \A x \in Client : pc'[x] \in {"port", "null"} => pc[x] \in {"port", "null"}
    BY <1>0, <2>1, <2>2 DEF Loading, AtPort
  <2> HIDE DEF Covers
  <2> QED  BY <2>1, <2>3, <2>4, <2>5, <2>6, Quietly
<1>2. CASE (AddPath(c) /\ ~IsPathWatched(op[c].path)) \/ CloseWatchHandles(c)
  <2>1. /\ pc[c] = "enter" /\ lock \in {"free", c} /\ pc' = [pc EXCEPT ![c] = "port"]
        /\ CloseDirectories /\ Came
        /\ UNCHANGED <<running, cleaned, op, w, gap, port, map, pdi>>
    BY <1>2 DEF AddPath, CloseWatchHandles, Go, Free, CloseDirectories, infos
  <2>2. Listing(watched)'
    BY <1>2, AddedSound, WithoutSound
    DEF WatchInv, AddPath, CloseWatchHandles, RemovePathAndChildren, lists
  <2>3. pc'[c] = "port" /\ \A x \in Thread \ {c} : pc'[x] = pc[x]
    BY <1>0, <2>1
  <2>4. pc'[Worker] = pc[Worker] /\ pc[Worker] # "open"
    BY <1>0, <2>1, <2>3 DEF Inv, Locked
  <2>5. OpTyped' /\ Calls' /\ Fresh' /\ Begun'
    BY <1>0, <2>1, <2>3, <2>4 DEF WatchInv, OpTyped, Calls, Fresh, Begun, Registering
  <2>6. ~touched' /\ Registering => ~touched /\ watched' = watched /\ map = {}
    BY <2>1 DEF Came, Registering
  <2>7. Touch'
    BY <1>0, <2>1, <2>3, <2>4 DEF WatchInv, Touch, Came, Registering
  <2>8. Full'
    BY <2>3 DEF Full
  <2>9. map = {} => Covers = {} /\ Covers' = {}
    BY <2>1 DEF Covers
  <2>10. Looping'
    <3> HIDE DEF Covers
    <3> QED  BY <2>1, <2>4, <2>6, <2>9 DEF WatchInv, Looping, Registering, Upto
  <2> QED  BY <2>2, <2>5, <2>7, <2>8, <2>10 DEF WatchInv
<1>3. CASE CloseCompletionPort(c)
  <2>1. /\ pc[c] = "port" /\ pc' = [pc EXCEPT ![c] = "null"] /\ ~port'
        /\ UNCHANGED <<running, cleaned, watched, op, w, gap, touched, map, pdi>>
    BY <1>3 DEF CloseCompletionPort, Go, ClosePort, lists, infos, Inv, PortClosed
  <2>2. pc'[c] = "null" /\ \A x \in Thread \ {c} : pc'[x] = pc[x]
    BY <1>0, <2>1
  <2>3. pc'[Worker] = pc[Worker] /\ pc[Worker] # "open"
    BY <1>0, <2>1, <2>2 DEF Inv, Locked
  <2>4. Listing(watched)' /\ OpTyped' /\ Calls' /\ Fresh' /\ Begun' /\ Touch' /\ Full'
    BY <1>0, <2>1, <2>2, <2>3
    DEF WatchInv, Listing, OpTyped, Calls, Fresh, Begun, Touch, Full, Registering
  <2>5. map = {} => Covers = {} /\ Covers' = {}
    BY <2>1 DEF Covers
  <2>6. Registering /\ ~touched => map = {}
    BY <2>1 DEF WatchInv, Touch
  <2>7. Looping'
    <3> HIDE DEF Covers
    <3> QED  BY <2>1, <2>3, <2>5, <2>6 DEF WatchInv, Looping, Registering, Upto
  <2> QED  BY <2>4, <2>7 DEF WatchInv
<1>4. CASE ClearMap(c)
  <2>1. /\ pc[c] = "null" /\ pc' = [pc EXCEPT ![c] = "idle"] /\ ~port /\ ~port'
        /\ op' = [op EXCEPT ![c] = NoCall] /\ op[c].kind # "load" /\ map' = {} /\ Came
        /\ UNCHANGED <<running, cleaned, w, gap, pdi>>
    BY <1>4 DEF ClearMap, Go, Call, ScheduleForDeletion, Inv, PortClosed
  <2>2. Listing(watched)'
    BY <1>4, WithoutSound DEF WatchInv, ClearMap, Release, lists
  <2>3. pc'[c] = "idle" /\ op'[c].kind = "none"
        /\ \A x \in Thread \ {c} : pc'[x] = pc[x] /\ (x \in Client => op'[x] = op[x])
    BY <1>0, <2>1 DEF NoCall
  <2>4. pc'[Worker] = pc[Worker] /\ pc[Worker] # "open"
    BY <1>0, <2>1, <2>3 DEF Inv, Locked
  <2>5. OpTyped'  BY <1>0, <2>1 DEF OpTyped
  <2>6. Calls'
    BY <1>0, <2>1, <2>3 DEF WatchInv, Calls
  <2>7. Fresh' /\ Begun' /\ Full'
    BY <1>0, <2>1, <2>4 DEF WatchInv, Fresh, Begun, Full, Registering
  <2>8. Touch'
    BY <2>1, <2>4 DEF WatchInv, Touch, Came, Registering
  <2>9. ~touched' /\ Registering => ~touched /\ watched' = watched /\ map = {}
    BY <2>1 DEF Came, Registering
  <2>10. (map = {} => Covers = {}) /\ Covers' = {}
    BY <2>1 DEF Covers
  <2>11. Looping'
    <3> HIDE DEF Covers
    <3> QED  BY <2>1, <2>4, <2>9, <2>10 DEF WatchInv, Looping, Registering, Upto
  <2> QED  BY <2>2, <2>5, <2>6, <2>7, <2>8, <2>11 DEF WatchInv
<1>5. CASE ClearInfoMap(c)
  <2>1. /\ pc[c] = "clear" /\ (map = {} \/ lock \in {"free", c})
        /\ map' = {} /\ gap' = (gap \/ map \cap open # {}) /\ Came
        /\ op' = [op EXCEPT ![c] = NoCall]
        /\ UNCHANGED <<running, cleaned, watched, w, port, open, pdi>>
    BY <1>5 DEF ClearInfoMap, Free, Call, ScheduleForDeletion, lists, io
  <2>2. /\ DOMAIN pc' = Thread /\ pc'[c] = "idle" /\ pc'[Worker] = pc[Worker]
        /\ \A x \in Client : pc'[x] = "idle" \/ pc'[x] = pc[x]
        /\ op[c].kind # "load" => \A x \in Client \ {c} : pc'[x] = pc[x]
    BY <1>0, <1>5 DEF ClearInfoMap
  <2>3. op'[c].kind = "none" /\ DOMAIN op' = Client /\ \A x \in Client \ {c} : op'[x] = op[x]
    BY <1>0, <2>1 DEF NoCall
  <2>4. pc[Worker] = "open" => map = {}
    BY <1>0, <2>1 DEF Inv, Locked
  <2>5. OpTyped'  BY <2>2, <2>3 DEF OpTyped
  <2>6. op[c].kind = "load" => c = Ui /\ \A x \in Client \ {c} : pc[x] = "off"
    BY DEF WatchInv, Calls
  <2>7. Calls'
    BY <1>0, <2>1, <2>2, <2>3, <2>6 DEF WatchInv, Calls
  <2>8. Fresh' /\ Begun'
    BY <1>0, <2>1, <2>2 DEF WatchInv, Fresh, Begun, Registering
  <2>9. Touch'
    BY <2>1, <2>2 DEF WatchInv, Touch, Came, Registering
  <2>10. ~touched' /\ Registering => ~touched /\ map = {}
    BY <2>1 DEF Came, Registering
  <2>11. (map \cap open = {} => Covers = {}) /\ Covers' = {}
    BY <2>1 DEF Covers
  <2>12. Looping'
    <3> HIDE DEF Covers
    <3> QED  BY <2>1, <2>2, <2>4, <2>10, <2>11 DEF WatchInv, Looping, Registering, Upto
  <2>13. Full'
    <3> SUFFICES ASSUME running, ~gap', port, pc[Worker] \notin {"open", "register", "relock"},
                        ~Loading', \A x \in Client : pc'[x] # "port"
                 PROVE  \A n \in 1..Len(watched') : watched'[n] \in Covers'
      BY <2>1, <2>2 DEF Full
    <3>1. ~Loading
      BY <1>0, <2>1, <2>2, <2>3, <2>6 DEF Loading
    <3>2. \A x \in Client : pc[x] # "port"
      BY <2>1, <2>2, <2>6
    <3>3. ~gap /\ Covers = {}  BY <2>1, <2>11
    <3>4. \A n \in 1..Len(watched) : watched[n] \in Covers
      <4> HIDE DEF Covers
      <4> QED  BY <3>1, <3>2, <3>3 DEF WatchInv, Full
    <3> HIDE DEF Covers
    <3> QED  BY <2>1, <3>3, <3>4
  <2> QED  BY <2>1, <2>5, <2>7, <2>8, <2>9, <2>12, <2>13 DEF WatchInv, Listing
<1>6. CASE Destroyed(c)
  <2>1. /\ op[c].kind = "destroy" /\ pc[c] = "null" /\ pc' = [pc EXCEPT ![c] = "gone"] /\ ~port' /\ map' = {}
        /\ UNCHANGED <<running, watched, op, w, gap, touched, pdi>>
    BY <1>6 DEF Destroyed, Go, ClearAndCleanup, lists
  <2>2. ~running /\ ~running'  BY <2>1 DEF WatchInv, Calls
  <2>3. pc'[c] = "gone" /\ \A x \in Thread \ {c} : pc'[x] = pc[x]
    BY <1>0, <2>1
  <2>4. Listing(watched)' /\ OpTyped' /\ Calls' /\ Fresh' /\ Begun' /\ Touch' /\ Full' /\ Looping'
    BY <1>0, <2>1, <2>2, <2>3
    DEF WatchInv, Listing, OpTyped, Calls, Fresh, Begun, Touch, Full, Looping, Registering
  <2> QED  BY <2>4 DEF WatchInv
<1> QED  BY <1>1, <1>2, <1>3, <1>4, <1>5, <1>6

\* Every step keeps the invariant.
LEMMA NextWatch == Inv /\ Inv' /\ WatchInv /\ [Next]_vars => WatchInv'
<1> SUFFICES ASSUME Inv, Inv', WatchInv, [Next]_vars PROVE WatchInv'  OBVIOUS
<1>1. CASE Work \/ WaitTimesOut
  BY <1>1, ElsewhereSteps, LoopSteps DEF Work
<1>2. ASSUME NEW c \in Client, Lockless(c) \/ Locking(c) \/ GuardTimesOut(c)  PROVE WatchInv'
  BY <1>2, QuietSteps, LoudSteps DEF Lockless, Locking
<1> QED  BY <1>1, <1>2, OtherWatch DEF Next

\* WatchedOrGap: for any paths, calls and failures, when WorkerThread waits at the
\* port every path of the list is watched, unless one of the four things has happened.
THEOREM NothingUnwatched == Spec => []WatchedOrGap
<1>1. WatchInv => WatchedOrGap
  <2> SUFFICES ASSUME WatchInv, ~gap, Quiet, NEW n \in 1..Len(watched)
               PROVE  \E k \in map : dir[k] = watched[n] /\ k \in open /\ (k \in reading \/ k \in ToSet(packets))
    BY DEF WatchedOrGap, AllWatched
  <2>1. pc[Worker] = "wait" /\ port /\ running /\ ~Loading /\ \A c \in Client : pc[c] # "port"
    BY DEF Quiet, Loading, Client
  <2>2. watched[n] \in Covers
    <3> HIDE DEF Covers
    <3> QED  BY <2>1 DEF WatchInv, Full
  <2>3. InHand = {}  BY <2>1 DEF InHand
  <2> QED  BY <2>2, <2>3 DEF Covers
<1>2. Inv /\ [Next]_vars => Inv'
  BY WorkerInv, ClientInv, OtherInv DEF Next
<1> QED  BY <1>1, <1>2, InitInv, InitWatch, NextWatch, PTL DEF Spec

=============================================================================
