----------------------------- MODULE StatusCache -----------------------------
(***************************************************************************)
(* The status cache of one working copy: cached directories, the crawler   *)
(* that keeps them up to date and the pipe threads that answer Explorer.   *)
(* Every directory holds one file, named like it.  The guard               *)
(* (CReaderWriterLock) is taken for reading by all threads, and upgraded   *)
(* to make an entry for a directory.                                       *)
(***************************************************************************)
EXTENDS Integers, Sequences, FiniteSets

CONSTANTS
  Dir, Top,             \* versioned directories, the working copy root
  Parent,               \* [Dir \ {Top} -> Dir]
  Crawler, Client,      \* the crawler thread, the pipe threads
  MaxEdits, MaxCommits, \* bounds: changes of files, of the working copy database
  MaxAsks, MaxBlocks,   \* bounds: requests of Explorer, commands that block
  MaxTotal              \* bound: all of these together

Database == "wc.db"   \* among the paths that change

ASSUME CacheAssumption ==
  /\ Top \in Dir /\ IsFiniteSet(Dir) /\ Database \notin Dir
  /\ Parent \in [Dir \ {Top} -> Dir]
  /\ \E depth \in [Dir -> 0 .. Cardinality(Dir)] :   \* a tree
       \A d \in Dir \ {Top} : depth[Parent[d]] < depth[d]
  /\ Crawler \notin Client
  /\ {MaxEdits, MaxCommits, MaxAsks, MaxBlocks, MaxTotal} \subseteq Nat

VARIABLES
  disk,     \* what svn says of the file in a directory, and its write time
  db,       \* write time of wc.db
  events,   \* changes the directory watcher has yet to report
  blocked,  \* the working copy root is in m_NoWatchPaths
  dbSeen,   \* CWCRoots: the write time of wc.db in the map, 0 if it is not there
  cache,    \* CCachedDirectory
  paths, folders, added, \* m_pathsToUpdate, m_foldersToUpdate, m_bItemsAddedSinceLastCrawl
  woken,    \* m_hWakeEvent is set
  thr,      \* what a thread is about to do
  count,    \* for the bounds
  blank,    \* directories set to none to have the shell told, and it is not yet
  lost      \* directories that may have gone stale with nothing left to notice

vars == <<disk, db, events, blocked, dbSeen, cache, paths, folders, added, woken,
          thr, count, blank, lost>>
world == <<disk, db, events, count>>
queues == <<paths, folders, added, woken>>

Thread == {Crawler} \cup Client
Status == {"none", "normal", "modified"}
Rank == [none |-> 0, normal |-> 5, modified |-> 10]
Important(s, t) == IF Rank[s] >= Rank[t] THEN s ELSE t   \* GetMoreImportant
MostOf(S) == CHOOSE s \in S : \A t \in S : Important(s, t) = s

File(d) == [file |-> TRUE, dir |-> d]
Folder(d) == [file |-> FALSE, dir |-> d]
Children(d) == {c \in Dir \ {Top} : Parent[c] = d}
NoEntry == [st |-> "none", time |-> -1]   \* the file is not in m_entryCache
Unknown == "unknown"                      \* the directory is not in m_childDirectories

\* A directory and all that is in it: what is in every set that has the
\* directory, and with a directory its folders.
Below ==
  [d \in Dir |-> {x \in Dir : \A S \in SUBSET Dir :
     d \in S /\ (\A c \in Dir \ {Top} : Parent[c] \in S => c \in S) => x \in S}]

Fresh == [here |-> FALSE,                 \* in the map of the cache
          eff |-> "none", set |-> FALSE, kind |-> FALSE,   \* m_ownStatus
          most |-> "none", full |-> "none",
          kids |-> [c \in Dir |-> Unknown],
          entry |-> NoEntry,
          db |-> 0, fetching |-> FALSE]

Idle == [pc |-> "idle", item |-> "ask", of |-> Top, this |-> Top, path |-> Folder(Top),
         fetch |-> FALSE, seen |-> 0, left |-> {}, val |-> "none", time |-> 0,
         up |-> Top, next |-> "answer", was |-> "none", kids |-> {}, want |-> {}]

Init ==
  /\ disk = [d \in Dir |-> [st |-> "normal", time |-> 0]]
  /\ db = 1 /\ events = {} /\ blocked = FALSE /\ dbSeen = 0
  /\ cache = [d \in Dir |-> Fresh]
  /\ paths = <<>> /\ folders = <<>> /\ added = FALSE /\ woken = FALSE
  /\ thr = [t \in Thread |-> IF t = Crawler THEN [Idle EXCEPT !.pc = "asleep"] ELSE Idle]
  /\ count = [edits |-> 0, commits |-> 0, asks |-> 0, blocks |-> 0]
  /\ blank = {} /\ lost = {}

-----------------------------------------------------------------------------
(* UniqueQueue *)

Elements(q) == {q[i] : i \in 1 .. Len(q)}
Erase(q, x) ==
  IF x \notin Elements(q) THEN q
  ELSE LET i == CHOOSE i \in 1 .. Len(q) : q[i] = x
       IN  [j \in 1 .. Len(q) - 1 |-> IF j < i THEN q[j] ELSE q[j + 1]]
Push(q, x) == Append(Erase(q, x), x)
PushAll(q, S) ==   \* in the order of the map; of one or two, any order will do
  LET n == Cardinality(S)
      map == CHOOSE map \in [1 .. n -> S] : S = {map[i] : i \in 1 .. n}
      push[i \in 0 .. n] == IF i = 0 THEN q ELSE Push(push[i - 1], map[i])
  IN  push[n]

\* fault: the event is not set
Crawl_Silent(S) ==
  IF S = {} \/ blocked
    THEN UNCHANGED queues
    ELSE /\ folders' = PushAll(folders, S) /\ added' = TRUE /\ woken' = woken
         /\ UNCHANGED paths

\* What goes stale with requests that are dropped: nobody comes to it.
Dropped(S) == IF blocked THEN UNION {Below[c] : c \in S} ELSE {}

\* AddFolderForCrawling: a request for a blocked path is dropped
Crawl(S) ==
  IF S = {} \/ blocked
    THEN UNCHANGED queues
    ELSE /\ folders' = PushAll(folders, S) /\ added' = TRUE /\ woken' = TRUE
         /\ UNCHANGED paths

-----------------------------------------------------------------------------
(* The world outside *)

Counts(kind, max) ==
  /\ count[kind] < max
  /\ count.edits + count.commits + count.asks + count.blocks < MaxTotal
  /\ count' = [count EXCEPT ![kind] = @ + 1]

\* The file of d is edited: its write time changes, and its status may.
Edit(d) ==
  /\ Counts("edits", MaxEdits)
  /\ \E s \in {"normal", "modified"} : disk' = [disk EXCEPT ![d] = [st |-> s, time |-> @.time + 1]]
  /\ events' = events \cup {d}
  /\ UNCHANGED <<db, blocked, dbSeen, cache, queues, thr, blank, lost>>

\* svn commits or reverts the file of d: only wc.db changes.
Commit(d) ==
  /\ Counts("commits", MaxCommits)
  /\ disk[d].st = "modified"
  /\ disk' = [disk EXCEPT ![d].st = "normal"]
  /\ db' = db + 1
  /\ events' = events \cup {Database}
  /\ UNCHANGED <<blocked, dbSeen, cache, queues, thr, blank, lost>>

\* The watcher reports a change.
Notify(e) ==
  /\ e \in events
  /\ events' = events \ {e}
  /\ IF blocked
       THEN UNCHANGED <<paths, woken>> /\ lost' = lost \cup (IF e = Database THEN Dir ELSE {e})
       ELSE paths' = Push(paths, e) /\ woken' = TRUE /\ lost' = lost
  /\ UNCHANGED <<disk, db, blocked, dbSeen, cache, folders, added, thr, count, blank>>

\* A command of TortoiseProc blocks the working copy while it works on it, and
\* unblocks the path it was given.
Block ==
  /\ Counts("blocks", MaxBlocks)
  /\ blocked' = TRUE
  /\ UNCHANGED <<disk, db, events, dbSeen, cache, queues, thr, blank, lost>>

UnBlockPath(d) ==
  /\ blocked' = FALSE
  /\ folders' = Push(folders, d) /\ added' = TRUE /\ woken' = TRUE
  /\ UNCHANGED <<paths, lost>>

UnBlock(d) ==
  /\ blocked
  /\ UnBlockPath(d)
  /\ UNCHANGED <<world, dbSeen, cache, thr, blank>>

-----------------------------------------------------------------------------
(* CCachedDirectory *)

OwnValid(d) == cache[d].here /\ cache[d].set /\ cache[d].kind   \* IsOwnStatusValid

Known(d) == {c \in Dir : cache[d].kids[c] # Unknown}

CalculateRecursiveStatus(d) ==
  MostOf({cache[d].most, cache[d].eff} \cup {cache[d].kids[c] : c \in Known(d)})

Goes(t, r) == thr' = [thr EXCEPT ![t] = r]
At(t, pc) == thr[t].pc = pc
To(t, pc) == Goes(t, [thr[t] EXCEPT !.pc = pc])

\* A pipe thread has its answer (which no property is about); the crawler goes on.
Answer(r) == IF r.item = "ask" THEN Idle ELSE [r EXCEPT !.pc = "answer", !.seen = 0]

\* GetDirectoryCacheEntry.  A thread that finds no entry upgrades its reader
\* lock: at once if it is the only reader, else it gives the lock up and waits,
\* and meanwhile nobody gets a reader lock.  When it has the writer lock it
\* deletes what another thread has made since, and makes a new entry.
Child(t) == CHOOSE c \in thr[t].left : TRUE   \* the folder svn reports
Needs(t) ==
  LET r == thr[t]
  IN  CASE r.pc = "enter" -> {r.this}
        [] r.pc = "folder" -> {Child(t)}
        [] r.pc = "tell" /\ r.up # Top -> {Parent[r.up]}
        [] OTHER -> {}
New(t) == IF thr[t].want # {} THEN thr[t].want ELSE {d \in Needs(t) : ~cache[d].here}
Made(t) == [d \in Dir |-> IF d \in New(t) THEN [Fresh EXCEPT !.here = TRUE] ELSE cache[d]]

Reads(t) == thr[t].want = {} /\ thr[t].pc \notin {"asleep", "folders", "idle", "enter"}
Admitted(t) == At(t, "enter") /\ thr[t].want = {} => \A u \in Thread : thr[u].want = {}
Alone(t) == \A u \in Thread \ {t} : ~Reads(u)
Upgraded(t) == Admitted(t) /\ (New(t) # {} => Alone(t))

Await(t) ==
  /\ thr[t].want = {} /\ New(t) # {} /\ Admitted(t) /\ ~Alone(t)
  /\ Goes(t, [thr[t] EXCEPT !.want = New(t)])
  /\ UNCHANGED <<world, blocked, dbSeen, cache, queues, blank, lost>>

\* GetStatusForPath, and the same for the crawler: the directory that is asked
Enter(t) ==
  /\ At(t, "enter") /\ Upgraded(t)
  /\ cache' = Made(t)
  /\ Crawl(New(t))
  /\ Goes(t, [thr[t] EXCEPT !.want = {},
                               !.pc = IF thr[t].item = "db" THEN "invalidate" ELSE "decide"])
  /\ UNCHANGED <<world, blocked, dbSeen, blank, lost>>

\* GetStatusForMember up to the point where a fetch is needed.  GetDBFileTime
\* looks at the disk for the root only, and not more often than every 10 s.
Seen(d) == (IF dbSeen = 0 \/ d = Top THEN {db} ELSE {}) \cup ({dbSeen} \ {0})

Decide(t) ==
  LET d == thr[t].this
  IN  /\ At(t, "decide")
      /\ \E seen \in Seen(d) :
           /\ dbSeen' = seen
           /\ Goes(t, [thr[t] EXCEPT !.seen = seen,
                         !.pc = IF cache[d].db = seen THEN "same" ELSE "changed"])
      /\ UNCHANGED <<world, blocked, cache, queues, blank, lost>>

\* Another thread fetches: Explorer does not wait.
Busy(t) == ~thr[t].fetch /\ cache[thr[t].this].fetching

\* ... which updates the current status first
GetOwnStatus(r, m) ==
  IF cache[m].eff = "none" THEN Answer(r) ELSE [r EXCEPT !.pc = "calc", !.up = m]

\* wc.db is the same.  A directory that knows its own status has its children
\* crawled again; for a file the cache is looked at.
Same(t) ==
  LET r == thr[t]
      m == r.path.dir
      member == ~r.path.file /\ cache[m].here
  IN  /\ At(t, "same")
      /\ \/ /\ member /\ OwnValid(m)
            /\ Crawl(Known(m))
            /\ Goes(t, GetOwnStatus([r EXCEPT !.seen = 0], m))
         \/ /\ member /\ ~OwnValid(m)
            /\ To(t, "look")
            /\ UNCHANGED queues
         \/ /\ ~member
            /\ To(t, IF Busy(t) THEN "none" ELSE "find")
            /\ UNCHANGED queues
      /\ UNCHANGED <<world, blocked, dbSeen, cache, blank, lost>>

FindEntry(t) ==
  LET r == thr[t]
      e == cache[r.this].entry
  IN  /\ At(t, "find")
      /\ Goes(t, IF r.path.file /\ e # NoEntry /\ e.time = disk[r.this].time
                   THEN Answer(r) ELSE [r EXCEPT !.pc = "look"])
      /\ UNCHANGED <<world, blocked, dbSeen, cache, queues, blank, lost>>

\* wc.db has changed.  Explorer gets what is known already; the rest is left to
\* the crawler.
ChangedDb(t) ==
  LET r == thr[t]
  IN  /\ At(t, "changed")
      /\ Goes(t, IF Busy(t) THEN [r EXCEPT !.pc = "none", !.next = "request"]
                 ELSE [r EXCEPT !.pc = IF ~r.fetch /\ cache[r.this].db # 0
                                         THEN "request" ELSE "drop"])
      /\ UNCHANGED <<world, blocked, dbSeen, cache, queues, blank, lost>>

\* What is dropped has to be fetched again, which this thread does unless it
\* finds that another one is at it.
Drop(t) ==
  LET d == thr[t].this
  IN  /\ At(t, "drop")
      /\ cache' = [cache EXCEPT ![d].entry = NoEntry]
      /\ lost' = IF cache[d].entry # NoEntry THEN lost \cup {d} ELSE lost
      /\ To(t, "look")
      /\ UNCHANGED <<world, blocked, dbSeen, queues, blank>>

Look(t) ==
  /\ At(t, "look")
  /\ To(t, IF Busy(t) THEN "none" ELSE "clear")
  /\ UNCHANGED <<world, blocked, dbSeen, cache, queues, blank, lost>>

\* The thread that fetches sets both statuses again, if it has not done so
\* between the look at m_FetchingStatus and this.
Fetches(t) == thr[t].pc \in {"list", "folder", "child", "own", "file", "entry", "end"}
Renews(t, d) == thr[t].this = d /\ (Fetches(t) \/ At(t, "most") \/ At(t, "mark"))

SetNone(t) ==
  LET r == thr[t]
      d == r.this
  IN  /\ At(t, "none")
      /\ cache' = [cache EXCEPT ![d].full = "none", ![d].most = "none"]
      /\ blank' = IF r.next = "request" THEN blank \cup {d} ELSE blank
      /\ lost' = IF \E u \in Thread : Renews(u, d) THEN lost ELSE lost \cup {d}
      /\ Goes(t, IF r.next = "request" THEN [r EXCEPT !.pc = "request", !.next = "answer"]
                                       ELSE Answer(r))
      /\ UNCHANGED <<world, blocked, dbSeen, queues>>

Request(t) ==
  /\ At(t, "request")
  /\ Crawl({thr[t].this})
  /\ Goes(t, Answer(thr[t]))
  /\ UNCHANGED <<world, blocked, dbSeen, cache, blank, lost>>

\* Everything known is dropped ...
Clear(t) ==
  /\ At(t, "clear")
  /\ cache' = [cache EXCEPT ![thr[t].this] =
                 [@ EXCEPT !.most = "none", !.kids = Fresh.kids, !.entry = NoEntry,
                           !.eff = "none", !.set = TRUE]]
  /\ To(t, "exchange")
  /\ UNCHANGED <<world, blocked, dbSeen, queues, blank, lost>>

\* fault: m_FetchingStatus is set without a look at what it was
Exchange_Unchecked(t) ==
  /\ At(t, "exchange")
  /\ cache' = [cache EXCEPT ![thr[t].this].fetching = TRUE]
  /\ lost' = lost \ {thr[t].this}
  /\ To(t, "list")
  /\ UNCHANGED <<world, blocked, dbSeen, queues, blank>>

\* ... and SvnUpdateMembersStatus gives up if another thread is at it.
Exchange(t) ==
  LET d == thr[t].this
  IN  /\ At(t, "exchange")
      /\ IF cache[d].fetching
           THEN /\ cache' = [cache EXCEPT ![d].db = 0]
                /\ lost' = lost \cup Below[d]
                /\ Goes(t, Answer(thr[t]))
           ELSE /\ cache' = [cache EXCEPT ![d].fetching = TRUE]
                /\ lost' = lost \ {d}
                /\ To(t, "list")
      /\ UNCHANGED <<world, blocked, dbSeen, queues, blank>>

\* GetStatusCallback: for the directory itself ...
Own(x) == [x EXCEPT !.eff = "normal", !.set = TRUE, !.kind = TRUE]
Reports(t, S) == Goes(t, [thr[t] EXCEPT !.left = S, !.pc = IF S = {} THEN "file" ELSE "folder"])

List(t) ==
  LET d == thr[t].this
  IN  /\ At(t, "list")
      /\ cache' = [cache EXCEPT ![d] = Own(@)]
      /\ Reports(t, Children(d))
      /\ UNCHANGED <<world, blocked, dbSeen, queues, blank, lost>>

\* ... for each folder in it, all of which are normal themselves: its status is
\* asked for ...
AskChild(t) ==
  /\ At(t, "folder") /\ Upgraded(t)
  /\ cache' = Made(t)
  /\ Crawl(New(t))
  /\ Goes(t, [thr[t] EXCEPT !.pc = "child", !.want = {},
                            !.val = Important("normal", Made(t)[Child(t)].full)])
  /\ lost' = lost \cup Dropped(New(t))
  /\ UNCHANGED <<world, blocked, dbSeen, blank>>

\* ... and stored, when it may be out of date ...
SetChild(t) ==
  LET d == thr[t].this
      c == Child(t)
  IN  /\ At(t, "child")
      /\ cache' = [cache EXCEPT ![d].kids[c] = thr[t].val]
      /\ lost' = IF thr[t].val # Important("normal", cache[c].full) THEN lost \cup {d} ELSE lost
      /\ Goes(t, [thr[t] EXCEPT !.pc = "own", !.val = "none"])
      /\ UNCHANGED <<world, blocked, dbSeen, queues, blank>>

\* ... and the folder gets its own status.
OwnChild(t) ==
  /\ At(t, "own")
  /\ cache' = [cache EXCEPT ![Child(t)] = Own(@)]
  /\ Reports(t, thr[t].left \ {Child(t)})
  /\ UNCHANGED <<world, blocked, dbSeen, queues, blank, lost>>

\* svn looks at the file ...
StatFile(t) ==
  LET d == thr[t].this
  IN  /\ At(t, "file")
      /\ Goes(t, [thr[t] EXCEPT !.pc = "entry", !.val = disk[d].st, !.time = disk[d].time])
      /\ UNCHANGED <<world, blocked, dbSeen, cache, queues, blank, lost>>

\* ... and reports it.  AddEntry asks for its time only now.
AddEntry(t) ==
  LET d == thr[t].this
  IN  /\ At(t, "entry")
      /\ cache' = [cache EXCEPT ![d].entry = [st |-> thr[t].val, time |-> disk[d].time]]
      /\ lost' = IF thr[t].time # disk[d].time THEN lost \cup {d} ELSE lost
      /\ Goes(t, [thr[t] EXCEPT !.pc = "end", !.val = "none", !.time = 0])
      /\ UNCHANGED <<world, blocked, dbSeen, queues, blank>>

EndFetch(t) ==
  /\ At(t, "end")
  /\ cache' = [cache EXCEPT ![thr[t].this].fetching = FALSE]
  /\ To(t, "most")
  /\ UNCHANGED <<world, blocked, dbSeen, queues, blank, lost>>

\* RefreshMostImportant, when m_FetchingStatus is reset already: it looks at the
\* entries, unlocked ...
MostImportant(d) == Important(cache[d].eff, cache[d].entry.st)

Most(t) ==
  /\ At(t, "most")
  /\ Goes(t, [thr[t] EXCEPT !.pc = "mark", !.val = MostImportant(thr[t].this)])
  /\ UNCHANGED <<world, blocked, dbSeen, cache, queues, blank, lost>>

\* ... and what it has found may be out of date when it writes it.
Mark(t) ==
  LET d == thr[t].this
  IN  /\ At(t, "mark")
      /\ cache' = [cache EXCEPT ![d].most = thr[t].val]
      /\ lost' = IF thr[t].val # MostImportant(d) THEN lost \cup {d} ELSE lost
      /\ Goes(t, [thr[t] EXCEPT !.pc = "calc", !.up = d, !.next = "fetched", !.val = "none"])
      /\ UNCHANGED <<world, blocked, dbSeen, queues, blank>>

\* UpdateCurrentStatus: nothing is locked between its three steps, and what one
\* thread has calculated or is about to tell may be out of date.
Calc(t) ==
  /\ At(t, "calc")
  /\ Goes(t, [thr[t] EXCEPT !.pc = "write", !.val = CalculateRecursiveStatus(thr[t].up)])
  /\ UNCHANGED <<world, blocked, dbSeen, cache, queues, blank, lost>>

Updated(t) ==
  LET r == [thr[t] EXCEPT !.pc = thr[t].next, !.next = "answer", !.up = Top, !.val = "none",
                         !.want = {}]
  IN  IF r.pc = "answer" THEN Answer(r) ELSE r

Write(t) ==
  LET d == thr[t].up
      new == thr[t].val # cache[d].full /\ cache[d].eff # "none"
  IN  /\ At(t, "write")
      /\ cache' = IF new THEN [cache EXCEPT ![d].full = thr[t].val] ELSE cache
      /\ blank' = IF new /\ cache[d].full # "none" THEN blank \ {d} ELSE blank   \* UpdateShell
      /\ lost' = IF thr[t].val # CalculateRecursiveStatus(d) THEN lost \cup {d} ELSE lost
      /\ Goes(t, IF d = Top THEN Updated(t) ELSE [thr[t] EXCEPT !.val = "none", !.pc = "tell"])
      /\ UNCHANGED <<world, blocked, dbSeen, queues>>

\* fault: GetDirectoryCacheEntry has an entry crawled that it finds, too
Tell_Crawls(t) ==
  /\ At(t, "tell") /\ Upgraded(t)
  /\ cache' = Made(t)
  /\ Crawl(Needs(t))
  /\ Goes(t, [thr[t] EXCEPT !.pc = "compare", !.val = cache[thr[t].up].full, !.want = {}])
  /\ lost' = lost \cup Dropped(New(t))
  /\ UNCHANGED <<world, blocked, dbSeen, blank>>

\* The parent is told always ...
Tell(t) ==
  /\ At(t, "tell") /\ Upgraded(t)
  /\ cache' = Made(t)
  /\ Crawl(New(t))
  /\ Goes(t, [thr[t] EXCEPT !.pc = "compare", !.val = cache[thr[t].up].full, !.want = {}])
  /\ lost' = lost \cup Dropped(New(t))
  /\ UNCHANGED <<world, blocked, dbSeen, blank>>

\* ... UpdateChildDirectoryStatus: it compares ...
Compare(t) ==
  LET d == thr[t].up
      p == Parent[d]
      takes == cache[p].kids[d] # Unknown /\ (cache[p].kids[d] # thr[t].val \/ ~OwnValid(p))
  IN  /\ At(t, "compare")
      /\ Goes(t, IF takes THEN [thr[t] EXCEPT !.pc = "put"] ELSE Updated(t))
      /\ UNCHANGED <<world, blocked, dbSeen, cache, queues, blank, lost>>

\* fault: the parent takes the status and does not update its own
Put_Short(t) ==
  LET d == thr[t].up
      p == Parent[d]
  IN  /\ At(t, "put")
      /\ cache' = [cache EXCEPT ![p].kids[d] = thr[t].val]
      /\ Goes(t, Updated(t))
      /\ lost' = IF thr[t].val # cache[d].full THEN lost \cup {p} ELSE lost
      /\ UNCHANGED <<world, blocked, dbSeen, queues, blank>>

\* ... takes what is new, and updates its own status.
Put(t) ==
  LET d == thr[t].up
      p == Parent[d]
  IN  /\ At(t, "put")
      /\ cache' = [cache EXCEPT ![p].kids[d] = thr[t].val]
      /\ Goes(t, [thr[t] EXCEPT !.pc = "calc", !.up = p, !.val = "none"])
      /\ lost' = IF thr[t].val # cache[d].full THEN lost \cup {p} ELSE lost
      /\ UNCHANGED <<world, blocked, dbSeen, queues, blank>>

\* GetStatusForMember after the fetch: what was asked for
Fetched(t) ==
  LET r == [thr[t] EXCEPT !.seen = 0]
      d == r.this
  IN  /\ At(t, "fetched")
      /\ cache' = [cache EXCEPT ![d].db = thr[t].seen]
      /\ Goes(t, CASE ~r.path.file ->   \* its own status is valid: all directories are versioned
                        GetOwnStatus(r, r.path.dir)
                   [] r.path.file /\ cache[d].entry # NoEntry -> Answer(r)
                   [] OTHER -> [r EXCEPT !.pc = "miss"])
      /\ UNCHANGED <<world, blocked, dbSeen, queues, blank, lost>>

\* AddEntry(path, NULL) for a file that has gone from the cache meanwhile
Miss(t) ==
  LET d == thr[t].this
  IN  /\ At(t, "miss")
      /\ cache' = [cache EXCEPT ![d].entry = [st |-> "none", time |-> disk[d].time]]
      /\ lost' = lost \cup {d}
      /\ Goes(t, Answer(thr[t]))
      /\ UNCHANGED <<world, blocked, dbSeen, queues, blank>>

-----------------------------------------------------------------------------
(* A pipe thread: GetAnswerToRequest *)

Ask(t, p) ==
  /\ At(t, "idle") /\ Counts("asks", MaxAsks)
  /\ ~blocked   \* otherwise the answer is empty, and nothing changes
  /\ Goes(t, [Idle EXCEPT !.pc = "enter", !.path = p,
                          !.this = IF p.file THEN p.dir ELSE Parent[p.dir]])
  /\ UNCHANGED <<disk, db, events, blocked, dbSeen, cache, queues, blank, lost>>

-----------------------------------------------------------------------------
(* CFolderCrawler::WorkerThread *)

\* The crawler takes nothing while a pipe thread asks (m_lCrawlInhibitSet).
MayCrawl == At(Crawler, "idle") /\ \A t \in Client : At(t, "idle")

Item(kind, d, p) == Goes(Crawler, [Idle EXCEPT !.pc = "enter", !.item = kind, !.of = d,
                                               !.this = d, !.path = p, !.fetch = TRUE])

Loop(pc) == Goes(Crawler, [Idle EXCEPT !.pc = pc])

Wake ==
  /\ At(Crawler, "asleep") /\ woken
  /\ woken' = FALSE
  /\ Loop("idle")
  /\ UNCHANGED <<world, blocked, dbSeen, cache, paths, folders, added, blank, lost>>

Sleep ==
  /\ MayCrawl /\ paths = <<>> /\ folders = <<>>
  /\ Loop("asleep")
  /\ UNCHANGED <<world, blocked, dbSeen, cache, queues, blank, lost>>

\* RemoveTimedoutBlocks: blocks end with the crawler awake only
TimedOut ==
  /\ MayCrawl /\ blocked
  /\ UnBlockPath(Top)
  /\ UNCHANGED <<world, dbSeen, cache, thr, blank>>

\* CWCRoots::NotifyChange
Changed == dbSeen = 0 \/ dbSeen # db

TakePath(e) ==
  /\ MayCrawl /\ paths # <<>> /\ e = Head(paths)
  /\ paths' = Tail(paths)
  /\ dbSeen' = IF ~blocked /\ e = Database /\ dbSeen # 0 THEN db ELSE dbSeen
  /\ \/ /\ blocked
        /\ lost' = lost \cup (IF e = Database THEN Dir ELSE {e})
        /\ thr' = thr
     \/ /\ ~blocked /\ e = Database /\ ~Changed
        /\ lost' = lost \cup {d \in Dir : cache[d].db \notin {0, db}}   \* somebody else has looked
        /\ thr' = thr
     \/ /\ ~blocked /\ e = Database /\ Changed
        /\ Item("db", Top, Folder(Top)) /\ lost' = lost
     \/ /\ ~blocked /\ e # Database
        /\ Item("file", e, File(e)) /\ lost' = lost
  /\ UNCHANGED <<world, blocked, cache, folders, added, woken, blank>>

TakeFolder(d) ==
  /\ (MayCrawl /\ paths = <<>>) \/ At(Crawler, "folders")
  /\ folders # <<>> /\ d = Head(folders)
  /\ folders' = Tail(folders) /\ added' = FALSE
  /\ IF blocked
       THEN Loop("idle") /\ lost' = lost \cup Below[d]
       ELSE Item("folder", d, Folder(d)) /\ lost' = lost
  /\ UNCHANGED <<world, blocked, dbSeen, cache, paths, woken, blank>>

NoFolder ==
  /\ At(Crawler, "folders") /\ folders = <<>>
  /\ Loop("idle")
  /\ UNCHANGED <<world, blocked, dbSeen, cache, queues, blank, lost>>

\* wc.db has changed: Invalidate, then RefreshStatus
Invalidate ==
  /\ At(Crawler, "invalidate")
  /\ cache' = [cache EXCEPT ![Top].set = FALSE]
  /\ Goes(Crawler, [thr[Crawler] EXCEPT !.pc = "decide", !.was = cache[Top].full])
  /\ UNCHANGED <<world, blocked, dbSeen, queues, blank, lost>>

\* RefreshStatus, second half: a file whose time does not match is asked for
\* again.
Refresh ==
  LET r == thr[Crawler]
      e == cache[r.of].entry
  IN  /\ At(Crawler, "answer") /\ r.item \in {"db", "folder"} /\ r.path = Folder(r.of)
      /\ Goes(Crawler, [r EXCEPT !.kids = Known(r.of),
            !.pc = IF e # NoEntry /\ e.time # disk[r.of].time THEN "decide" ELSE "done",
            !.this = r.of,
            !.path = File(r.of)])
      /\ lost' = lost \cup UNION {Below[c] : c \in Children(r.of) \ Known(r.of)}
      /\ UNCHANGED <<world, blocked, dbSeen, cache, queues, blank>>

Refreshed ==
  /\ At(Crawler, "answer") /\ thr[Crawler].item \in {"db", "folder"}
  /\ thr[Crawler].path = File(thr[Crawler].of)
  /\ To(Crawler, "done")
  /\ UNCHANGED <<world, blocked, dbSeen, cache, queues, blank, lost>>

\* ... and its children are crawled.  A request for the folder itself that has
\* come in meanwhile is dropped.
DoneFolder ==
  LET d == thr[Crawler].of
      S == thr[Crawler].kids
      all == IF blocked THEN folders ELSE PushAll(folders, S)
      add == added \/ (S # {} /\ ~blocked)
  IN  /\ At(Crawler, "done") /\ thr[Crawler].item = "folder"
      /\ folders' = IF add THEN Erase(all, d) ELSE all
      /\ added' = add
      /\ woken' = (woken \/ (S # {} /\ ~blocked))
      /\ lost' = (IF add /\ d \in Elements(all) THEN lost \cup Below[d] ELSE lost) \cup Dropped(S)
      /\ Loop("idle")
      /\ UNCHANGED <<world, blocked, dbSeen, cache, paths, blank>>

DoneDatabase ==
  LET was == thr[Crawler].was
  IN  /\ At(Crawler, "done") /\ thr[Crawler].item = "db"
      /\ Crawl(thr[Crawler].kids) /\ lost' = lost \cup Dropped(thr[Crawler].kids)
      /\ blank' = IF was # "normal" /\ cache[Top].full # was THEN blank \ {Top} ELSE blank
      /\ Loop("folders")
      /\ UNCHANGED <<world, blocked, dbSeen, cache>>

\* The shell is told of the file.  A notification about it that has come in
\* meanwhile is dropped.
DoneFile ==
  LET d == thr[Crawler].of
  IN  /\ At(Crawler, "answer") /\ thr[Crawler].item = "file"
      /\ paths' = Erase(paths, d)
      /\ lost' = IF d \in Elements(paths) THEN lost \cup {d} ELSE lost
      /\ blank' = IF cache[d].entry.st # "none" THEN blank \ {d} ELSE blank
      /\ Loop("folders")
      /\ UNCHANGED <<world, blocked, dbSeen, cache, folders, added, woken>>

-----------------------------------------------------------------------------

Work(t) ==
  \/ Await(t) \/ Enter(t)
  \/ Decide(t) \/ Same(t) \/ FindEntry(t) \/ ChangedDb(t) \/ Drop(t) \/ Look(t)
  \/ SetNone(t) \/ Request(t) \/ Clear(t) \/ Exchange(t)
  \/ List(t) \/ AskChild(t) \/ SetChild(t) \/ OwnChild(t) \/ StatFile(t) \/ AddEntry(t)
  \/ EndFetch(t) \/ Most(t) \/ Mark(t) \/ Calc(t) \/ Write(t) \/ Tell(t) \/ Compare(t) \/ Put(t)
  \/ Fetched(t) \/ Miss(t)

Crawls ==
  \/ Wake \/ Sleep \/ NoFolder \/ Invalidate \/ Refresh \/ Refreshed
  \/ (\E e \in Dir \cup {Database} : TakePath(e)) \/ (\E d \in Dir : TakeFolder(d))
  \/ DoneFolder \/ DoneDatabase \/ DoneFile \/ Work(Crawler)

\* Nothing to do: the crawler waits for m_hWakeEvent.
Quiet == At(Crawler, "asleep") /\ ~woken /\ events = {} /\ \A t \in Client : At(t, "idle")

\* What goes on by itself
Progress ==
  \/ \E e \in events : Notify(e)
  \/ TimedOut \/ Crawls
  \/ \E t \in Client : Work(t)

Next ==
  \/ \E d \in Dir : Edit(d) \/ Commit(d) \/ UnBlock(d)
  \/ Block \/ Progress
  \/ \E t \in Client :
       \/ \E d \in Dir : Ask(t, File(d))
       \/ \E d \in Dir \ {Top} : Ask(t, Folder(d))
  \/ Quiet /\ UNCHANGED vars

\* Threads run, and what the watcher has seen it reports: all steps that are not
\* counted.  (A block that ends is none of these; but it needs one that begins.)
Fairness == []<>Quiet \/ []<><<UNCHANGED count>>_vars

Spec == Init /\ [][Next]_vars /\ Fairness

-----------------------------------------------------------------------------

(* TypeOK: the fields have their types; only directories are queued as *)
(* folders (the ATLASSERT of AddDirectoryForUpdate). *)
TypeOK ==
  /\ disk \in [Dir -> [st : {"normal", "modified"}, time : 0 .. MaxEdits]]
  /\ db \in 1 .. MaxCommits + 1 /\ dbSeen \in 0 .. db
  /\ events \subseteq Dir \cup {Database} /\ blocked \in BOOLEAN
  /\ \A d \in Dir :
       /\ cache[d].most \in Status /\ cache[d].full \in Status
       /\ cache[d].eff \in {"none", "normal"}
       /\ cache[d].kids \in [Dir -> Status \cup {Unknown}]
       /\ cache[d].entry \in [st : Status, time : -1 .. MaxEdits]
       /\ cache[d].db \in 0 .. db
  /\ Elements(paths) \subseteq Dir \cup {Database} /\ Elements(folders) \subseteq Dir
  /\ blank \subseteq Dir /\ lost \subseteq Dir

(* OneFetcher: m_FetchingStatus is set exactly while a thread is in the svn   *)
(* status of the directory, and no other thread is: the callback fills        *)
(* m_childDirectories and m_entryCache for that one call.                     *)
OneFetcher ==
  /\ \A t, u \in Thread : Fetches(t) /\ Fetches(u) /\ thr[t].this = thr[u].this => t = u
  /\ \A t \in Thread : Fetches(t) => cache[thr[t].this].fetching
  /\ \A d \in Dir : cache[d].fetching => \E t \in Thread : Fetches(t) /\ thr[t].this = d

(* Settled: once the crawler has nothing left to do, the recursive status of  *)
(* every directory whose status has been fetched is the one svn would give    *)
(* for all below it, whatever the order of edits, commits, notifications,     *)
(* requests and blocks - unless a change below it was lost in one of the ways *)
(* `lost' names.  (UpdateCurrentStatus: "This is to make sure that the parent *)
(* has really our current status"; RefreshStatus: "Otherwise a change deep    *)
(* inside the tree which has changed won't get propagated up the tree.")      *)
Truth(d) == IF \E x \in Below[d] : disk[x].st = "modified" THEN "modified" ELSE "normal"

Settled ==
  Quiet => \A d \in Dir :
    cache[d].here /\ Below[d] \cap lost = {} => cache[d].full = Truth(d)

(* EntriesInUse: GetDirectoryCacheEntry deletes an entry that another thread  *)
(* has made while this one waited for the writer lock, but none in which a    *)
(* thread is still at work, which may have given up its reader lock in        *)
(* GetDirectoryCacheEntry itself and will go on with a pointer to it.         *)
WorksIn(t, d) ==
  /\ thr[t].pc \notin {"idle", "asleep", "folders", "enter"}
  /\ \/ d = thr[t].this
     \/ thr[t].pc \in {"calc", "write", "tell", "compare", "put"} /\ d = thr[t].up
     \/ thr[t].pc \in {"compare", "put"} /\ d = Parent[thr[t].up]

EntriesInUse ==
  \A t, u \in Thread : \A d \in Dir :
    t # u /\ Upgraded(t) /\ d \in New(t) /\ cache[d].here => ~WorksIn(u, d)

(* NothingForgotten: the crawler never sleeps on a request, whoever queued it *)
(* and whenever: a request it does not see sets the event again.              *)
NothingForgotten == At(Crawler, "asleep") /\ ~woken => paths = <<>> /\ folders = <<>>

(* Rests: crawling ends.  While it works the crawler has children crawled,    *)
(* and every folder that it makes an entry for, which may be the parent it    *)
(* tells; once changes and requests stop it goes to sleep all the same.       *)
Rests == []<>Quiet

(* BlocksEnd: a block whose command never comes back ends by its timeout      *)
(* ("paths to block from getting crawled, and the time in ms until they're    *)
(* unblocked", SVNStatusCache.h).                                             *)
BlocksEnd == blocked ~> ~blocked

(* NoneIsTold: a status set to 'none' because a fetch is in progress is told  *)
(* to the shell before the crawler rests: "also set the status to 'none' to   *)
(* have the status change and the shell updater invoked in the crawler"       *)
(* (GetStatusForMember).                                                      *)
NoneIsTold == Quiet => blank = {}

=============================================================================
