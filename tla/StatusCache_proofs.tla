-------------------------- MODULE StatusCache_proofs -------------------------
(***************************************************************************)
(* For any working copy, any number of pipe threads and any bounds: the    *)
(* fields keep their types, a directory is fetched by one thread at a      *)
(* time, an entry in which a thread is at work is not replaced, the        *)
(* crawler is woken for every request, and once it rests the recursive     *)
(* status of every cached directory is right (Settled).  The invariant     *)
(* behind the last has four parts: Inv, where the threads are and what     *)
(* they hold; Typed, the types and the bounds on times; Contents, what is  *)
(* in the cache and who is about to put it right; Noticed, what is out of  *)
(* date and who is to notice it.                                           *)
(***************************************************************************)
EXTENDS StatusCache, FiniteSetTheorems, SequenceTheorems, WellFoundedInduction, TLAPS

\* The fields that the proofs look at are there.
Fields == {"pc", "item", "of", "this", "want", "next", "up", "path", "left"}

Shape ==
  /\ DOMAIN thr = Thread
  /\ \A t \in Thread : Fields \subseteq DOMAIN thr[t]
  /\ DOMAIN cache = Dir
  /\ \A d \in Dir : {"here", "fetching", "eff"} \subseteq DOMAIN cache[d]

Outside == {"idle", "asleep", "folders", "enter"}
Fetchers == {"list", "folder", "child", "own", "file", "entry", "end"}
Listers == {"folder", "child", "own"}
Updaters == {"calc", "write", "tell", "compare", "put"}
Nexts == {"answer", "fetched", "request"}

\* What a thread knows: the directory it works in is in the cache, and so is
\* what it has asked for.
Local(t) ==
  /\ thr[t].this \in Dir /\ thr[t].up \in Dir /\ thr[t].path.dir \in Dir
  /\ thr[t].next \in Nexts
  /\ thr[t].item # "ask" => thr[t].of = thr[t].this
  /\ thr[t].want # {} => thr[t].pc \in {"enter", "folder", "tell"}
  /\ thr[t].want \subseteq Needs(t)
  /\ thr[t].want # {} => \A d \in Dir : d \in Needs(t) => d \in thr[t].want \/ cache[d].here
  /\ thr[t].pc \in {"tell", "compare", "put"} => thr[t].up # Top
  /\ thr[t].pc \notin Outside => cache[thr[t].this].here
  /\ thr[t].pc \in Updaters => cache[thr[t].up].here
  /\ thr[t].pc \in {"compare", "put"} => cache[Parent[thr[t].up]].here
  /\ thr[t].pc \in Listers => thr[t].left # {} /\ thr[t].left \subseteq Children(thr[t].this)
  /\ thr[t].pc \in {"child", "own"} => cache[Child(t)].here

\* A directory without an entry has no status.
Bare == \A d \in Dir : ~cache[d].here => cache[d].eff = "none"

\* A thread that waits for the writer lock to make an entry that is there by
\* now: another one has got the lock since, so it is the only reader.
OneReader ==
  \A t \in Thread : (\E d \in Dir : d \in thr[t].want /\ cache[d].here) =>
    \A u, v \in Thread : Reads(u) /\ Reads(v) => u = v

\* Nobody is going to replace the entry of a directory in which a thread waits.
NotReplaced ==
  \A t, u \in Thread : thr[u].pc \notin Outside /\ thr[u].want # {} =>
    /\ thr[u].this \notin thr[t].want
    /\ thr[u].pc = "tell" => thr[u].up \notin thr[t].want

Inv ==
  /\ Shape
  /\ \A t \in Thread : Local(t)
  /\ Bare
  /\ OneReader
  /\ NotReplaced
  /\ OneFetcher

\* A folder is not in itself.
LEMMA ParentAbove == \A d \in Dir \ {Top} : Parent[d] \in Dir /\ Parent[d] # d
<1>1. PICK depth \in [Dir -> 0 .. Cardinality(Dir)] :
        \A d \in Dir \ {Top} : depth[Parent[d]] < depth[d]
  BY CacheAssumption DEF CacheAssumption
<1>2. Cardinality(Dir) \in Nat
  BY CacheAssumption, FS_CardinalityType DEF CacheAssumption
<1>3. ASSUME NEW d \in Dir \ {Top}  PROVE Parent[d] \in Dir /\ Parent[d] # d
  <2>1. Parent[d] \in Dir  BY CacheAssumption DEF CacheAssumption
  <2>2. depth[d] \in Int /\ depth[Parent[d]] \in Int  BY <1>2, <2>1
  <2> QED  BY <1>1, <2>1, <2>2
<1> QED  BY <1>3

\* The folder that svn reports is one of those that are left.
LEMMA ChildIs ==
  ASSUME Inv, NEW t \in Thread, thr[t].pc \in Listers
  PROVE  /\ Child(t) \in thr[t].left /\ Child(t) \in Dir \ {Top}
         /\ Parent[Child(t)] = thr[t].this /\ Child(t) # thr[t].this
<1>1. thr[t].left # {} /\ thr[t].left \subseteq Children(thr[t].this)  BY DEF Inv, Local
<1>2. Child(t) \in thr[t].left  BY <1>1 DEF Child
<1> QED  BY <1>1, <1>2, ParentAbove DEF Children

-----------------------------------------------------------------------------
\* The entries that an upgraded thread makes anew are not being fetched.
LEMMA FetchSurvives ==
  ASSUME Inv, NEW t \in Thread, Upgraded(t), NEW d \in Dir, d \in New(t)
  PROVE  ~cache[d].fetching
<1> SUFFICES ASSUME cache[d].fetching PROVE FALSE  OBVIOUS
<1>1. PICK u \in Thread : Fetches(u) /\ thr[u].this = d  BY DEF Inv, OneFetcher
<1>2. cache[d].here  BY <1>1 DEF Inv, Local, Fetches, Outside
<1>3. d \in thr[t].want /\ Alone(t)  BY <1>2 DEF New, Upgraded
<1>4. CASE thr[u].want # {}  BY <1>1, <1>3, <1>4 DEF Inv, NotReplaced, Fetches, Outside
<1>5. CASE thr[u].want = {}
  <2>1. Reads(u) /\ u # t  BY <1>1, <1>3, <1>5 DEF Reads, Fetches
  <2> QED  BY <1>3, <2>1 DEF Alone
<1> QED  BY <1>4, <1>5

\* A step of a thread that neither starts nor ends a fetch.
Step(t) ==
  /\ Shape'
  /\ Local(t)'
  /\ Bare'
  /\ \A u \in Thread \ {t} : thr'[u] = thr[u]
  /\ \A d \in Dir : /\ cache'[d].fetching <=> cache[d].fetching
                    /\ cache[d].here => cache'[d].here
                    /\ cache'[d].here => cache[d].here \/ Alone(t)
  /\ Fetches(t)' <=> Fetches(t)
  /\ Fetches(t) => thr'[t].this = thr[t].this
  /\ Reads(t)' => Reads(t) \/ Alone(t) \/ \A u \in Thread : thr[u].want = {}
  /\ thr'[t].want = {}

\* What the others know stays true.
LEMMA LocalStays ==
  ASSUME Inv, NEW t \in Thread, NEW u \in Thread, thr'[u] = thr[u],
         \A d \in Dir : cache[d].here => cache'[d].here
  PROVE  Local(u)'
<1>1. Needs(u)' = Needs(u) /\ Child(u)' = Child(u)  BY DEF Needs, Child
<1>2. thr[u].pc \in Listers => Child(u) \in Dir  BY ChildIs
<1>3. thr[u].pc \in {"compare", "put"} => Parent[thr[u].up] \in Dir
  BY ParentAbove DEF Inv, Local
<1> QED  BY <1>1, <1>2, <1>3 DEF Inv, Local, Listers

LEMMA StepInv == ASSUME Inv, NEW t \in Thread, Step(t) PROVE Inv'
<1>1. \A u \in Thread : Local(u)'
  BY LocalStays DEF Step
<1>2. OneReader'
  <2> SUFFICES ASSUME NEW w \in Thread, NEW d \in Dir, d \in thr'[w].want, cache'[d].here,
                      NEW u \in Thread, NEW v \in Thread, Reads(u)', Reads(v)', u # v
               PROVE  FALSE
    BY DEF OneReader
  <2>1. w # t /\ d \in thr[w].want  BY DEF Step
  <2>2. ~Alone(t)
    BY DEF Step, Alone, Reads
  <2>3. cache[d].here  BY <2>2 DEF Step
  <2>4. Reads(u) /\ Reads(v)  BY <2>1, <2>2 DEF Step, Reads
  <2> QED  BY <2>1, <2>3, <2>4 DEF Inv, OneReader
<1>3. NotReplaced'
  BY DEF Inv, NotReplaced, Step, Outside
<1>4. OneFetcher'
  <2>1. \A u \in Thread : /\ Fetches(u)' <=> Fetches(u)
                          /\ Fetches(u) => thr'[u].this = thr[u].this /\ thr[u].this \in Dir
    BY DEF Inv, Step, Fetches, Local
  <2> QED  BY <2>1 DEF Inv, OneFetcher, Step
<1> QED  BY <1>1, <1>2, <1>3, <1>4 DEF Inv, Step

-----------------------------------------------------------------------------
\* What t may be after a step, with the cache c then.
Fit(t, r, c) ==
  /\ Fields \subseteq DOMAIN r
  /\ r.this \in Dir /\ r.up \in Dir /\ r.path.dir \in Dir
  /\ r.next \in Nexts
  /\ r.item # "ask" => r.of = r.this
  /\ r.want = {}
  /\ r.pc \in {"tell", "compare", "put"} => r.up # Top
  /\ r.pc \notin Outside => c[r.this].here
  /\ r.pc \in Updaters => c[r.up].here
  /\ r.pc \in {"compare", "put"} => c[Parent[r.up]].here
  /\ r.pc \in Listers => r.left # {} /\ r.left \subseteq Children(r.this)
  /\ r.pc \in {"child", "own"} => c[CHOOSE x \in r.left : TRUE].here
  /\ r.pc \in Fetchers <=> Fetches(t)
  /\ Fetches(t) => r.this = thr[t].this

\* A step of t to r.
Reaches(t, r) == thr' = [thr EXCEPT ![t] = r]

LEMMA FitLocal ==
  ASSUME Inv, NEW t \in Thread, NEW r, Reaches(t, r), Fit(t, r, cache')
  PROVE  /\ thr'[t] = r /\ \A u \in Thread \ {t} : thr'[u] = thr[u]
         /\ DOMAIN thr' = Thread /\ \A u \in Thread : Fields \subseteq DOMAIN thr'[u]
         /\ Local(t)' /\ (Fetches(t)' <=> Fetches(t))
<1>1. thr'[t] = r /\ DOMAIN thr' = Thread /\ \A u \in Thread \ {t} : thr'[u] = thr[u]
  BY DEF Inv, Shape, Reaches
<1>2. \A u \in Thread : Fields \subseteq DOMAIN thr'[u]
  BY <1>1 DEF Inv, Shape, Fit
<1>3. Child(t)' = CHOOSE x \in r.left : TRUE  BY <1>1 DEF Child
<1>4. Local(t)'
  BY <1>1, <1>3 DEF Local, Fit
<1>5. Fetches(t)' <=> Fetches(t)
  BY <1>1 DEF Fetches, Fit, Fetchers
<1> QED  BY <1>1, <1>2, <1>4, <1>5

\* A step of t that leaves m_FetchingStatus and the map of the cache alone.
Plain ==
  /\ DOMAIN cache' = Dir
  /\ \A d \in Dir : /\ {"here", "fetching", "eff"} \subseteq DOMAIN cache'[d]
                    /\ cache'[d].fetching = cache[d].fetching
                    /\ cache'[d].here = cache[d].here
                    /\ cache'[d].eff # "none" => cache[d].here

LEMMA PlainStep ==
  ASSUME Inv, NEW t \in Thread, NEW r, Reaches(t, r), Plain, Fit(t, r, cache),
         thr[t].want = {}, thr[t].pc \in Outside => r.pc \in Outside
  PROVE  Inv'
<1>1. Fit(t, r, cache')
  <2>1. r.pc \in {"compare", "put"} => Parent[r.up] \in Dir  BY ParentAbove DEF Fit
  <2>2. r.pc \in {"child", "own"} => (CHOOSE x \in r.left : TRUE) \in Dir
    <3>1. r.pc \in {"child", "own"} => (CHOOSE x \in r.left : TRUE) \in r.left
      BY DEF Fit, Listers
    <3> QED  BY <3>1 DEF Fit, Children, Listers
  <2> QED  BY <2>1, <2>2 DEF Fit, Plain
<1>2. thr'[t] = r  BY <1>1, FitLocal
<1>3. Shape'  BY <1>1, FitLocal DEF Shape, Plain
<1>4. Bare'  BY DEF Bare, Plain
<1>5. Reads(t)' => Reads(t)
  BY <1>2 DEF Inv, Local, Reads, Fit, Outside
<1>6. Step(t)
  BY <1>1, <1>2, <1>3, <1>4, <1>5, FitLocal DEF Step, Plain, Fit
<1> QED  BY <1>6, StepInv

\* The cache stays so if one directory changes elsewhere.
LEMMA PlainOne ==
  ASSUME Inv, NEW d \in Dir, NEW x, cache' = [cache EXCEPT ![d] = x],
         {"here", "fetching", "eff"} \subseteq DOMAIN x,
         x.fetching = cache[d].fetching, x.here = cache[d].here,
         x.eff \in {"none", cache[d].eff} \/ cache[d].here
  PROVE  Plain
BY DEF Inv, Shape, Bare, Plain

LEMMA PlainSame == ASSUME Inv, cache' = cache PROVE Plain
BY DEF Inv, Shape, Bare, Plain

\* A thread goes on with the directory it works in.
Held(t, r) ==
  /\ Fields \subseteq DOMAIN r
  /\ r.this = thr[t].this /\ r.of = thr[t].of /\ r.item = thr[t].item /\ r.want = {}
  /\ r.up \in Dir /\ r.path.dir \in Dir /\ r.next \in Nexts

LEMMA HeldSelf ==
  ASSUME Inv, NEW t \in Thread, thr[t].want = {}
  PROVE  /\ Held(t, thr[t])
         /\ \A pc : Held(t, [thr[t] EXCEPT !.pc = pc])
         /\ \A pc, v : Held(t, [thr[t] EXCEPT !.pc = pc, !.val = v])
         /\ \A s : Held(t, [thr[t] EXCEPT !.seen = s])
         /\ \A pc, s : Held(t, [thr[t] EXCEPT !.seen = s, !.pc = pc])
BY DEF Inv, Shape, Local, Held, Fields

LEMMA HeldFit ==
  ASSUME Inv, NEW t \in Thread, NEW r, Held(t, r), thr[t].pc \notin Outside,
         r.pc \notin Updaters \cup Listers, r.pc \in Fetchers <=> Fetches(t)
  PROVE  Fit(t, r, cache)
BY DEF Inv, Local, Held, Fit, Updaters, Listers

\* What a thread is after its answer.
LEMMA AnswerFit ==
  ASSUME Inv, NEW t \in Thread, NEW r, Held(t, r), thr[t].pc \notin Outside, ~Fetches(t)
  PROVE  Fit(t, Answer(r), cache)
<1>1. Fit(t, [r EXCEPT !.pc = "answer", !.seen = 0], cache)
  BY DEF Inv, Local, Held, Fit, Fields, Updaters, Listers, Fetchers
<1>2. Fit(t, Idle, cache)
  BY CacheAssumption
  DEF Idle, Folder, Fit, Fields, Outside, Updaters, Listers, Fetchers, Nexts, CacheAssumption
<1> QED  BY <1>1, <1>2 DEF Answer

LEMMA OwnStatusFit ==
  ASSUME Inv, NEW t \in Thread, NEW m \in Dir, NEW r, Held(t, r), thr[t].pc \notin Outside,
         ~Fetches(t)
  PROVE  Fit(t, GetOwnStatus(r, m), cache)
<1>1. ASSUME cache[m].eff # "none" PROVE Fit(t, [r EXCEPT !.pc = "calc", !.up = m], cache)
  BY <1>1 DEF Inv, Bare, Local, Held, Fit, Fields, Outside, Updaters, Listers, Fetchers
<1> QED  BY <1>1, AnswerFit DEF GetOwnStatus

LEMMA Rested ==
  ASSUME Inv, NEW t \in Thread, thr[t].pc \notin {"enter", "folder", "tell"}
  PROVE  thr[t].want = {}
BY DEF Inv, Local

\* A thread goes on, and neither begins nor ends a fetch or an update.
LEMMA HeldStep ==
  ASSUME Inv, NEW t \in Thread, NEW r, Reaches(t, r), Plain, Held(t, r),
         thr[t].pc \notin Outside, thr[t].want = {},
         r.pc \notin Updaters \cup Listers, r.pc \in Fetchers <=> Fetches(t)
  PROVE  Inv'
BY HeldFit, PlainStep

LEMMA AnswerStep ==
  ASSUME Inv, NEW t \in Thread, NEW r, Reaches(t, Answer(r)), Plain, Held(t, r),
         thr[t].pc \notin Outside, thr[t].want = {}, ~Fetches(t)
  PROVE  Inv'
BY AnswerFit, PlainStep

LEMMA OwnStatusStep ==
  ASSUME Inv, NEW t \in Thread, NEW r, NEW m \in Dir, Reaches(t, GetOwnStatus(r, m)), Plain,
         Held(t, r), thr[t].pc \notin Outside, thr[t].want = {}, ~Fetches(t)
  PROVE  Inv'
BY OwnStatusFit, PlainStep

-----------------------------------------------------------------------------
(* The steps of a thread in GetStatusForMember *)

LEMMA LookInv ==
  ASSUME Inv, NEW t \in Thread,
         Decide(t) \/ Same(t) \/ FindEntry(t) \/ ChangedDb(t) \/ Look(t)
  PROVE  Inv'
<1> DEFINE q == thr[t]
<1>1. /\ q.pc \in {"decide", "same", "find", "changed", "look"} /\ cache' = cache
      /\ q.want = {} /\ ~Fetches(t) /\ q.pc \notin Outside
  BY Rested DEF Decide, Same, FindEntry, ChangedDb, Look, At, Fetches, Outside
<1>2. Plain  BY <1>1, PlainSame
<1>3. ASSUME NEW pc \in {"same", "find", "changed", "look", "none", "clear", "drop", "request"},
             \/ \E s : Reaches(t, [q EXCEPT !.seen = s, !.pc = pc])
             \/ Reaches(t, [q EXCEPT !.pc = pc])
             \/ \E n \in Nexts : Reaches(t, [q EXCEPT !.pc = pc, !.next = n])
      PROVE  Inv'
  <2>1. ASSUME NEW r, Reaches(t, r), Held(t, r), r.pc = pc PROVE Inv'
    <3>1. r.pc \notin Updaters \cup Listers /\ r.pc \notin Fetchers
      BY <2>1 DEF Updaters, Listers, Fetchers
    <3> QED  BY <1>1, <1>2, <2>1, <3>1, HeldStep
  <2>2. /\ Held(t, [q EXCEPT !.pc = pc]) /\ [q EXCEPT !.pc = pc].pc = pc
        /\ \A s : LET r == [q EXCEPT !.seen = s, !.pc = pc] IN Held(t, r) /\ r.pc = pc
        /\ \A n \in Nexts : LET r == [q EXCEPT !.pc = pc, !.next = n]
                            IN  Held(t, r) /\ r.pc = pc
    BY <1>1 DEF Inv, Shape, Local, Held, Fields
  <2> QED  BY <1>3, <2>1, <2>2
<1>4. CASE Decide(t)
  <2>1. \E s : \E pc \in {"same", "changed"} : Reaches(t, [q EXCEPT !.seen = s, !.pc = pc])
    BY <1>4 DEF Decide, Goes, Reaches
  <2> QED  BY <1>3, <2>1
<1>5. CASE Same(t)
  <2>1. q.path.dir \in Dir  BY DEF Inv, Local
  <2>2. \/ Reaches(t, GetOwnStatus([q EXCEPT !.seen = 0], q.path.dir))
        \/ \E pc \in {"look", "none", "find"} : Reaches(t, [q EXCEPT !.pc = pc])
    BY <1>5 DEF Same, To, Goes, Reaches
  <2>3. Held(t, [q EXCEPT !.seen = 0])  BY <1>1, HeldSelf
  <2> QED  BY <1>1, <1>2, <1>3, <2>1, <2>2, <2>3, OwnStatusStep
<1>6. CASE FindEntry(t)
  <2>1. Reaches(t, Answer(q)) \/ Reaches(t, [q EXCEPT !.pc = "look"])
    BY <1>6 DEF FindEntry, Goes, Reaches
  <2>2. Held(t, q)  BY <1>1, HeldSelf
  <2> QED  BY <1>1, <1>2, <1>3, <2>1, <2>2, AnswerStep
<1>7. CASE ChangedDb(t)
  <2>1. \/ \E pc \in {"request", "drop"} : Reaches(t, [q EXCEPT !.pc = pc])
        \/ Reaches(t, [q EXCEPT !.pc = "none", !.next = "request"])
    BY <1>7 DEF ChangedDb, Goes, Reaches
  <2> QED  BY <1>3, <2>1 DEF Nexts
<1>8. CASE Look(t)
  <2>1. \E pc \in {"none", "clear"} : Reaches(t, [q EXCEPT !.pc = pc])
    BY <1>8 DEF Look, To, Goes, Reaches
  <2> QED  BY <1>3, <2>1
<1> QED  BY <1>4, <1>5, <1>6, <1>7, <1>8

\* Steps that write fields of one directory which nobody's place depends on.
LEMMA WritesPlain ==
  ASSUME Inv, NEW t \in Thread, thr[t].pc \notin Outside,
         \/ Drop(t) \/ SetNone(t) \/ Clear(t) \/ Mark(t) \/ Fetched(t) \/ Miss(t)
         \/ SetChild(t) \/ AddEntry(t)
         \/ Exchange(t) /\ cache[thr[t].this].fetching
  PROVE  Plain
<1> DEFINE d == thr[t].this
<1>1. d \in Dir /\ cache[d].here  BY DEF Inv, Local
<1>2. {"here", "fetching", "eff"} \subseteq DOMAIN cache[d]  BY <1>1 DEF Inv, Shape
<1>3. \E x : /\ cache' = [cache EXCEPT ![d] = x]
             /\ {"here", "fetching", "eff"} \subseteq DOMAIN x
             /\ x.fetching = cache[d].fetching /\ x.here = cache[d].here
  <2>1. CASE Drop(t)
    <3> WITNESS [cache[d] EXCEPT !.entry = NoEntry]
    <3> QED  BY <1>2, <2>1 DEF Drop
  <2>2. CASE SetNone(t)
    <3> WITNESS [cache[d] EXCEPT !.full = "none", !.most = "none"]
    <3> QED  BY <1>2, <2>2 DEF SetNone
  <2>3. CASE Clear(t)
    <3> WITNESS [cache[d] EXCEPT !.most = "none", !.kids = Fresh.kids, !.entry = NoEntry,
                                 !.eff = "none", !.set = TRUE]
    <3> QED  BY <1>2, <2>3 DEF Clear
  <2>4. CASE Mark(t)
    <3> WITNESS [cache[d] EXCEPT !.most = thr[t].val]
    <3> QED  BY <1>2, <2>4 DEF Mark
  <2>5. CASE Fetched(t)
    <3> WITNESS [cache[d] EXCEPT !.db = thr[t].seen]
    <3> QED  BY <1>2, <2>5 DEF Fetched, Inv, Shape, Fields
  <2>6. CASE Miss(t)
    <3> WITNESS [cache[d] EXCEPT !.entry = [st |-> "none", time |-> disk[d].time]]
    <3> QED  BY <1>2, <2>6 DEF Miss
  <2>7. CASE SetChild(t)
    <3> WITNESS [cache[d] EXCEPT !.kids[Child(t)] = thr[t].val]
    <3> QED  BY <1>2, <2>7 DEF SetChild
  <2>8. CASE AddEntry(t)
    <3> WITNESS [cache[d] EXCEPT !.entry = [st |-> thr[t].val, time |-> disk[d].time]]
    <3> QED  BY <1>2, <2>8 DEF AddEntry
  <2>9. CASE Exchange(t) /\ cache[d].fetching
    <3> WITNESS [cache[d] EXCEPT !.db = 0]
    <3> QED  BY <1>2, <2>9 DEF Exchange
  <2> QED  BY <2>1, <2>2, <2>3, <2>4, <2>5, <2>6, <2>7, <2>8, <2>9
<1> QED  BY <1>1, <1>3, PlainOne

LEMMA DropInv == ASSUME Inv, NEW t \in Thread, Drop(t) \/ Clear(t) PROVE Inv'
<1>1. thr[t].pc \in {"drop", "clear"} /\ thr[t].want = {} /\ ~Fetches(t)
      /\ thr[t].pc \notin Outside
  BY Rested DEF Drop, Clear, At, Fetches, Outside
<1>2. Plain  BY <1>1, WritesPlain
<1>3. PICK pc \in {"look", "exchange"} : Reaches(t, [thr[t] EXCEPT !.pc = pc])
  BY DEF Drop, Clear, To, Goes, Reaches
<1>4. PICK r : r = [thr[t] EXCEPT !.pc = pc]  OBVIOUS
<1>5. Held(t, r)  BY <1>1, <1>4, HeldSelf
<1>6. r.pc = pc  BY <1>4 DEF Inv, Shape, Fields
<1>7. r.pc \notin Updaters \cup Listers /\ r.pc \notin Fetchers
  BY <1>6 DEF Updaters, Listers, Fetchers
<1> QED  BY <1>1, <1>2, <1>3, <1>4, <1>5, <1>7, HeldStep

LEMMA SetNoneInv == ASSUME Inv, NEW t \in Thread, SetNone(t) \/ Request(t) PROVE Inv'
<1> DEFINE q == thr[t]
           r == [q EXCEPT !.pc = "request", !.next = "answer"]
<1>1. q.pc \in {"none", "request"} /\ q.want = {} /\ ~Fetches(t) /\ q.pc \notin Outside
  BY Rested DEF SetNone, Request, At, Fetches, Outside
<1>2. Plain
  <2>1. CASE SetNone(t)  BY <1>1, <2>1, WritesPlain
  <2>2. CASE Request(t)  BY <2>2, PlainSame DEF Request
  <2> QED  BY <2>1, <2>2
<1>3. Reaches(t, Answer(q)) \/ Reaches(t, r)
  BY DEF SetNone, Request, Goes, Reaches
<1>4. Held(t, q)  BY <1>1, HeldSelf
<1>5. Held(t, r) /\ r.pc = "request"
  BY <1>1 DEF Inv, Shape, Local, Held, Fields, Nexts
<1>6. r.pc \notin Updaters \cup Listers /\ r.pc \notin Fetchers
  BY <1>5 DEF Updaters, Listers, Fetchers
<1> QED  BY <1>1, <1>2, <1>3, <1>4, <1>5, <1>6, HeldStep, AnswerStep

LEMMA FetchedInv == ASSUME Inv, NEW t \in Thread, Fetched(t) \/ Miss(t) PROVE Inv'
<1> DEFINE q == [thr[t] EXCEPT !.seen = 0]
           r == [q EXCEPT !.pc = "miss"]
<1>1. thr[t].pc \in {"fetched", "miss"} /\ thr[t].want = {} /\ ~Fetches(t)
      /\ thr[t].pc \notin Outside
  BY Rested DEF Fetched, Miss, At, Fetches, Outside
<1>2. Plain  BY <1>1, WritesPlain
<1>3. Held(t, q) /\ Held(t, thr[t])  BY <1>1, HeldSelf
<1>4. q.path.dir \in Dir  BY <1>3 DEF Held
<1>5. \/ Reaches(t, Answer(thr[t])) \/ Reaches(t, Answer(q)) \/ Reaches(t, r)
      \/ Reaches(t, GetOwnStatus(q, q.path.dir))
  BY DEF Fetched, Miss, Goes, Reaches
<1>6. Held(t, r) /\ r.pc = "miss"
  BY <1>1 DEF Inv, Shape, Local, Held, Fields
<1>7. r.pc \notin Updaters \cup Listers /\ r.pc \notin Fetchers
  BY <1>6 DEF Updaters, Listers, Fetchers
<1> QED
  BY <1>1, <1>2, <1>3, <1>4, <1>5, <1>6, <1>7, HeldStep, AnswerStep, OwnStatusStep

-----------------------------------------------------------------------------
(* The update of a status *)

LEMMA CalcInv == ASSUME Inv, NEW t \in Thread, Most(t) \/ Mark(t) \/ Calc(t) PROVE Inv'
<1> DEFINE q == thr[t]
           l == [q EXCEPT !.pc = "mark", !.val = MostImportant(q.this)]
           m == [q EXCEPT !.pc = "calc", !.up = q.this, !.next = "fetched", !.val = "none"]
           c == [q EXCEPT !.pc = "write", !.val = CalculateRecursiveStatus(q.up)]
<1>1. q.pc \in {"most", "mark", "calc"} /\ q.want = {} /\ ~Fetches(t) /\ q.pc \notin Outside
  BY Rested DEF Most, Mark, Calc, At, Fetches, Outside
<1>2. CASE Most(t)
  <2>1. Plain /\ q.pc = "most"  BY <1>2, PlainSame DEF Most, At
  <2>2. Reaches(t, l)  BY <1>2 DEF Most, Goes, Reaches
  <2>3. Fit(t, l, cache)
    BY <1>1, <2>1
    DEF Inv, Shape, Local, Fit, Fields, Outside, Updaters, Listers, Fetchers, Nexts
  <2> QED  BY <1>1, <2>1, <2>2, <2>3, PlainStep
<1>3. CASE Mark(t)
  <2>1. Plain  BY <1>1, <1>3, WritesPlain
  <2>2. Reaches(t, m)  BY <1>3 DEF Mark, Goes, Reaches
  <2>3. Fit(t, m, cache)
    BY <1>1
    DEF Inv, Shape, Local, Fit, Fields, Outside, Updaters, Listers, Fetchers, Nexts
  <2> QED  BY <1>1, <2>1, <2>2, <2>3, PlainStep
<1>4. CASE Calc(t)
  <2>1. Plain /\ q.pc = "calc"  BY <1>4, PlainSame DEF Calc, At
  <2>2. Reaches(t, c)  BY <1>4 DEF Calc, Goes, Reaches
  <2>3. Fit(t, c, cache)
    BY <1>1, <2>1
    DEF Inv, Shape, Local, Fit, Fields, Outside, Updaters, Listers, Fetchers, Nexts
  <2> QED  BY <1>1, <2>1, <2>2, <2>3, PlainStep
<1> QED  BY <1>2, <1>3, <1>4

\* What a thread is when the status has been told up to the root.
LEMMA UpdatedFit ==
  ASSUME Inv, NEW t \in Thread, thr[t].pc \in {"write", "compare"}
  PROVE  Fit(t, Updated(t), cache)
<1> DEFINE r == [thr[t] EXCEPT !.pc = thr[t].next, !.next = "answer", !.up = Top,
                               !.val = "none", !.want = {}]
<1>1. Held(t, r) /\ r.pc = thr[t].next /\ thr[t].next \in Nexts
  BY CacheAssumption DEF Inv, Shape, Local, Held, Fields, Nexts, CacheAssumption
<1>2. thr[t].pc \notin Outside /\ ~Fetches(t)  BY DEF Outside, Fetches
<1>3. r.pc \notin Updaters \cup Listers /\ r.pc \notin Fetchers
  BY <1>1 DEF Nexts, Updaters, Listers, Fetchers
<1>4. Fit(t, Answer(r), cache)  BY <1>1, <1>2, AnswerFit
<1>5. Fit(t, r, cache)  BY <1>1, <1>2, <1>3, HeldFit
<1> QED  BY <1>4, <1>5 DEF Updated

LEMMA WriteInv == ASSUME Inv, NEW t \in Thread, Write(t) PROVE Inv'
<1> DEFINE r == [thr[t] EXCEPT !.val = "none", !.pc = "tell"]
<1>1. thr[t].pc = "write" /\ thr[t].want = {} /\ thr[t].pc \notin Outside
  BY Rested DEF Write, At, Outside
<1>2. Plain
  <2>1. CASE cache' = cache  BY <2>1, PlainSame
  <2>2. CASE cache' = [cache EXCEPT ![thr[t].up].full = thr[t].val]
    <3>1. thr[t].up \in Dir  BY DEF Inv, Local
    <3>2. \E x : /\ cache' = [cache EXCEPT ![thr[t].up] = x]
                 /\ {"here", "fetching", "eff"} \subseteq DOMAIN x
                 /\ x.fetching = cache[thr[t].up].fetching /\ x.here = cache[thr[t].up].here
                 /\ x.eff = cache[thr[t].up].eff
      <4> WITNESS [cache[thr[t].up] EXCEPT !.full = thr[t].val]
      <4> QED  BY <2>2, <3>1 DEF Inv, Shape
    <3> QED  BY <3>1, <3>2, PlainOne
  <2> QED  BY <2>1, <2>2 DEF Write
<1>3. thr[t].up # Top => Fit(t, r, cache)
  BY <1>1
  DEF Inv, Shape, Local, Fit, Fields, Outside, Updaters, Listers, Fetchers, Fetches
<1>4. Fit(t, Updated(t), cache)  BY <1>1, UpdatedFit
<1>5. \E z : Reaches(t, z) /\ Fit(t, z, cache)
  <2>1. CASE thr[t].up = Top
    <3>1. Reaches(t, Updated(t))  BY <2>1 DEF Write, Goes, Reaches
    <3> QED  BY <1>4, <3>1
  <2>2. CASE thr[t].up # Top
    <3>1. Reaches(t, r)  BY <2>2 DEF Write, Goes, Reaches
    <3> QED  BY <1>3, <2>2, <3>1
  <2> QED  BY <2>1, <2>2
<1> QED  BY <1>1, <1>2, <1>5, PlainStep

LEMMA CompareInv == ASSUME Inv, NEW t \in Thread, Compare(t) PROVE Inv'
<1> DEFINE r == [thr[t] EXCEPT !.pc = "put"]
<1>1. thr[t].pc = "compare" /\ thr[t].want = {} /\ thr[t].pc \notin Outside
  BY Rested DEF Compare, At, Outside
<1>2. Plain  BY PlainSame DEF Compare
<1>3. Fit(t, r, cache)
  BY <1>1
  DEF Inv, Shape, Local, Fit, Fields, Outside, Updaters, Listers, Fetchers, Fetches
<1>4. Fit(t, Updated(t), cache)  BY <1>1, UpdatedFit
<1>5. Reaches(t, r) \/ Reaches(t, Updated(t))
  BY DEF Compare, Goes, Reaches
<1> QED  BY <1>1, <1>2, <1>3, <1>4, <1>5, PlainStep

LEMMA PutInv == ASSUME Inv, NEW t \in Thread, Put(t) PROVE Inv'
<1> DEFINE p == Parent[thr[t].up]
           r == [thr[t] EXCEPT !.pc = "calc", !.up = p, !.val = "none"]
<1>1. thr[t].pc = "put" /\ thr[t].want = {} /\ thr[t].pc \notin Outside
  BY Rested DEF Put, At, Outside
<1>2. p \in Dir /\ cache[p].here  BY <1>1, ParentAbove DEF Inv, Local
<1>3. Plain
  <2>1. \E x : /\ cache' = [cache EXCEPT ![p] = x]
               /\ {"here", "fetching", "eff"} \subseteq DOMAIN x
               /\ x.fetching = cache[p].fetching /\ x.here = cache[p].here
    <3> WITNESS [cache[p] EXCEPT !.kids[thr[t].up] = thr[t].val]
    <3> QED  BY <1>2 DEF Put, Inv, Shape
  <2> QED  BY <1>2, <2>1, PlainOne
<1>4. Fit(t, r, cache)
  BY <1>1, <1>2
  DEF Inv, Shape, Local, Fit, Fields, Outside, Updaters, Listers, Fetchers, Fetches
<1>5. Reaches(t, r)  BY DEF Put, Goes, Reaches
<1> QED  BY <1>1, <1>3, <1>4, <1>5, PlainStep

-----------------------------------------------------------------------------
(* The steps of a thread in the svn status *)

LEMMA SetChildInv == ASSUME Inv, NEW t \in Thread, SetChild(t) PROVE Inv'
<1> DEFINE r == [thr[t] EXCEPT !.pc = "own", !.val = "none"]
<1>1. thr[t].pc = "child" /\ thr[t].want = {} /\ thr[t].pc \notin Outside
  BY Rested DEF SetChild, At, Outside
<1>2. Plain  BY <1>1, WritesPlain
<1>3. Fit(t, r, cache)
  BY <1>1
  DEF Inv, Shape, Local, Fit, Fields, Outside, Updaters, Listers, Fetchers, Fetches, Child
<1>4. Reaches(t, r)  BY DEF SetChild, Goes, Reaches
<1> QED  BY <1>1, <1>2, <1>3, <1>4, PlainStep

\* What a thread is that goes on with the folders that are left.
LEMMA ReportsFit ==
  ASSUME Inv, NEW t \in Thread, thr[t].pc \in {"list", "own"},
         NEW S, S \subseteq Children(thr[t].this), Reports(t, S), Plain
  PROVE  Inv'
<1> DEFINE r == [thr[t] EXCEPT !.left = S, !.pc = IF S = {} THEN "file" ELSE "folder"]
<1>1. thr[t].want = {} /\ thr[t].pc \notin Outside
  BY Rested DEF Outside
<1>2. Fit(t, r, cache)
  BY <1>1
  DEF Inv, Shape, Local, Fit, Fields, Outside, Updaters, Listers, Fetchers, Fetches
<1>3. Reaches(t, r)  BY DEF Reports, Goes, Reaches
<1> QED  BY <1>1, <1>2, <1>3, PlainStep

LEMMA ListInv == ASSUME Inv, NEW t \in Thread, List(t) \/ OwnChild(t) PROVE Inv'
<1>1. thr[t].pc \in {"list", "own"}  BY DEF List, OwnChild, At
<1>2. PICK d \in Dir : cache[d].here /\ cache' = [cache EXCEPT ![d] = Own(@)]
  <2>1. CASE List(t)
    <3>1. thr[t].this \in Dir /\ cache[thr[t].this].here  BY <1>1 DEF Inv, Local, Outside
    <3> QED  BY <2>1, <3>1 DEF List
  <2>2. CASE OwnChild(t)
    <3>1. thr[t].pc = "own"  BY <2>2 DEF OwnChild, At
    <3>2. Child(t) \in Dir /\ cache[Child(t)].here
      BY <3>1, ChildIs DEF Inv, Local, Listers
    <3> QED  BY <2>2, <3>2 DEF OwnChild
  <2> QED  BY <2>1, <2>2
<1>3. Plain
  <2>1. /\ cache' = [cache EXCEPT ![d] = Own(cache[d])]
        /\ {"here", "fetching", "eff"} \subseteq DOMAIN Own(cache[d])
        /\ Own(cache[d]).fetching = cache[d].fetching /\ Own(cache[d]).here = cache[d].here
    BY <1>2 DEF Own, Inv, Shape
  <2> QED  BY <1>2, <2>1, PlainOne
<1>4. \E S \in SUBSET Children(thr[t].this) : Reports(t, S)
  <2>1. CASE List(t)  BY <2>1 DEF List
  <2>2. CASE OwnChild(t)
    <3>1. thr[t].pc = "own"  BY <2>2 DEF OwnChild, At
    <3>2. thr[t].left \subseteq Children(thr[t].this)  BY <3>1 DEF Inv, Local, Listers
    <3> QED  BY <2>2, <3>2 DEF OwnChild
  <2> QED  BY <2>1, <2>2
<1> QED  BY <1>1, <1>3, <1>4, ReportsFit

LEMMA FileInv == ASSUME Inv, NEW t \in Thread, StatFile(t) \/ AddEntry(t) PROVE Inv'
<1>1. thr[t].pc \in {"file", "entry"} /\ thr[t].want = {} /\ thr[t].pc \notin Outside
      /\ Fetches(t)
  BY Rested DEF StatFile, AddEntry, At, Outside, Fetches
<1>2. Plain
  <2>1. CASE StatFile(t)  BY <2>1, PlainSame DEF StatFile
  <2>2. CASE AddEntry(t)  BY <1>1, <2>2, WritesPlain
  <2> QED  BY <2>1, <2>2
<1>3. \E pc \in {"entry", "end"} : \E v, time :
        Reaches(t, [thr[t] EXCEPT !.pc = pc, !.val = v, !.time = time])
  <2>1. CASE StatFile(t)
    BY <2>1 DEF StatFile, Goes, Reaches
  <2>2. CASE AddEntry(t)
    BY <2>2 DEF AddEntry, Goes, Reaches
  <2> QED  BY <2>1, <2>2
<1>4. PICK pc \in {"entry", "end"} : \E v, time :
        Reaches(t, [thr[t] EXCEPT !.pc = pc, !.val = v, !.time = time])
  BY <1>3
<1>5. PICK v, time : Reaches(t, [thr[t] EXCEPT !.pc = pc, !.val = v, !.time = time])
  BY <1>4
<1>6. PICK r : r = [thr[t] EXCEPT !.pc = pc, !.val = v, !.time = time]  OBVIOUS
<1>7. Held(t, r) /\ r.pc = pc
  BY <1>1, <1>6 DEF Inv, Shape, Local, Held, Fields
<1>8. r.pc \notin Updaters \cup Listers /\ r.pc \in Fetchers
  BY <1>4, <1>7 DEF Updaters, Listers, Fetchers
<1> QED  BY <1>1, <1>2, <1>5, <1>6, <1>7, <1>8, HeldStep

-----------------------------------------------------------------------------
(* The steps of a thread that makes entries, or waits to *)

\* The entries that a thread makes: none that is fetched, and only if it is alone.
LEMMA MadeGrows ==
  ASSUME Inv, NEW t \in Thread, Upgraded(t), NEW d \in Dir
  PROVE  /\ Made(t)[d].fetching <=> cache[d].fetching
         /\ cache[d].here => Made(t)[d].here
         /\ Made(t)[d].here => cache[d].here \/ Alone(t)
         /\ {"here", "fetching", "eff"} \subseteq DOMAIN Made(t)[d]
         /\ d \in Needs(t) => Made(t)[d].here
<1>1. CASE d \notin New(t)
  BY <1>1 DEF Made, Inv, Shape, New, Local
<1>2. CASE d \in New(t)
  <2>1. Made(t)[d] = [Fresh EXCEPT !.here = TRUE]  BY <1>2 DEF Made
  <2>2. Alone(t)  BY <1>2 DEF Upgraded
  <2>3. ~cache[d].fetching  BY <1>2, FetchSurvives
  <2> QED  BY <2>1, <2>2, <2>3 DEF Fresh
<1> QED  BY <1>1, <1>2

LEMMA GrowStep ==
  ASSUME Inv, NEW t \in Thread, NEW r, Upgraded(t), cache' = Made(t), Reaches(t, r),
         thr[t].pc \in {"enter", "folder", "tell"}, Fit(t, r, Made(t))
  PROVE  Inv'
<1>1. Fit(t, r, cache')  OBVIOUS
<1>2. Shape'
  <2>1. DOMAIN cache' = Dir  BY DEF Made
  <2>2. \A x \in Dir : {"here", "fetching", "eff"} \subseteq DOMAIN cache'[x]  BY MadeGrows
  <2> QED  BY <1>1, <2>1, <2>2, FitLocal DEF Shape
<1>3. Reads(t)' => Reads(t) \/ Alone(t) \/ \A u \in Thread : thr[u].want = {}
  BY DEF Upgraded, Admitted, New, At, Reads
<1>4. Bare'
  BY DEF Inv, Bare, Made, Fresh
<1>5. thr'[t].want = {}  BY <1>1, FitLocal DEF Fit
<1>6. Fetches(t) => thr'[t].this = thr[t].this  BY <1>1, FitLocal DEF Fit
<1>7. \A d \in Dir : /\ cache'[d].fetching <=> cache[d].fetching
                     /\ cache[d].here => cache'[d].here
                     /\ cache'[d].here => cache[d].here \/ Alone(t)
  BY MadeGrows
<1>8. Step(t)
  BY <1>1, <1>2, <1>3, <1>4, <1>5, <1>6, <1>7, FitLocal DEF Step
<1> QED  BY <1>8, StepInv

LEMMA EnterInv == ASSUME Inv, NEW t \in Thread, Enter(t) PROVE Inv'
<1> DEFINE q == thr[t]
           r == [q EXCEPT !.want = {}, !.pc = IF q.item = "db" THEN "invalidate" ELSE "decide"]
<1>1. q.pc = "enter" /\ Upgraded(t) /\ q.this \in Dir /\ cache' = Made(t) /\ Reaches(t, r)
  BY DEF Enter, At, Inv, Local, Goes, Reaches
<1>2. Made(t)[q.this].here
  BY <1>1, MadeGrows DEF Needs
<1>3. Fit(t, r, Made(t))
  BY <1>1, <1>2
  DEF Inv, Shape, Local, Fit, Fields, Outside, Updaters, Listers, Fetchers, Fetches
<1> QED  BY <1>1, <1>3, GrowStep

LEMMA AskChildInv == ASSUME Inv, NEW t \in Thread, AskChild(t) PROVE Inv'
<1> DEFINE q == thr[t]
           v == Important("normal", Made(t)[Child(t)].full)
           r == [q EXCEPT !.pc = "child", !.want = {}, !.val = v]
<1>1. q.pc = "folder" /\ Upgraded(t) /\ q.this \in Dir /\ cache' = Made(t) /\ Reaches(t, r)
  BY DEF AskChild, At, Inv, Local, Goes, Reaches
<1>2. Made(t)[q.this].here
  BY <1>1, MadeGrows DEF Inv, Local, Outside
<1>3. Made(t)[Child(t)].here
  BY <1>1, ChildIs, MadeGrows DEF Needs, Listers
<1>4. Fit(t, r, Made(t))
  BY <1>1, <1>2, <1>3
  DEF Inv, Shape, Local, Fit, Fields, Outside, Updaters, Listers, Fetchers, Fetches, Child
<1> QED  BY <1>1, <1>4, GrowStep

LEMMA TellInv == ASSUME Inv, NEW t \in Thread, Tell(t) PROVE Inv'
<1> DEFINE q == thr[t]
           r == [q EXCEPT !.pc = "compare", !.val = cache[q.up].full, !.want = {}]
<1>1. q.pc = "tell" /\ Upgraded(t) /\ q.this \in Dir /\ cache' = Made(t) /\ Reaches(t, r)
  BY DEF Tell, At, Inv, Local, Goes, Reaches
<1>2. q.up \in Dir \ {Top} /\ Parent[q.up] \in Dir
  BY <1>1, ParentAbove DEF Inv, Local
<1>3. Made(t)[q.this].here /\ Made(t)[q.up].here
  BY <1>1, <1>2, MadeGrows DEF Inv, Local, Outside, Updaters
<1>4. Made(t)[Parent[q.up]].here
  BY <1>1, <1>2, MadeGrows DEF Needs
<1>5. Fit(t, r, Made(t))
  BY <1>1, <1>2, <1>3, <1>4
  DEF Inv, Shape, Local, Fit, Fields, Outside, Updaters, Listers, Fetchers, Fetches
<1> QED  BY <1>1, <1>5, GrowStep

LEMMA AwaitInv == ASSUME Inv, NEW t \in Thread, Await(t) PROVE Inv'
<1> DEFINE r == [thr[t] EXCEPT !.want = New(t)]
<1>1. /\ thr[t].want = {} /\ New(t) # {} /\ ~Alone(t) /\ Admitted(t)
      /\ New(t) = {d \in Needs(t) : ~cache[d].here} /\ cache' = cache
  BY DEF Await, New
<1>2. thr'[t] = r /\ \A u \in Thread \ {t} : thr'[u] = thr[u]
  BY DEF Inv, Shape, Await, Goes
<1>3. /\ r.want = New(t)
      /\ r.pc = thr[t].pc /\ r.this = thr[t].this /\ r.of = thr[t].of /\ r.item = thr[t].item
      /\ r.next = thr[t].next /\ r.up = thr[t].up /\ r.path = thr[t].path
      /\ r.left = thr[t].left /\ Fields \subseteq DOMAIN r
  BY DEF Inv, Shape, Fields
<1> HIDE DEF r
<1>4. Shape'
  <2>1. DOMAIN thr' = Thread  BY DEF Inv, Shape, Await, Goes
  <2> QED  BY <1>1, <1>2, <1>3, <2>1 DEF Inv, Shape
<1>5. thr[t].pc \in {"enter", "folder", "tell"}
  BY <1>1 DEF Needs
<1>6. \A u \in Thread : Local(u)'
  <2>1. Needs(t)' = Needs(t) /\ Child(t)' = Child(t)
    BY <1>2, <1>3 DEF Needs, Child
  <2>2. Local(t)'
    BY <1>1, <1>2, <1>3, <1>5, <2>1 DEF Inv, Local
  <2> QED  BY <1>1, <1>2, <2>2, LocalStays
<1>7. \A u \in Thread : Reads(u)' => Reads(u)
  BY <1>1, <1>2, <1>3 DEF Reads
<1>8. OneReader'
  <2> SUFFICES ASSUME NEW w \in Thread, NEW d \in Dir, d \in thr'[w].want, cache'[d].here,
                      NEW u \in Thread, NEW v \in Thread, Reads(u)', Reads(v)'
               PROVE  u = v
    BY DEF OneReader
  <2>1. cache[d].here /\ d \in thr[w].want  BY <1>1, <1>2, <1>3
  <2> QED  BY <1>7, <2>1 DEF Inv, OneReader
<1>9. NotReplaced'
  <2> SUFFICES ASSUME NEW w \in Thread, NEW u \in Thread,
                      thr'[u].pc \notin Outside, thr'[u].want # {},
                      NEW d \in {thr'[u].this, thr'[u].up},
                      d = thr'[u].this \/ thr'[u].pc = "tell",
                      d \in thr'[w].want
               PROVE  FALSE
    BY DEF NotReplaced
  <2>1. /\ thr[u].pc \notin Outside
        /\ d = thr[u].this \/ (thr[u].pc = "tell" /\ d = thr[u].up)
    BY <1>2, <1>3
  <2>2. d \in Dir /\ cache[d].here  BY <2>1 DEF Inv, Local, Updaters
  <2>3. d \notin New(t)  BY <1>1, <2>2
  <2>4. w # t /\ d \in thr[w].want  BY <1>2, <1>3, <2>3
  <2>5. thr[u].want = {} /\ u = t  BY <1>2, <2>1, <2>4 DEF Inv, NotReplaced
  <2>6. PICK v \in Thread \ {t} : Reads(v)  BY <1>1 DEF Alone
  <2>7. Reads(t)  BY <2>1, <2>5 DEF Reads, Outside
  <2> QED  BY <2>2, <2>4, <2>6, <2>7 DEF Inv, OneReader
<1>10. OneFetcher'
  <2>1. \A u \in Thread : (Fetches(u)' <=> Fetches(u)) /\ thr'[u].this = thr[u].this
    BY <1>2, <1>3 DEF Fetches
  <2> QED  BY <1>1, <2>1 DEF Inv, OneFetcher
<1>11. Bare'  BY <1>1 DEF Inv, Bare
<1> QED  BY <1>4, <1>6, <1>8, <1>9, <1>10, <1>11 DEF Inv

-----------------------------------------------------------------------------
(* A fetch begins and ends *)

\* A step of t that sets or resets m_FetchingStatus, and its own place with it.
LEMMA FlagStep ==
  ASSUME Inv, NEW t \in Thread, NEW pc, To(t, pc), thr[t].pc \notin Outside, thr[t].want = {},
         pc \notin Updaters \cup Listers \cup Outside,
         cache' = [cache EXCEPT ![thr[t].this].fetching = pc \in Fetchers],
         pc \in Fetchers => ~cache[thr[t].this].fetching,
         pc \notin Fetchers => Fetches(t)
  PROVE  Inv'
<1> DEFINE d == thr[t].this
<1>1. PICK r : r = [thr[t] EXCEPT !.pc = pc]  OBVIOUS
<1>2. Held(t, r) /\ r.pc = pc /\ thr'[t] = r /\ DOMAIN thr' = Thread
      /\ \A u \in Thread \ {t} : thr'[u] = thr[u]
  BY <1>1 DEF To, Goes, Inv, Shape, Local, Held, Fields
<1>3. d \in Dir /\ cache[d].here  BY DEF Inv, Local
<1>4. /\ DOMAIN cache' = Dir
      /\ \A x \in Dir : /\ {"here", "fetching", "eff"} \subseteq DOMAIN cache'[x]
                        /\ cache'[x].here = cache[x].here
                        /\ cache'[x].eff = cache[x].eff
                        /\ x # d => cache'[x].fetching = cache[x].fetching
      /\ cache'[d].fetching <=> pc \in Fetchers
  BY <1>3 DEF Inv, Shape
<1>5. Shape'
  BY <1>2, <1>4 DEF Inv, Shape, Held
<1>6. \A u \in Thread : Local(u)'
  <2>1. Local(t)'
    BY <1>2, <1>3, <1>4 DEF Inv, Local, Held, Updaters, Listers, Outside
  <2> QED  BY <1>2, <1>4, <2>1, LocalStays
<1>7. OneReader'
  <2>1. \A u \in Thread : Reads(u)' => Reads(u)
    BY <1>2 DEF Reads, Outside
  <2> QED  BY <1>2, <1>4, <2>1 DEF Inv, OneReader, Held
<1>8. NotReplaced'
  BY <1>2 DEF Inv, NotReplaced, Held
<1>9. OneFetcher'
  <2>1. \A u \in Thread \ {t} : (Fetches(u)' <=> Fetches(u)) /\ thr'[u].this = thr[u].this
    BY <1>2 DEF Fetches
  <2>2. thr'[t].this = d /\ (Fetches(t)' <=> pc \in Fetchers)
    BY <1>2 DEF Fetches, Fetchers, Held
  <2>3. \A u \in Thread \ {t} : Fetches(u) => thr[u].this \in Dir /\ thr[u].this # d
    BY DEF Inv, Local, OneFetcher
  <2>4. \A x \in Dir : x # d /\ cache'[x].fetching => \E u \in Thread \ {t} : Fetches(u) /\ thr[u].this = x
    BY <1>4 DEF Inv, OneFetcher
  <2>5. \A u, v \in Thread : Fetches(u)' /\ Fetches(v)' /\ thr'[u].this = thr'[v].this => u = v
    BY <2>1, <2>2, <2>3 DEF Inv, OneFetcher
  <2>6. \A u \in Thread : Fetches(u)' => cache'[thr'[u].this].fetching
    <3>1. \A u \in Thread \ {t} : Fetches(u) => cache[thr[u].this].fetching
      BY DEF Inv, OneFetcher
    <3> QED  BY <1>4, <2>1, <2>2, <2>3, <3>1
  <2>7. \A x \in Dir : cache'[x].fetching => \E u \in Thread : Fetches(u)' /\ thr'[u].this = x
    <3>1. cache'[d].fetching => Fetches(t)' /\ thr'[t].this = d  BY <1>4, <2>2
    <3> QED  BY <2>1, <2>4, <3>1
  <2> QED  BY <2>5, <2>6, <2>7 DEF OneFetcher
<1>10. Bare'  BY <1>4 DEF Inv, Bare
<1> QED  BY <1>5, <1>6, <1>7, <1>8, <1>9, <1>10 DEF Inv

LEMMA ExchangeInv == ASSUME Inv, NEW t \in Thread, Exchange(t) PROVE Inv'
<1>1. thr[t].pc = "exchange" /\ thr[t].want = {} /\ ~Fetches(t) /\ thr[t].pc \notin Outside
  BY Rested DEF Exchange, At, Fetches, Outside
<1>2. CASE cache[thr[t].this].fetching
  <2>1. Reaches(t, Answer(thr[t]))  BY <1>2 DEF Exchange, Goes, Reaches
  <2>2. Plain  BY <1>1, <1>2, WritesPlain
  <2>3. Held(t, thr[t])  BY <1>1, HeldSelf
  <2> QED  BY <1>1, <2>1, <2>2, <2>3, AnswerStep
<1>3. CASE ~cache[thr[t].this].fetching
  <2>1. To(t, "list") /\ cache' = [cache EXCEPT ![thr[t].this].fetching = TRUE]
    BY <1>3 DEF Exchange
  <2>2. "list" \in Fetchers /\ "list" \notin Updaters \cup Listers \cup Outside
    BY DEF Fetchers, Updaters, Listers, Outside
  <2>3. ("list" \in Fetchers) = TRUE  BY <2>2 DEF Fetchers
  <2> QED  BY <1>1, <1>3, <2>1, <2>2, <2>3, FlagStep
<1> QED  BY <1>2, <1>3

LEMMA EndFetchInv == ASSUME Inv, NEW t \in Thread, EndFetch(t) PROVE Inv'
<1>1. thr[t].pc = "end" /\ thr[t].want = {} /\ Fetches(t) /\ thr[t].pc \notin Outside
  BY Rested DEF EndFetch, At, Fetches, Outside
<1>2. To(t, "most") /\ cache' = [cache EXCEPT ![thr[t].this].fetching = FALSE]
  BY DEF EndFetch
<1>3. "most" \notin Fetchers /\ "most" \notin Updaters \cup Listers \cup Outside
      /\ ("most" \in Fetchers) = FALSE
  BY DEF Fetchers, Updaters, Listers, Outside
<1> QED  BY <1>1, <1>2, <1>3, FlagStep

LEMMA WorkInv == ASSUME Inv, NEW t \in Thread, Work(t) PROVE Inv'
BY AwaitInv, EnterInv, LookInv, DropInv, SetNoneInv, ExchangeInv, ListInv, AskChildInv,
   SetChildInv, FileInv, EndFetchInv, CalcInv, WriteInv, TellInv, CompareInv, PutInv, FetchedInv
DEF Work
-----------------------------------------------------------------------------
(* The steps of the crawler, and the requests *)

LEMMA StillInv == ASSUME Inv, thr' = thr, cache' = cache PROVE Inv'
<1>1. \A t \in Thread : Local(t)'  BY LocalStays
<1> QED
  BY <1>1 DEF Inv, Shape, Bare, OneReader, NotReplaced, OneFetcher, Reads, Fetches

LEMMA CrawlsInv == ASSUME Inv, Crawls PROVE Inv'
<1> USE DEF Thread
<1> DEFINE q == thr[Crawler]
<1>1. \A pc \in {"idle", "asleep", "folders"} :
        q.pc \notin Fetchers => Fit(Crawler, [Idle EXCEPT !.pc = pc], cache)
  BY CacheAssumption
  DEF Fit, Idle, Folder, Fields, Outside, Updaters, Listers, Fetchers, Fetches, Nexts,
      CacheAssumption
<1>2. ASSUME NEW kind, NEW d \in Dir, NEW p, p.dir \in Dir, q.pc \notin Fetchers
      PROVE  Fit(Crawler, [Idle EXCEPT !.pc = "enter", !.item = kind, !.of = d,
                                       !.this = d, !.path = p, !.fetch = TRUE], cache)
  BY <1>2, CacheAssumption
  DEF Fit, Idle, Folder, Fields, Outside, Updaters, Listers, Fetchers, Fetches, Nexts,
      CacheAssumption
<1>3. ASSUME NEW r, thr' = [thr EXCEPT ![Crawler] = r], Fit(Crawler, r, cache),
             cache' = cache, q.want = {}, q.pc \in Outside => r.pc \in Outside
      PROVE  Inv'
  <2>1. Plain  BY <1>3, PlainSame
  <2> QED  BY <1>3, <2>1, PlainStep DEF Reaches
<1>4. ASSUME thr' = thr, cache' = cache PROVE Inv'
  BY <1>4, StillInv
<1>5. CASE Wake \/ Sleep \/ NoFolder
  <2>1. q.pc \in {"asleep", "idle", "folders"} /\ q.want = {} /\ cache' = cache
    BY <1>5, Rested DEF Wake, Sleep, NoFolder, At, MayCrawl
  <2>2. \E pc \in {"idle", "asleep", "folders"} : Loop(pc)
    BY <1>5 DEF Wake, Sleep, NoFolder
  <2>3. q.pc \notin Fetchers /\ \A pc : [Idle EXCEPT !.pc = pc].pc = pc
    BY <2>1 DEF Fetchers, Idle
  <2> QED  BY <1>1, <1>3, <2>1, <2>2, <2>3 DEF Loop, Goes, Outside
<1>6. CASE Invalidate
  <2> DEFINE r == [q EXCEPT !.pc = "decide", !.was = cache[Top].full]
  <2>1. q.pc = "invalidate" /\ q.want = {} /\ q.pc \notin Outside
    BY <1>6, Rested DEF Invalidate, At, Outside
  <2>2. Fit(Crawler, r, cache)
    BY <2>1 DEF Fit, Inv, Shape, Local, Fields, Outside, Updaters, Listers, Fetchers, Fetches
  <2>3. Reaches(Crawler, r)  BY <1>6 DEF Invalidate, Goes, Reaches
  <2>4. Plain
    <3>1. Top \in Dir  BY CacheAssumption DEF CacheAssumption
    <3>2. \E x : /\ cache' = [cache EXCEPT ![Top] = x]
                 /\ {"here", "fetching", "eff"} \subseteq DOMAIN x
                 /\ x.fetching = cache[Top].fetching /\ x.here = cache[Top].here
                 /\ x.eff = cache[Top].eff
      <4> WITNESS [cache[Top] EXCEPT !.set = FALSE]
      <4> QED  BY <1>6, <3>1 DEF Invalidate, Inv, Shape
    <3> QED  BY <3>1, <3>2, PlainOne
  <2> QED  BY <2>1, <2>2, <2>3, <2>4, PlainStep
<1>7. CASE Refresh
  <2> DEFINE r(kids, pc) == [q EXCEPT !.kids = kids, !.pc = pc, !.this = q.of,
                                      !.path = File(q.of)]
  <2>1. q.pc = "answer" /\ q.want = {} /\ q.of = q.this /\ q.pc \notin Outside
    BY <1>7, Rested DEF Refresh, At, Inv, Local, Outside
  <2>2. \A kids : \A pc \in {"decide", "done"} : Fit(Crawler, r(kids, pc), cache)
    BY <2>1
    DEF Fit, Inv, Shape, Local, Fields, Outside, Updaters, Listers, Fetchers, Fetches, File
  <2>3. \E kids : \E pc \in {"decide", "done"} : thr' = [thr EXCEPT ![Crawler] = r(kids, pc)]
    BY <1>7 DEF Refresh, Goes
  <2>4. cache' = cache  BY <1>7 DEF Refresh
  <2> HIDE DEF r
  <2> QED  BY <1>3, <2>1, <2>2, <2>3, <2>4
<1>8. CASE Refreshed
  <2> DEFINE r == [q EXCEPT !.pc = "done"]
  <2>1. q.pc = "answer" /\ q.want = {} /\ q.pc \notin Outside
    BY <1>8, Rested DEF Refreshed, At, Outside
  <2>2. Fit(Crawler, r, cache)
    BY <2>1 DEF Fit, Inv, Shape, Local, Fields, Outside, Updaters, Listers, Fetchers, Fetches
  <2> QED  BY <1>3, <1>8, <2>1, <2>2 DEF Refreshed, To, Goes
<1>9. CASE \E e \in Dir \cup {Database} : TakePath(e)
  <2>1. PICK e \in Dir \cup {Database} : TakePath(e)  BY <1>9
  <2>2. q.pc = "idle" /\ cache' = cache  BY <2>1 DEF TakePath, MayCrawl, At
  <2>3. q.want = {} /\ q.pc \notin Fetchers  BY <2>2, Rested DEF Fetchers
  <2>4. CASE thr' = thr  BY <1>4, <2>2, <2>4
  <2>5. ASSUME NEW kind, NEW d \in Dir, NEW p, p.dir \in Dir, Item(kind, d, p)
        PROVE  Inv'
    <3>1. PICK r : r = [Idle EXCEPT !.pc = "enter", !.item = kind, !.of = d,
                                    !.this = d, !.path = p, !.fetch = TRUE]
      OBVIOUS
    <3>2. Fit(Crawler, r, cache) /\ r.pc = "enter"  BY <1>2, <2>3, <2>5, <3>1 DEF Idle
    <3> QED  BY <1>3, <2>2, <2>3, <2>5, <3>1, <3>2 DEF Item, Goes, Outside
  <2>6. CASE Item("db", Top, Folder(Top))
    <3>1. Top \in Dir /\ Folder(Top).dir \in Dir  BY CacheAssumption DEF CacheAssumption, Folder
    <3> QED  BY <2>5, <2>6, <3>1
  <2>7. CASE e # Database /\ Item("file", e, File(e))
    <3>1. e \in Dir /\ File(e).dir \in Dir  BY <2>7 DEF File
    <3> QED  BY <2>5, <2>7, <3>1
  <2> QED  BY <2>1, <2>4, <2>6, <2>7 DEF TakePath
<1>10. CASE \E d \in Dir : TakeFolder(d)
  <2>1. PICK d \in Dir : TakeFolder(d)  BY <1>10
  <2>2. q.pc \in {"idle", "folders"} /\ cache' = cache
    BY <2>1 DEF TakeFolder, MayCrawl, At
  <2>3. q.want = {} /\ q.pc \notin Fetchers /\ q.pc \in Outside
    BY <2>2, Rested DEF Fetchers, Outside
  <2>4. Folder(d).dir \in Dir  BY DEF Folder
  <2>5. CASE Loop("idle")
    <3>1. [Idle EXCEPT !.pc = "idle"].pc = "idle"  BY DEF Idle
    <3> QED  BY <1>1, <1>3, <2>2, <2>3, <2>5, <3>1 DEF Loop, Goes, Outside
  <2>6. CASE Item("folder", d, Folder(d))
    <3>1. PICK r : r = [Idle EXCEPT !.pc = "enter", !.item = "folder", !.of = d,
                                    !.this = d, !.path = Folder(d), !.fetch = TRUE]
      OBVIOUS
    <3>2. Fit(Crawler, r, cache) /\ r.pc = "enter"  BY <1>2, <2>3, <2>4, <3>1 DEF Idle
    <3> QED  BY <1>3, <2>2, <2>3, <2>6, <3>1, <3>2 DEF Item, Goes, Outside
  <2> QED  BY <2>1, <2>5, <2>6 DEF TakeFolder
<1>11. CASE DoneFolder \/ DoneDatabase \/ DoneFile
  <2>1. q.pc \in {"done", "answer"} /\ cache' = cache
    BY <1>11 DEF DoneFolder, DoneDatabase, DoneFile, At
  <2>2. q.want = {} /\ q.pc \notin Fetchers /\ q.pc \notin Outside
    BY <2>1, Rested DEF Fetchers, Outside
  <2>3. \E pc \in {"idle", "asleep", "folders"} : Loop(pc)
    BY <1>11 DEF DoneFolder, DoneDatabase, DoneFile
  <2> QED  BY <1>1, <1>3, <2>1, <2>2, <2>3 DEF Loop, Goes
<1> QED
  BY <1>5, <1>6, <1>7, <1>8, <1>9, <1>10, <1>11, WorkInv DEF Crawls

LEMMA AskInv == ASSUME Inv, NEW t \in Client, NEW p, p.dir \in Dir, Ask(t, p),
                       p.file \/ p.dir # Top
                PROVE  Inv'
<1> DEFINE r == [Idle EXCEPT !.pc = "enter", !.path = p,
                             !.this = IF p.file THEN p.dir ELSE Parent[p.dir]]
<1>1. t \in Thread /\ thr[t].pc = "idle" /\ cache' = cache /\ Reaches(t, r)
  BY DEF Thread, Ask, At, Goes, Reaches
<1>2. Fit(t, r, cache) /\ r.pc = "enter"
  <2>1. r.this \in Dir  BY CacheAssumption DEF CacheAssumption, Idle
  <2> QED
    BY <1>1, <2>1, CacheAssumption
    DEF Fit, Idle, Fields, Outside, Updaters, Listers, Fetchers, Fetches, Nexts, CacheAssumption
<1>3. Plain  BY <1>1, PlainSame
<1>4. thr[t].want = {}  BY <1>1, Rested
<1> QED  BY <1>1, <1>2, <1>3, <1>4, PlainStep DEF Outside

LEMMA InitInv == Init => Inv
<1> SUFFICES ASSUME Init PROVE Inv  OBVIOUS
<1> USE DEF Init
<1>1. \A t \in Thread : thr[t] = Idle \/ thr[t] = [Idle EXCEPT !.pc = "asleep"]
  OBVIOUS
<1>2. \A t \in Thread : /\ thr[t].pc \in {"idle", "asleep"} /\ thr[t].want = {}
                        /\ thr[t].item = "ask" /\ thr[t].next = "answer"
                        /\ thr[t].this = Top /\ thr[t].up = Top /\ thr[t].path.dir = Top
  BY <1>1 DEF Idle, Folder
<1>3. Shape
  BY <1>1 DEF Shape, Fields, Idle, Fresh
<1>4. \A d \in Dir : ~cache[d].fetching
  BY DEF Fresh
<1>5. \A t \in Thread : Local(t)
  BY <1>2, CacheAssumption DEF Local, Outside, Updaters, Listers, Nexts, CacheAssumption
<1>6. Bare  BY DEF Bare, Fresh
<1> QED
  BY <1>2, <1>3, <1>4, <1>5, <1>6 DEF Inv, OneReader, NotReplaced, OneFetcher, Fetches, Outside

LEMMA NextInv == Inv /\ [Next]_vars => Inv'
<1> SUFFICES ASSUME Inv, [Next]_vars PROVE Inv'  OBVIOUS
<1>1. ASSUME thr' = thr, cache' = cache PROVE Inv'
  BY <1>1, StillInv
<1>2. CASE \E d \in Dir : Edit(d) \/ Commit(d) \/ UnBlock(d)
  BY <1>1, <1>2 DEF Edit, Commit, UnBlock
<1>3. CASE Block \/ TimedOut \/ \E e \in events : Notify(e)
  BY <1>1, <1>3 DEF Block, TimedOut, Notify
<1>4. CASE Crawls \/ \E t \in Client : Work(t)
  BY <1>4, CrawlsInv, WorkInv DEF Thread
<1>5. CASE \E t \in Client : \/ \E d \in Dir : Ask(t, File(d))
                             \/ \E d \in Dir \ {Top} : Ask(t, Folder(d))
  <2>1. \A d \in Dir : File(d).file /\ File(d).dir = d /\ Folder(d).dir = d
    BY DEF File, Folder
  <2> QED  BY <1>5, <2>1, AskInv
<1>6. CASE UNCHANGED vars
  BY <1>1, <1>6 DEF vars
<1> QED  BY <1>2, <1>3, <1>4, <1>5, <1>6 DEF Next, Progress

\* However many threads ask for whatever directories, and whatever entries they
\* make and remake meanwhile, the status of a directory is fetched by one thread
\* at a time, and m_FetchingStatus tells it.
THEOREM FetchExclusive == Spec => []OneFetcher
<1>1. Inv => OneFetcher  BY DEF Inv
<1> QED  BY InitInv, NextInv, <1>1, PTL DEF Spec

\* No entry is deleted under a thread that works in it, although threads give
\* up their reader locks in the middle of their work to upgrade them.
THEOREM EntriesStay == Spec => []EntriesInUse
<1>1. Inv => EntriesInUse
  <2> SUFFICES ASSUME Inv, NEW t \in Thread, NEW u \in Thread, NEW d \in Dir,
                      t # u, Upgraded(t), d \in New(t), cache[d].here, WorksIn(u, d)
               PROVE  FALSE
    BY DEF EntriesInUse
  <2>1. d \in thr[t].want /\ Alone(t)  BY DEF New, Upgraded
  <2>2. thr[u].want # {}  BY <2>1 DEF Alone, Reads, WorksIn
  <2>3. thr[u].pc \notin {"calc", "write", "compare", "put"}  BY <2>2 DEF Inv, Local
  <2> QED  BY <2>1, <2>2, <2>3 DEF Inv, NotReplaced, WorksIn, Outside
<1> QED  BY InitInv, NextInv, <1>1, PTL DEF Spec

-----------------------------------------------------------------------------
(* The event of the crawler *)

\* Whoever queues something sets the event, and only the crawler goes to sleep.
Signals ==
  /\ UNCHANGED <<paths, folders, woken>> \/ woken'
  /\ thr'[Crawler].pc = "asleep" => thr[Crawler].pc = "asleep"

LEMMA SignalsEnough == ASSUME NothingForgotten, Signals PROVE NothingForgotten'
BY DEF Signals, NothingForgotten, At

\* A step of a thread queues by AddFolderForCrawling only.
LEMMA WorkQueues ==
  ASSUME NEW t \in Thread, Work(t) PROVE UNCHANGED queues \/ \E S : Crawl(S)
<1>1. CASE Enter(t) \/ AskChild(t) \/ Tell(t) \/ Request(t) \/ Same(t)
  BY <1>1 DEF Enter, AskChild, Tell, Request, Same
<1>2. CASE Await(t) \/ Decide(t) \/ FindEntry(t) \/ ChangedDb(t) \/ Drop(t) \/ Look(t)
           \/ SetNone(t) \/ Clear(t) \/ Exchange(t) \/ List(t) \/ SetChild(t) \/ OwnChild(t)
  BY <1>2
  DEF Await, Decide, FindEntry, ChangedDb, Drop, Look, SetNone, Clear, Exchange, List, SetChild,
      OwnChild
<1>3. CASE StatFile(t) \/ AddEntry(t) \/ EndFetch(t) \/ Most(t) \/ Mark(t) \/ Calc(t)
           \/ Write(t) \/ Compare(t) \/ Put(t) \/ Fetched(t) \/ Miss(t)
  BY <1>3
  DEF StatFile, AddEntry, EndFetch, Most, Mark, Calc, Write, Compare, Put, Fetched, Miss
<1> QED  BY <1>1, <1>2, <1>3 DEF Work

\* Where a thread goes: not to sleep.
LEMMA WorkGoes ==
  ASSUME Inv, NEW t \in Thread, Work(t) PROVE \E r : Goes(t, r) /\ r.pc # "asleep"
<1>1. "pc" \in DOMAIN thr[t] /\ thr[t].next # "asleep" /\ Fields \subseteq DOMAIN thr[t]
  BY DEF Inv, Shape, Local, Fields, Nexts
<1>2. \A r : "pc" \in DOMAIN r => Answer(r).pc # "asleep"
  BY DEF Answer, Idle
<1>3. \A m, r : "pc" \in DOMAIN r => GetOwnStatus(r, m).pc # "asleep"
  BY <1>2 DEF GetOwnStatus
<1>4. Updated(t).pc # "asleep"
  BY <1>1, <1>2 DEF Updated
<1>5. ASSUME NEW pc, pc # "asleep", To(t, pc) PROVE \E r : Goes(t, r) /\ r.pc # "asleep"
  BY <1>1, <1>5 DEF To
<1>6. CASE Await(t)
  <2>1. thr[t].pc # "asleep"  BY <1>6 DEF Await, New, Needs
  <2>2. [thr[t] EXCEPT !.want = New(t)].pc # "asleep"  BY <2>1
  <2> QED  BY <1>6, <2>2 DEF Await
<1>7. CASE Enter(t)
  <2>1. \A pc : [thr[t] EXCEPT !.want = {}, !.pc = pc].pc = pc  BY <1>1
  <2>2. \E pc \in {"invalidate", "decide"} : Goes(t, [thr[t] EXCEPT !.want = {}, !.pc = pc])
    BY <1>7 DEF Enter
  <2> QED  BY <2>1, <2>2
<1>8. CASE Decide(t)
  <2>1. \A s, pc : [thr[t] EXCEPT !.seen = s, !.pc = pc].pc = pc  BY <1>1
  <2>2. \E s : \E pc \in {"same", "changed"} :
          Goes(t, [thr[t] EXCEPT !.seen = s, !.pc = pc])
    BY <1>8 DEF Decide
  <2> QED  BY <2>1, <2>2
<1>9. CASE Same(t)
  <2>1. "pc" \in DOMAIN [thr[t] EXCEPT !.seen = 0]  BY <1>1
  <2>2. \/ Goes(t, GetOwnStatus([thr[t] EXCEPT !.seen = 0], thr[t].path.dir))
        \/ \E pc \in {"look", "none", "find"} : To(t, pc)
    BY <1>9 DEF Same
  <2> QED  BY <1>3, <1>5, <2>1, <2>2
<1>10. CASE FindEntry(t)
  <2>1. [thr[t] EXCEPT !.pc = "look"].pc # "asleep"  BY <1>1
  <2> QED  BY <1>1, <1>2, <1>10, <2>1 DEF FindEntry
<1>11. CASE ChangedDb(t)
  <2>1. /\ [thr[t] EXCEPT !.pc = "none", !.next = "request"].pc = "none"
        /\ [thr[t] EXCEPT !.pc = "request"].pc = "request"
        /\ [thr[t] EXCEPT !.pc = "drop"].pc = "drop"
    BY <1>1
  <2>2. \/ Goes(t, [thr[t] EXCEPT !.pc = "none", !.next = "request"])
        \/ Goes(t, [thr[t] EXCEPT !.pc = "request"])
        \/ Goes(t, [thr[t] EXCEPT !.pc = "drop"])
    BY <1>11 DEF ChangedDb
  <2> QED  BY <2>1, <2>2
<1>12. CASE Drop(t) \/ Look(t) \/ Clear(t) \/ EndFetch(t)
  <2>1. \E pc \in {"look", "none", "clear", "exchange", "most"} : To(t, pc)
    BY <1>12 DEF Drop, Look, Clear, EndFetch
  <2> QED  BY <1>5, <2>1
<1>13. CASE SetNone(t)
  <2>1. [thr[t] EXCEPT !.pc = "request", !.next = "answer"].pc # "asleep"  BY <1>1
  <2> QED  BY <1>1, <1>2, <1>13, <2>1 DEF SetNone
<1>14. CASE Request(t)
  BY <1>1, <1>2, <1>14 DEF Request
<1>15. CASE Exchange(t)
  <2>1. Goes(t, Answer(thr[t])) \/ To(t, "list")  BY <1>15 DEF Exchange
  <2> QED  BY <1>1, <1>2, <1>5, <2>1
<1>16. CASE List(t) \/ OwnChild(t)
  <2>1. \A S, pc : [thr[t] EXCEPT !.left = S, !.pc = pc].pc = pc  BY <1>1
  <2>2. PICK S : Reports(t, S)  BY <1>16 DEF List, OwnChild
  <2>3. \E pc \in {"file", "folder"} : Goes(t, [thr[t] EXCEPT !.left = S, !.pc = pc])
    BY <2>2 DEF Reports
  <2> QED  BY <2>1, <2>3
<1>17. CASE AskChild(t)
  <2>1. \A v : [thr[t] EXCEPT !.pc = "child", !.want = {}, !.val = v].pc # "asleep"  BY <1>1
  <2> QED  BY <1>17, <2>1 DEF AskChild
<1>18. CASE SetChild(t)
  <2>1. [thr[t] EXCEPT !.pc = "own", !.val = "none"].pc # "asleep"  BY <1>1
  <2> QED  BY <1>18, <2>1 DEF SetChild
<1>19. CASE StatFile(t) \/ AddEntry(t)
  <2>1. \A pc, v, time : [thr[t] EXCEPT !.pc = pc, !.val = v, !.time = time].pc = pc  BY <1>1
  <2>2. \E pc \in {"entry", "end"} : \E v, time :
          Goes(t, [thr[t] EXCEPT !.pc = pc, !.val = v, !.time = time])
    BY <1>19 DEF StatFile, AddEntry
  <2> QED  BY <2>1, <2>2
<1>20. CASE Most(t) \/ Mark(t)
  <2>1. \A v : [thr[t] EXCEPT !.pc = "mark", !.val = v].pc # "asleep"  BY <1>1
  <2>2. [thr[t] EXCEPT !.pc = "calc", !.up = thr[t].this, !.next = "fetched",
                       !.val = "none"].pc # "asleep"
    BY <1>1
  <2> QED  BY <1>20, <2>1, <2>2 DEF Most, Mark
<1>21. CASE Calc(t)
  <2>1. \A v : [thr[t] EXCEPT !.pc = "write", !.val = v].pc # "asleep"  BY <1>1
  <2> QED  BY <1>21, <2>1 DEF Calc
<1>22. CASE Write(t)
  <2>1. [thr[t] EXCEPT !.val = "none", !.pc = "tell"].pc # "asleep"  BY <1>1
  <2> QED  BY <1>4, <1>22, <2>1 DEF Write
<1>23. CASE Tell(t)
  <2>1. \A v : [thr[t] EXCEPT !.pc = "compare", !.val = v, !.want = {}].pc # "asleep"  BY <1>1
  <2> QED  BY <1>23, <2>1 DEF Tell
<1>24. CASE Compare(t)
  <2>1. [thr[t] EXCEPT !.pc = "put"].pc # "asleep"  BY <1>1
  <2> QED  BY <1>4, <1>24, <2>1 DEF Compare
<1>25. CASE Put(t)
  <2>1. \A p : [thr[t] EXCEPT !.pc = "calc", !.up = p, !.val = "none"].pc # "asleep"  BY <1>1
  <2> QED  BY <1>25, <2>1 DEF Put
<1>26. CASE Fetched(t)
  <2>1. "pc" \in DOMAIN [thr[t] EXCEPT !.seen = 0]  BY <1>1
  <2>2. [[thr[t] EXCEPT !.seen = 0] EXCEPT !.pc = "miss"].pc # "asleep"  BY <1>1
  <2> QED  BY <1>2, <1>3, <1>26, <2>1, <2>2 DEF Fetched
<1>27. CASE Miss(t)
  BY <1>1, <1>2, <1>27 DEF Miss
<1> QED
  BY <1>6, <1>7, <1>8, <1>9, <1>10, <1>11, <1>12, <1>13, <1>14, <1>15, <1>16, <1>17, <1>18,
     <1>19, <1>20, <1>21, <1>22, <1>23, <1>24, <1>25, <1>26, <1>27 DEF Work

LEMMA WorkSignals == ASSUME Inv, NEW t \in Thread, Work(t) PROVE Signals
<1>1. PICK r : Goes(t, r) /\ r.pc # "asleep"  BY WorkGoes
<1>2. thr'[t] = r /\ \A u \in Thread \ {t} : thr'[u] = thr[u]
  BY <1>1 DEF Goes, Inv, Shape
<1>3. UNCHANGED <<paths, folders, woken>> \/ woken'
  <2>1. \A S : Crawl(S) => UNCHANGED <<paths, folders, woken>> \/ woken'
    BY DEF Crawl, queues
  <2> QED  BY <2>1, WorkQueues DEF queues
<1> QED  BY <1>1, <1>2, <1>3 DEF Signals, Thread

LEMMA CrawlsForgetNothing ==
  ASSUME Inv, NothingForgotten, Crawls, ~Work(Crawler) PROVE NothingForgotten'
<1> DEFINE pc == thr[Crawler].pc
<1> USE DEF At, Thread
<1>1. Crawler \in DOMAIN thr /\ "pc" \in DOMAIN thr[Crawler] /\ "pc" \in DOMAIN Idle
  BY DEF Inv, Shape, Fields, Idle
<1>2. CASE Sleep
  BY <1>1, <1>2 DEF Sleep, MayCrawl, NothingForgotten, queues, Loop, Goes
<1>3. CASE Wake \/ NoFolder \/ DoneFolder \/ DoneDatabase \/ DoneFile
  <2>1. thr' = [thr EXCEPT ![Crawler] = [Idle EXCEPT !.pc = "idle"]]
        \/ thr' = [thr EXCEPT ![Crawler] = [Idle EXCEPT !.pc = "folders"]]
    BY <1>3 DEF Wake, NoFolder, DoneFolder, DoneDatabase, DoneFile, Loop, Goes
  <2> QED  BY <1>1, <2>1 DEF NothingForgotten
<1>4. CASE Invalidate \/ Refresh \/ Refreshed
  BY <1>1, <1>4 DEF Invalidate, Refresh, Refreshed, To, Goes, NothingForgotten
<1>5. CASE \E e \in Dir \cup {Database} : TakePath(e)
  BY <1>1, <1>5 DEF TakePath, MayCrawl, Item, Goes, NothingForgotten
<1>6. CASE \E d \in Dir : TakeFolder(d)
  BY <1>1, <1>6 DEF TakeFolder, Loop, Item, Goes, NothingForgotten
<1> QED  BY <1>2, <1>3, <1>4, <1>5, <1>6 DEF Crawls

LEMMA NextForgetsNothing ==
  ASSUME Inv, NothingForgotten, [Next]_vars PROVE NothingForgotten'
<1>1. CASE \E d \in Dir : Edit(d) \/ Commit(d) \/ UnBlock(d)
  BY <1>1, SignalsEnough DEF Edit, Commit, UnBlock, UnBlockPath, queues, Signals
<1>2. CASE Block \/ TimedOut \/ \E e \in events : Notify(e)
  BY <1>2, SignalsEnough DEF Block, TimedOut, UnBlockPath, Notify, queues, Signals
<1>3. CASE Crawls \/ \E t \in Client : Work(t)
  BY <1>3, CrawlsForgetNothing, WorkSignals, SignalsEnough DEF Thread
<1>4. CASE \E t \in Client : \/ \E d \in Dir : Ask(t, File(d))
                             \/ \E d \in Dir \ {Top} : Ask(t, Folder(d))
  <2>1. PICK t \in Client : \E p : Ask(t, p)  BY <1>4
  <2>2. thr'[Crawler] = thr[Crawler]
    BY <2>1, CacheAssumption DEF Ask, Goes, Inv, Shape, Thread, CacheAssumption
  <2> QED  BY <2>1, <2>2, SignalsEnough DEF Ask, queues, Signals
<1>5. CASE UNCHANGED vars
  BY <1>5, SignalsEnough DEF vars, Signals
<1> QED  BY <1>1, <1>2, <1>3, <1>4, <1>5 DEF Next, Progress

\* The crawler does not sleep on a request, whichever of the pipe threads, the
\* watcher, a command or the crawler itself has queued it, and whenever.
THEOREM CrawlerIsWoken == Spec => []NothingForgotten
<1>1. Init => NothingForgotten  BY DEF Init, NothingForgotten
<1> QED  BY InitInv, NextInv, <1>1, NextForgetsNothing, PTL DEF Spec

-----------------------------------------------------------------------------
(* Queues *)

LEMMA InQueue ==
  ASSUME NEW X, NEW q \in Seq(X)
  PROVE  /\ \A x : x \in Elements(q) <=> \E i \in 1 .. Len(q) : q[i] = x
         /\ Elements(q) \subseteq X
<1>1. \A i \in 1 .. Len(q) : q[i] \in X  BY ElementOfSeq
<1> QED  BY <1>1 DEF Elements

LEMMA EraseKeeps ==
  ASSUME NEW X, NEW q \in Seq(X), NEW x
  PROVE  /\ Erase(q, x) \in Seq(X)
         /\ \A y \in Elements(q) : y # x => y \in Elements(Erase(q, x))
<1>1. CASE x \notin Elements(q)  BY <1>1 DEF Erase
<1>2. CASE x \in Elements(q)
  <2> DEFINE i == CHOOSE i \in 1 .. Len(q) : q[i] = x
             e(j) == IF j < i THEN q[j] ELSE q[j + 1]
             n == Len(q) - 1
             r == [j \in 1 .. n |-> e(j)]
  <2>1. Len(q) \in Nat /\ \A k \in 1 .. Len(q) : q[k] \in X
    BY ElementOfSeq, LenProperties
  <2>2. i \in 1 .. Len(q) /\ q[i] = x
    BY <1>2, InQueue
  <2>3. Erase(q, x) = r
    BY <1>2 DEF Erase
  <2> HIDE DEF i
  <2>4. n \in Nat /\ \A j \in 1 .. n : e(j) \in X
    BY <2>1, <2>2
  <2>5. r \in Seq(X) /\ Len(r) = n
    <3> HIDE DEF e, n
    <3> QED  BY <2>4, IsASeq
  <2>6. ASSUME NEW y \in Elements(q), y # x  PROVE y \in Elements(r)
    <3>1. PICK k \in 1 .. Len(q) : q[k] = y  BY <2>6, InQueue
    <3>2. CASE k < i
      <4>1. k \in 1 .. n /\ r[k] = y  BY <2>1, <2>2, <3>1, <3>2
      <4> QED  BY <2>5, <4>1 DEF Elements
    <3>3. CASE k > i
      <4>1. k - 1 \in 1 .. n /\ r[k - 1] = y  BY <2>1, <2>2, <3>1, <3>3
      <4> QED  BY <2>5, <4>1 DEF Elements
    <3> QED  BY <2>1, <2>2, <2>6, <3>1, <3>2, <3>3
  <2> QED  BY <2>3, <2>5, <2>6
<1> QED  BY <1>1, <1>2

LEMMA PushHas ==
  ASSUME NEW X, NEW q \in Seq(X), NEW x \in X
  PROVE  /\ Push(q, x) \in Seq(X)
         /\ Elements(q) \cup {x} \subseteq Elements(Push(q, x))
<1>0. PICK p : p = Erase(q, x)  OBVIOUS
<1>1. p \in Seq(X) /\ \A y \in Elements(q) : y # x => y \in Elements(p)
  BY <1>0, EraseKeeps
<1>2. PICK r : r = Append(p, x)  OBVIOUS
<1>3. /\ r \in Seq(X) /\ Len(p) \in Nat /\ Len(r) = Len(p) + 1
      /\ \A i \in 1 .. Len(p) : r[i] = p[i]
      /\ r[Len(p) + 1] = x
  BY <1>1, <1>2, AppendProperties, LenProperties
<1>4. ASSUME NEW y \in Elements(p)  PROVE y \in Elements(r)
  <2>1. PICK i \in 1 .. Len(p) : p[i] = y  BY <1>1, InQueue
  <2> QED  BY <1>3, <2>1 DEF Elements
<1>5. x \in Elements(r)
  <2>1. Len(r) \in 1 .. Len(r) /\ r[Len(r)] = x  BY <1>3
  <2> QED  BY <2>1 DEF Elements
<1> QED  BY <1>0, <1>1, <1>2, <1>3, <1>4, <1>5 DEF Push

\* The loop that pushes them all, and that there is one.
Pushes(f, q, map, n) ==
  f = [i \in 0 .. n |-> IF i = 0 THEN q ELSE Push(f[i - 1], map[i])]

\* A set of naturals has a lowest element.
LEMMA LowestExists ==
  ASSUME NEW S \in SUBSET Nat, S # {}
  PROVE  \E x \in S : \A y \in S : x <= y
<1>1. PICK x \in S : \A y \in S : ~ (<<y, x>> \in OpToRel(<, Nat))
  <2> HIDE DEF OpToRel
  <2> QED  BY NatLessThanWellFounded, WFMin
<1>2. \A y \in S : ~ (y < x)
  BY <1>1 DEF OpToRel
<1> QED  BY <1>2

LEMMA PushesExists ==
  ASSUME NEW q, NEW map, NEW n \in Nat
  PROVE  \E f : Pushes(f, q, map, n)
<1> DEFINE T == {k \in 0 .. n : ~ \E f : Pushes(f, q, map, k)}
<1>1. SUFFICES ASSUME T # {} PROVE FALSE
  <2>1. n \in 0 .. n  OBVIOUS
  <2> QED  BY <2>1
<1>2. PICK k \in T : \A j \in T : k <= j
  <2>1. T \in SUBSET Nat  OBVIOUS
  <2> HIDE DEF T
  <2> QED  BY <1>1, <2>1, LowestExists
<1>3. k # 0
  <2>1. PICK f : f = [i \in 0 .. 0 |-> q]  OBVIOUS
  <2>2. f = [i \in 0 .. 0 |-> IF i = 0 THEN q ELSE Push(f[i - 1], map[i])]
    BY <2>1
  <2>3. Pushes(f, q, map, 0)  BY <2>2 DEF Pushes
  <2> QED  BY <2>3
<1>4. PICK g : Pushes(g, q, map, k - 1)
  <2>1. k - 1 \in 0 .. n /\ ~ (k <= k - 1)  BY <1>3
  <2>2. k - 1 \notin T
    <3> HIDE DEF T
    <3> QED  BY <1>2, <2>1
  <2> QED  BY <2>1, <2>2
<1>5. PICK h : h = [i \in 0 .. k |-> IF i < k THEN g[i] ELSE Push(g[k - 1], map[k])]
  OBVIOUS
<1>6. \A i \in 0 .. k : h[i] = IF i = 0 THEN q ELSE Push(h[i - 1], map[i])
  <2> TAKE i \in 0 .. k
  <2>1. CASE i = k
    <3>1. h[i] = Push(g[k - 1], map[k]) /\ h[i - 1] = g[k - 1]
      BY <1>3, <1>5, <2>1
    <3> QED  BY <1>3, <2>1, <3>1
  <2>2. CASE i < k
    <3>1. i \in 0 .. k - 1 /\ h[i] = g[i] /\ (i # 0 => h[i - 1] = g[i - 1])
      BY <1>5, <2>2
    <3>2. g[i] = IF i = 0 THEN q ELSE Push(g[i - 1], map[i])
      BY <1>4, <3>1 DEF Pushes
    <3> QED  BY <3>1, <3>2
  <2> QED  BY <2>1, <2>2
<1>7. Pushes(h, q, map, k)
  <2>1. h = [i \in 0 .. k |-> h[i]]  BY <1>5
  <2> QED  BY <1>6, <2>1 DEF Pushes
<1> QED  BY <1>7

LEMMA PushesHas ==
  ASSUME NEW X, NEW q \in Seq(X), NEW n \in Nat, NEW map \in [1 .. n -> X], NEW f,
         Pushes(f, q, map, n)
  PROVE  /\ f[n] \in Seq(X) /\ Elements(q) \subseteq Elements(f[n])
         /\ \A i \in 1 .. n : map[i] \in Elements(f[n])
<1> DEFINE Has(k) == /\ f[k] \in Seq(X)
                     /\ Elements(q) \subseteq Elements(f[k])
                     /\ \A i \in 1 .. k : map[i] \in Elements(f[k])
           T == {k \in 0 .. n : ~ Has(k)}
<1>1. SUFFICES ASSUME T # {} PROVE FALSE
  <2>1. n \in 0 .. n  OBVIOUS
  <2>2. Has(n)  BY <1>1, <2>1
  <2> QED  BY <2>2
<1>2. PICK k \in T : \A j \in T : k <= j
  <2>1. T \in SUBSET Nat  OBVIOUS
  <2> HIDE DEF T
  <2> QED  BY <1>1, <2>1, LowestExists
<1>3. k \in 0 .. n /\ ~ Has(k)  OBVIOUS
<1>4. k # 0
  <2>1. f[0] = q  BY DEF Pushes
  <2>2. Has(0)  BY <2>1
  <2> QED  BY <1>3, <2>2
<1>5. k - 1 \in 0 .. n /\ Has(k - 1)
  <2>1. k - 1 \in 0 .. n /\ ~ (k <= k - 1)  BY <1>3, <1>4
  <2>2. k - 1 \notin T
    <3> HIDE DEF T
    <3> QED  BY <1>2, <2>1
  <2>3. Has(k - 1)  BY <2>1, <2>2
  <2> QED  BY <2>1, <2>3
<1>6. f[k] = Push(f[k - 1], map[k])
  BY <1>3, <1>4 DEF Pushes
<1>7. PICK p : p = f[k - 1]  OBVIOUS
<1>8. p \in Seq(X) /\ map[k] \in X  BY <1>3, <1>4, <1>5, <1>7
<1>9. f[k] \in Seq(X) /\ Elements(p) \cup {map[k]} \subseteq Elements(f[k])
  BY <1>6, <1>7, <1>8, PushHas
<1>10. \A i \in 1 .. k : map[i] \in Elements(f[k])
  <2> TAKE i \in 1 .. k
  <2>1. CASE i = k  BY <1>9, <2>1
  <2>2. CASE i # k
    <3>1. i \in 1 .. k - 1  BY <1>3, <2>2
    <3> QED  BY <1>5, <1>7, <1>9, <3>1
  <2> QED  BY <2>1, <2>2
<1>11. Has(k)  BY <1>5, <1>7, <1>9, <1>10
<1> QED  BY <1>3, <1>11

LEMMA PushAllHas ==
  ASSUME NEW q \in Seq(Dir), NEW S \in SUBSET Dir
  PROVE  /\ PushAll(q, S) \in Seq(Dir)
         /\ Elements(q) \cup S \subseteq Elements(PushAll(q, S))
<1> DEFINE n == Cardinality(S)
           map == CHOOSE map \in [1 .. n -> S] : S = {map[i] : i \in 1 .. n}
           push == CHOOSE push : Pushes(push, q, map, n)
<1>1. n \in Nat /\ IsFiniteSet(S)
  BY CacheAssumption, FS_Subset, FS_CardinalityType DEF CacheAssumption
<1>2. \E b \in [1 .. n -> S] : S = {b[i] : i \in 1 .. n}
  <2>1. ExistsBijection(1 .. n, S)  BY <1>1, FS_CardinalityType
  <2>2. PICK b : b \in Bijection(1 .. n, S)  BY <2>1 DEF ExistsBijection
  <2>3. b \in [1 .. n -> S] /\ \A x \in S : \E i \in 1 .. n : b[i] = x
    BY <2>2 DEF Bijection, Injection, Surjection
  <2>4. S = {b[i] : i \in 1 .. n}  BY <2>3
  <2> QED  BY <2>3, <2>4
<1>3. map \in [1 .. n -> S] /\ S = {map[i] : i \in 1 .. n}
  BY <1>2
<1>4. PushAll(q, S) = push[n]  BY DEF PushAll, Pushes
<1>5. Pushes(push, q, map, n)
  <2> HIDE DEF map, n
  <2> QED  BY <1>1, PushesExists
<1>6. map \in [1 .. n -> Dir]  BY <1>3
<1> HIDE DEF map, n, push
<1>7. /\ push[n] \in Seq(Dir) /\ Elements(q) \subseteq Elements(push[n])
      /\ \A i \in 1 .. n : map[i] \in Elements(push[n])
  BY <1>1, <1>5, <1>6, PushesHas
<1> QED  BY <1>3, <1>4, <1>7

-----------------------------------------------------------------------------
(* What is below a directory *)

Closed(S) == \A c \in Dir \ {Top} : Parent[c] \in S => c \in S

LEMMA InBelow ==
  ASSUME NEW d \in Dir
  PROVE  \A x : x \in Below[d] <=> x \in Dir /\ \A S \in SUBSET Dir : d \in S /\ Closed(S) => x \in S
BY DEF Below, Closed

LEMMA BelowSelf == ASSUME NEW d \in Dir PROVE d \in Below[d] /\ Below[d] \subseteq Dir
BY InBelow

LEMMA BelowDown ==
  ASSUME NEW d \in Dir, NEW c \in Dir \ {Top}, Parent[c] \in Below[d]
  PROVE  c \in Below[d]
BY InBelow DEF Closed

LEMMA BelowUp ==
  ASSUME NEW d \in Dir, NEW c \in Children(d)
  PROVE  Below[c] \subseteq Below[d]
<1>1. c \in Dir /\ \A S : Closed(S) /\ d \in S => c \in S
  BY DEF Children, Closed
<1> QED  BY <1>1, InBelow

LEMMA BelowSplit ==
  ASSUME NEW d \in Dir, NEW x \in Below[d], x # d
  PROVE  \E c \in Children(d) : x \in Below[c]
<1> DEFINE S == {d} \cup UNION {Below[c] : c \in Children(d)}
<1>1. S \in SUBSET Dir  BY BelowSelf DEF Children
<1>2. ASSUME NEW c \in Dir \ {Top}, Parent[c] \in S PROVE c \in S
  <2>1. CASE Parent[c] = d
    <3>1. c \in Children(d)  BY <2>1 DEF Children
    <3> QED  BY <3>1, BelowSelf
  <2>2. CASE Parent[c] # d
    <3>1. PICK k \in Children(d) : Parent[c] \in Below[k]  BY <1>2, <2>2
    <3>2. k \in Dir  BY DEF Children
    <3>3. c \in Below[k]  BY <3>1, <3>2, BelowDown
    <3> QED  BY <3>3
  <2> QED  BY <2>1, <2>2
<1>3. x \in S
  <2>1. Closed(S) /\ d \in S  BY <1>2 DEF Closed
  <2> HIDE DEF S
  <2> QED  BY <1>1, <2>1, InBelow
<1> QED  BY <1>3

LEMMA BelowTop == \A d \in Dir : d \in Below[Top]
<1>1. PICK depth \in [Dir -> 0 .. Cardinality(Dir)] :
        \A d \in Dir \ {Top} : depth[Parent[d]] < depth[d]
  BY CacheAssumption DEF CacheAssumption
<1>2. Cardinality(Dir) \in Nat /\ Top \in Dir
  BY CacheAssumption, FS_CardinalityType DEF CacheAssumption
<1> DEFINE B == {d \in Dir : d \notin Below[Top]}
           N == {depth[d] : d \in B}
<1>3. SUFFICES ASSUME B # {} PROVE FALSE  OBVIOUS
<1>4. PICK n \in N : \A k \in N : n <= k
  <2>1. N \in SUBSET Nat /\ N # {}  BY <1>2, <1>3
  <2> HIDE DEF N
  <2> QED  BY <2>1, LowestExists
<1>5. PICK d \in Dir : d \notin Below[Top] /\ depth[d] = n  OBVIOUS
<1>6. d \in Dir \ {Top}  BY <1>2, <1>5, BelowSelf
<1>7. Parent[d] \in Dir /\ depth[Parent[d]] < depth[d]  BY <1>1, <1>6, ParentAbove
<1>8. Parent[d] \in Below[Top]
  <2>1. ASSUME Parent[d] \notin Below[Top] PROVE FALSE
    <3>1. depth[Parent[d]] \in N  BY <1>7, <2>1
    <3>2. depth[d] <= depth[Parent[d]]  BY <1>4, <1>5, <3>1
    <3>3. depth[d] \in Int /\ depth[Parent[d]] \in Int  BY <1>2, <1>7
    <3> QED  BY <1>7, <3>2, <3>3
  <2> QED  BY <2>1
<1> QED  BY <1>2, <1>5, <1>6, <1>8, BelowDown

\* From the leaves up: of the directories of a set, one has no folder in the set.
LEMMA DeepestExists ==
  ASSUME NEW S \in SUBSET Dir, S # {}
  PROVE  \E d \in S : Children(d) \cap S = {}
<1>1. PICK depth \in [Dir -> 0 .. Cardinality(Dir)] :
        \A d \in Dir \ {Top} : depth[Parent[d]] < depth[d]
  BY CacheAssumption DEF CacheAssumption
<1>2. Cardinality(Dir) \in Nat
  BY CacheAssumption, FS_CardinalityType DEF CacheAssumption
<1> DEFINE N == {Cardinality(Dir) - depth[d] : d \in S}
<1>3. \A d \in Dir : depth[d] \in Int /\ Cardinality(Dir) - depth[d] \in Nat  BY <1>2
<1>4. PICK n \in N : \A k \in N : n <= k
  <2>1. N \in SUBSET Nat /\ N # {}  BY <1>3
  <2> HIDE DEF N
  <2> QED  BY <2>1, LowestExists
<1>5. PICK d \in S : n = Cardinality(Dir) - depth[d]  OBVIOUS
<1>6. ASSUME NEW c \in Children(d), c \in S PROVE FALSE
  <2>1. c \in Dir \ {Top} /\ Parent[c] = d  BY DEF Children
  <2>2. Cardinality(Dir) - depth[d] <= Cardinality(Dir) - depth[c]
    BY <1>4, <1>5, <1>6
  <2> QED  BY <1>1, <1>2, <1>3, <2>1, <2>2
<1> QED  BY <1>6

-----------------------------------------------------------------------------
(* GetMoreImportant *)

LEMMA ImportantType ==
  ASSUME NEW s \in Status, NEW t \in Status
  PROVE  /\ Important(s, t) \in Status
         /\ Important(s, t) = "none" => s = "none" /\ t = "none"
         /\ Important(s, t) = "modified" <=> s = "modified" \/ t = "modified"
BY DEF Status, Important, Rank

LEMMA MostOfMost ==
  ASSUME NEW S \in SUBSET Status, S # {}
  PROVE  /\ MostOf(S) \in S
         /\ "modified" \in S => MostOf(S) = "modified"
         /\ "modified" \notin S /\ "normal" \in S => MostOf(S) = "normal"
<1>1. \E s \in S : \A t \in S : Important(s, t) = s
  <2>0. \A t \in Status : Important("modified", t) = "modified"
    BY DEF Status, Important, Rank
  <2>1. CASE "modified" \in S  BY <2>0, <2>1
  <2>2. CASE "modified" \notin S /\ "normal" \in S  BY <2>2 DEF Status, Important, Rank
  <2>3. CASE "modified" \notin S /\ "normal" \notin S  BY <2>3 DEF Status, Important, Rank
  <2> QED  BY <2>1, <2>2, <2>3
<1>2. MostOf(S) \in S /\ \A t \in S : Important(MostOf(S), t) = MostOf(S)
  BY <1>1 DEF MostOf
<1>3. PICK m : m = MostOf(S)  OBVIOUS
<1>4. m \in Status /\ m \in S /\ \A t \in S : Important(m, t) = m  BY <1>2, <1>3
<1> QED  BY <1>3, <1>4 DEF Status, Important, Rank

-----------------------------------------------------------------------------

(* Types *)

EntryRec == [st : Status, time : Int]

CacheRec ==
  [here : BOOLEAN, eff : {"none", "normal"}, set : BOOLEAN, kind : BOOLEAN,
   most : Status, full : Status, kids : [Dir -> Status \cup {Unknown}],
   entry : EntryRec, db : Nat, fetching : BOOLEAN]

Labels ==
  Outside \cup Fetchers \cup Updaters \cup
  {"invalidate", "decide", "same", "find", "changed", "drop", "look", "none", "request",
   "clear", "exchange", "most", "mark", "fetched", "miss", "answer", "done"}

ThreadRec ==
  [pc : Labels, item : {"ask", "file", "folder", "db"}, of : Dir, this : Dir,
   path : [file : BOOLEAN, dir : Dir], fetch : BOOLEAN, seen : Nat, left : SUBSET Dir,
   val : Status, time : Int, up : Dir, next : Nexts, was : Status, kids : SUBSET Dir,
   want : SUBSET Dir]

WorldType ==
  /\ disk \in [Dir -> [st : {"normal", "modified"}, time : Nat]]
  /\ count \in [edits : 0 .. MaxEdits, commits : 0 .. MaxCommits,
                asks : 0 .. MaxAsks, blocks : 0 .. MaxBlocks]
  /\ \A d \in Dir : disk[d].time <= count.edits
  /\ db = count.commits + 1 /\ dbSeen \in 0 .. db
  /\ events \subseteq Dir \cup {Database} /\ blocked \in BOOLEAN
  /\ paths \in Seq(Dir \cup {Database}) /\ folders \in Seq(Dir)
  /\ added \in BOOLEAN /\ woken \in BOOLEAN
  /\ blank \subseteq Dir /\ lost \subseteq Dir

\* A directory that is not in the map is as it will be when it is made; what is
\* told of folders is told of those that are there; nothing is from the future.
Bounds(d) ==
  /\ ~cache[d].here => cache[d] = Fresh
  /\ \A c \in Dir : cache[d].kids[c] # Unknown => c \in Children(d)
  /\ cache[d].entry.time >= -1 /\ cache[d].entry.time <= disk[d].time
  /\ cache[d].db <= db

CacheType ==
  /\ cache \in [Dir -> CacheRec]
  /\ \A d \in Dir : Bounds(d)

\* Where a thread may be with what it has to do.
Timed == {"same", "find", "changed", "drop", "look", "clear", "exchange", "most", "mark",
          "fetched"} \cup Fetchers

Doing(t) ==
  /\ thr[t].next = "fetched" => thr[t].pc \in Updaters
  /\ thr[t].next = "request" => thr[t].pc = "none"
  /\ thr[t].pc \in {"none", "request"} => ~thr[t].fetch
  /\ thr[t].seen <= db
  /\ thr[t].pc \in Timed \/ thr[t].next = "fetched" => thr[t].seen # 0
  /\ thr[t].pc = "entry" => /\ thr[t].val # "none"
                            /\ thr[t].time <= disk[thr[t].this].time
  /\ t # Crawler => thr[t].item = "ask" /\ ~thr[t].fetch
  /\ thr[t].item # "ask" => thr[t].fetch /\ thr[t].pc \notin {"idle", "asleep", "folders"}
  /\ t = Crawler /\ thr[t].item = "ask" => thr[t].pc \in {"idle", "asleep", "folders"}
  /\ thr[t].item = "file" => /\ thr[t].path = File(thr[t].of)
                             /\ thr[t].pc \notin {"invalidate", "done"}
  /\ thr[t].item \in {"folder", "db"} => thr[t].path \in {File(thr[t].of), Folder(thr[t].of)}
  /\ thr[t].item = "db" => thr[t].of = Top
  /\ thr[t].pc = "invalidate" => thr[t].item = "db" /\ ~thr[t].path.file
  /\ thr[t].pc = "done" => thr[t].item \in {"folder", "db"} /\ thr[t].path.file
  /\ thr[t].pc = "enter" /\ thr[t].item \in {"folder", "db"} => ~thr[t].path.file

ThreadType ==
  /\ thr \in [Thread -> ThreadRec]
  /\ \A t \in Thread : Doing(t)

Typed == WorldType /\ CacheType /\ ThreadType

LEMMA ThreadIs ==
  ASSUME Typed, NEW t \in Thread
  PROVE  /\ thr[t] \in ThreadRec /\ Doing(t)
         /\ thr[t].this \in Dir /\ thr[t].up \in Dir /\ thr[t].path.dir \in Dir
         /\ thr[t].path.file \in BOOLEAN /\ thr[t].of \in Dir /\ thr[t].kids \in SUBSET Dir
         /\ thr[t].val \in Status /\ thr[t].seen \in Nat /\ thr[t].time \in Int
         /\ thr[t].pc \in Labels /\ thr[t].next \in Nexts
         /\ thr[t].fetch \in BOOLEAN /\ thr[t].item \in {"ask", "file", "folder", "db"}
         /\ thr[t].was \in Status /\ thr[t].want \in SUBSET Dir /\ thr[t].left \in SUBSET Dir
BY DEF Typed, ThreadType, ThreadRec

LEMMA CacheIs ==
  ASSUME Typed, NEW d \in Dir
  PROVE  /\ cache[d] \in CacheRec /\ Bounds(d)
         /\ cache[d].here \in BOOLEAN /\ cache[d].fetching \in BOOLEAN
         /\ cache[d].eff \in {"none", "normal"} /\ cache[d].set \in BOOLEAN
         /\ cache[d].kind \in BOOLEAN
         /\ cache[d].most \in Status /\ cache[d].full \in Status
         /\ cache[d].kids \in [Dir -> Status \cup {Unknown}]
         /\ cache[d].entry.st \in Status /\ cache[d].entry.time \in Int
         /\ cache[d].entry = [st |-> cache[d].entry.st, time |-> cache[d].entry.time]
         /\ cache[d].db \in Nat
BY DEF Typed, CacheType, CacheRec, EntryRec

LEMMA WorldIs ==
  ASSUME Typed
  PROVE  /\ db \in Nat /\ db # 0 /\ dbSeen \in 0 .. db
         /\ \A d \in Dir : /\ disk[d].time \in Nat /\ disk[d].st \in Status
                           /\ disk[d].st # "none"
<1>1. count.commits \in Nat
  BY CacheAssumption DEF Typed, WorldType, CacheAssumption
<1>2. db \in Nat /\ db # 0 /\ dbSeen \in 0 .. db  BY <1>1 DEF Typed, WorldType
<1> QED  BY <1>2 DEF Typed, WorldType, Status

LEMMA FreshType ==
  /\ Fresh \in CacheRec /\ [Fresh EXCEPT !.here = TRUE] \in CacheRec
  /\ [Fresh EXCEPT !.here = TRUE].here /\ ~[Fresh EXCEPT !.here = TRUE].fetching
  /\ [Fresh EXCEPT !.here = TRUE].db = 0 /\ [Fresh EXCEPT !.here = TRUE].entry = NoEntry
  /\ [Fresh EXCEPT !.here = TRUE].full = "none"
  /\ \A c \in Dir : [Fresh EXCEPT !.here = TRUE].kids[c] = Unknown /\ Fresh.kids[c] = Unknown
  /\ Fresh.kids \in [Dir -> Status \cup {Unknown}]
  /\ NoEntry \in EntryRec /\ NoEntry.st = "none" /\ NoEntry.time = -1
<1>1. NoEntry \in EntryRec /\ NoEntry.st = "none" /\ NoEntry.time = -1
  BY DEF NoEntry, Status, EntryRec
<1>2. PICK k : k = [c \in Dir |-> Unknown]  OBVIOUS
<1>3. k \in [Dir -> Status \cup {Unknown}] /\ \A c \in Dir : k[c] = Unknown  BY <1>2
<1>4. Fresh = [here |-> FALSE, eff |-> "none", set |-> FALSE, kind |-> FALSE,
               most |-> "none", full |-> "none", kids |-> k, entry |-> NoEntry,
               db |-> 0, fetching |-> FALSE]
  BY <1>2 DEF Fresh
<1>5. Fresh \in CacheRec /\ Fresh.kids = k  BY <1>1, <1>3, <1>4 DEF CacheRec, Status
<1>6. PICK f : f = [Fresh EXCEPT !.here = TRUE]  OBVIOUS
<1>7. f = [here |-> TRUE, eff |-> "none", set |-> FALSE, kind |-> FALSE,
           most |-> "none", full |-> "none", kids |-> k, entry |-> NoEntry,
           db |-> 0, fetching |-> FALSE]
  BY <1>4, <1>6
<1>8. f \in CacheRec /\ f.here /\ ~f.fetching /\ f.db = 0 /\ f.entry = NoEntry
      /\ f.full = "none" /\ f.kids = k
  BY <1>1, <1>3, <1>7 DEF CacheRec, Status
<1> QED  BY <1>1, <1>3, <1>5, <1>6, <1>8

-----------------------------------------------------------------------------
(* What a step of a thread changes, field by field *)

\* The same thread, in the same method, with the same thing to do.
Like(s, r) ==
  /\ s \in ThreadRec
  /\ s.this = r.this /\ s.item = r.item /\ s.of = r.of /\ s.path = r.path
  /\ s.fetch = r.fetch /\ s.kids = r.kids /\ s.was = r.was

Others(t) ==
  /\ thr' = [thr EXCEPT ![t] = thr'[t]]
  /\ \A u \in Thread : u # t => thr'[u] = thr[u]

Moves(t, pc) == Others(t) /\ Like(thr'[t], thr[t]) /\ thr'[t].pc = pc

Steps(t, pc) ==
  /\ Moves(t, pc)
  /\ thr'[t].next = thr[t].next /\ thr'[t].seen = thr[t].seen
  /\ thr'[t].up = thr[t].up /\ thr'[t].left = thr[t].left

\* A thread is through with GetStatusForMember, or updates the status still.
Leaves(t) ==
  /\ Others(t)
  /\ thr'[t] \in ThreadRec
  /\ thr'[t].next = "answer" /\ thr'[t].pc \in {"idle", "answer", "calc"}
  /\ thr'[t].seen <= thr[t].seen
  /\ thr'[t].pc = "idle" => thr[t].item = "ask" /\ thr'[t] = Idle
  /\ thr'[t].pc = "answer" => thr[t].item # "ask"
  /\ thr'[t].pc # "idle" => Like(thr'[t], thr[t])

LEMMA GoesTo ==
  ASSUME Typed, NEW t \in Thread, NEW r, Goes(t, r)
  PROVE  thr'[t] = r /\ Others(t)
BY DEF Typed, ThreadType, Goes, Others

LEMMA IdleType == Idle \in ThreadRec /\ Idle.pc = "idle" /\ Idle.next = "answer"
                  /\ Idle.item = "ask" /\ Idle.seen = 0 /\ Idle.want = {} /\ Idle.fetch = FALSE
BY CacheAssumption DEF CacheAssumption, Idle, ThreadRec, Folder, Labels, Status, Outside, Nexts

LEMMA WithPc ==
  ASSUME NEW r \in ThreadRec, NEW pc \in Labels,
         NEW s, s = [r EXCEPT !.pc = pc]
  PROVE  /\ Like(s, r) /\ s.pc = pc /\ s.val = r.val /\ s.time = r.time /\ s.seen = r.seen
         /\ s.left = r.left /\ s.up = r.up /\ s.next = r.next
BY DEF Like, ThreadRec, Nexts

-----------------------------------------------------------------------------
(* Changes of the entry of one directory *)

Elsewhere(d) == \A x \in Dir : x # d => cache'[x] = cache[x]

Only(d) ==
  /\ cache' \in [Dir -> CacheRec] /\ Elsewhere(d)
  /\ cache'[d].here = cache[d].here

LEMMA PutsEntry ==
  ASSUME Typed, NEW d \in Dir, NEW e \in EntryRec,
         cache' = [cache EXCEPT ![d].entry = e]
  PROVE  /\ Only(d)
         /\ cache'[d].eff = cache[d].eff /\ cache'[d].most = cache[d].most
         /\ cache'[d].full = cache[d].full /\ cache'[d].kids = cache[d].kids
         /\ cache'[d].entry = e /\ cache'[d].db = cache[d].db
<1>1. ASSUME NEW r \in CacheRec, NEW z, z = [r EXCEPT !.entry = e]
      PROVE  /\ z \in CacheRec /\ z.here = r.here
             /\ z.eff = r.eff /\ z.most = r.most /\ z.full = r.full /\ z.kids = r.kids
             /\ z.entry = e /\ z.db = r.db
  BY <1>1, FreshType DEF CacheRec, Status
<1>2. cache \in [Dir -> CacheRec] /\ cache[d] \in CacheRec  BY DEF Typed, CacheType
<1>3. PICK z : z = [cache[d] EXCEPT !.entry = e]  OBVIOUS
<1>4. cache' = [cache EXCEPT ![d] = z]  BY <1>2, <1>3 DEF CacheRec
<1>5. /\ z \in CacheRec /\ z.here = cache[d].here
      /\ z.eff = cache[d].eff /\ z.most = cache[d].most /\ z.full = cache[d].full
      /\ z.kids = cache[d].kids /\ z.entry = e /\ z.db = cache[d].db
  BY <1>1, <1>2, <1>3
<1> QED  BY <1>2, <1>4, <1>5 DEF Only, Elsewhere

LEMMA PutsNone ==
  ASSUME Typed, NEW d \in Dir,
         cache' = [cache EXCEPT ![d].full = "none", ![d].most = "none"]
  PROVE  /\ Only(d)
         /\ cache'[d].eff = cache[d].eff /\ cache'[d].most = "none"
         /\ cache'[d].full = "none" /\ cache'[d].kids = cache[d].kids
         /\ cache'[d].entry = cache[d].entry /\ cache'[d].db = cache[d].db
<1>1. ASSUME NEW r \in CacheRec, NEW z, z = [r EXCEPT !.full = "none", !.most = "none"]
      PROVE  /\ z \in CacheRec /\ z.here = r.here
             /\ z.eff = r.eff /\ z.most = "none" /\ z.full = "none" /\ z.kids = r.kids
             /\ z.entry = r.entry /\ z.db = r.db
  BY <1>1, FreshType DEF CacheRec, Status
<1>2. cache \in [Dir -> CacheRec] /\ cache[d] \in CacheRec  BY DEF Typed, CacheType
<1>3. PICK z : z = [cache[d] EXCEPT !.full = "none", !.most = "none"]  OBVIOUS
<1>4. cache' = [cache EXCEPT ![d] = z]  BY <1>2, <1>3 DEF CacheRec
<1>5. /\ z \in CacheRec /\ z.here = cache[d].here
      /\ z.eff = cache[d].eff /\ z.most = "none" /\ z.full = "none"
      /\ z.kids = cache[d].kids /\ z.entry = cache[d].entry /\ z.db = cache[d].db
  BY <1>1, <1>2, <1>3
<1> QED  BY <1>2, <1>4, <1>5 DEF Only, Elsewhere

LEMMA PutsDb ==
  ASSUME Typed, NEW d \in Dir, NEW n \in Nat,
         cache' = [cache EXCEPT ![d].db = n]
  PROVE  /\ Only(d)
         /\ cache'[d].eff = cache[d].eff /\ cache'[d].most = cache[d].most
         /\ cache'[d].full = cache[d].full /\ cache'[d].kids = cache[d].kids
         /\ cache'[d].entry = cache[d].entry /\ cache'[d].db = n
<1>1. ASSUME NEW r \in CacheRec, NEW z, z = [r EXCEPT !.db = n]
      PROVE  /\ z \in CacheRec /\ z.here = r.here
             /\ z.eff = r.eff /\ z.most = r.most /\ z.full = r.full /\ z.kids = r.kids
             /\ z.entry = r.entry /\ z.db = n
  BY <1>1, FreshType DEF CacheRec, Status
<1>2. cache \in [Dir -> CacheRec] /\ cache[d] \in CacheRec  BY DEF Typed, CacheType
<1>3. PICK z : z = [cache[d] EXCEPT !.db = n]  OBVIOUS
<1>4. cache' = [cache EXCEPT ![d] = z]  BY <1>2, <1>3 DEF CacheRec
<1>5. /\ z \in CacheRec /\ z.here = cache[d].here
      /\ z.eff = cache[d].eff /\ z.most = cache[d].most /\ z.full = cache[d].full
      /\ z.kids = cache[d].kids /\ z.entry = cache[d].entry /\ z.db = n
  BY <1>1, <1>2, <1>3
<1> QED  BY <1>2, <1>4, <1>5 DEF Only, Elsewhere

LEMMA PutsFetching ==
  ASSUME Typed, NEW d \in Dir, NEW b \in BOOLEAN,
         cache' = [cache EXCEPT ![d].fetching = b]
  PROVE  /\ Only(d)
         /\ cache'[d].eff = cache[d].eff /\ cache'[d].most = cache[d].most
         /\ cache'[d].full = cache[d].full /\ cache'[d].kids = cache[d].kids
         /\ cache'[d].entry = cache[d].entry /\ cache'[d].db = cache[d].db
<1>1. ASSUME NEW r \in CacheRec, NEW z, z = [r EXCEPT !.fetching = b]
      PROVE  /\ z \in CacheRec /\ z.here = r.here
             /\ z.eff = r.eff /\ z.most = r.most /\ z.full = r.full /\ z.kids = r.kids
             /\ z.entry = r.entry /\ z.db = r.db
  BY <1>1, FreshType DEF CacheRec, Status
<1>2. cache \in [Dir -> CacheRec] /\ cache[d] \in CacheRec  BY DEF Typed, CacheType
<1>3. PICK z : z = [cache[d] EXCEPT !.fetching = b]  OBVIOUS
<1>4. cache' = [cache EXCEPT ![d] = z]  BY <1>2, <1>3 DEF CacheRec
<1>5. /\ z \in CacheRec /\ z.here = cache[d].here
      /\ z.eff = cache[d].eff /\ z.most = cache[d].most /\ z.full = cache[d].full
      /\ z.kids = cache[d].kids /\ z.entry = cache[d].entry /\ z.db = cache[d].db
  BY <1>1, <1>2, <1>3
<1> QED  BY <1>2, <1>4, <1>5 DEF Only, Elsewhere

LEMMA PutsMost ==
  ASSUME Typed, NEW d \in Dir, NEW m \in Status,
         cache' = [cache EXCEPT ![d].most = m]
  PROVE  /\ Only(d)
         /\ cache'[d].eff = cache[d].eff /\ cache'[d].most = m
         /\ cache'[d].full = cache[d].full /\ cache'[d].kids = cache[d].kids
         /\ cache'[d].entry = cache[d].entry /\ cache'[d].db = cache[d].db
<1>1. ASSUME NEW r \in CacheRec, NEW z, z = [r EXCEPT !.most = m]
      PROVE  /\ z \in CacheRec /\ z.here = r.here
             /\ z.eff = r.eff /\ z.most = m /\ z.full = r.full /\ z.kids = r.kids
             /\ z.entry = r.entry /\ z.db = r.db
  BY <1>1, FreshType DEF CacheRec, Status
<1>2. cache \in [Dir -> CacheRec] /\ cache[d] \in CacheRec  BY DEF Typed, CacheType
<1>3. PICK z : z = [cache[d] EXCEPT !.most = m]  OBVIOUS
<1>4. cache' = [cache EXCEPT ![d] = z]  BY <1>2, <1>3 DEF CacheRec
<1>5. /\ z \in CacheRec /\ z.here = cache[d].here
      /\ z.eff = cache[d].eff /\ z.most = m /\ z.full = cache[d].full
      /\ z.kids = cache[d].kids /\ z.entry = cache[d].entry /\ z.db = cache[d].db
  BY <1>1, <1>2, <1>3
<1> QED  BY <1>2, <1>4, <1>5 DEF Only, Elsewhere

LEMMA PutsFull ==
  ASSUME Typed, NEW d \in Dir, NEW f \in Status,
         cache' = [cache EXCEPT ![d].full = f]
  PROVE  /\ Only(d)
         /\ cache'[d].eff = cache[d].eff /\ cache'[d].most = cache[d].most
         /\ cache'[d].full = f /\ cache'[d].kids = cache[d].kids
         /\ cache'[d].entry = cache[d].entry /\ cache'[d].db = cache[d].db
<1>1. ASSUME NEW r \in CacheRec, NEW z, z = [r EXCEPT !.full = f]
      PROVE  /\ z \in CacheRec /\ z.here = r.here
             /\ z.eff = r.eff /\ z.most = r.most /\ z.full = f /\ z.kids = r.kids
             /\ z.entry = r.entry /\ z.db = r.db
  BY <1>1, FreshType DEF CacheRec, Status
<1>2. cache \in [Dir -> CacheRec] /\ cache[d] \in CacheRec  BY DEF Typed, CacheType
<1>3. PICK z : z = [cache[d] EXCEPT !.full = f]  OBVIOUS
<1>4. cache' = [cache EXCEPT ![d] = z]  BY <1>2, <1>3 DEF CacheRec
<1>5. /\ z \in CacheRec /\ z.here = cache[d].here
      /\ z.eff = cache[d].eff /\ z.most = cache[d].most /\ z.full = f
      /\ z.kids = cache[d].kids /\ z.entry = cache[d].entry /\ z.db = cache[d].db
  BY <1>1, <1>2, <1>3
<1> QED  BY <1>2, <1>4, <1>5 DEF Only, Elsewhere

LEMMA PutsOwn ==
  ASSUME Typed, NEW d \in Dir,
         cache' = [cache EXCEPT ![d] = Own(@)]
  PROVE  /\ Only(d)
         /\ cache'[d].eff = "normal" /\ cache'[d].most = cache[d].most
         /\ cache'[d].full = cache[d].full /\ cache'[d].kids = cache[d].kids
         /\ cache'[d].entry = cache[d].entry /\ cache'[d].db = cache[d].db
<1>1. ASSUME NEW r \in CacheRec, NEW z, z = [r EXCEPT !.eff = "normal", !.set = TRUE, !.kind = TRUE]
      PROVE  /\ z \in CacheRec /\ z.here = r.here
             /\ z.eff = "normal" /\ z.most = r.most /\ z.full = r.full /\ z.kids = r.kids
             /\ z.entry = r.entry /\ z.db = r.db
  BY <1>1, FreshType DEF CacheRec, Status
<1>2. cache \in [Dir -> CacheRec] /\ cache[d] \in CacheRec  BY DEF Typed, CacheType
<1>3. PICK z : z = [cache[d] EXCEPT !.eff = "normal", !.set = TRUE, !.kind = TRUE]  OBVIOUS
<1>4. cache' = [cache EXCEPT ![d] = z]  BY <1>2, <1>3 DEF Own
<1>5. /\ z \in CacheRec /\ z.here = cache[d].here
      /\ z.eff = "normal" /\ z.most = cache[d].most /\ z.full = cache[d].full
      /\ z.kids = cache[d].kids /\ z.entry = cache[d].entry /\ z.db = cache[d].db
  BY <1>1, <1>2, <1>3
<1> QED  BY <1>2, <1>4, <1>5 DEF Only, Elsewhere

LEMMA PutsKid ==
  ASSUME Typed, NEW d \in Dir, NEW c \in Dir, NEW v \in Status,
         cache' = [cache EXCEPT ![d].kids[c] = v]
  PROVE  /\ Only(d)
         /\ cache'[d].eff = cache[d].eff /\ cache'[d].most = cache[d].most
         /\ cache'[d].full = cache[d].full /\ cache'[d].entry = cache[d].entry
         /\ cache'[d].db = cache[d].db
         /\ cache'[d].kids[c] = v
         /\ \A x \in Dir : x # c => cache'[d].kids[x] = cache[d].kids[x]
<1>1. ASSUME NEW r \in CacheRec, NEW k \in [Dir -> Status \cup {Unknown}], NEW z,
             z = [r EXCEPT !.kids = k]
      PROVE  /\ z \in CacheRec /\ z.here = r.here /\ z.eff = r.eff /\ z.most = r.most
             /\ z.full = r.full /\ z.kids = k /\ z.entry = r.entry /\ z.db = r.db
  BY <1>1 DEF CacheRec
<1>2. cache \in [Dir -> CacheRec] /\ cache[d] \in CacheRec  BY DEF Typed, CacheType
<1>3. PICK j : j = cache[d].kids  OBVIOUS
<1>4. PICK k : k = [j EXCEPT ![c] = v]  OBVIOUS
<1>5. j \in [Dir -> Status \cup {Unknown}]  BY <1>2, <1>3 DEF CacheRec
<1>6. /\ k \in [Dir -> Status \cup {Unknown}] /\ k[c] = v
      /\ \A x \in Dir : x # c => k[x] = j[x]
  BY <1>4, <1>5
<1>7. PICK z : z = [cache[d] EXCEPT !.kids = k]  OBVIOUS
<1>8. cache' = [cache EXCEPT ![d] = z]
  <2>1. z = [cache[d] EXCEPT !.kids[c] = v]  BY <1>2, <1>3, <1>4, <1>7 DEF CacheRec
  <2> QED  BY <1>2, <2>1 DEF CacheRec
<1>9. /\ z \in CacheRec /\ z.here = cache[d].here /\ z.eff = cache[d].eff
      /\ z.most = cache[d].most /\ z.full = cache[d].full /\ z.kids = k
      /\ z.entry = cache[d].entry /\ z.db = cache[d].db
  BY <1>1, <1>2, <1>6, <1>7
<1>10. Only(d) /\ cache'[d] = z  BY <1>2, <1>8, <1>9 DEF Only, Elsewhere
<1> QED  BY <1>3, <1>6, <1>9, <1>10

-----------------------------------------------------------------------------
(* What each step does *)

LEMMA NewType ==
  ASSUME Typed, Inv, NEW t \in Thread
  PROVE  Needs(t) \subseteq Dir /\ New(t) \subseteq Dir
<1>1. thr[t].this \in Dir /\ thr[t].want \subseteq Dir /\ thr[t].up \in Dir  BY ThreadIs
<1>2. thr[t].up # Top => Parent[thr[t].up] \in Dir  BY <1>1, ParentAbove
<1>3. thr[t].pc = "folder" => Child(t) \in Dir  BY ChildIs DEF Listers
<1>4. Needs(t) \subseteq Dir  BY <1>1, <1>2, <1>3 DEF Needs
<1> QED  BY <1>1, <1>4 DEF New

LEMMA MadeIs ==
  ASSUME Typed, NEW t \in Thread, NEW x \in Dir
  PROVE  /\ Made(t)[x] \in CacheRec
         /\ x \notin New(t) => Made(t)[x] = cache[x]
         /\ x \in New(t) => Made(t)[x] = [Fresh EXCEPT !.here = TRUE]
<1>1. Made(t)[x] = IF x \in New(t) THEN [Fresh EXCEPT !.here = TRUE] ELSE cache[x]
  BY DEF Made
<1> QED  BY <1>1, CacheIs, FreshType

LEMMA LabelIs ==
  /\ "idle" \in Labels /\ "asleep" \in Labels /\ "folders" \in Labels
  /\ "enter" \in Labels /\ "list" \in Labels /\ "folder" \in Labels
  /\ "child" \in Labels /\ "own" \in Labels /\ "file" \in Labels
  /\ "entry" \in Labels /\ "end" \in Labels /\ "calc" \in Labels
  /\ "write" \in Labels /\ "tell" \in Labels /\ "compare" \in Labels
  /\ "put" \in Labels /\ "invalidate" \in Labels /\ "decide" \in Labels
  /\ "same" \in Labels /\ "find" \in Labels /\ "changed" \in Labels
  /\ "drop" \in Labels /\ "look" \in Labels /\ "none" \in Labels
  /\ "request" \in Labels /\ "clear" \in Labels /\ "exchange" \in Labels
  /\ "most" \in Labels /\ "mark" \in Labels /\ "fetched" \in Labels
  /\ "miss" \in Labels /\ "answer" \in Labels /\ "done" \in Labels
  /\ 0 \in Nat /\ {} \in SUBSET Dir /\ Top \in Dir
  /\ "none" \in Status /\ "normal" \in Status
  /\ "answer" \in Nexts /\ "fetched" \in Nexts
BY CacheAssumption DEF CacheAssumption, Labels, Outside, Fetchers, Updaters, Status, Nexts

LEMMA ToEffect ==
  ASSUME Typed, NEW t \in Thread, NEW pc \in Labels, To(t, pc)
  PROVE  Steps(t, pc) /\ thr'[t].val = thr[t].val /\ thr'[t].time = thr[t].time
<1>1. PICK s : s = [thr[t] EXCEPT !.pc = pc]  OBVIOUS
<1>2. thr'[t] = s /\ Others(t)  BY <1>1, GoesTo DEF To
<1> QED  BY <1>1, <1>2, WithPc, ThreadIs DEF Steps, Moves

LEMMA AnswerEffect ==
  ASSUME Typed, NEW t \in Thread, NEW r, Goes(t, Answer(r)), Like(r, thr[t]), r.next = "answer"
  PROVE  Leaves(t) /\ thr'[t].pc # "calc"
<1>1. thr'[t] = Answer(r) /\ Others(t)  BY GoesTo
<1>2. thr[t].seen \in Nat  BY ThreadIs
<1>3. CASE r.item = "ask"
  <2>1. thr'[t] = Idle /\ thr[t].item = "ask"  BY <1>1, <1>3 DEF Answer, Like
  <2> QED  BY <1>1, <1>2, <2>1, IdleType DEF Leaves
<1>4. CASE r.item # "ask"
  <2>1. PICK s : s = [r EXCEPT !.pc = "answer", !.seen = 0]  OBVIOUS
  <2>2. PICK z : z = [r EXCEPT !.seen = 0]  OBVIOUS
  <2>3. r \in ThreadRec  BY DEF Like
  <2>4. s = [r EXCEPT !.seen = 0, !.pc = "answer"]  BY <2>1, <2>3 DEF ThreadRec
  <2>5. Like(s, r) /\ s.pc = "answer" /\ s.seen = 0 /\ s.next = r.next
    BY <2>3, <2>4, LabelIs DEF Like, ThreadRec
  <2>6. thr'[t] = s  BY <1>1, <1>4, <2>1 DEF Answer
  <2>7. Like(s, thr[t])  BY <2>5 DEF Like
  <2> QED  BY <1>1, <1>2, <1>4, <2>5, <2>6, <2>7 DEF Leaves, Like
<1> QED  BY <1>3, <1>4

LEMMA OwnStatusEffect ==
  ASSUME Typed, NEW t \in Thread, NEW r, NEW m \in Dir, Goes(t, GetOwnStatus(r, m)),
         Like(r, thr[t]), r.next = "answer", r.seen = 0
  PROVE  /\ Leaves(t)
         /\ thr'[t].pc = "calc" => thr'[t].up = m
<1>1. CASE cache[m].eff = "none"
  <2>1. Goes(t, Answer(r))  BY <1>1 DEF GetOwnStatus
  <2> QED  BY <2>1, AnswerEffect
<1>2. CASE cache[m].eff # "none"
  <2>1. PICK s : s = [r EXCEPT !.pc = "calc", !.up = m]  OBVIOUS
  <2>2. r \in ThreadRec  BY DEF Like
  <2>3. Like(s, r) /\ s.pc = "calc" /\ s.seen = 0 /\ s.next = "answer" /\ s.up = m
    BY <2>1, <2>2, LabelIs DEF Like, ThreadRec
  <2>4. Goes(t, s)  BY <1>2, <2>1 DEF GetOwnStatus
  <2>5. thr'[t] = s /\ Others(t)  BY <2>4, GoesTo
  <2>6. thr[t].seen \in Nat  BY ThreadIs
  <2> QED  BY <2>3, <2>5, <2>6 DEF Leaves, Like
<1> QED  BY <1>1, <1>2

\* The status of a directory is what is most important of these.
Parts(d) == {cache[d].most, cache[d].eff} \cup {cache[d].kids[c] : c \in Known(d)}

LEMMA PartsType ==
  ASSUME Typed, NEW d \in Dir
  PROVE  Parts(d) \in SUBSET Status /\ Parts(d) # {}
         /\ CalculateRecursiveStatus(d) = MostOf(Parts(d))
         /\ CalculateRecursiveStatus(d) \in Status
<1>1. cache[d].most \in Status /\ cache[d].eff \in Status  BY CacheIs DEF Status
<1>2. \A c \in Known(d) : cache[d].kids[c] \in Status  BY CacheIs DEF Known
<1>3. Parts(d) \in SUBSET Status /\ Parts(d) # {}  BY <1>1, <1>2 DEF Parts
<1>4. CalculateRecursiveStatus(d) = MostOf(Parts(d))  BY DEF CalculateRecursiveStatus, Parts
<1> HIDE DEF Parts
<1>5. MostOf(Parts(d)) \in Parts(d)  BY <1>3, MostOfMost
<1> QED  BY <1>3, <1>4, <1>5

\* UpdateCurrentStatus has come to its end.
Ends(t) ==
  \/ /\ thr[t].next = "fetched" /\ Moves(t, "fetched") /\ thr'[t].next = "answer"
     /\ thr'[t].seen = thr[t].seen
  \/ thr[t].next = "answer" /\ Leaves(t) /\ thr'[t].pc # "calc"

LEMMA UpdatedEffect ==
  ASSUME Typed, NEW t \in Thread, Goes(t, Updated(t)), thr[t].next # "request"
  PROVE  Ends(t)
<1>1. PICK s : s = [thr[t] EXCEPT !.pc = thr[t].next, !.next = "answer", !.up = Top,
                                  !.val = "none", !.want = {}]
  OBVIOUS
<1>2. thr[t] \in ThreadRec /\ thr[t].next \in {"answer", "fetched"} /\ Top \in Dir
  BY ThreadIs, CacheAssumption DEF CacheAssumption, Nexts
<1>3. Like(s, thr[t]) /\ s.pc = thr[t].next /\ s.seen = thr[t].seen /\ s.next = "answer"
  BY <1>1, <1>2, LabelIs DEF Like, ThreadRec
<1>4. Goes(t, IF s.pc = "answer" THEN Answer(s) ELSE s)  BY <1>1 DEF Updated
<1>5. CASE thr[t].next = "answer"
  <2>1. Goes(t, Answer(s))  BY <1>3, <1>4, <1>5
  <2> QED  BY <1>3, <1>5, <2>1, AnswerEffect DEF Ends
<1>6. CASE thr[t].next = "fetched"
  <2>1. Goes(t, s)  BY <1>3, <1>4, <1>6
  <2>2. thr'[t] = s /\ Others(t)  BY <2>1, GoesTo
  <2> QED  BY <1>3, <1>6, <2>2 DEF Ends, Moves
<1> QED  BY <1>2, <1>5, <1>6

\* Outside of the updates a thread is about to answer.
LEMMA NextIs ==
  ASSUME Typed, NEW t \in Thread
  PROVE  /\ thr[t].pc \notin Updaters /\ thr[t].pc # "none" => thr[t].next = "answer"
         /\ thr[t].pc = "none" => thr[t].next \in {"answer", "request"}
         /\ thr[t].pc \in Updaters => thr[t].next \in {"answer", "fetched"}
         /\ Like(thr[t], thr[t])
BY ThreadIs DEF Doing, Nexts, Updaters, Like

LEMMA AwaitEffect ==
  ASSUME Typed, Inv, NEW t \in Thread, Await(t)
  PROVE  /\ Steps(t, thr[t].pc) /\ thr'[t].val = thr[t].val /\ thr'[t].time = thr[t].time
         /\ thr[t].pc \in {"enter", "folder", "tell"}
         /\ cache' = cache /\ lost' = lost /\ dbSeen' = dbSeen /\ UNCHANGED queues
<1>1. PICK s : s = [thr[t] EXCEPT !.want = New(t)]  OBVIOUS
<1>2. New(t) \in SUBSET Dir /\ thr[t] \in ThreadRec  BY NewType, ThreadIs
<1>3. Like(s, thr[t]) /\ s.pc = thr[t].pc /\ s.val = thr[t].val /\ s.time = thr[t].time
      /\ s.seen = thr[t].seen /\ s.left = thr[t].left /\ s.up = thr[t].up /\ s.next = thr[t].next
  BY <1>1, <1>2 DEF Like, ThreadRec
<1>4. thr'[t] = s /\ Others(t)  BY <1>1, GoesTo DEF Await
<1>5. thr[t].pc \in {"enter", "folder", "tell"}  BY DEF Await, New, Needs
<1> QED  BY <1>3, <1>4, <1>5 DEF Await, Steps, Moves

LEMMA EnterEffect ==
  ASSUME Typed, Inv, NEW t \in Thread, Enter(t)
  PROVE  /\ thr[t].pc = "enter" /\ Upgraded(t) /\ cache' = Made(t)
         /\ IF thr[t].item = "db" THEN Steps(t, "invalidate") ELSE Steps(t, "decide")
         /\ lost' = lost /\ dbSeen' = dbSeen /\ Crawl(New(t))
<1>1. PICK pc : pc = IF thr[t].item = "db" THEN "invalidate" ELSE "decide"  OBVIOUS
<1>2. PICK s : s = [thr[t] EXCEPT !.want = {}, !.pc = pc]  OBVIOUS
<1>3. thr[t] \in ThreadRec /\ pc \in Labels  BY <1>1, ThreadIs, LabelIs
<1>4. Like(s, thr[t]) /\ s.pc = pc
      /\ s.seen = thr[t].seen /\ s.left = thr[t].left /\ s.up = thr[t].up /\ s.next = thr[t].next
  BY <1>2, <1>3 DEF Like, ThreadRec
<1>5. thr'[t] = s /\ Others(t)  BY <1>1, <1>2, GoesTo DEF Enter
<1>6. Steps(t, pc)  BY <1>4, <1>5 DEF Steps, Moves
<1> QED  BY <1>1, <1>6 DEF Enter, At

LEMMA DecideEffect ==
  ASSUME Typed, NEW t \in Thread, NEW d, d = thr[t].this, Decide(t)
  PROVE  /\ thr[t].pc = "decide" /\ dbSeen' \in 1 .. db /\ dbSeen' \in {dbSeen, db}
         /\ thr'[t].next = thr[t].next /\ thr'[t].seen = dbSeen'
         /\ thr'[t].up = thr[t].up /\ thr'[t].left = thr[t].left
         /\ IF cache[d].db = dbSeen' THEN Moves(t, "same") ELSE Moves(t, "changed")
         /\ cache' = cache /\ lost' = lost /\ UNCHANGED queues
<1>1. PICK m \in Seen(d) :
        /\ dbSeen' = m
        /\ Goes(t, [thr[t] EXCEPT !.seen = m, !.pc = IF cache[d].db = m THEN "same" ELSE "changed"])
  BY DEF Decide
<1>2. m \in Nat /\ m # 0 /\ m <= db /\ m \in {dbSeen, db}  BY WorldIs DEF Seen
<1>3. PICK pc : pc = IF cache[d].db = m THEN "same" ELSE "changed"  OBVIOUS
<1>4. PICK s : s = [thr[t] EXCEPT !.seen = m, !.pc = pc]  OBVIOUS
<1>5. thr[t] \in ThreadRec /\ pc \in Labels  BY <1>3, ThreadIs, LabelIs
<1>6. Like(s, thr[t]) /\ s.pc = pc /\ s.seen = m
      /\ s.left = thr[t].left /\ s.up = thr[t].up /\ s.next = thr[t].next
  BY <1>2, <1>4, <1>5 DEF Like, ThreadRec
<1>7. thr'[t] = s /\ Others(t)  BY <1>1, <1>3, <1>4, GoesTo
<1>8. Moves(t, pc)  BY <1>6, <1>7 DEF Moves
<1>9. m \in 1 .. db  BY <1>2, WorldIs
<1> QED  BY <1>1, <1>2, <1>3, <1>6, <1>7, <1>8, <1>9 DEF Decide, At

LEMMA SameEffect ==
  ASSUME Typed, NEW t \in Thread, Same(t)
  PROVE  /\ thr[t].pc = "same" /\ cache' = cache /\ lost' = lost /\ dbSeen' = dbSeen
         /\ \/ /\ ~thr[t].path.file /\ OwnValid(thr[t].path.dir) /\ Leaves(t)
               /\ Crawl(Known(thr[t].path.dir))
            \/ Steps(t, "look") /\ UNCHANGED queues
            \/ Steps(t, "none") /\ ~thr[t].fetch /\ UNCHANGED queues
            \/ Steps(t, "find") /\ UNCHANGED queues
<1> DEFINE m == thr[t].path.dir
<1>1. thr[t] \in ThreadRec /\ m \in Dir /\ thr[t].next = "answer" /\ thr[t].pc = "same"
  BY ThreadIs, NextIs DEF Same, At, Updaters
<1>2. CASE /\ ~thr[t].path.file /\ OwnValid(m) /\ Crawl(Known(m))
           /\ Goes(t, GetOwnStatus([thr[t] EXCEPT !.seen = 0], m))
  <2>1. PICK r : r = [thr[t] EXCEPT !.seen = 0]  OBVIOUS
  <2>2. Like(r, thr[t]) /\ r.next = "answer" /\ r.seen = 0
    BY <1>1, <2>1, LabelIs DEF Like, ThreadRec
  <2>3. Leaves(t)  BY <1>1, <1>2, <2>1, <2>2, OwnStatusEffect
  <2> QED  BY <1>1, <1>2, <2>3 DEF Same
<1>3. CASE /\ UNCHANGED queues
           /\ To(t, "look") \/ (To(t, "none") /\ ~thr[t].fetch) \/ To(t, "find")
  <2>1. Steps(t, "look") \/ (Steps(t, "none") /\ ~thr[t].fetch) \/ Steps(t, "find")
    BY <1>3, ToEffect, LabelIs
  <2> QED  BY <1>1, <1>3, <2>1 DEF Same
<1> QED  BY <1>2, <1>3 DEF Same, Busy

LEMMA FindEntryEffect ==
  ASSUME Typed, NEW t \in Thread, NEW d, d = thr[t].this, FindEntry(t)
  PROVE  /\ thr[t].pc = "find" /\ cache' = cache /\ lost' = lost /\ dbSeen' = dbSeen
         /\ UNCHANGED queues
         /\ \/ Leaves(t) /\ thr'[t].pc # "calc" /\ cache[d].entry # NoEntry
               /\ cache[d].entry.time = disk[d].time
            \/ Steps(t, "look")
<1>1. thr[t].pc = "find" /\ thr[t].next = "answer" /\ Like(thr[t], thr[t])
  BY NextIs DEF FindEntry, At, Updaters
<1>2. CASE /\ cache[d].entry # NoEntry /\ cache[d].entry.time = disk[d].time
           /\ Goes(t, Answer(thr[t]))
  BY <1>1, <1>2, AnswerEffect DEF FindEntry
<1>3. CASE To(t, "look")
  BY <1>1, <1>3, ToEffect, LabelIs DEF FindEntry
<1> QED  BY <1>2, <1>3 DEF FindEntry, To

LEMMA ChangedDbEffect ==
  ASSUME Typed, NEW t \in Thread, NEW d, d = thr[t].this, ChangedDb(t)
  PROVE  /\ thr[t].pc = "changed" /\ cache' = cache /\ lost' = lost /\ dbSeen' = dbSeen
         /\ UNCHANGED queues
         /\ \/ /\ Moves(t, "none") /\ ~thr[t].fetch /\ thr'[t].next = "request"
               /\ thr'[t].seen = thr[t].seen
            \/ Steps(t, "request") /\ ~thr[t].fetch /\ cache[d].db # 0
            \/ Steps(t, "drop") /\ (thr[t].fetch \/ cache[d].db = 0)
<1>1. thr[t].pc = "changed" /\ thr[t] \in ThreadRec  BY ThreadIs DEF ChangedDb, At
<1>2. CASE Busy(t)
  <2>1. PICK s : s = [thr[t] EXCEPT !.pc = "none", !.next = "request"]  OBVIOUS
  <2>2. Like(s, thr[t]) /\ s.pc = "none" /\ s.next = "request" /\ s.seen = thr[t].seen
    BY <1>1, <2>1, LabelIs DEF Like, ThreadRec, Nexts
  <2>3. thr'[t] = s /\ Others(t)  BY <1>2, <2>1, GoesTo DEF ChangedDb
  <2> QED  BY <1>1, <1>2, <2>2, <2>3 DEF Moves, Busy, ChangedDb
<1>3. CASE ~Busy(t)
  <2>1. PICK pc : pc = IF ~thr[t].fetch /\ cache[d].db # 0 THEN "request" ELSE "drop"  OBVIOUS
  <2>2. To(t, pc)  BY <1>3, <2>1 DEF ChangedDb, To
  <2>3. Steps(t, pc)  BY <2>1, <2>2, ToEffect, LabelIs
  <2>4. cache' = cache /\ lost' = lost /\ dbSeen' = dbSeen /\ UNCHANGED queues  BY DEF ChangedDb
  <2>5. CASE pc = "request"  BY <1>1, <2>1, <2>3, <2>4, <2>5
  <2>6. CASE pc = "drop"  BY <1>1, <2>1, <2>3, <2>4, <2>6
  <2> QED  BY <2>1, <2>5, <2>6
<1> QED  BY <1>2, <1>3

LEMMA DropEffect ==
  ASSUME Typed, NEW t \in Thread, NEW d, d = thr[t].this, Drop(t)
  PROVE  /\ thr[t].pc = "drop" /\ Steps(t, "look") /\ Only(d)
         /\ cache'[d].eff = cache[d].eff /\ cache'[d].most = cache[d].most
         /\ cache'[d].full = cache[d].full /\ cache'[d].kids = cache[d].kids
         /\ cache'[d].entry = NoEntry /\ cache'[d].db = cache[d].db
         /\ lost' = IF cache[d].entry # NoEntry THEN lost \cup {d} ELSE lost
         /\ dbSeen' = dbSeen /\ UNCHANGED queues
<1>1. d \in Dir /\ NoEntry \in EntryRec  BY ThreadIs, FreshType
<1>2. PICK e \in EntryRec : e = NoEntry  BY <1>1
<1>3. cache' = [cache EXCEPT ![d].entry = e]  BY <1>2 DEF Drop
<1>4. Steps(t, "look")  BY ToEffect, LabelIs DEF Drop
<1>5. thr[t].pc = "drop" /\ lost' = (IF cache[d].entry # NoEntry THEN lost \cup {d} ELSE lost)
      /\ dbSeen' = dbSeen /\ UNCHANGED queues
  BY DEF Drop, At
<1> QED  BY <1>1, <1>2, <1>3, <1>4, <1>5, PutsEntry

LEMMA LookEffect ==
  ASSUME Typed, NEW t \in Thread, Look(t)
  PROVE  /\ thr[t].pc = "look" /\ cache' = cache /\ lost' = lost /\ dbSeen' = dbSeen
         /\ UNCHANGED queues
         /\ \/ Steps(t, "none") /\ ~thr[t].fetch
            \/ Steps(t, "clear")
<1>1. CASE Busy(t)
  <2>1. Steps(t, "none")  BY <1>1, ToEffect, LabelIs DEF Look
  <2> QED  BY <1>1, <2>1 DEF Look, At, Busy
<1>2. CASE ~Busy(t)
  <2>1. Steps(t, "clear")  BY <1>2, ToEffect, LabelIs DEF Look
  <2> QED  BY <1>2, <2>1 DEF Look, At
<1> QED  BY <1>1, <1>2

LEMMA SetNoneEffect ==
  ASSUME Typed, NEW t \in Thread, NEW d, d = thr[t].this, SetNone(t)
  PROVE  /\ thr[t].pc = "none" /\ Only(d)
         /\ cache'[d].eff = cache[d].eff /\ cache'[d].most = "none"
         /\ cache'[d].full = "none" /\ cache'[d].kids = cache[d].kids
         /\ cache'[d].entry = cache[d].entry /\ cache'[d].db = cache[d].db
         /\ lost' = (IF \E u \in Thread : Renews(u, d) THEN lost ELSE lost \cup {d})
         /\ dbSeen' = dbSeen /\ UNCHANGED queues
         /\ \/ /\ Moves(t, "request") /\ thr'[t].next = "answer" /\ thr'[t].seen = thr[t].seen
            \/ Leaves(t) /\ thr'[t].pc # "calc"
<1>1. thr[t].pc = "none" /\ thr[t] \in ThreadRec /\ d \in Dir
      /\ thr[t].next \in {"answer", "request"} /\ Like(thr[t], thr[t])
  BY ThreadIs, NextIs DEF SetNone, At
<1>2. /\ cache' = [cache EXCEPT ![d].full = "none", ![d].most = "none"]
      /\ lost' = (IF \E u \in Thread : Renews(u, d) THEN lost ELSE lost \cup {d})
      /\ dbSeen' = dbSeen /\ UNCHANGED queues
  BY DEF SetNone
<1>3. CASE thr[t].next = "request"
  <2>1. PICK s : s = [thr[t] EXCEPT !.pc = "request", !.next = "answer"]  OBVIOUS
  <2>2. Like(s, thr[t]) /\ s.pc = "request" /\ s.next = "answer" /\ s.seen = thr[t].seen
    BY <1>1, <2>1, LabelIs DEF Like, ThreadRec
  <2>3. thr'[t] = s /\ Others(t)  BY <1>3, <2>1, GoesTo DEF SetNone
  <2>4. Moves(t, "request") /\ thr'[t].next = "answer" /\ thr'[t].seen = thr[t].seen
    BY <2>2, <2>3 DEF Moves
  <2> QED  BY <1>1, <1>2, <2>4, PutsNone
<1>4. CASE thr[t].next = "answer"
  <2>1. Goes(t, Answer(thr[t]))  BY <1>4 DEF SetNone
  <2>2. Leaves(t) /\ thr'[t].pc # "calc"  BY <1>1, <1>4, <2>1, AnswerEffect
  <2> QED  BY <1>1, <1>2, <2>2, PutsNone
<1> QED  BY <1>1, <1>3, <1>4

LEMMA RequestEffect ==
  ASSUME Typed, NEW t \in Thread, Request(t)
  PROVE  /\ thr[t].pc = "request" /\ cache' = cache /\ lost' = lost /\ dbSeen' = dbSeen
         /\ Crawl({thr[t].this}) /\ Leaves(t) /\ thr'[t].pc # "calc"
<1>1. thr[t].pc = "request" /\ thr[t].next = "answer" /\ Like(thr[t], thr[t])
  BY NextIs DEF Request, At, Updaters
<1>2. Leaves(t) /\ thr'[t].pc # "calc"  BY <1>1, AnswerEffect DEF Request
<1> QED  BY <1>1, <1>2 DEF Request

LEMMA ClearEffect ==
  ASSUME Typed, NEW t \in Thread, NEW d, d = thr[t].this, Clear(t)
  PROVE  /\ thr[t].pc = "clear" /\ Steps(t, "exchange") /\ Only(d)
         /\ cache'[d].eff = "none" /\ cache'[d].most = "none"
         /\ cache'[d].full = cache[d].full /\ cache'[d].kids = Fresh.kids
         /\ cache'[d].entry = NoEntry /\ cache'[d].db = cache[d].db
         /\ lost' = lost /\ dbSeen' = dbSeen /\ UNCHANGED queues
<1>1. thr[t].pc = "clear" /\ d \in Dir /\ Steps(t, "exchange")
      /\ lost' = lost /\ dbSeen' = dbSeen /\ UNCHANGED queues
  BY ThreadIs, ToEffect, LabelIs DEF Clear, At
<1>2. cache' = [cache EXCEPT ![d] = [@ EXCEPT !.most = "none", !.kids = Fresh.kids,
                                       !.entry = NoEntry, !.eff = "none", !.set = TRUE]]
  BY DEF Clear
<1>3. PICK k : k = Fresh.kids  OBVIOUS
<1>4. PICK e : e = NoEntry  OBVIOUS
<1>5. ASSUME NEW r \in CacheRec, NEW z, z = [r EXCEPT !.most = "none", !.kids = k, !.entry = e,
                                          !.eff = "none", !.set = TRUE]
      PROVE  /\ z \in CacheRec /\ z.here = r.here
             /\ z.eff = "none" /\ z.most = "none" /\ z.full = r.full /\ z.kids = k
             /\ z.entry = e /\ z.db = r.db
  BY <1>3, <1>4, <1>5, FreshType DEF CacheRec, Status
<1>6. cache \in [Dir -> CacheRec] /\ cache[d] \in CacheRec  BY <1>1 DEF Typed, CacheType
<1>7. PICK z : z = [cache[d] EXCEPT !.most = "none", !.kids = k, !.entry = e,
                                    !.eff = "none", !.set = TRUE]
  OBVIOUS
<1>8. cache' = [cache EXCEPT ![d] = z]  BY <1>1, <1>2, <1>3, <1>4, <1>6, <1>7
<1>9. /\ z \in CacheRec /\ z.here = cache[d].here
      /\ z.eff = "none" /\ z.most = "none" /\ z.full = cache[d].full /\ z.kids = k
      /\ z.entry = e /\ z.db = cache[d].db
  BY <1>5, <1>6, <1>7
<1>10. Only(d) /\ cache'[d] = z  BY <1>1, <1>6, <1>8, <1>9 DEF Only, Elsewhere
<1> QED  BY <1>1, <1>3, <1>4, <1>9, <1>10

LEMMA ExchangeEffect ==
  ASSUME Typed, NEW t \in Thread, NEW d, d = thr[t].this, Exchange(t)
  PROVE  /\ thr[t].pc = "exchange" /\ Only(d)
         /\ cache'[d].eff = cache[d].eff /\ cache'[d].most = cache[d].most
         /\ cache'[d].full = cache[d].full /\ cache'[d].kids = cache[d].kids
         /\ cache'[d].entry = cache[d].entry
         /\ \/ /\ cache[d].fetching /\ cache'[d].db = 0 /\ lost' = lost \cup Below[d]
               /\ Leaves(t) /\ thr'[t].pc # "calc"
            \/ /\ ~cache[d].fetching /\ cache'[d].db = cache[d].db /\ lost' = lost \ {d}
               /\ Steps(t, "list")
         /\ dbSeen' = dbSeen /\ UNCHANGED queues
<1>1. thr[t].pc = "exchange" /\ d \in Dir /\ thr[t].next = "answer" /\ Like(thr[t], thr[t])
      /\ dbSeen' = dbSeen /\ UNCHANGED queues
  BY ThreadIs, NextIs DEF Exchange, At, Updaters
<1>2. CASE cache[d].fetching
  <2>1. cache' = [cache EXCEPT ![d].db = 0] /\ lost' = lost \cup Below[d]
        /\ Goes(t, Answer(thr[t]))
    BY <1>2 DEF Exchange
  <2>2. Leaves(t) /\ thr'[t].pc # "calc"  BY <1>1, <2>1, AnswerEffect
  <2>3. PICK n \in Nat : n = 0  OBVIOUS
  <2>4. cache' = [cache EXCEPT ![d].db = n]  BY <2>1, <2>3
  <2> QED  BY <1>1, <1>2, <2>1, <2>2, <2>3, <2>4, PutsDb
<1>3. CASE ~cache[d].fetching
  <2>1. cache' = [cache EXCEPT ![d].fetching = TRUE] /\ lost' = lost \ {d} /\ To(t, "list")
    BY <1>3 DEF Exchange
  <2>2. Steps(t, "list")  BY <2>1, ToEffect, LabelIs
  <2>3. PICK b \in BOOLEAN : b = TRUE  OBVIOUS
  <2>4. cache' = [cache EXCEPT ![d].fetching = b]  BY <2>1, <2>3
  <2> QED  BY <1>1, <1>3, <2>1, <2>2, <2>4, PutsFetching
<1> QED  BY <1>2, <1>3

LEMMA ListEffect ==
  ASSUME Typed, NEW t \in Thread, NEW d, d = thr[t].this, List(t)
  PROVE  /\ thr[t].pc = "list" /\ Only(d)
         /\ cache'[d].eff = "normal" /\ cache'[d].most = cache[d].most
         /\ cache'[d].full = cache[d].full /\ cache'[d].kids = cache[d].kids
         /\ cache'[d].entry = cache[d].entry /\ cache'[d].db = cache[d].db
         /\ IF Children(d) = {} THEN Moves(t, "file") ELSE Moves(t, "folder")
         /\ thr'[t].left = Children(d)
         /\ thr'[t].seen = thr[t].seen /\ thr'[t].next = thr[t].next /\ thr'[t].up = thr[t].up
         /\ lost' = lost /\ dbSeen' = dbSeen /\ UNCHANGED queues
<1>1. PICK pc : pc = IF Children(d) = {} THEN "file" ELSE "folder"  OBVIOUS
<1>2. PICK S : S = Children(d)  OBVIOUS
<1>3. PICK s : s = [thr[t] EXCEPT !.left = S, !.pc = pc]  OBVIOUS
<1>4. thr[t] \in ThreadRec /\ d \in Dir /\ pc \in Labels /\ S \in SUBSET Dir
  BY <1>1, <1>2, ThreadIs, LabelIs DEF Children
<1>5. Like(s, thr[t]) /\ s.pc = pc /\ s.left = S
      /\ s.seen = thr[t].seen /\ s.up = thr[t].up /\ s.next = thr[t].next
  BY <1>3, <1>4 DEF Like, ThreadRec
<1>6. Goes(t, [thr[t] EXCEPT !.left = S, !.pc = IF S = {} THEN "file" ELSE "folder"])
  BY <1>2 DEF List, Reports
<1>7. thr'[t] = s /\ Others(t)  BY <1>1, <1>2, <1>3, <1>6, GoesTo
<1>8. Moves(t, pc)  BY <1>5, <1>7 DEF Moves
<1>9. cache' = [cache EXCEPT ![d] = Own(@)]  BY DEF List
<1>10. thr[t].pc = "list" /\ lost' = lost /\ dbSeen' = dbSeen /\ UNCHANGED queues  BY DEF List, At
<1> QED  BY <1>1, <1>2, <1>4, <1>5, <1>7, <1>8, <1>9, <1>10, PutsOwn

LEMMA AskChildEffect ==
  ASSUME Typed, Inv, NEW t \in Thread, NEW c, c = Child(t), AskChild(t)
  PROVE  /\ thr[t].pc = "folder" /\ Upgraded(t) /\ cache' = Made(t)
         /\ Steps(t, "child") /\ thr'[t].val = Important("normal", Made(t)[c].full)
         /\ lost' = lost \cup Dropped(New(t)) /\ dbSeen' = dbSeen /\ Crawl(New(t))
<1>1. thr[t].pc = "folder"  BY DEF AskChild, At
<1>2. c \in Dir  BY <1>1, ChildIs DEF Listers
<1>3. PICK v : v = Important("normal", Made(t)[c].full)  OBVIOUS
<1>4. Made(t)[c].full \in Status  BY <1>2, MadeIs DEF CacheRec
<1>5. v \in Status  BY <1>3, <1>4, ImportantType, LabelIs
<1>6. PICK s : s = [thr[t] EXCEPT !.pc = "child", !.want = {}, !.val = v]  OBVIOUS
<1>7. thr[t] \in ThreadRec  BY ThreadIs
<1>8. Like(s, thr[t]) /\ s.pc = "child" /\ s.val = v
      /\ s.seen = thr[t].seen /\ s.left = thr[t].left /\ s.up = thr[t].up /\ s.next = thr[t].next
  BY <1>5, <1>6, <1>7, LabelIs DEF Like, ThreadRec
<1>9. thr'[t] = s /\ Others(t)  BY <1>3, <1>6, GoesTo DEF AskChild
<1>10. Steps(t, "child")  BY <1>8, <1>9 DEF Steps, Moves
<1> QED  BY <1>1, <1>3, <1>8, <1>9, <1>10 DEF AskChild

LEMMA SetChildEffect ==
  ASSUME Typed, Inv, NEW t \in Thread, NEW d, d = thr[t].this, NEW c, c = Child(t), SetChild(t)
  PROVE  /\ thr[t].pc = "child" /\ Only(d) /\ Steps(t, "own")
         /\ cache'[d].eff = cache[d].eff /\ cache'[d].most = cache[d].most
         /\ cache'[d].full = cache[d].full /\ cache'[d].entry = cache[d].entry
         /\ cache'[d].db = cache[d].db /\ cache'[d].kids[c] = thr[t].val
         /\ \A x \in Dir : x # c => cache'[d].kids[x] = cache[d].kids[x]
         /\ lost' = IF thr[t].val # Important("normal", cache[c].full) THEN lost \cup {d} ELSE lost
         /\ dbSeen' = dbSeen /\ UNCHANGED queues
<1>1. thr[t].pc = "child"  BY DEF SetChild, At
<1>2. c \in Dir /\ d \in Dir /\ thr[t] \in ThreadRec /\ thr[t].val \in Status
  BY <1>1, ChildIs, ThreadIs DEF Listers
<1>3. PICK s : s = [thr[t] EXCEPT !.pc = "own", !.val = "none"]  OBVIOUS
<1>4. Like(s, thr[t]) /\ s.pc = "own"
      /\ s.seen = thr[t].seen /\ s.left = thr[t].left /\ s.up = thr[t].up /\ s.next = thr[t].next
  BY <1>2, <1>3, LabelIs DEF Like, ThreadRec
<1>5. thr'[t] = s /\ Others(t)  BY <1>3, GoesTo DEF SetChild
<1>6. Steps(t, "own")  BY <1>4, <1>5 DEF Steps, Moves
<1>7. PICK v \in Status : v = thr[t].val  BY <1>2
<1>8. cache' = [cache EXCEPT ![d].kids[c] = v]  BY <1>7 DEF SetChild
<1>9. lost' = (IF thr[t].val # Important("normal", cache[c].full) THEN lost \cup {d} ELSE lost)
      /\ dbSeen' = dbSeen /\ UNCHANGED queues
  BY DEF SetChild
<1>10. /\ Only(d) /\ cache'[d].eff = cache[d].eff /\ cache'[d].most = cache[d].most
       /\ cache'[d].full = cache[d].full /\ cache'[d].entry = cache[d].entry
       /\ cache'[d].db = cache[d].db /\ cache'[d].kids[c] = v
       /\ \A x \in Dir : x # c => cache'[d].kids[x] = cache[d].kids[x]
  <2>1. PICK y \in Dir : y = d  BY <1>2
  <2>2. PICK z \in Dir : z = c  BY <1>2
  <2>3. PICK w \in Status : w = v  BY <1>7
  <2>4. cache' = [cache EXCEPT ![y].kids[z] = w]  BY <1>8, <2>1, <2>2, <2>3
  <2>5. /\ Only(y) /\ cache'[y].eff = cache[y].eff /\ cache'[y].most = cache[y].most
        /\ cache'[y].full = cache[y].full /\ cache'[y].entry = cache[y].entry
        /\ cache'[y].db = cache[y].db /\ cache'[y].kids[z] = w
        /\ \A x \in Dir : x # z => cache'[y].kids[x] = cache[y].kids[x]
    BY <2>4, PutsKid
  <2> QED  BY <2>1, <2>2, <2>3, <2>5
<1> QED  BY <1>1, <1>6, <1>7, <1>9, <1>10

LEMMA OwnChildEffect ==
  ASSUME Typed, Inv, NEW t \in Thread, NEW c, c = Child(t), OwnChild(t)
  PROVE  /\ thr[t].pc = "own" /\ Only(c)
         /\ cache'[c].eff = "normal" /\ cache'[c].most = cache[c].most
         /\ cache'[c].full = cache[c].full /\ cache'[c].kids = cache[c].kids
         /\ cache'[c].entry = cache[c].entry /\ cache'[c].db = cache[c].db
         /\ IF thr[t].left \ {c} = {} THEN Moves(t, "file") ELSE Moves(t, "folder")
         /\ thr'[t].left = thr[t].left \ {c}
         /\ thr'[t].seen = thr[t].seen /\ thr'[t].next = thr[t].next /\ thr'[t].up = thr[t].up
         /\ lost' = lost /\ dbSeen' = dbSeen /\ UNCHANGED queues
<1>0. thr[t].pc = "own"  BY DEF OwnChild, At
<1>1. PICK pc : pc = IF thr[t].left \ {c} = {} THEN "file" ELSE "folder"  OBVIOUS
<1>2. PICK S : S = thr[t].left \ {c}  OBVIOUS
<1>3. PICK s : s = [thr[t] EXCEPT !.left = S, !.pc = pc]  OBVIOUS
<1>4. thr[t] \in ThreadRec /\ c \in Dir /\ pc \in Labels /\ S \in SUBSET Dir
  BY <1>0, <1>1, <1>2, ThreadIs, LabelIs, ChildIs DEF Listers
<1>5. Like(s, thr[t]) /\ s.pc = pc /\ s.left = S
      /\ s.seen = thr[t].seen /\ s.up = thr[t].up /\ s.next = thr[t].next
  BY <1>3, <1>4 DEF Like, ThreadRec
<1>6. Goes(t, [thr[t] EXCEPT !.left = S, !.pc = IF S = {} THEN "file" ELSE "folder"])
  BY <1>2 DEF OwnChild, Reports
<1>7. thr'[t] = s /\ Others(t)  BY <1>1, <1>2, <1>3, <1>6, GoesTo
<1>8. Moves(t, pc)  BY <1>5, <1>7 DEF Moves
<1>9. cache' = [cache EXCEPT ![c] = Own(@)]  BY DEF OwnChild
<1>10. lost' = lost /\ dbSeen' = dbSeen /\ UNCHANGED queues  BY DEF OwnChild
<1> QED  BY <1>0, <1>1, <1>2, <1>4, <1>5, <1>7, <1>8, <1>9, <1>10, PutsOwn

LEMMA StatFileEffect ==
  ASSUME Typed, NEW t \in Thread, NEW d, d = thr[t].this, StatFile(t)
  PROVE  /\ thr[t].pc = "file" /\ Steps(t, "entry")
         /\ thr'[t].val = disk[d].st /\ thr'[t].time = disk[d].time
         /\ cache' = cache /\ lost' = lost /\ dbSeen' = dbSeen /\ UNCHANGED queues
<1>1. PICK v : v = disk[d].st  OBVIOUS
<1>2. PICK n : n = disk[d].time  OBVIOUS
<1>3. PICK s : s = [thr[t] EXCEPT !.pc = "entry", !.val = v, !.time = n]  OBVIOUS
<1>4. thr[t] \in ThreadRec /\ v \in Status /\ n \in Int  BY <1>1, <1>2, ThreadIs, WorldIs
<1>5. Like(s, thr[t]) /\ s.pc = "entry" /\ s.val = v /\ s.time = n
      /\ s.seen = thr[t].seen /\ s.left = thr[t].left /\ s.up = thr[t].up /\ s.next = thr[t].next
  BY <1>3, <1>4, LabelIs DEF Like, ThreadRec
<1>6. thr'[t] = s /\ Others(t)  BY <1>1, <1>2, <1>3, GoesTo DEF StatFile
<1>7. Steps(t, "entry")  BY <1>5, <1>6 DEF Steps, Moves
<1> QED  BY <1>1, <1>2, <1>5, <1>6, <1>7 DEF StatFile, At

LEMMA AddEntryEffect ==
  ASSUME Typed, NEW t \in Thread, NEW d, d = thr[t].this, AddEntry(t)
  PROVE  /\ thr[t].pc = "entry" /\ Only(d) /\ Steps(t, "end")
         /\ cache'[d].eff = cache[d].eff /\ cache'[d].most = cache[d].most
         /\ cache'[d].full = cache[d].full /\ cache'[d].kids = cache[d].kids
         /\ cache'[d].entry.st = thr[t].val /\ cache'[d].entry.time = disk[d].time
         /\ cache'[d].db = cache[d].db
         /\ lost' = IF thr[t].time # disk[d].time THEN lost \cup {d} ELSE lost
         /\ dbSeen' = dbSeen /\ UNCHANGED queues
<1>1. thr[t].pc = "entry" /\ lost' = (IF thr[t].time # disk[d].time THEN lost \cup {d} ELSE lost)
      /\ dbSeen' = dbSeen /\ UNCHANGED queues
  BY DEF AddEntry, At
<1>2. PICK s : s = [thr[t] EXCEPT !.pc = "end", !.val = "none", !.time = 0]  OBVIOUS
<1>3. thr[t] \in ThreadRec /\ d \in Dir /\ thr[t].val \in Status /\ disk[d].time \in Int
  BY ThreadIs, WorldIs
<1>4. Like(s, thr[t]) /\ s.pc = "end"
      /\ s.seen = thr[t].seen /\ s.left = thr[t].left /\ s.up = thr[t].up /\ s.next = thr[t].next
  <2>1. thr[t] \in ThreadRec /\ 0 \in Int  BY <1>3
  <2> QED  BY <1>2, <2>1, LabelIs DEF Like, ThreadRec
<1>5. thr'[t] = s /\ Others(t)  BY <1>2, GoesTo DEF AddEntry
<1>6. Steps(t, "end")  BY <1>4, <1>5 DEF Steps, Moves
<1>7. PICK e : e = [st |-> thr[t].val, time |-> disk[d].time]  OBVIOUS
<1>8. e \in EntryRec /\ e.st = thr[t].val /\ e.time = disk[d].time  BY <1>3, <1>7 DEF EntryRec
<1>9. cache' = [cache EXCEPT ![d].entry = e]  BY <1>7 DEF AddEntry
<1> QED  BY <1>1, <1>3, <1>6, <1>8, <1>9, PutsEntry

LEMMA EndFetchEffect ==
  ASSUME Typed, NEW t \in Thread, NEW d, d = thr[t].this, EndFetch(t)
  PROVE  /\ thr[t].pc = "end" /\ Only(d) /\ Steps(t, "most")
         /\ cache'[d].eff = cache[d].eff /\ cache'[d].most = cache[d].most
         /\ cache'[d].full = cache[d].full /\ cache'[d].kids = cache[d].kids
         /\ cache'[d].entry = cache[d].entry /\ cache'[d].db = cache[d].db
         /\ lost' = lost /\ dbSeen' = dbSeen /\ UNCHANGED queues
<1>1. thr[t].pc = "end" /\ lost' = lost /\ dbSeen' = dbSeen /\ UNCHANGED queues
  BY DEF EndFetch, At
<1>2. Steps(t, "most") /\ d \in Dir  BY ToEffect, LabelIs, ThreadIs DEF EndFetch
<1>3. PICK b \in BOOLEAN : b = FALSE  OBVIOUS
<1>4. cache' = [cache EXCEPT ![d].fetching = b]  BY <1>3 DEF EndFetch
<1> QED  BY <1>1, <1>2, <1>4, PutsFetching

LEMMA MostIs ==
  ASSUME Typed, NEW d \in Dir
  PROVE  MostImportant(d) \in Status /\ MostImportant(d) = Important(cache[d].eff, cache[d].entry.st)
<1>1. cache[d].eff \in Status /\ cache[d].entry.st \in Status  BY CacheIs DEF Status
<1> QED  BY <1>1, ImportantType DEF MostImportant

LEMMA MostEffect ==
  ASSUME Typed, NEW t \in Thread, NEW d, d = thr[t].this, Most(t)
  PROVE  /\ thr[t].pc = "most" /\ Steps(t, "mark") /\ thr'[t].val = MostImportant(d)
         /\ cache' = cache /\ lost' = lost /\ dbSeen' = dbSeen /\ UNCHANGED queues
<1>1. PICK v : v = MostImportant(d)  OBVIOUS
<1>2. PICK s : s = [thr[t] EXCEPT !.pc = "mark", !.val = v]  OBVIOUS
<1>3. thr[t] \in ThreadRec /\ v \in Status  BY <1>1, ThreadIs, MostIs
<1>4. Like(s, thr[t]) /\ s.pc = "mark" /\ s.val = v
      /\ s.seen = thr[t].seen /\ s.left = thr[t].left /\ s.up = thr[t].up /\ s.next = thr[t].next
  BY <1>2, <1>3, LabelIs DEF Like, ThreadRec
<1>5. thr'[t] = s /\ Others(t)  BY <1>1, <1>2, GoesTo DEF Most
<1>6. Steps(t, "mark")  BY <1>4, <1>5 DEF Steps, Moves
<1> QED  BY <1>1, <1>4, <1>5, <1>6 DEF Most, At

LEMMA MarkEffect ==
  ASSUME Typed, NEW t \in Thread, NEW d, d = thr[t].this, Mark(t)
  PROVE  /\ thr[t].pc = "mark" /\ Only(d)
         /\ cache'[d].eff = cache[d].eff /\ cache'[d].most = thr[t].val
         /\ cache'[d].full = cache[d].full /\ cache'[d].kids = cache[d].kids
         /\ cache'[d].entry = cache[d].entry /\ cache'[d].db = cache[d].db
         /\ lost' = IF thr[t].val # MostImportant(d) THEN lost \cup {d} ELSE lost
         /\ Moves(t, "calc") /\ thr'[t].next = "fetched" /\ thr'[t].seen = thr[t].seen
         /\ thr'[t].up = d
         /\ dbSeen' = dbSeen /\ UNCHANGED queues
<1>1. thr[t].pc = "mark" /\ lost' = (IF thr[t].val # MostImportant(d) THEN lost \cup {d} ELSE lost)
      /\ dbSeen' = dbSeen /\ UNCHANGED queues
  BY DEF Mark, At
<1>2. PICK s : s = [thr[t] EXCEPT !.pc = "calc", !.up = d, !.next = "fetched", !.val = "none"]
  OBVIOUS
<1>3. thr[t] \in ThreadRec /\ d \in Dir /\ thr[t].val \in Status  BY ThreadIs
<1>4. Like(s, thr[t]) /\ s.pc = "calc" /\ s.seen = thr[t].seen /\ s.up = d /\ s.next = "fetched"
  BY <1>2, <1>3, LabelIs DEF Like, ThreadRec
<1>5. thr'[t] = s /\ Others(t)  BY <1>2, GoesTo DEF Mark
<1>6. PICK v \in Status : v = thr[t].val  BY <1>3
<1>7. cache' = [cache EXCEPT ![d].most = v]  BY <1>6 DEF Mark
<1> QED  BY <1>1, <1>3, <1>4, <1>5, <1>6, <1>7, PutsMost DEF Moves

LEMMA CalcEffect ==
  ASSUME Typed, NEW t \in Thread, NEW d, d = thr[t].up, Calc(t)
  PROVE  /\ thr[t].pc = "calc" /\ Steps(t, "write")
         /\ thr'[t].val = CalculateRecursiveStatus(d)
         /\ cache' = cache /\ lost' = lost /\ dbSeen' = dbSeen /\ UNCHANGED queues
<1>1. PICK v : v = CalculateRecursiveStatus(d)  OBVIOUS
<1>2. PICK s : s = [thr[t] EXCEPT !.pc = "write", !.val = v]  OBVIOUS
<1>3. thr[t] \in ThreadRec /\ v \in Status  BY <1>1, ThreadIs, PartsType
<1>4. Like(s, thr[t]) /\ s.pc = "write" /\ s.val = v
      /\ s.seen = thr[t].seen /\ s.left = thr[t].left /\ s.up = thr[t].up /\ s.next = thr[t].next
  BY <1>2, <1>3, LabelIs DEF Like, ThreadRec
<1>5. thr'[t] = s /\ Others(t)  BY <1>1, <1>2, GoesTo DEF Calc
<1>6. Steps(t, "write")  BY <1>4, <1>5 DEF Steps, Moves
<1> QED  BY <1>1, <1>4, <1>5, <1>6 DEF Calc, At

LEMMA WriteEffect ==
  ASSUME Typed, NEW t \in Thread, NEW d, d = thr[t].up, Write(t)
  PROVE  /\ thr[t].pc = "write" /\ Only(d)
         /\ cache'[d].full = IF cache[d].eff # "none" THEN thr[t].val ELSE cache[d].full
         /\ cache'[d].eff = cache[d].eff /\ cache'[d].entry = cache[d].entry
         /\ cache'[d].most = cache[d].most /\ cache'[d].kids = cache[d].kids
         /\ cache'[d].db = cache[d].db
         /\ lost' = IF thr[t].val # CalculateRecursiveStatus(d) THEN lost \cup {d} ELSE lost
         /\ \/ d = Top /\ Ends(t)
            \/ d # Top /\ Steps(t, "tell")
         /\ dbSeen' = dbSeen /\ UNCHANGED queues
<1> DEFINE new == thr[t].val # cache[d].full /\ cache[d].eff # "none"
<1>1. thr[t].pc = "write" /\ thr[t].next # "request" /\ d \in Dir /\ thr[t] \in ThreadRec
      /\ thr[t].val \in Status
  BY ThreadIs, NextIs DEF Write, At, Updaters
<1>2. /\ cache' = IF new THEN [cache EXCEPT ![d].full = thr[t].val] ELSE cache
      /\ lost' = IF thr[t].val # CalculateRecursiveStatus(d) THEN lost \cup {d} ELSE lost
      /\ dbSeen' = dbSeen /\ UNCHANGED queues
      /\ Goes(t, IF d = Top THEN Updated(t) ELSE [thr[t] EXCEPT !.val = "none", !.pc = "tell"])
  BY DEF Write
<1>3. /\ Only(d) /\ cache'[d].full = IF cache[d].eff # "none" THEN thr[t].val ELSE cache[d].full
      /\ cache'[d].eff = cache[d].eff /\ cache'[d].entry = cache[d].entry
      /\ cache'[d].most = cache[d].most /\ cache'[d].kids = cache[d].kids
      /\ cache'[d].db = cache[d].db
  <2>1. CASE new
    <3>1. PICK v \in Status : v = thr[t].val  BY <1>1
    <3>2. cache' = [cache EXCEPT ![d].full = v]  BY <1>2, <2>1, <3>1
    <3>3. /\ Only(d) /\ cache'[d].full = v
          /\ cache'[d].eff = cache[d].eff /\ cache'[d].entry = cache[d].entry
          /\ cache'[d].most = cache[d].most /\ cache'[d].kids = cache[d].kids
          /\ cache'[d].db = cache[d].db
      BY <1>1, <3>2, PutsFull
    <3> QED  BY <2>1, <3>1, <3>3
  <2>2. CASE ~new
    <3>1. cache' = cache  BY <1>2, <2>2
    <3>2. cache \in [Dir -> CacheRec]  BY DEF Typed, CacheType
    <3> QED  BY <2>2, <3>1, <3>2 DEF Only, Elsewhere
  <2> QED  BY <2>1, <2>2
<1>4. CASE d = Top
  <2>1. Goes(t, Updated(t))  BY <1>2, <1>4
  <2> QED  BY <1>1, <1>2, <1>3, <1>4, <2>1, UpdatedEffect
<1>5. CASE d # Top
  <2>1. PICK s : s = [thr[t] EXCEPT !.val = "none", !.pc = "tell"]  OBVIOUS
  <2>2. Like(s, thr[t]) /\ s.pc = "tell" /\ s.seen = thr[t].seen /\ s.left = thr[t].left
        /\ s.up = thr[t].up /\ s.next = thr[t].next
    BY <1>1, <2>1, LabelIs DEF Like, ThreadRec
  <2>3. thr'[t] = s /\ Others(t)  BY <1>2, <1>5, <2>1, GoesTo
  <2>4. Steps(t, "tell")  BY <2>2, <2>3 DEF Steps, Moves
  <2> QED  BY <1>1, <1>2, <1>3, <1>5, <2>4
<1> QED  BY <1>4, <1>5

LEMMA TellEffect ==
  ASSUME Typed, Inv, NEW t \in Thread, NEW d, d = thr[t].up, Tell(t)
  PROVE  /\ thr[t].pc = "tell" /\ d # Top /\ Upgraded(t) /\ cache' = Made(t)
         /\ Steps(t, "compare") /\ thr'[t].val = cache[d].full
         /\ lost' = lost \cup Dropped(New(t)) /\ dbSeen' = dbSeen /\ Crawl(New(t))
<1>1. PICK v : v = cache[d].full  OBVIOUS
<1>2. PICK s : s = [thr[t] EXCEPT !.pc = "compare", !.val = v, !.want = {}]  OBVIOUS
<1>3. thr[t] \in ThreadRec /\ d \in Dir /\ v \in Status  BY <1>1, ThreadIs, CacheIs
<1>4. Like(s, thr[t]) /\ s.pc = "compare" /\ s.val = v
      /\ s.seen = thr[t].seen /\ s.left = thr[t].left /\ s.up = thr[t].up /\ s.next = thr[t].next
  BY <1>2, <1>3, LabelIs DEF Like, ThreadRec
<1>5. thr'[t] = s /\ Others(t)  BY <1>1, <1>2, GoesTo DEF Tell
<1>6. Steps(t, "compare")  BY <1>4, <1>5 DEF Steps, Moves
<1>7. thr[t].pc = "tell" /\ d # Top  BY DEF Tell, At, Inv, Local
<1> QED  BY <1>1, <1>4, <1>5, <1>6, <1>7 DEF Tell

LEMMA CompareEffect ==
  ASSUME Typed, NEW t \in Thread, NEW d, d = thr[t].up, NEW p, p = Parent[d], Compare(t)
  PROVE  /\ thr[t].pc = "compare"
         /\ \/ /\ cache[p].kids[d] # Unknown /\ Steps(t, "put") /\ thr'[t].val = thr[t].val
            \/ /\ Ends(t)
               /\ cache[p].kids[d] # Unknown => cache[p].kids[d] = thr[t].val
         /\ cache' = cache /\ lost' = lost /\ dbSeen' = dbSeen /\ UNCHANGED queues
<1> DEFINE takes == cache[p].kids[d] # Unknown /\ (cache[p].kids[d] # thr[t].val \/ ~OwnValid(p))
<1>1. thr[t].pc = "compare" /\ thr[t].next # "request"
  BY NextIs DEF Compare, At, Updaters
<1>2. CASE takes
  <2>1. PICK s : s = [thr[t] EXCEPT !.pc = "put"]  OBVIOUS
  <2>2. Goes(t, [thr[t] EXCEPT !.pc = "put"])  BY <1>2 DEF Compare
  <2>3. To(t, "put")  BY <2>2 DEF To
  <2>4. Steps(t, "put") /\ thr'[t].val = thr[t].val  BY <2>3, ToEffect, LabelIs
  <2> QED  BY <1>1, <1>2, <2>4 DEF Compare
<1>3. CASE ~takes
  <2>1. Goes(t, Updated(t))  BY <1>3 DEF Compare
  <2>2. Ends(t)  BY <1>1, <2>1, UpdatedEffect
  <2> QED  BY <1>1, <1>3, <2>2 DEF Compare
<1> QED  BY <1>2, <1>3

LEMMA PutEffect ==
  ASSUME Typed, Inv, NEW t \in Thread, NEW d, d = thr[t].up, NEW p, p = Parent[d], Put(t)
  PROVE  /\ thr[t].pc = "put" /\ d # Top /\ p \in Dir /\ Only(p)
         /\ cache'[p].eff = cache[p].eff /\ cache'[p].most = cache[p].most
         /\ cache'[p].full = cache[p].full /\ cache'[p].entry = cache[p].entry
         /\ cache'[p].db = cache[p].db /\ cache'[p].kids[d] = thr[t].val
         /\ \A x \in Dir : x # d => cache'[p].kids[x] = cache[p].kids[x]
         /\ Moves(t, "calc") /\ thr'[t].next = thr[t].next /\ thr'[t].seen = thr[t].seen
         /\ thr'[t].up = p
         /\ lost' = IF thr[t].val # cache[d].full THEN lost \cup {p} ELSE lost
         /\ dbSeen' = dbSeen /\ UNCHANGED queues
<1>1. thr[t].pc = "put" /\ d # Top /\ d \in Dir /\ thr[t] \in ThreadRec /\ thr[t].val \in Status
  BY ThreadIs DEF Put, At, Inv, Local
<1>2. p \in Dir  BY <1>1, ParentAbove
<1>3. PICK s : s = [thr[t] EXCEPT !.pc = "calc", !.up = p, !.val = "none"]  OBVIOUS
<1>4. Like(s, thr[t]) /\ s.pc = "calc" /\ s.seen = thr[t].seen /\ s.up = p
      /\ s.next = thr[t].next
  BY <1>1, <1>2, <1>3, LabelIs DEF Like, ThreadRec
<1>5. thr'[t] = s /\ Others(t)  BY <1>3, GoesTo DEF Put
<1>6. PICK v \in Status : v = thr[t].val  BY <1>1
<1>7. cache' = [cache EXCEPT ![p].kids[d] = v]  BY <1>6 DEF Put
<1>8. lost' = (IF thr[t].val # cache[d].full THEN lost \cup {p} ELSE lost)
      /\ dbSeen' = dbSeen /\ UNCHANGED queues
  BY DEF Put
<1> QED  BY <1>1, <1>2, <1>4, <1>5, <1>6, <1>7, <1>8, PutsKid DEF Moves

LEMMA FetchedEffect ==
  ASSUME Typed, NEW t \in Thread, NEW d, d = thr[t].this, Fetched(t)
  PROVE  /\ thr[t].pc = "fetched" /\ Only(d)
         /\ cache'[d].eff = cache[d].eff /\ cache'[d].most = cache[d].most
         /\ cache'[d].full = cache[d].full /\ cache'[d].kids = cache[d].kids
         /\ cache'[d].entry = cache[d].entry /\ cache'[d].db = thr[t].seen
         /\ \/ Leaves(t)
            \/ Moves(t, "miss") /\ thr'[t].next = "answer" /\ thr'[t].seen = 0
         /\ lost' = lost /\ dbSeen' = dbSeen /\ UNCHANGED queues
<1>1. thr[t].pc = "fetched" /\ thr[t].next = "answer" /\ d \in Dir /\ thr[t] \in ThreadRec
      /\ thr[t].path.dir \in Dir /\ thr[t].seen \in Nat
  BY ThreadIs, NextIs DEF Fetched, At, Updaters
<1>2. PICK r : r = [thr[t] EXCEPT !.seen = 0]  OBVIOUS
<1>3. Like(r, thr[t]) /\ r.next = "answer" /\ r.seen = 0
  BY <1>1, <1>2, LabelIs DEF Like, ThreadRec
<1>4. PICK n \in Nat : n = thr[t].seen  BY <1>1
<1>5. cache' = [cache EXCEPT ![d].db = n] /\ lost' = lost /\ dbSeen' = dbSeen /\ UNCHANGED queues
  BY <1>4 DEF Fetched
<1>6. \/ Goes(t, GetOwnStatus(r, thr[t].path.dir)) \/ Goes(t, Answer(r))
      \/ Goes(t, [r EXCEPT !.pc = "miss"])
  <2>1. r.path = thr[t].path  BY <1>3 DEF Like
  <2>2. Goes(t, CASE ~r.path.file -> GetOwnStatus(r, r.path.dir)
                  [] r.path.file /\ cache[d].entry # NoEntry -> Answer(r)
                  [] OTHER -> [r EXCEPT !.pc = "miss"])
    BY <1>2 DEF Fetched
  <2> QED  BY <2>1, <2>2
<1>7. CASE Goes(t, GetOwnStatus(r, thr[t].path.dir))
  <2>1. Leaves(t)  BY <1>1, <1>3, <1>7, OwnStatusEffect
  <2> QED  BY <1>1, <1>4, <1>5, <2>1, PutsDb
<1>8. CASE Goes(t, Answer(r))
  <2>1. Leaves(t)  BY <1>3, <1>8, AnswerEffect
  <2> QED  BY <1>1, <1>4, <1>5, <2>1, PutsDb
<1>9. CASE Goes(t, [r EXCEPT !.pc = "miss"])
  <2>1. PICK s : s = [r EXCEPT !.pc = "miss"]  OBVIOUS
  <2>2. r \in ThreadRec  BY <1>3 DEF Like
  <2>3. Like(s, r) /\ s.pc = "miss" /\ s.next = r.next /\ s.seen = r.seen
    BY <2>1, <2>2, LabelIs DEF Like, ThreadRec
  <2>4. thr'[t] = s /\ Others(t)  BY <1>9, <2>1, GoesTo
  <2>5. Moves(t, "miss") /\ thr'[t].next = "answer" /\ thr'[t].seen = 0
    BY <1>3, <2>3, <2>4 DEF Moves, Like
  <2> QED  BY <1>1, <1>4, <1>5, <2>5, PutsDb
<1> QED  BY <1>6, <1>7, <1>8, <1>9

LEMMA MissEffect ==
  ASSUME Typed, NEW t \in Thread, NEW d, d = thr[t].this, Miss(t)
  PROVE  /\ thr[t].pc = "miss" /\ Only(d)
         /\ cache'[d].eff = cache[d].eff /\ cache'[d].most = cache[d].most
         /\ cache'[d].full = cache[d].full /\ cache'[d].kids = cache[d].kids
         /\ cache'[d].entry.st = "none" /\ cache'[d].entry.time = disk[d].time
         /\ cache'[d].db = cache[d].db
         /\ lost' = lost \cup {d} /\ Leaves(t) /\ thr'[t].pc # "calc"
         /\ dbSeen' = dbSeen /\ UNCHANGED queues
<1>1. thr[t].pc = "miss" /\ thr[t].next = "answer" /\ Like(thr[t], thr[t]) /\ d \in Dir
      /\ disk[d].time \in Int
  BY ThreadIs, NextIs, WorldIs DEF Miss, At, Updaters
<1>2. Leaves(t) /\ thr'[t].pc # "calc"  BY <1>1, AnswerEffect DEF Miss
<1>3. PICK e : e = [st |-> "none", time |-> disk[d].time]  OBVIOUS
<1>4. e \in EntryRec /\ e.st = "none" /\ e.time = disk[d].time
  BY <1>1, <1>3, LabelIs DEF EntryRec
<1>5. cache' = [cache EXCEPT ![d].entry = e]  BY <1>3 DEF Miss
<1>6. lost' = lost \cup {d} /\ dbSeen' = dbSeen /\ UNCHANGED queues  BY DEF Miss
<1> QED  BY <1>1, <1>2, <1>4, <1>5, <1>6, PutsEntry

-----------------------------------------------------------------------------
(* A step of a thread in the cache keeps the types *)

QueuesGrow ==
  /\ paths' = paths /\ folders' \in Seq(Dir) /\ Elements(folders) \subseteq Elements(folders')
  /\ added' \in BOOLEAN /\ woken' \in BOOLEAN

LEMMA QueuesSame == ASSUME Typed, UNCHANGED queues PROVE QueuesGrow
BY DEF Typed, WorldType, QueuesGrow, queues

LEMMA CrawlEffect ==
  ASSUME Typed, NEW S \in SUBSET Dir, Crawl(S)
  PROVE  QueuesGrow /\ (~blocked => S \subseteq Elements(folders'))
<1>1. CASE S = {} \/ blocked
  <2>1. UNCHANGED queues  BY <1>1 DEF Crawl
  <2> QED  BY <1>1, <2>1, QueuesSame
<1>2. CASE ~(S = {} \/ blocked)
  <2>1. folders' = PushAll(folders, S) /\ added' = TRUE /\ woken' = TRUE /\ paths' = paths
    BY <1>2 DEF Crawl
  <2>2. folders \in Seq(Dir)  BY DEF Typed, WorldType
  <2>3. /\ PushAll(folders, S) \in Seq(Dir)
        /\ Elements(folders) \cup S \subseteq Elements(PushAll(folders, S))
    BY <2>2, PushAllHas
  <2> QED  BY <2>1, <2>3 DEF QueuesGrow
<1> QED  BY <1>1, <1>2

LEMMA DroppedType == ASSUME NEW S \in SUBSET Dir PROVE Dropped(S) \subseteq Dir
<1>1. \A c \in S : Below[c] \subseteq Dir  BY BelowSelf
<1> QED  BY <1>1 DEF Dropped

\* What no step of a thread in the cache touches.
Frame ==
  /\ disk' = disk /\ db' = db /\ events' = events /\ count' = count /\ blocked' = blocked

LEMMA WorkFrame == ASSUME NEW t \in Thread, Work(t) PROVE Frame
<1>1. CASE Await(t) \/ Enter(t) \/ Decide(t) \/ Same(t) \/ FindEntry(t) \/ ChangedDb(t)
           \/ Drop(t) \/ Look(t) \/ SetNone(t) \/ Request(t)
  BY <1>1, Zenon
  DEF Frame, world, Await, Enter, Decide, Same, FindEntry, ChangedDb, Drop, Look, SetNone, Request
<1>2. CASE Clear(t) \/ Exchange(t) \/ List(t) \/ AskChild(t) \/ SetChild(t) \/ OwnChild(t)
           \/ StatFile(t) \/ AddEntry(t) \/ EndFetch(t)
  BY <1>2, Zenon
  DEF Frame, world, Clear, Exchange, List, AskChild, SetChild, OwnChild, StatFile, AddEntry,
      EndFetch
<1>3. CASE Most(t) \/ Mark(t) \/ Calc(t) \/ Write(t) \/ Tell(t) \/ Compare(t) \/ Put(t)
           \/ Fetched(t) \/ Miss(t)
  BY <1>3, Zenon
  DEF Frame, world, Most, Mark, Calc, Write, Tell, Compare, Put, Fetched, Miss
<1> QED  BY <1>1, <1>2, <1>3, Zenon DEF Work

\* Where a thread may come to within GetStatusForMember.
Inside == Timed \cup Updaters \cup {"none", "request", "miss"}

LEMMA DoingMoves ==
  ASSUME Typed, NEW t \in Thread, NEW pc \in Inside, Moves(t, pc), Frame,
         thr[t].pc \in Inside \cup {"decide"},
         thr'[t].next = "fetched" => pc \in Updaters,
         thr'[t].next = "request" => pc = "none",
         pc \in {"none", "request"} => ~thr[t].fetch,
         thr'[t].seen <= db,
         pc \in Timed \/ thr'[t].next = "fetched" => thr'[t].seen # 0,
         pc = "entry" => thr'[t].val # "none" /\ thr'[t].time <= disk[thr[t].this].time
  PROVE  Doing(t)' /\ Others(t) /\ thr'[t] \in ThreadRec
<1>1. Doing(t)  BY ThreadIs
<1>2. thr[t].pc \notin {"idle", "asleep", "folders", "enter", "invalidate", "done"}
      /\ pc \notin {"idle", "asleep", "folders", "enter", "invalidate", "done"}
  BY DEF Inside, Timed, Updaters, Fetchers
<1> HIDE DEF Timed, Updaters, Inside
<1> QED  BY <1>1, <1>2 DEF Doing, Moves, Like, Frame

\* In the usual case nothing changes but where the thread is.
LEMMA DoingSteps ==
  ASSUME Typed, NEW t \in Thread, NEW pc \in Timed \cup {"none", "request"}, Steps(t, pc), Frame,
         thr[t].pc \in Timed, pc \in {"none", "request"} => ~thr[t].fetch,
         pc = "entry" => thr'[t].val # "none" /\ thr'[t].time <= disk[thr[t].this].time
  PROVE  Doing(t)' /\ Others(t) /\ thr'[t] \in ThreadRec
<1>1. thr[t].next = "answer"
  <2>1. thr[t].pc \notin Updaters /\ thr[t].pc # "none"  BY DEF Timed, Updaters, Fetchers
  <2> QED  BY <2>1, NextIs
<1>2. thr[t].seen <= db /\ thr[t].seen # 0  BY ThreadIs DEF Doing
<1>3. pc \in Inside /\ thr[t].pc \in Inside  BY DEF Inside
<1> QED  BY <1>1, <1>2, <1>3, DoingMoves DEF Steps

LEMMA DoingUpdates ==
  ASSUME Typed, NEW t \in Thread, NEW pc \in Updaters, Moves(t, pc), Frame,
         thr[t].pc \in Updaters, thr'[t].next = thr[t].next, thr'[t].seen = thr[t].seen
  PROVE  Doing(t)' /\ Others(t) /\ thr'[t] \in ThreadRec
<1>1. thr[t].next \in {"answer", "fetched"}  BY NextIs
<1>2. thr[t].seen <= db /\ (thr[t].next = "fetched" => thr[t].seen # 0)  BY ThreadIs DEF Doing
<1>3. pc \in Inside /\ thr[t].pc \in Inside /\ pc \notin Timed /\ pc \notin {"none", "request"}
  BY DEF Inside, Updaters, Timed, Fetchers
<1>4. pc # "entry"  BY DEF Updaters
<1> QED  BY <1>1, <1>2, <1>3, <1>4, DoingMoves

LEMMA DoingLeaves ==
  ASSUME Typed, NEW t \in Thread, Leaves(t), Frame, thr[t].pc \in Inside
  PROVE  Doing(t)' /\ Others(t) /\ thr'[t] \in ThreadRec
<1>1. Doing(t) /\ thr[t].seen \in Nat /\ db \in Nat /\ thr[t].seen <= db
  BY ThreadIs, WorldIs DEF Doing
<1>2. thr'[t].seen <= db
  <2>1. thr'[t].seen \in Nat /\ thr'[t].seen <= thr[t].seen  BY DEF Leaves, ThreadRec
  <2> QED  BY <1>1, <2>1
<1>3. thr[t].pc \notin {"idle", "asleep", "folders", "enter", "invalidate", "done"}
  BY DEF Inside, Timed, Updaters, Fetchers
<1>4. CASE thr'[t].pc = "idle"
  <2>1. thr[t].item = "ask" /\ thr'[t].item = "ask" /\ thr'[t].next = "answer"
        /\ thr'[t].fetch = FALSE /\ thr'[t].seen = 0
    BY <1>4, IdleType DEF Leaves
  <2>2. Doing(t)'  BY <1>2, <1>4, <2>1 DEF Doing, Timed, Fetchers, Frame
  <2> QED  BY <2>2 DEF Leaves
<1>5. CASE thr'[t].pc = "answer"
  BY <1>1, <1>2, <1>3, <1>5 DEF Doing, Leaves, Like, Timed, Fetchers, Updaters, Frame
<1>6. CASE thr'[t].pc = "calc"
  BY <1>1, <1>2, <1>3, <1>6 DEF Doing, Leaves, Like, Timed, Fetchers, Updaters, Frame
<1> QED  BY <1>4, <1>5, <1>6 DEF Leaves

LEMMA DoingEnds ==
  ASSUME Typed, NEW t \in Thread, Ends(t), Frame, thr[t].pc \in Updaters
  PROVE  Doing(t)' /\ Others(t) /\ thr'[t] \in ThreadRec
<1>1. thr[t].pc \in Inside /\ "fetched" \in Inside /\ "fetched" \notin {"none", "request", "entry"}
  BY DEF Inside, Timed
<1>2. CASE thr[t].next = "fetched" /\ Moves(t, "fetched") /\ thr'[t].next = "answer"
           /\ thr'[t].seen = thr[t].seen
  <2>1. thr[t].seen <= db /\ thr[t].seen # 0  BY <1>2, ThreadIs DEF Doing
  <2> QED  BY <1>1, <1>2, <2>1, DoingMoves
<1>3. CASE Leaves(t)  BY <1>1, <1>3, DoingLeaves
<1> QED  BY <1>2, <1>3 DEF Ends

LEMMA BoundsKept ==
  ASSUME Typed, NEW x \in Dir, cache'[x] = cache[x], Frame
  PROVE  Bounds(x)'
<1>1. Bounds(x)  BY CacheIs
<1> QED  BY <1>1 DEF Bounds, Frame

LEMMA BoundsFresh ==
  ASSUME Typed, NEW x \in Dir, cache'[x] = [Fresh EXCEPT !.here = TRUE], Frame
  PROVE  Bounds(x)'
<1>1. PICK f : f = [Fresh EXCEPT !.here = TRUE]  OBVIOUS
<1>2. f.here /\ f.db = 0 /\ f.entry.time = -1 /\ \A c \in Dir : f.kids[c] = Unknown
  BY <1>1, FreshType
<1>3. disk[x].time \in Nat /\ db \in Nat  BY WorldIs
<1> QED  BY <1>1, <1>2, <1>3 DEF Bounds, Frame

CacheFits == cache' \in [Dir -> CacheRec] /\ \A x \in Dir : Bounds(x)'

LEMMA SameFits == ASSUME Typed, Frame, cache' = cache PROVE CacheFits
<1>1. \A x \in Dir : Bounds(x)'  BY BoundsKept
<1> QED  BY <1>1 DEF CacheFits, Typed, CacheType

LEMMA MadeFits == ASSUME Typed, NEW t \in Thread, Frame, cache' = Made(t) PROVE CacheFits
<1>1. cache' \in [Dir -> CacheRec]
  <2>1. \A x \in Dir : cache'[x] \in CacheRec  BY MadeIs
  <2>2. PICK c : c = cache'  OBVIOUS
  <2>3. c = [x \in Dir |-> c[x]]  BY <2>2 DEF Made
  <2> QED  BY <2>1, <2>2, <2>3
<1>2. ASSUME NEW x \in Dir PROVE Bounds(x)'
  <2>1. CASE x \in New(t)
    <3>1. cache'[x] = [Fresh EXCEPT !.here = TRUE]  BY <2>1, MadeIs
    <3> QED  BY <3>1, BoundsFresh
  <2>2. CASE x \notin New(t)
    <3>1. cache'[x] = cache[x]  BY <2>2, MadeIs
    <3> QED  BY <3>1, BoundsKept
  <2> QED  BY <2>1, <2>2
<1> QED  BY <1>1, <1>2 DEF CacheFits

LEMMA OnlyFits ==
  ASSUME Typed, Frame, NEW d \in Dir, Only(d), cache[d].here,
         \A c \in Dir : cache'[d].kids[c] # Unknown => c \in Children(d),
         cache'[d].entry = cache[d].entry \/ cache'[d].entry = NoEntry
           \/ cache'[d].entry.time = disk[d].time,
         cache'[d].db = cache[d].db \/ cache'[d].db \in 0 .. db
  PROVE  CacheFits
<1>1. disk[d].time \in Nat /\ db \in Nat /\ Bounds(d)  BY WorldIs, CacheIs
<1>2. cache'[d].entry.time >= -1 /\ cache'[d].entry.time <= disk[d].time
  <2>1. PICK n \in Nat : n = disk[d].time  BY <1>1
  <2>2. CASE cache'[d].entry = cache[d].entry  BY <1>1, <2>2 DEF Bounds
  <2>3. CASE cache'[d].entry = NoEntry
    <3>1. cache'[d].entry.time = -1  BY <2>3, FreshType
    <3> QED  BY <2>1, <3>1
  <2>4. CASE cache'[d].entry.time = disk[d].time  BY <2>1, <2>4
  <2> QED  BY <2>2, <2>3, <2>4
<1>3. cache'[d].db <= db  BY <1>1 DEF Bounds
<1>4. Bounds(d)'  BY <1>2, <1>3 DEF Bounds, Only, Frame
<1>5. ASSUME NEW x \in Dir, x # d PROVE Bounds(x)'
  <2>1. cache'[x] = cache[x]  BY <1>5 DEF Only, Elsewhere
  <2> QED  BY <2>1, BoundsKept
<1> QED  BY <1>4, <1>5 DEF CacheFits, Only

\* The same where the folders are those that were known.
LEMMA OnlyStays ==
  ASSUME Typed, Frame, NEW d \in Dir, Only(d), cache[d].here,
         cache'[d].kids = cache[d].kids,
         cache'[d].entry = cache[d].entry \/ cache'[d].entry = NoEntry
           \/ cache'[d].entry.time = disk[d].time,
         cache'[d].db = cache[d].db \/ cache'[d].db \in 0 .. db
  PROVE  CacheFits
<1>1. \A c \in Dir : cache'[d].kids[c] # Unknown => c \in Children(d)  BY CacheIs DEF Bounds
<1> QED  BY <1>1, OnlyFits

\* What has to be said of a step of t.
LEMMA TypedStep ==
  ASSUME Typed, NEW t \in Thread,
         disk' = disk, db' = db, events' = events, count' = count, blocked' \in BOOLEAN,
         QueuesGrow, blank' \subseteq Dir, lost' \subseteq Dir, dbSeen' \in 0 .. db,
         CacheFits, Others(t), thr'[t] \in ThreadRec, Doing(t)'
  PROVE  Typed'
<1>1. WorldType'  BY DEF Typed, WorldType, QueuesGrow
<1>2. CacheType'  BY DEF CacheType, CacheFits
<1>3. ThreadType'
  <2>1. \A u \in Thread : thr'[u] \in ThreadRec  BY DEF Typed, ThreadType, Others
  <2>2. \A u \in Thread : Doing(u)'
    <3>1. \A u \in Thread : u # t => Doing(u)'
      BY DEF Typed, ThreadType, Others, Doing
    <3> QED  BY <3>1
  <2>3. thr' \in [Thread -> ThreadRec]
    <3>1. PICK r : r = thr'[t]  OBVIOUS
    <3>2. thr' = [thr EXCEPT ![t] = r] /\ r \in ThreadRec  BY <3>1 DEF Others
    <3>3. thr \in [Thread -> ThreadRec]  BY DEF Typed, ThreadType
    <3> QED  BY <3>2, <3>3
  <2> QED  BY <2>2, <2>3 DEF ThreadType
<1> QED  BY <1>1, <1>2, <1>3 DEF Typed

-----------------------------------------------------------------------------

\* What is left to show of a step of t in the cache.
Fits(t) ==
  /\ CacheFits /\ QueuesGrow /\ blank' \subseteq Dir /\ lost' \subseteq Dir
  /\ dbSeen' \in 0 .. db
  /\ Others(t) /\ thr'[t] \in ThreadRec /\ Doing(t)'

\* What every step keeps to, and what is so before it.
LEMMA Basis ==
  ASSUME Typed, Inv, NEW t \in Thread
  PROVE  /\ blank \subseteq Dir /\ lost \subseteq Dir /\ dbSeen \in 0 .. db
         /\ New(t) \subseteq Dir /\ Dropped(New(t)) \subseteq Dir
         /\ thr[t].this \in Dir /\ thr[t].up \in Dir /\ Below[thr[t].this] \subseteq Dir
         /\ thr[t].pc \notin Outside => cache[thr[t].this].here
         /\ thr[t].pc \in Updaters => cache[thr[t].up].here
<1>1. blank \subseteq Dir /\ lost \subseteq Dir /\ dbSeen \in 0 .. db  BY DEF Typed, WorldType
<1>2. New(t) \subseteq Dir /\ thr[t].this \in Dir /\ thr[t].up \in Dir
  BY NewType, ThreadIs
<1>3. /\ thr[t].pc \notin Outside => cache[thr[t].this].here
      /\ thr[t].pc \in Updaters => cache[thr[t].up].here
  BY DEF Inv, Local
<1> QED  BY <1>1, <1>2, <1>3, DroppedType, BelowSelf

LEMMA AwaitFits ==
  ASSUME Typed, Inv, Frame, NEW t \in Thread, Await(t), blank' = blank
  PROVE  Fits(t)
<1>1. /\ Steps(t, thr[t].pc) /\ thr'[t].val = thr[t].val /\ thr'[t].time = thr[t].time
      /\ cache' = cache /\ lost' = lost /\ dbSeen' = dbSeen /\ UNCHANGED queues
  BY AwaitEffect
<1>2. Doing(t)  BY ThreadIs
<1>3. Doing(t)'  BY <1>1, <1>2 DEF Doing, Steps, Moves, Like, Frame
<1> QED  BY <1>1, <1>3, Basis, SameFits, QueuesSame DEF Fits, Steps, Moves, Like

LEMMA EnterFits ==
  ASSUME Typed, Inv, Frame, NEW t \in Thread, Enter(t), blank' = blank
  PROVE  Fits(t)
<1>1. /\ thr[t].pc = "enter" /\ cache' = Made(t)
      /\ IF thr[t].item = "db" THEN Steps(t, "invalidate") ELSE Steps(t, "decide")
      /\ lost' = lost /\ dbSeen' = dbSeen /\ Crawl(New(t))
  BY EnterEffect
<1>2. Doing(t)  BY ThreadIs
<1>3. Doing(t)'
  <2>1. CASE thr[t].item = "db" /\ Steps(t, "invalidate")
    BY <1>1, <1>2, <2>1 DEF Doing, Steps, Moves, Like, Frame, Timed, Fetchers, Updaters
  <2>2. CASE thr[t].item # "db" /\ Steps(t, "decide")
    BY <1>1, <1>2, <2>2 DEF Doing, Steps, Moves, Like, Frame, Timed, Fetchers, Updaters
  <2> QED  BY <1>1, <2>1, <2>2
<1>4. Others(t) /\ thr'[t] \in ThreadRec  BY <1>1 DEF Steps, Moves, Like
<1>5. QueuesGrow /\ CacheFits  BY <1>1, Basis, CrawlEffect, MadeFits
<1> QED  BY <1>1, <1>3, <1>4, <1>5, Basis DEF Fits

LEMMA DecideFits ==
  ASSUME Typed, Inv, Frame, NEW t \in Thread, Decide(t), blank' = blank
  PROVE  Fits(t)
<1>1. PICK d : d = thr[t].this  OBVIOUS
<1>2. /\ thr[t].pc = "decide" /\ dbSeen' \in 1 .. db
      /\ thr'[t].next = thr[t].next /\ thr'[t].seen = dbSeen'
      /\ Moves(t, "same") \/ Moves(t, "changed")
      /\ cache' = cache /\ lost' = lost /\ UNCHANGED queues
  BY <1>1, DecideEffect
<1>3. thr[t].next = "answer"  BY <1>2, NextIs DEF Updaters
<1>4. dbSeen' <= db /\ dbSeen' # 0 /\ dbSeen' \in 0 .. db  BY <1>2, WorldIs
<1>5. "same" \in Inside /\ "changed" \in Inside  BY DEF Inside, Timed
<1>6. Doing(t)' /\ Others(t) /\ thr'[t] \in ThreadRec
  BY <1>2, <1>3, <1>4, <1>5, DoingMoves
<1> QED  BY <1>2, <1>4, <1>6, Basis, SameFits, QueuesSame DEF Fits

LEMMA SameFits2 ==
  ASSUME Typed, Inv, Frame, NEW t \in Thread, Same(t), blank' = blank
  PROVE  Fits(t)
<1>1. /\ thr[t].pc = "same" /\ cache' = cache /\ lost' = lost /\ dbSeen' = dbSeen
      /\ \/ Leaves(t) /\ Crawl(Known(thr[t].path.dir))
         \/ Steps(t, "look") /\ UNCHANGED queues
         \/ Steps(t, "none") /\ ~thr[t].fetch /\ UNCHANGED queues
         \/ Steps(t, "find") /\ UNCHANGED queues
  BY SameEffect
<1>2. "same" \in Timed /\ "look" \in Timed /\ "find" \in Timed /\ "same" \in Inside
  BY DEF Timed, Inside
<1>3. Doing(t)' /\ Others(t) /\ thr'[t] \in ThreadRec
  BY <1>1, <1>2, DoingSteps, DoingLeaves
<1>4. QueuesGrow
  <2>1. Known(thr[t].path.dir) \subseteq Dir  BY DEF Known
  <2> QED  BY <1>1, <2>1, CrawlEffect, QueuesSame
<1> QED  BY <1>1, <1>3, <1>4, Basis, SameFits DEF Fits

LEMMA FindEntryFits ==
  ASSUME Typed, Inv, Frame, NEW t \in Thread, FindEntry(t), blank' = blank
  PROVE  Fits(t)
<1>1. PICK d : d = thr[t].this  OBVIOUS
<1>2. /\ thr[t].pc = "find" /\ cache' = cache /\ lost' = lost /\ dbSeen' = dbSeen
      /\ UNCHANGED queues /\ (Leaves(t) \/ Steps(t, "look"))
  BY <1>1, FindEntryEffect
<1>3. "find" \in Timed /\ "look" \in Timed /\ "find" \in Inside  BY DEF Timed, Inside
<1>4. Doing(t)' /\ Others(t) /\ thr'[t] \in ThreadRec
  BY <1>2, <1>3, DoingSteps, DoingLeaves
<1> QED  BY <1>2, <1>4, Basis, SameFits, QueuesSame DEF Fits

LEMMA ChangedDbFits ==
  ASSUME Typed, Inv, Frame, NEW t \in Thread, ChangedDb(t), blank' = blank
  PROVE  Fits(t)
<1>1. PICK d : d = thr[t].this  OBVIOUS
<1>2. /\ thr[t].pc = "changed" /\ cache' = cache /\ lost' = lost /\ dbSeen' = dbSeen
      /\ UNCHANGED queues
      /\ \/ /\ Moves(t, "none") /\ ~thr[t].fetch /\ thr'[t].next = "request"
            /\ thr'[t].seen = thr[t].seen
         \/ Steps(t, "request") /\ ~thr[t].fetch
         \/ Steps(t, "drop")
  BY <1>1, ChangedDbEffect
<1>3. "changed" \in Timed /\ "drop" \in Timed /\ "changed" \in Inside /\ "none" \in Inside
      /\ "none" \notin Timed
  BY DEF Timed, Inside, Fetchers
<1>4. thr[t].seen <= db  BY ThreadIs DEF Doing
<1>5. Doing(t)' /\ Others(t) /\ thr'[t] \in ThreadRec
  BY <1>2, <1>3, <1>4, DoingSteps, DoingMoves
<1> QED  BY <1>2, <1>5, Basis, SameFits, QueuesSame DEF Fits

LEMMA LookFits ==
  ASSUME Typed, Inv, Frame, NEW t \in Thread, Look(t), blank' = blank
  PROVE  Fits(t)
<1>1. /\ thr[t].pc = "look" /\ cache' = cache /\ lost' = lost /\ dbSeen' = dbSeen
      /\ UNCHANGED queues /\ ((Steps(t, "none") /\ ~thr[t].fetch) \/ Steps(t, "clear"))
  BY LookEffect
<1>2. "look" \in Timed /\ "clear" \in Timed  BY DEF Timed
<1>3. Doing(t)' /\ Others(t) /\ thr'[t] \in ThreadRec  BY <1>1, <1>2, DoingSteps
<1> QED  BY <1>1, <1>3, Basis, SameFits, QueuesSame DEF Fits

LEMMA RequestFits ==
  ASSUME Typed, Inv, Frame, NEW t \in Thread, Request(t), blank' = blank
  PROVE  Fits(t)
<1>1. /\ thr[t].pc = "request" /\ cache' = cache /\ lost' = lost /\ dbSeen' = dbSeen
      /\ Crawl({thr[t].this}) /\ Leaves(t)
  BY RequestEffect
<1>2. Doing(t)' /\ Others(t) /\ thr'[t] \in ThreadRec  BY <1>1, DoingLeaves DEF Inside
<1>3. QueuesGrow  BY <1>1, Basis, CrawlEffect
<1> QED  BY <1>1, <1>2, <1>3, Basis, SameFits DEF Fits

LEMMA DropFits ==
  ASSUME Typed, Inv, Frame, NEW t \in Thread, Drop(t), blank' = blank
  PROVE  Fits(t)
<1>1. PICK d \in Dir : d = thr[t].this  BY Basis
<1>2. /\ thr[t].pc = "drop" /\ Steps(t, "look") /\ Only(d)
      /\ cache'[d].kids = cache[d].kids
      /\ cache'[d].entry = NoEntry /\ cache'[d].db = cache[d].db
      /\ lost' = IF cache[d].entry # NoEntry THEN lost \cup {d} ELSE lost
      /\ dbSeen' = dbSeen /\ UNCHANGED queues
  BY <1>1, DropEffect
<1>3. "drop" \in Timed /\ "look" \in Timed  BY DEF Timed
<1>4. Doing(t)' /\ Others(t) /\ thr'[t] \in ThreadRec  BY <1>2, <1>3, DoingSteps
<1>5. cache[d].here  BY <1>1, <1>2, Basis DEF Outside
<1>6. CacheFits  BY <1>2, <1>5, OnlyStays
<1> QED  BY <1>1, <1>2, <1>4, <1>6, Basis, QueuesSame DEF Fits

LEMMA SetNoneFits ==
  ASSUME Typed, Inv, Frame, NEW t \in Thread, SetNone(t)
  PROVE  Fits(t)
<1>1. PICK d \in Dir : d = thr[t].this  BY Basis
<1>2. /\ thr[t].pc = "none" /\ Only(d) /\ cache'[d].kids = cache[d].kids
      /\ cache'[d].entry = cache[d].entry /\ cache'[d].db = cache[d].db
      /\ lost' = (IF \E u \in Thread : Renews(u, d) THEN lost ELSE lost \cup {d})
      /\ dbSeen' = dbSeen /\ UNCHANGED queues
      /\ \/ /\ Moves(t, "request") /\ thr'[t].next = "answer" /\ thr'[t].seen = thr[t].seen
         \/ Leaves(t)
  BY <1>1, SetNoneEffect
<1>3. "none" \in Inside /\ "request" \in Inside /\ "request" \notin Timed
  BY DEF Inside, Timed, Fetchers
<1>4. thr[t].seen <= db /\ ~thr[t].fetch  BY <1>2, ThreadIs DEF Doing
<1>5. Doing(t)' /\ Others(t) /\ thr'[t] \in ThreadRec
  BY <1>2, <1>3, <1>4, DoingMoves, DoingLeaves
<1>6. cache[d].here  BY <1>1, <1>2, Basis DEF Outside
<1>7. CacheFits  BY <1>2, <1>6, OnlyStays
<1>8. lost' \subseteq Dir /\ blank' \subseteq Dir  BY <1>1, <1>2, Basis DEF SetNone
<1> QED  BY <1>2, <1>5, <1>7, <1>8, Basis, QueuesSame DEF Fits

LEMMA ClearFits ==
  ASSUME Typed, Inv, Frame, NEW t \in Thread, Clear(t), blank' = blank
  PROVE  Fits(t)
<1>1. PICK d \in Dir : d = thr[t].this  BY Basis
<1>2. /\ thr[t].pc = "clear" /\ Steps(t, "exchange") /\ Only(d)
      /\ cache'[d].kids = Fresh.kids
      /\ cache'[d].entry = NoEntry /\ cache'[d].db = cache[d].db
      /\ lost' = lost /\ dbSeen' = dbSeen /\ UNCHANGED queues
  BY <1>1, ClearEffect
<1>3. "clear" \in Timed /\ "exchange" \in Timed  BY DEF Timed
<1>4. Doing(t)' /\ Others(t) /\ thr'[t] \in ThreadRec  BY <1>2, <1>3, DoingSteps
<1>5. cache[d].here  BY <1>1, <1>2, Basis DEF Outside
<1>6. \A c \in Dir : cache'[d].kids[c] = Unknown  BY <1>2, FreshType
<1>7. CacheFits  BY <1>2, <1>5, <1>6, OnlyFits
<1> QED  BY <1>2, <1>4, <1>7, Basis, QueuesSame DEF Fits

LEMMA ExchangeFits ==
  ASSUME Typed, Inv, Frame, NEW t \in Thread, Exchange(t), blank' = blank
  PROVE  Fits(t)
<1>1. PICK d \in Dir : d = thr[t].this  BY Basis
<1>2. /\ thr[t].pc = "exchange" /\ Only(d) /\ cache'[d].kids = cache[d].kids
      /\ cache'[d].entry = cache[d].entry
      /\ \/ cache'[d].db = 0 /\ lost' = lost \cup Below[d] /\ Leaves(t)
         \/ cache'[d].db = cache[d].db /\ lost' = lost \ {d} /\ Steps(t, "list")
      /\ dbSeen' = dbSeen /\ UNCHANGED queues
  BY <1>1, ExchangeEffect
<1>3. "exchange" \in Timed /\ "list" \in Timed /\ "exchange" \in Inside
  BY DEF Timed, Fetchers, Inside
<1>4. Doing(t)' /\ Others(t) /\ thr'[t] \in ThreadRec
  BY <1>2, <1>3, DoingSteps, DoingLeaves
<1>5. cache[d].here  BY <1>1, <1>2, Basis DEF Outside
<1>6. 0 \in 0 .. db  BY WorldIs
<1>7. CacheFits  BY <1>2, <1>5, <1>6, OnlyStays
<1>8. lost' \subseteq Dir  BY <1>1, <1>2, Basis
<1> QED  BY <1>2, <1>4, <1>7, <1>8, Basis, QueuesSame DEF Fits

LEMMA ListFits ==
  ASSUME Typed, Inv, Frame, NEW t \in Thread, List(t), blank' = blank
  PROVE  Fits(t)
<1>1. PICK d \in Dir : d = thr[t].this  BY Basis
<1>2. /\ thr[t].pc = "list" /\ Only(d) /\ cache'[d].kids = cache[d].kids
      /\ cache'[d].entry = cache[d].entry /\ cache'[d].db = cache[d].db
      /\ IF Children(d) = {} THEN Moves(t, "file") ELSE Moves(t, "folder")
      /\ thr'[t].seen = thr[t].seen /\ thr'[t].next = thr[t].next
      /\ lost' = lost /\ dbSeen' = dbSeen /\ UNCHANGED queues
  BY <1>1, ListEffect
<1>3. "file" \in Inside /\ "folder" \in Inside /\ "list" \in Inside /\ "list" \notin Updaters
  BY DEF Timed, Fetchers, Inside, Updaters
<1>4. thr[t].seen <= db /\ thr[t].seen # 0 /\ thr[t].next = "answer"
  BY <1>2, <1>3, ThreadIs, NextIs DEF Doing, Timed, Fetchers
<1>5. Doing(t)' /\ Others(t) /\ thr'[t] \in ThreadRec  BY <1>2, <1>3, <1>4, DoingMoves
<1>6. cache[d].here  BY <1>1, <1>2, Basis DEF Outside
<1>7. CacheFits  BY <1>2, <1>6, OnlyStays
<1> QED  BY <1>2, <1>5, <1>7, Basis, QueuesSame DEF Fits

LEMMA AskChildFits ==
  ASSUME Typed, Inv, Frame, NEW t \in Thread, AskChild(t), blank' = blank
  PROVE  Fits(t)
<1>1. PICK c : c = Child(t)  OBVIOUS
<1>2. /\ thr[t].pc = "folder" /\ cache' = Made(t) /\ Steps(t, "child")
      /\ lost' = lost \cup Dropped(New(t)) /\ dbSeen' = dbSeen /\ Crawl(New(t))
  BY <1>1, AskChildEffect
<1>3. "folder" \in Timed /\ "child" \in Timed  BY DEF Timed, Fetchers
<1>4. Doing(t)' /\ Others(t) /\ thr'[t] \in ThreadRec  BY <1>2, <1>3, DoingSteps
<1>5. QueuesGrow /\ CacheFits  BY <1>2, Basis, CrawlEffect, MadeFits
<1> QED  BY <1>2, <1>4, <1>5, Basis DEF Fits

LEMMA SetChildFits ==
  ASSUME Typed, Inv, Frame, NEW t \in Thread, SetChild(t), blank' = blank
  PROVE  Fits(t)
<1>1. PICK d \in Dir : d = thr[t].this  BY Basis
<1>2. PICK c : c = Child(t)  OBVIOUS
<1>3. /\ thr[t].pc = "child" /\ Only(d) /\ Steps(t, "own")
      /\ cache'[d].entry = cache[d].entry /\ cache'[d].db = cache[d].db
      /\ \A x \in Dir : x # c => cache'[d].kids[x] = cache[d].kids[x]
      /\ lost' = lost \/ lost' = lost \cup {d}
      /\ dbSeen' = dbSeen /\ UNCHANGED queues
  BY <1>1, <1>2, SetChildEffect
<1>4. "child" \in Timed /\ "own" \in Timed  BY DEF Timed, Fetchers
<1>5. Doing(t)' /\ Others(t) /\ thr'[t] \in ThreadRec  BY <1>3, <1>4, DoingSteps
<1>6. cache[d].here  BY <1>1, <1>3, Basis DEF Outside
<1>7. c \in Children(d)  BY <1>1, <1>2, <1>3, ChildIs DEF Listers, Children
<1>8. \A x \in Dir : cache'[d].kids[x] # Unknown => x \in Children(d)
  BY <1>3, <1>7, CacheIs DEF Bounds
<1>9. CacheFits  BY <1>3, <1>6, <1>8, OnlyFits
<1> QED  BY <1>3, <1>5, <1>9, Basis, QueuesSame DEF Fits

LEMMA OwnChildFits ==
  ASSUME Typed, Inv, Frame, NEW t \in Thread, OwnChild(t), blank' = blank
  PROVE  Fits(t)
<1>1. PICK c : c = Child(t)  OBVIOUS
<1>2. /\ thr[t].pc = "own" /\ Only(c) /\ cache'[c].kids = cache[c].kids
      /\ cache'[c].entry = cache[c].entry /\ cache'[c].db = cache[c].db
      /\ IF thr[t].left \ {c} = {} THEN Moves(t, "file") ELSE Moves(t, "folder")
      /\ thr'[t].seen = thr[t].seen /\ thr'[t].next = thr[t].next
      /\ lost' = lost /\ dbSeen' = dbSeen /\ UNCHANGED queues
  BY <1>1, OwnChildEffect
<1>3. "file" \in Inside /\ "folder" \in Inside /\ "own" \in Inside /\ "own" \notin Updaters
  BY DEF Timed, Fetchers, Inside, Updaters
<1>4. thr[t].seen <= db /\ thr[t].seen # 0 /\ thr[t].next = "answer"
  BY <1>2, <1>3, ThreadIs, NextIs DEF Doing, Timed, Fetchers
<1>5. Doing(t)' /\ Others(t) /\ thr'[t] \in ThreadRec  BY <1>2, <1>3, <1>4, DoingMoves
<1>6. c \in Dir /\ cache[c].here  BY <1>1, <1>2, ChildIs DEF Listers, Inv, Local
<1>7. CacheFits  BY <1>2, <1>6, OnlyStays
<1> QED  BY <1>2, <1>5, <1>7, Basis, QueuesSame DEF Fits

LEMMA StatFileFits ==
  ASSUME Typed, Inv, Frame, NEW t \in Thread, StatFile(t), blank' = blank
  PROVE  Fits(t)
<1>1. PICK d \in Dir : d = thr[t].this  BY Basis
<1>2. /\ thr[t].pc = "file" /\ Steps(t, "entry")
      /\ thr'[t].val = disk[d].st /\ thr'[t].time = disk[d].time
      /\ cache' = cache /\ lost' = lost /\ dbSeen' = dbSeen /\ UNCHANGED queues
  BY <1>1, StatFileEffect
<1>3. "file" \in Timed /\ "entry" \in Timed  BY DEF Timed, Fetchers
<1>4. thr'[t].val # "none" /\ thr'[t].time <= disk[thr[t].this].time
  <2>1. PICK n \in Nat : n = disk[d].time  BY WorldIs
  <2>2. n <= n  BY <2>1
  <2> QED  BY <1>1, <1>2, <2>1, <2>2, WorldIs
<1>5. Doing(t)' /\ Others(t) /\ thr'[t] \in ThreadRec  BY <1>2, <1>3, <1>4, DoingSteps
<1> QED  BY <1>2, <1>5, Basis, SameFits, QueuesSame DEF Fits

LEMMA AddEntryFits ==
  ASSUME Typed, Inv, Frame, NEW t \in Thread, AddEntry(t), blank' = blank
  PROVE  Fits(t)
<1>1. PICK d \in Dir : d = thr[t].this  BY Basis
<1>2. /\ thr[t].pc = "entry" /\ Only(d) /\ Steps(t, "end")
      /\ cache'[d].kids = cache[d].kids /\ cache'[d].entry.time = disk[d].time
      /\ cache'[d].db = cache[d].db
      /\ lost' = lost \/ lost' = lost \cup {d}
      /\ dbSeen' = dbSeen /\ UNCHANGED queues
  BY <1>1, AddEntryEffect
<1>3. "entry" \in Timed /\ "end" \in Timed  BY DEF Timed, Fetchers
<1>4. Doing(t)' /\ Others(t) /\ thr'[t] \in ThreadRec  BY <1>2, <1>3, DoingSteps
<1>5. cache[d].here  BY <1>1, <1>2, Basis DEF Outside
<1>6. CacheFits  BY <1>2, <1>5, OnlyStays
<1> QED  BY <1>2, <1>4, <1>6, Basis, QueuesSame DEF Fits

LEMMA EndFetchFits ==
  ASSUME Typed, Inv, Frame, NEW t \in Thread, EndFetch(t), blank' = blank
  PROVE  Fits(t)
<1>1. PICK d \in Dir : d = thr[t].this  BY Basis
<1>2. /\ thr[t].pc = "end" /\ Only(d) /\ Steps(t, "most")
      /\ cache'[d].kids = cache[d].kids
      /\ cache'[d].entry = cache[d].entry /\ cache'[d].db = cache[d].db
      /\ lost' = lost /\ dbSeen' = dbSeen /\ UNCHANGED queues
  BY <1>1, EndFetchEffect
<1>3. "most" \in Timed /\ "end" \in Timed  BY DEF Timed, Fetchers
<1>4. Doing(t)' /\ Others(t) /\ thr'[t] \in ThreadRec  BY <1>2, <1>3, DoingSteps
<1>5. cache[d].here  BY <1>1, <1>2, Basis DEF Outside
<1>6. CacheFits  BY <1>2, <1>5, OnlyStays
<1> QED  BY <1>2, <1>4, <1>6, Basis, QueuesSame DEF Fits

LEMMA MostFits ==
  ASSUME Typed, Inv, Frame, NEW t \in Thread, Most(t), blank' = blank
  PROVE  Fits(t)
<1>1. PICK d \in Dir : d = thr[t].this  BY Basis
<1>2. /\ thr[t].pc = "most" /\ Steps(t, "mark")
      /\ cache' = cache /\ lost' = lost /\ dbSeen' = dbSeen /\ UNCHANGED queues
  BY <1>1, MostEffect
<1>3. "most" \in Timed /\ "mark" \in Timed  BY DEF Timed
<1>4. Doing(t)' /\ Others(t) /\ thr'[t] \in ThreadRec  BY <1>2, <1>3, DoingSteps
<1> QED  BY <1>2, <1>4, Basis, SameFits, QueuesSame DEF Fits

LEMMA MarkFits ==
  ASSUME Typed, Inv, Frame, NEW t \in Thread, Mark(t), blank' = blank
  PROVE  Fits(t)
<1>1. PICK d \in Dir : d = thr[t].this  BY Basis
<1>2. /\ thr[t].pc = "mark" /\ Only(d) /\ cache'[d].kids = cache[d].kids
      /\ cache'[d].entry = cache[d].entry /\ cache'[d].db = cache[d].db
      /\ lost' = lost \/ lost' = lost \cup {d}
      /\ Moves(t, "calc") /\ thr'[t].next = "fetched" /\ thr'[t].seen = thr[t].seen
      /\ dbSeen' = dbSeen /\ UNCHANGED queues
  BY <1>1, MarkEffect
<1>3. "mark" \in Inside /\ "calc" \in Inside /\ "calc" \in Updaters
  BY DEF Inside, Timed, Updaters
<1>4. thr[t].seen <= db /\ thr[t].seen # 0  BY <1>2, ThreadIs DEF Doing, Timed
<1>5. Doing(t)' /\ Others(t) /\ thr'[t] \in ThreadRec  BY <1>2, <1>3, <1>4, DoingMoves
<1>6. cache[d].here  BY <1>1, <1>2, Basis DEF Outside
<1>7. CacheFits  BY <1>2, <1>6, OnlyStays
<1> QED  BY <1>2, <1>5, <1>7, Basis, QueuesSame DEF Fits

LEMMA CalcFits ==
  ASSUME Typed, Inv, Frame, NEW t \in Thread, Calc(t), blank' = blank
  PROVE  Fits(t)
<1>1. PICK d \in Dir : d = thr[t].up  BY Basis
<1>2. /\ thr[t].pc = "calc" /\ Steps(t, "write")
      /\ cache' = cache /\ lost' = lost /\ dbSeen' = dbSeen /\ UNCHANGED queues
  BY <1>1, CalcEffect
<1>3. Doing(t)' /\ Others(t) /\ thr'[t] \in ThreadRec
  BY <1>2, DoingUpdates DEF Steps, Updaters
<1> QED  BY <1>2, <1>3, Basis, SameFits, QueuesSame DEF Fits

LEMMA WriteFits ==
  ASSUME Typed, Inv, Frame, NEW t \in Thread, Write(t)
  PROVE  Fits(t)
<1>1. PICK d \in Dir : d = thr[t].up  BY Basis
<1>2. /\ thr[t].pc = "write" /\ Only(d)
      /\ cache'[d].entry = cache[d].entry /\ cache'[d].kids = cache[d].kids
      /\ cache'[d].db = cache[d].db
      /\ lost' = IF thr[t].val # CalculateRecursiveStatus(d) THEN lost \cup {d} ELSE lost
      /\ Ends(t) \/ Steps(t, "tell")
      /\ dbSeen' = dbSeen /\ UNCHANGED queues
  BY <1>1, WriteEffect
<1>3. thr[t].pc \in Updaters  BY <1>2 DEF Updaters
<1>4. Doing(t)' /\ Others(t) /\ thr'[t] \in ThreadRec
  BY <1>2, <1>3, DoingUpdates, DoingEnds DEF Steps, Updaters
<1>5. cache[d].here  BY <1>1, <1>3, Basis
<1>6. CacheFits  BY <1>2, <1>5, OnlyStays
<1>7. blank' \subseteq Dir  BY Basis DEF Write
<1> QED  BY <1>1, <1>2, <1>4, <1>6, <1>7, Basis, QueuesSame DEF Fits

LEMMA TellFits ==
  ASSUME Typed, Inv, Frame, NEW t \in Thread, Tell(t), blank' = blank
  PROVE  Fits(t)
<1>1. PICK d \in Dir : d = thr[t].up  BY Basis
<1>2. /\ thr[t].pc = "tell" /\ cache' = Made(t) /\ Steps(t, "compare")
      /\ lost' = lost \cup Dropped(New(t)) /\ dbSeen' = dbSeen /\ Crawl(New(t))
  BY <1>1, TellEffect
<1>3. Doing(t)' /\ Others(t) /\ thr'[t] \in ThreadRec
  BY <1>2, DoingUpdates DEF Steps, Updaters
<1>4. QueuesGrow /\ CacheFits  BY <1>2, Basis, CrawlEffect, MadeFits
<1> QED  BY <1>2, <1>3, <1>4, Basis DEF Fits

LEMMA CompareFits ==
  ASSUME Typed, Inv, Frame, NEW t \in Thread, Compare(t), blank' = blank
  PROVE  Fits(t)
<1>1. PICK d \in Dir : d = thr[t].up  BY Basis
<1>2. PICK p : p = Parent[d]  OBVIOUS
<1>3. /\ thr[t].pc = "compare" /\ (Steps(t, "put") \/ Ends(t))
      /\ cache' = cache /\ lost' = lost /\ dbSeen' = dbSeen /\ UNCHANGED queues
  BY <1>1, <1>2, CompareEffect
<1>4. Doing(t)' /\ Others(t) /\ thr'[t] \in ThreadRec
  BY <1>3, DoingUpdates, DoingEnds DEF Steps, Updaters
<1> QED  BY <1>3, <1>4, Basis, SameFits, QueuesSame DEF Fits

LEMMA PutFits ==
  ASSUME Typed, Inv, Frame, NEW t \in Thread, Put(t), blank' = blank
  PROVE  Fits(t)
<1>1. PICK d \in Dir : d = thr[t].up  BY Basis
<1>2. PICK p : p = Parent[d]  OBVIOUS
<1>3. /\ thr[t].pc = "put" /\ d # Top /\ p \in Dir /\ Only(p)
      /\ cache'[p].entry = cache[p].entry
      /\ cache'[p].db = cache[p].db
      /\ \A x \in Dir : x # d => cache'[p].kids[x] = cache[p].kids[x]
      /\ Moves(t, "calc") /\ thr'[t].next = thr[t].next /\ thr'[t].seen = thr[t].seen
      /\ lost' = lost \/ lost' = lost \cup {p}
      /\ dbSeen' = dbSeen /\ UNCHANGED queues
  BY <1>1, <1>2, PutEffect
<1>4. Doing(t)' /\ Others(t) /\ thr'[t] \in ThreadRec  BY <1>3, DoingUpdates DEF Updaters
<1>5. cache[p].here /\ d \in Children(p)  BY <1>1, <1>2, <1>3 DEF Inv, Local, Children
<1>6. \A x \in Dir : cache'[p].kids[x] # Unknown => x \in Children(p)
  BY <1>3, <1>5, CacheIs DEF Bounds
<1>7. CacheFits  BY <1>3, <1>5, <1>6, OnlyFits
<1> QED  BY <1>3, <1>4, <1>7, Basis, QueuesSame DEF Fits

LEMMA FetchedFits ==
  ASSUME Typed, Inv, Frame, NEW t \in Thread, Fetched(t), blank' = blank
  PROVE  Fits(t)
<1>1. PICK d \in Dir : d = thr[t].this  BY Basis
<1>2. /\ thr[t].pc = "fetched" /\ Only(d) /\ cache'[d].kids = cache[d].kids
      /\ cache'[d].entry = cache[d].entry /\ cache'[d].db = thr[t].seen
      /\ Leaves(t) \/ (Moves(t, "miss") /\ thr'[t].next = "answer" /\ thr'[t].seen = 0)
      /\ lost' = lost /\ dbSeen' = dbSeen /\ UNCHANGED queues
  BY <1>1, FetchedEffect
<1>3. "fetched" \in Inside /\ "miss" \in Inside /\ "miss" \notin Timed
  BY DEF Inside, Timed, Fetchers
<1>4. thr[t].seen <= db /\ thr[t].seen \in Nat /\ 0 <= db  BY ThreadIs, WorldIs DEF Doing
<1>5. Doing(t)' /\ Others(t) /\ thr'[t] \in ThreadRec
  BY <1>2, <1>3, <1>4, DoingMoves, DoingLeaves
<1>6. cache[d].here  BY <1>1, <1>2, Basis DEF Outside
<1>7. thr[t].seen \in 0 .. db  BY <1>4, WorldIs
<1>8. CacheFits  BY <1>2, <1>6, <1>7, OnlyStays
<1> QED  BY <1>2, <1>5, <1>8, Basis, QueuesSame DEF Fits

LEMMA MissFits ==
  ASSUME Typed, Inv, Frame, NEW t \in Thread, Miss(t), blank' = blank
  PROVE  Fits(t)
<1>1. PICK d \in Dir : d = thr[t].this  BY Basis
<1>2. /\ thr[t].pc = "miss" /\ Only(d) /\ cache'[d].kids = cache[d].kids
      /\ cache'[d].entry.time = disk[d].time /\ cache'[d].db = cache[d].db
      /\ lost' = lost \cup {d} /\ Leaves(t) /\ dbSeen' = dbSeen /\ UNCHANGED queues
  BY <1>1, MissEffect
<1>3. Doing(t)' /\ Others(t) /\ thr'[t] \in ThreadRec  BY <1>2, DoingLeaves DEF Inside
<1>4. cache[d].here  BY <1>1, <1>2, Basis DEF Outside
<1>5. CacheFits  BY <1>2, <1>4, OnlyStays
<1> QED  BY <1>2, <1>3, <1>5, Basis, QueuesSame DEF Fits

LEMMA WorkFits == ASSUME Typed, Inv, NEW t \in Thread, Work(t) PROVE Fits(t) /\ Frame
<1>1. Frame  BY WorkFrame
<1>2. CASE SetNone(t) \/ Write(t)  BY <1>1, <1>2, SetNoneFits, WriteFits
<1>3. CASE Await(t) \/ Enter(t) \/ Decide(t) \/ Same(t) \/ FindEntry(t) \/ ChangedDb(t)
           \/ Drop(t) \/ Look(t) \/ Request(t)
  <2>1. blank' = blank
    BY <1>3, Zenon DEF Await, Enter, Decide, Same, FindEntry, ChangedDb, Drop, Look, Request
  <2> QED
    BY <1>1, <1>3, <2>1, AwaitFits, EnterFits, DecideFits, SameFits2, FindEntryFits, ChangedDbFits,
       DropFits, LookFits, RequestFits
<1>4. CASE Clear(t) \/ Exchange(t) \/ List(t) \/ AskChild(t) \/ SetChild(t) \/ OwnChild(t)
           \/ StatFile(t) \/ AddEntry(t) \/ EndFetch(t)
  <2>1. blank' = blank
    BY <1>4, Zenon
    DEF Clear, Exchange, List, AskChild, SetChild, OwnChild, StatFile, AddEntry, EndFetch
  <2> QED
    BY <1>1, <1>4, <2>1, ClearFits, ExchangeFits, ListFits, AskChildFits, SetChildFits,
       OwnChildFits, StatFileFits, AddEntryFits, EndFetchFits
<1>5. CASE Most(t) \/ Mark(t) \/ Calc(t) \/ Tell(t) \/ Compare(t) \/ Put(t)
           \/ Fetched(t) \/ Miss(t)
  <2>1. blank' = blank
    BY <1>5, Zenon DEF Most, Mark, Calc, Tell, Compare, Put, Fetched, Miss
  <2> QED
    BY <1>1, <1>5, <2>1, MostFits, MarkFits, CalcFits, TellFits, CompareFits, PutFits,
       FetchedFits, MissFits
<1> QED  BY <1>1, <1>2, <1>3, <1>4, <1>5 DEF Work

LEMMA WorkTyped == ASSUME Typed, Inv, NEW t \in Thread, Work(t) PROVE Typed'
<1>1. Fits(t) /\ Frame  BY WorkFits
<1>2. blocked' \in BOOLEAN  BY <1>1 DEF Frame, Typed, WorldType
<1> QED  BY <1>1, <1>2, TypedStep DEF Fits, Frame

(* The steps of the crawler and of the world *)

LEMMA CrawlerIs == Crawler \in Thread /\ Top \in Dir /\ Crawler \notin Client
                   /\ \A t \in Client : t \in Thread /\ t # Crawler
BY CacheAssumption DEF Thread, CacheAssumption

LEMMA CacheKept ==
  ASSUME Typed, WorldType', cache' = cache, db <= db',
         \A d \in Dir : disk[d].time <= disk'[d].time
  PROVE  CacheType'
<1>1. ASSUME NEW d \in Dir PROVE Bounds(d)'
  <2>1. Bounds(d) /\ cache[d].db \in Nat /\ cache[d].entry.time \in Int  BY CacheIs
  <2>2. db \in Nat /\ disk[d].time \in Nat  BY WorldIs
  <2>3. db' \in Nat /\ disk'[d].time \in Nat
    <3>1. count'.commits \in Nat /\ db' = count'.commits + 1
      BY CacheAssumption DEF WorldType, CacheAssumption
    <3> QED  BY <3>1 DEF WorldType
  <2>4. disk[d].time <= disk'[d].time  OBVIOUS
  <2>5. cache[d].entry.time <= disk'[d].time /\ cache[d].db <= db'
    <3>1. cache[d].entry.time <= disk[d].time /\ cache[d].db <= db  BY <2>1 DEF Bounds
    <3> QED  BY <2>1, <2>2, <2>3, <2>4, <3>1
  <2> QED  BY <2>1, <2>5 DEF Bounds
<1> QED  BY <1>1 DEF Typed, CacheType

LEMMA ThreadsKept ==
  ASSUME Typed, WorldType', thr' = thr, db <= db', \A d \in Dir : disk[d].time <= disk'[d].time
  PROVE  ThreadType'
<1>1. ASSUME NEW t \in Thread PROVE Doing(t)'
  <2>1. Doing(t) /\ thr[t].seen \in Nat /\ thr[t].time \in Int /\ thr[t].this \in Dir
    BY ThreadIs
  <2>2. db \in Nat /\ disk[thr[t].this].time \in Nat  BY <2>1, WorldIs
  <2>3. db' \in Nat /\ disk'[thr[t].this].time \in Nat
    <3>1. count'.commits \in Nat /\ db' = count'.commits + 1
      BY CacheAssumption DEF WorldType, CacheAssumption
    <3> QED  BY <2>1, <3>1 DEF WorldType
  <2>4. disk[thr[t].this].time <= disk'[thr[t].this].time  BY <2>1
  <2>5. thr[t].seen <= db'
    <3>1. thr[t].seen <= db  BY <2>1 DEF Doing
    <3> QED  BY <2>1, <2>2, <2>3, <3>1
  <2>6. thr[t].pc = "entry" => thr[t].val # "none" /\ thr[t].time <= disk'[thr[t].this].time
    <3>1. thr[t].pc = "entry" => thr[t].val # "none" /\ thr[t].time <= disk[thr[t].this].time
      BY <2>1 DEF Doing
    <3> QED  BY <2>1, <2>2, <2>3, <2>4, <3>1
  <2> QED  BY <2>1, <2>5, <2>6 DEF Doing
<1> QED  BY <1>1 DEF Typed, ThreadType

LEMMA ThreadStep ==
  ASSUME Typed, NEW t \in Thread, db' = db, disk' = disk, Others(t), thr'[t] \in ThreadRec,
         Doing(t)'
  PROVE  ThreadType'
<1>1. \A u \in Thread : u # t => Doing(u)'
  BY DEF Typed, ThreadType, Others, Doing
<1>2. PICK r : r = thr'[t]  OBVIOUS
<1>3. thr' = [thr EXCEPT ![t] = r] /\ r \in ThreadRec  BY <1>2 DEF Others
<1>4. thr \in [Thread -> ThreadRec]  BY DEF Typed, ThreadType
<1>5. thr' \in [Thread -> ThreadRec]  BY <1>3, <1>4
<1> QED  BY <1>1, <1>5 DEF ThreadType

\* The crawler has nothing in hand.
Loops(pc) ==
  /\ Others(Crawler) /\ thr'[Crawler] \in ThreadRec /\ Doing(Crawler)'
  /\ thr'[Crawler].pc = pc /\ thr'[Crawler].item = "ask" /\ thr'[Crawler].next = "answer"
  /\ thr'[Crawler].want = {}

LEMMA LoopEffect ==
  ASSUME Typed, NEW pc \in {"idle", "asleep", "folders"}, Loop(pc), db' = db, disk' = disk
  PROVE  Loops(pc)
<1> DEFINE s == [Idle EXCEPT !.pc = pc]
<1>1. thr'[Crawler] = s /\ Others(Crawler)  BY CrawlerIs, GoesTo DEF Typed, Loop
<1>2. s \in ThreadRec  BY IdleType, LabelIs DEF ThreadRec
<1>3. s.pc = pc /\ s.item = "ask" /\ s.next = "answer" /\ s.want = {} /\ s.seen = 0
  BY IdleType DEF ThreadRec
<1> HIDE DEF s
<1>4. db \in Nat  BY WorldIs
<1>5. Doing(Crawler)'  BY <1>1, <1>3, <1>4 DEF Doing, Timed, Fetchers, Updaters
<1> QED  BY <1>1, <1>2, <1>3, <1>5 DEF Loops

\* The crawler has taken something.
Gets(kind, d, p) ==
  /\ Others(Crawler) /\ thr'[Crawler] \in ThreadRec /\ Doing(Crawler)'
  /\ thr'[Crawler].pc = "enter" /\ thr'[Crawler].item = kind /\ thr'[Crawler].next = "answer"
  /\ thr'[Crawler].of = d /\ thr'[Crawler].this = d /\ thr'[Crawler].path = p

LEMMA PathIs == \A d \in Dir : /\ File(d) \in [file : BOOLEAN, dir : Dir] /\ File(d).file
                               /\ Folder(d) \in [file : BOOLEAN, dir : Dir] /\ ~Folder(d).file
                               /\ File(d).dir = d /\ Folder(d).dir = d
BY DEF File, Folder

LEMMA ItemEffect ==
  ASSUME Typed, NEW kind, NEW d \in Dir, NEW p, Item(kind, d, p), db' = db, disk' = disk,
         \/ kind = "file" /\ p = File(d)
         \/ kind = "folder" /\ p = Folder(d)
         \/ kind = "db" /\ p = Folder(d) /\ d = Top
  PROVE  Gets(kind, d, p)
<1> DEFINE s == [Idle EXCEPT !.pc = "enter", !.item = kind, !.of = d,
                             !.this = d, !.path = p, !.fetch = TRUE]
<1>1. thr'[Crawler] = s /\ Others(Crawler)  BY CrawlerIs, GoesTo DEF Typed, Item
<1>2. p \in [file : BOOLEAN, dir : Dir] /\ kind \in {"file", "folder", "db"}  BY PathIs
<1>3. s \in ThreadRec  BY <1>2, IdleType, LabelIs DEF ThreadRec
<1>4. s.pc = "enter" /\ s.item = kind /\ s.next = "answer" /\ s.of = d /\ s.this = d
      /\ s.path = p /\ s.fetch /\ s.seen = 0
  BY IdleType DEF ThreadRec
<1> HIDE DEF s
<1>5. db \in Nat  BY WorldIs
<1>6. Doing(Crawler)'  BY <1>1, <1>2, <1>4, <1>5, PathIs DEF Doing, Timed, Fetchers, Updaters
<1> QED  BY <1>1, <1>3, <1>4, <1>6 DEF Gets

LEMMA InvalidateEffect ==
  ASSUME Typed, Invalidate, db' = db, disk' = disk
  PROVE  /\ Others(Crawler) /\ thr'[Crawler] \in ThreadRec /\ Doing(Crawler)'
         /\ thr[Crawler].pc = "invalidate" /\ thr'[Crawler].pc = "decide"
         /\ thr'[Crawler].this = thr[Crawler].this /\ thr'[Crawler].item = thr[Crawler].item
         /\ thr'[Crawler].of = thr[Crawler].of /\ thr'[Crawler].path = thr[Crawler].path
         /\ thr'[Crawler].kids = thr[Crawler].kids /\ thr'[Crawler].next = thr[Crawler].next
         /\ cache' \in [Dir -> CacheRec] /\ Elsewhere(Top)
         /\ cache'[Top].here = cache[Top].here /\ cache'[Top].eff = cache[Top].eff
         /\ cache'[Top].most = cache[Top].most /\ cache'[Top].full = cache[Top].full
         /\ cache'[Top].kids = cache[Top].kids /\ cache'[Top].entry = cache[Top].entry
         /\ cache'[Top].db = cache[Top].db /\ cache'[Top].fetching = cache[Top].fetching
<1> DEFINE w == cache[Top].full
           s == [thr[Crawler] EXCEPT !.pc = "decide", !.was = w]
<1>1. thr[Crawler].pc = "invalidate" /\ Goes(Crawler, s)
      /\ cache' = [cache EXCEPT ![Top].set = FALSE]
  BY DEF Invalidate, At
<1>2. thr'[Crawler] = s /\ Others(Crawler)  BY <1>1, CrawlerIs, GoesTo DEF Typed
<1>3. thr[Crawler] \in ThreadRec /\ w \in Status /\ Doing(Crawler)
  BY CrawlerIs, ThreadIs, CacheIs
<1>4. s \in ThreadRec  BY <1>3, LabelIs DEF ThreadRec
<1>5. s.pc = "decide" /\ s.seen = thr[Crawler].seen /\ s.this = thr[Crawler].this
      /\ s.item = thr[Crawler].item /\ s.of = thr[Crawler].of /\ s.path = thr[Crawler].path
      /\ s.fetch = thr[Crawler].fetch /\ s.kids = thr[Crawler].kids
      /\ s.next = thr[Crawler].next
  BY <1>3 DEF ThreadRec
<1> HIDE DEF s
<1>6. Doing(Crawler)'  BY <1>1, <1>2, <1>3, <1>5 DEF Doing, Timed, Fetchers, Updaters
<1>7. PICK x \in CacheRec : x = cache[Top]  BY CrawlerIs, CacheIs
<1>8. PICK z : z = [x EXCEPT !.set = FALSE]  OBVIOUS
<1>9. /\ z \in CacheRec /\ z.here = x.here /\ z.eff = x.eff /\ z.most = x.most
      /\ z.full = x.full /\ z.kids = x.kids /\ z.entry = x.entry /\ z.db = x.db
      /\ z.fetching = x.fetching
  BY <1>8 DEF CacheRec
<1>10. cache \in [Dir -> CacheRec] /\ Top \in Dir  BY CrawlerIs DEF Typed, CacheType
<1>11. cache' = [cache EXCEPT ![Top] = z]  BY <1>1, <1>7, <1>8, <1>10
<1>12. cache' \in [Dir -> CacheRec] /\ Elsewhere(Top) /\ cache'[Top] = z
  BY <1>9, <1>10, <1>11 DEF Elsewhere
<1> QED  BY <1>1, <1>2, <1>4, <1>5, <1>6, <1>7, <1>9, <1>12

LEMMA RefreshEffect ==
  ASSUME Typed, Refresh, db' = db, disk' = disk, NEW d, d = thr[Crawler].of
  PROVE  /\ Others(Crawler) /\ thr'[Crawler] \in ThreadRec /\ Doing(Crawler)'
         /\ thr[Crawler].pc = "answer" /\ thr'[Crawler].pc \in {"decide", "done"}
         /\ thr[Crawler].item \in {"db", "folder"} /\ ~thr[Crawler].path.file
         /\ thr'[Crawler].this = d /\ thr'[Crawler].item = thr[Crawler].item
         /\ thr'[Crawler].of = d /\ thr'[Crawler].path.file
         /\ thr'[Crawler].kids = Known(d) /\ thr'[Crawler].next = "answer"
         /\ lost' = lost \cup UNION {Below[c] : c \in Children(d) \ Known(d)}
<1>0. PICK k : k = Known(d)  OBVIOUS
<1>1. PICK pc \in {"decide", "done"} :
        Goes(Crawler, [thr[Crawler] EXCEPT !.kids = k, !.pc = pc, !.this = d, !.path = File(d)])
  BY <1>0 DEF Refresh
<1> DEFINE s == [thr[Crawler] EXCEPT !.kids = k, !.pc = pc, !.this = d, !.path = File(d)]
<1>2. thr[Crawler].pc = "answer" /\ thr[Crawler].item \in {"db", "folder"}
      /\ thr[Crawler].path = Folder(d)
      /\ lost' = lost \cup UNION {Below[c] : c \in Children(d) \ Known(d)}
  BY DEF Refresh, At
<1>3. thr'[Crawler] = s /\ Others(Crawler)  BY <1>1, CrawlerIs, GoesTo DEF Typed
<1>4. thr[Crawler] \in ThreadRec /\ d \in Dir /\ Doing(Crawler)
  BY CrawlerIs, ThreadIs
<1>5. k \subseteq Dir  BY <1>0 DEF Known
<1>6. s \in ThreadRec
  <2>1. File(d) \in [file : BOOLEAN, dir : Dir] /\ pc \in Labels  BY <1>4, PathIs, LabelIs
  <2> QED  BY <1>4, <1>5, <2>1 DEF ThreadRec
<1>7. s.pc = pc /\ s.seen = thr[Crawler].seen /\ s.this = d
      /\ s.item = thr[Crawler].item /\ s.of = d /\ s.path = File(d)
      /\ s.fetch = thr[Crawler].fetch /\ s.kids = k
      /\ s.next = thr[Crawler].next
  BY <1>4 DEF ThreadRec
<1>8. thr[Crawler].next = "answer"
  <2>1. thr[Crawler].next \in Nexts  BY CrawlerIs, ThreadIs
  <2> QED  BY <1>2, <1>4, <2>1 DEF Doing, Nexts, Updaters
<1> HIDE DEF s
<1>9. Doing(Crawler)'  BY <1>2, <1>3, <1>4, <1>7, <1>8, PathIs DEF Doing, Timed, Fetchers, Updaters
<1> QED  BY <1>0, <1>2, <1>3, <1>4, <1>6, <1>7, <1>8, <1>9, PathIs

LEMMA RefreshedEffect ==
  ASSUME Typed, Refreshed, db' = db, disk' = disk
  PROVE  /\ Others(Crawler) /\ thr'[Crawler] \in ThreadRec /\ Doing(Crawler)'
         /\ thr[Crawler].pc = "answer" /\ thr'[Crawler].pc = "done"
         /\ thr[Crawler].path.file /\ Like(thr'[Crawler], thr[Crawler])
         /\ thr'[Crawler].next = thr[Crawler].next
<1> DEFINE s == [thr[Crawler] EXCEPT !.pc = "done"]
<1>1. thr[Crawler].pc = "answer" /\ Goes(Crawler, s)
      /\ thr[Crawler].item \in {"db", "folder"} /\ thr[Crawler].path = File(thr[Crawler].of)
  BY DEF Refreshed, At, To
<1>2. thr'[Crawler] = s /\ Others(Crawler)  BY <1>1, CrawlerIs, GoesTo DEF Typed
<1>3. thr[Crawler] \in ThreadRec /\ Doing(Crawler) /\ thr[Crawler].of \in Dir
  BY CrawlerIs, ThreadIs
<1>4. s \in ThreadRec  BY <1>3, LabelIs DEF ThreadRec
<1>5. s.pc = "done" /\ s.seen = thr[Crawler].seen /\ s.this = thr[Crawler].this
      /\ s.item = thr[Crawler].item /\ s.of = thr[Crawler].of /\ s.path = thr[Crawler].path
      /\ s.fetch = thr[Crawler].fetch /\ s.kids = thr[Crawler].kids
      /\ s.next = thr[Crawler].next /\ s.was = thr[Crawler].was
  BY <1>3 DEF ThreadRec
<1> HIDE DEF s
<1>6. thr[Crawler].path.file  BY <1>1, <1>3, PathIs
<1>7. Doing(Crawler)'  BY <1>1, <1>2, <1>3, <1>5, <1>6 DEF Doing, Timed, Fetchers, Updaters
<1> QED  BY <1>1, <1>2, <1>4, <1>5, <1>6, <1>7 DEF Like

-----------------------------------------------------------------------------

LEMMA TailHas ==
  ASSUME NEW X, NEW q \in Seq(X), q # <<>>
  PROVE  /\ Tail(q) \in Seq(X) /\ Head(q) \in X
         /\ \A y \in Elements(q) : y = Head(q) \/ y \in Elements(Tail(q))
         /\ Head(q) \in Elements(q)
<1>1. PICK p : p = Tail(q)  OBVIOUS
<1>2. /\ p \in Seq(X) /\ Len(p) = Len(q) - 1 /\ Len(q) \in Nat /\ Len(q) # 0
      /\ \A i \in 1 .. Len(p) : p[i] = q[i + 1]
      /\ Head(q) = q[1] /\ Head(q) \in X
  BY <1>1, HeadTailProperties, LenProperties, EmptySeq
<1>3. ASSUME NEW y \in Elements(q), y # Head(q) PROVE y \in Elements(p)
  <2>1. PICK i \in 1 .. Len(q) : q[i] = y  BY <1>3, InQueue
  <2>2. i - 1 \in 1 .. Len(p) /\ p[i - 1] = y  BY <1>2, <1>3, <2>1
  <2> QED  BY <1>2, <2>2 DEF Elements
<1>4. Head(q) \in Elements(q)
  <2>1. 1 \in 1 .. Len(q)  BY <1>2
  <2> QED  BY <1>2, <2>1 DEF Elements
<1> QED  BY <1>1, <1>2, <1>3, <1>4

LEMMA CountsEffect ==
  ASSUME Typed, NEW kind \in {"edits", "commits", "asks", "blocks"}, NEW max \in Nat,
         Counts(kind, max), kind = "edits" => max = MaxEdits, kind = "commits" => max = MaxCommits,
         kind = "asks" => max = MaxAsks, kind = "blocks" => max = MaxBlocks
  PROVE  /\ count' \in [edits : 0 .. MaxEdits, commits : 0 .. MaxCommits,
                        asks : 0 .. MaxAsks, blocks : 0 .. MaxBlocks]
         /\ count'.edits = count.edits + (IF kind = "edits" THEN 1 ELSE 0)
         /\ count'.commits = count.commits + (IF kind = "commits" THEN 1 ELSE 0)
         /\ count.edits \in Nat /\ count.commits \in Nat
<1>1. /\ count \in [edits : 0 .. MaxEdits, commits : 0 .. MaxCommits,
                    asks : 0 .. MaxAsks, blocks : 0 .. MaxBlocks]
      /\ MaxEdits \in Nat /\ MaxCommits \in Nat /\ MaxAsks \in Nat /\ MaxBlocks \in Nat
  BY CacheAssumption DEF Typed, WorldType, CacheAssumption
<1>2. count' = [count EXCEPT ![kind] = @ + 1] /\ count[kind] < max  BY DEF Counts
<1>3. CASE kind = "edits"  BY <1>1, <1>2, <1>3
<1>4. CASE kind = "commits"  BY <1>1, <1>2, <1>4
<1>5. CASE kind = "asks"  BY <1>1, <1>2, <1>5
<1>6. CASE kind = "blocks"  BY <1>1, <1>2, <1>6
<1> QED  BY <1>3, <1>4, <1>5, <1>6

LEMMA Bounded == MaxEdits \in Nat /\ MaxCommits \in Nat /\ MaxAsks \in Nat /\ MaxBlocks \in Nat
BY CacheAssumption DEF CacheAssumption

LEMMA EditEffect ==
  ASSUME Typed, NEW d \in Dir, Edit(d)
  PROVE  /\ disk' \in [Dir -> [st : {"normal", "modified"}, time : Nat]]
         /\ disk'[d].time = disk[d].time + 1
         /\ \A x \in Dir : x # d => disk'[x] = disk[x]
         /\ Typed'
<1>1. PICK s \in {"normal", "modified"} :
        disk' = [disk EXCEPT ![d] = [st |-> s, time |-> @.time + 1]]
  BY DEF Edit
<1>2. disk \in [Dir -> [st : {"normal", "modified"}, time : Nat]]  BY DEF Typed, WorldType
<1>3. PICK n \in Nat : n = disk[d].time + 1  BY <1>2
<1>4. disk' = [disk EXCEPT ![d] = [st |-> s, time |-> n]]  BY <1>1, <1>2, <1>3
<1>5. /\ disk' \in [Dir -> [st : {"normal", "modified"}, time : Nat]]
      /\ disk'[d].time = n
      /\ \A x \in Dir : x # d => disk'[x] = disk[x]
  BY <1>2, <1>4
<1>6. /\ count' \in [edits : 0 .. MaxEdits, commits : 0 .. MaxCommits,
                     asks : 0 .. MaxAsks, blocks : 0 .. MaxBlocks]
      /\ count'.edits = count.edits + 1 /\ count'.commits = count.commits + 0
      /\ count.edits \in Nat /\ count.commits \in Nat
  BY Bounded, CountsEffect DEF Edit
<1>7. /\ UNCHANGED <<db, blocked, dbSeen, cache, queues, thr, blank, lost>>
      /\ events' = events \cup {d}
  BY DEF Edit
<1>8. \A x \in Dir : /\ disk[x].time \in Nat /\ disk'[x].time \in Nat
                     /\ disk[x].time <= disk'[x].time /\ disk'[x].time <= count'.edits
  <2> TAKE x \in Dir
  <2>1. disk[x].time <= count.edits  BY DEF Typed, WorldType
  <2>2. disk[x].time \in Nat  BY <1>2
  <2>3. CASE x = d  BY <1>3, <1>5, <1>6, <2>1, <2>2, <2>3
  <2>4. CASE x # d  BY <1>5, <1>6, <2>1, <2>2, <2>4
  <2> QED  BY <2>3, <2>4
<1>9. WorldType'
  <2>1. db' = count'.commits + 1  BY <1>6, <1>7 DEF Typed, WorldType
  <2> QED  BY <1>5, <1>6, <1>7, <1>8, <2>1 DEF Typed, WorldType, queues
<1>10. db <= db'  BY <1>7, WorldIs
<1>11. Typed'  BY <1>7, <1>8, <1>9, <1>10, CacheKept, ThreadsKept DEF Typed
<1> QED  BY <1>3, <1>5, <1>11

LEMMA CommitEffect ==
  ASSUME Typed, NEW d \in Dir, Commit(d)
  PROVE  /\ db' = db + 1 /\ \A x \in Dir : disk'[x].time = disk[x].time
         /\ \A x \in Dir : x # d => disk'[x] = disk[x]
         /\ Typed'
<1>2. disk \in [Dir -> [st : {"normal", "modified"}, time : Nat]]  BY DEF Typed, WorldType
<1>4. disk' = [disk EXCEPT ![d].st = "normal"]  BY DEF Commit
<1>5. /\ disk' \in [Dir -> [st : {"normal", "modified"}, time : Nat]]
      /\ \A x \in Dir : disk'[x].time = disk[x].time
      /\ \A x \in Dir : x # d => disk'[x] = disk[x]
  BY <1>2, <1>4
<1>6. /\ count' \in [edits : 0 .. MaxEdits, commits : 0 .. MaxCommits,
                     asks : 0 .. MaxAsks, blocks : 0 .. MaxBlocks]
      /\ count'.edits = count.edits + 0 /\ count'.commits = count.commits + 1
      /\ count.edits \in Nat /\ count.commits \in Nat
  BY Bounded, CountsEffect DEF Commit
<1>7. /\ UNCHANGED <<blocked, dbSeen, cache, queues, thr, blank, lost>>
      /\ events' = events \cup {Database} /\ db' = db + 1
  BY DEF Commit
<1>8. \A x \in Dir : /\ disk[x].time \in Nat
                     /\ disk[x].time <= disk'[x].time /\ disk'[x].time <= count'.edits
  <2> TAKE x \in Dir
  <2>1. disk[x].time <= count.edits  BY DEF Typed, WorldType
  <2>2. disk[x].time \in Nat  BY <1>2
  <2> QED  BY <1>5, <1>6, <2>1, <2>2
<1>10. db <= db' /\ dbSeen \in 0 .. db'  BY <1>7, WorldIs
<1>9. WorldType'
  <2>1. db' = count'.commits + 1  BY <1>6, <1>7 DEF Typed, WorldType
  <2> QED  BY <1>5, <1>6, <1>7, <1>8, <1>10, <2>1 DEF Typed, WorldType, queues
<1>11. Typed'  BY <1>7, <1>8, <1>9, <1>10, CacheKept, ThreadsKept DEF Typed
<1> QED  BY <1>5, <1>7, <1>11

\* A step that leaves the files and the cache alone.
LEMMA QuietStep ==
  ASSUME Typed, disk' = disk, db' = db, cache' = cache, WorldType',
         thr' = thr \/ (\E t \in Thread : Others(t) /\ thr'[t] \in ThreadRec /\ Doing(t)')
  PROVE  Typed'
<1>1. db <= db' /\ \A x \in Dir : disk[x].time <= disk'[x].time  BY WorldIs
<1>2. CacheType'  BY <1>1, CacheKept
<1>3. ThreadType'
  <2>1. CASE thr' = thr  BY <1>1, <2>1, ThreadsKept
  <2>2. CASE \E t \in Thread : Others(t) /\ thr'[t] \in ThreadRec /\ Doing(t)'
    BY <2>2, ThreadStep
  <2> QED  BY <2>1, <2>2
<1> QED  BY <1>2, <1>3 DEF Typed

LEMMA NotifyTyped == ASSUME Typed, NEW e, Notify(e) PROVE Typed'
<1>1. /\ UNCHANGED <<disk, db, blocked, dbSeen, cache, folders, added, thr, count, blank>>
      /\ events' = events \ {e} /\ e \in events
      /\ \/ UNCHANGED <<paths, woken>>
         \/ paths' = Push(paths, e) /\ woken' = TRUE
      /\ lost' = lost \/ lost' = lost \cup (IF e = Database THEN Dir ELSE {e})
  BY DEF Notify
<1>2. paths \in Seq(Dir \cup {Database}) /\ e \in Dir \cup {Database} /\ lost \subseteq Dir
  BY <1>1 DEF Typed, WorldType
<1>3. paths' \in Seq(Dir \cup {Database})
  <2>1. Push(paths, e) \in Seq(Dir \cup {Database})  BY <1>2, PushHas
  <2> QED  BY <1>1, <1>2, <2>1
<1>4. lost' \subseteq Dir  BY <1>1, <1>2
<1>5. WorldType'  BY <1>1, <1>3, <1>4 DEF Typed, WorldType
<1> QED  BY <1>1, <1>5, QuietStep

LEMMA BlockTyped == ASSUME Typed, Block PROVE Typed'
<1>1. /\ UNCHANGED <<disk, db, events, dbSeen, cache, queues, thr, blank, lost>>
      /\ blocked' = TRUE
  BY DEF Block
<1>2. /\ count' \in [edits : 0 .. MaxEdits, commits : 0 .. MaxCommits,
                     asks : 0 .. MaxAsks, blocks : 0 .. MaxBlocks]
      /\ count'.edits = count.edits + 0 /\ count'.commits = count.commits + 0
      /\ count.edits \in Nat /\ count.commits \in Nat
  BY Bounded, CountsEffect DEF Block
<1>3. count'.edits = count.edits /\ count'.commits = count.commits  BY <1>2
<1>4. WorldType'  BY <1>1, <1>2, <1>3 DEF Typed, WorldType, queues
<1> QED  BY <1>1, <1>4, QuietStep

LEMMA UnBlockPathTyped ==
  ASSUME Typed, NEW d \in Dir, UnBlockPath(d), UNCHANGED <<world, dbSeen, cache, thr, blank>>
  PROVE  Typed'
<1>1. Push(folders, d) \in Seq(Dir)
  BY PushHas DEF Typed, WorldType
<1>2. WorldType'  BY <1>1 DEF Typed, WorldType, UnBlockPath, world
<1> QED  BY <1>2, QuietStep DEF world

LEMMA AskEffect ==
  ASSUME Typed, NEW t \in Client, NEW p \in [file : BOOLEAN, dir : Dir], Ask(t, p),
         p.file \/ p.dir # Top
  PROVE  /\ Others(t) /\ thr'[t] \in ThreadRec /\ Doing(t)'
         /\ thr[t].pc = "idle" /\ thr'[t].pc = "enter" /\ thr'[t].next = "answer"
         /\ thr'[t].item = "ask"
         /\ Typed'
<1> DEFINE q == IF p.file THEN p.dir ELSE Parent[p.dir]
           s == [Idle EXCEPT !.pc = "enter", !.path = p, !.this = q]
<1>1. /\ UNCHANGED <<disk, db, events, blocked, dbSeen, cache, queues, blank, lost>>
      /\ thr[t].pc = "idle" /\ Goes(t, s)
  BY DEF Ask, At
<1>2. /\ count' \in [edits : 0 .. MaxEdits, commits : 0 .. MaxCommits,
                     asks : 0 .. MaxAsks, blocks : 0 .. MaxBlocks]
      /\ count'.edits = count.edits + 0 /\ count'.commits = count.commits + 0
      /\ count.edits \in Nat /\ count.commits \in Nat
  BY Bounded, CountsEffect DEF Ask
<1>3. t \in Thread /\ t # Crawler  BY CrawlerIs
<1>4. thr'[t] = s /\ Others(t)  BY <1>1, <1>3, GoesTo DEF Typed
<1>5. q \in Dir  BY ParentAbove
<1>6. s \in ThreadRec  BY <1>5, IdleType, LabelIs DEF ThreadRec
<1>7. s.pc = "enter" /\ s.item = "ask" /\ s.next = "answer" /\ s.seen = 0 /\ ~s.fetch
  BY IdleType DEF ThreadRec
<1> HIDE DEF s, q
<1>8. Doing(t)'
  <2>1. db' \in Nat  BY <1>1, WorldIs
  <2> QED  BY <1>3, <1>4, <1>7, <2>1 DEF Doing, Timed, Fetchers, Updaters
<1>9. WorldType'
  <2>1. count'.edits = count.edits /\ count'.commits = count.commits  BY <1>2
  <2> QED  BY <1>1, <1>2, <2>1 DEF Typed, WorldType, queues
<1>10. Typed'  BY <1>1, <1>3, <1>4, <1>6, <1>8, <1>9, QuietStep
<1> QED  BY <1>1, <1>4, <1>6, <1>7, <1>8, <1>10

-----------------------------------------------------------------------------

LEMMA LoopTyped ==
  ASSUME Typed, NEW pc \in {"idle", "asleep", "folders"}, Loop(pc),
         disk' = disk, db' = db, cache' = cache, WorldType'
  PROVE  Typed'
BY LoopEffect, QuietStep, CrawlerIs DEF Loops

LEMMA CrawlsTyped == ASSUME Typed, Inv, Crawls PROVE Typed'
<1>1. CASE Wake \/ Sleep \/ NoFolder
  <2>1. WorldType'
    BY <1>1 DEF Typed, WorldType, Wake, Sleep, NoFolder, world, queues
  <2>2. disk' = disk /\ db' = db /\ cache' = cache
        /\ \E pc \in {"idle", "asleep", "folders"} : Loop(pc)
    BY <1>1 DEF Wake, Sleep, NoFolder, world, queues
  <2> QED  BY <2>1, <2>2, LoopTyped
<1>2. CASE Invalidate
  <2>1. /\ UNCHANGED <<world, blocked, dbSeen, queues, blank, lost>>
    BY <1>2 DEF Invalidate
  <2>2. disk' = disk /\ db' = db  BY <2>1 DEF world
  <2>3. WorldType'  BY <2>1 DEF Typed, WorldType, world, queues
  <2>4. /\ Others(Crawler) /\ thr'[Crawler] \in ThreadRec /\ Doing(Crawler)'
        /\ cache' \in [Dir -> CacheRec] /\ Elsewhere(Top)
        /\ cache'[Top].here = cache[Top].here /\ thr[Crawler].pc = "invalidate"
        /\ cache'[Top].kids = cache[Top].kids /\ cache'[Top].entry = cache[Top].entry
        /\ cache'[Top].db = cache[Top].db
    BY <1>2, <2>2, InvalidateEffect
  <2>5. cache[Top].here
    <3>1. thr[Crawler].item = "db" /\ thr[Crawler].of = Top
      BY <2>4, CrawlerIs, ThreadIs DEF Doing
    <3> QED  BY <2>4, <3>1, CrawlerIs DEF Inv, Local, Outside
  <2>6. Bounds(Top)'  BY <2>2, <2>4, <2>5, CacheIs, CrawlerIs DEF Bounds
  <2>7. CacheType'
    <3>1. Frame  BY <2>1 DEF Frame, world
    <3>2. ASSUME NEW x \in Dir, x # Top PROVE Bounds(x)'
      BY <2>4, <3>1, <3>2, BoundsKept DEF Elsewhere
    <3> QED  BY <2>4, <2>6, <3>2 DEF CacheType
  <2>8. ThreadType'  BY <2>2, <2>4, CrawlerIs, ThreadStep
  <2> QED  BY <2>3, <2>7, <2>8 DEF Typed
<1>3. CASE Refresh
  <2>1. UNCHANGED <<world, blocked, dbSeen, cache, queues, blank>>  BY <1>3 DEF Refresh
  <2>2. disk' = disk /\ db' = db /\ cache' = cache  BY <2>1 DEF world
  <2>3. PICK d \in Dir : d = thr[Crawler].of  BY CrawlerIs, ThreadIs
  <2>4. /\ Others(Crawler) /\ thr'[Crawler] \in ThreadRec /\ Doing(Crawler)'
        /\ lost' = lost \cup UNION {Below[c] : c \in Children(d) \ Known(d)}
    BY <1>3, <2>2, <2>3, RefreshEffect
  <2>5. lost' \subseteq Dir
    <3>1. \A c \in Children(d) : Below[c] \subseteq Dir  BY BelowSelf DEF Children
    <3> QED  BY <2>4, <3>1 DEF Typed, WorldType
  <2>6. WorldType'  BY <2>1, <2>5 DEF Typed, WorldType, world, queues
  <2> QED  BY <2>2, <2>4, <2>6, QuietStep, CrawlerIs
<1>4. CASE Refreshed
  <2>1. UNCHANGED <<world, blocked, dbSeen, cache, queues, blank, lost>>
    BY <1>4 DEF Refreshed
  <2>2. disk' = disk /\ db' = db /\ cache' = cache  BY <2>1 DEF world
  <2>3. WorldType'  BY <2>1 DEF Typed, WorldType, world, queues
  <2> QED  BY <1>4, <2>2, <2>3, RefreshedEffect, QuietStep, CrawlerIs
<1>5. ASSUME NEW e \in Dir \cup {Database}, TakePath(e) PROVE Typed'
  <2>1. /\ UNCHANGED <<world, blocked, cache, folders, added, woken, blank>>
        /\ paths # <<>> /\ paths' = Tail(paths)
        /\ dbSeen' = (IF ~blocked /\ e = Database /\ dbSeen # 0 THEN db ELSE dbSeen)
    BY <1>5 DEF TakePath
  <2>2. disk' = disk /\ db' = db /\ cache' = cache  BY <2>1 DEF world
  <2>3. paths' \in Seq(Dir \cup {Database})  BY <2>1, TailHas DEF Typed, WorldType
  <2>4. dbSeen' \in 0 .. db  BY <2>1, WorldIs
  <2>5. lost' \subseteq Dir
    <3>1. lost \subseteq Dir  BY DEF Typed, WorldType
    <3>2. \/ lost' = lost
          \/ lost' = lost \cup (IF e = Database THEN Dir ELSE {e})
          \/ lost' = lost \cup {d \in Dir : cache[d].db \notin {0, db}}
      BY <1>5 DEF TakePath
    <3> QED  BY <3>1, <3>2
  <2>6. WorldType'  BY <2>1, <2>3, <2>4, <2>5 DEF Typed, WorldType, world
  <2>7. CASE thr' = thr  BY <2>2, <2>6, <2>7, QuietStep
  <2>8. CASE Item("db", Top, Folder(Top))
    <3>1. Gets("db", Top, Folder(Top))  BY <2>2, <2>8, ItemEffect, CrawlerIs
    <3> QED  BY <2>2, <2>6, <3>1, QuietStep, CrawlerIs DEF Gets
  <2>9. CASE e # Database /\ Item("file", e, File(e))
    <3>1. Gets("file", e, File(e))  BY <2>2, <2>9, ItemEffect
    <3> QED  BY <2>2, <2>6, <3>1, QuietStep, CrawlerIs DEF Gets
  <2> QED  BY <1>5, <2>7, <2>8, <2>9 DEF TakePath
<1>6. ASSUME NEW d \in Dir, TakeFolder(d) PROVE Typed'
  <2>1. /\ UNCHANGED <<world, blocked, dbSeen, cache, paths, woken, blank>>
        /\ folders # <<>> /\ folders' = Tail(folders) /\ added' = FALSE
        /\ lost' = lost \/ lost' = lost \cup Below[d]
    BY <1>6 DEF TakeFolder
  <2>2. disk' = disk /\ db' = db /\ cache' = cache  BY <2>1 DEF world
  <2>3. folders' \in Seq(Dir)  BY <2>1, TailHas DEF Typed, WorldType
  <2>4. lost' \subseteq Dir  BY <2>1, BelowSelf DEF Typed, WorldType
  <2>5. WorldType'  BY <2>1, <2>3, <2>4 DEF Typed, WorldType, world
  <2>6. CASE Loop("idle")  BY <2>2, <2>5, <2>6, LoopTyped
  <2>7. CASE Item("folder", d, Folder(d))
    <3>1. Gets("folder", d, Folder(d))  BY <2>2, <2>7, ItemEffect
    <3> QED  BY <2>2, <2>5, <3>1, QuietStep, CrawlerIs DEF Gets
  <2> QED  BY <1>6, <2>6, <2>7 DEF TakeFolder
<1>7. CASE DoneFolder
  <2>0. PICK d \in Dir : d = thr[Crawler].of  BY CrawlerIs, ThreadIs
  <2>00. PICK S \in SUBSET Dir : S = thr[Crawler].kids  BY CrawlerIs, ThreadIs
  <2>01. PICK all : all = IF blocked THEN folders ELSE PushAll(folders, S)  OBVIOUS
  <2>1. /\ UNCHANGED <<world, blocked, dbSeen, cache, paths, blank>>
        /\ folders' = Erase(all, d) \/ folders' = all
        /\ added' = (added \/ (S # {} /\ ~blocked))
        /\ woken' = (woken \/ (S # {} /\ ~blocked))
        /\ lost' = lost \cup Below[d] \cup Dropped(S) \/ lost' = lost \cup Dropped(S)
        /\ Loop("idle")
    BY <1>7, <2>0, <2>00, <2>01 DEF DoneFolder
  <2>2. disk' = disk /\ db' = db /\ cache' = cache  BY <2>1 DEF world
  <2>3. all \in Seq(Dir)  BY <2>01, PushAllHas DEF Typed, WorldType
  <2>4. folders' \in Seq(Dir)  BY <2>1, <2>3, EraseKeeps
  <2>5. lost' \subseteq Dir
    <3>1. Below[d] \subseteq Dir /\ Dropped(S) \subseteq Dir  BY BelowSelf, DroppedType
    <3> QED  BY <2>1, <3>1 DEF Typed, WorldType
  <2>6. added' \in BOOLEAN /\ woken' \in BOOLEAN  BY <2>1
  <2>7. WorldType'  BY <2>1, <2>4, <2>5, <2>6 DEF Typed, WorldType, world
  <2> QED  BY <2>1, <2>2, <2>7, LoopTyped
<1>8. CASE DoneDatabase
  <2>00. PICK S \in SUBSET Dir : S = thr[Crawler].kids  BY CrawlerIs, ThreadIs
  <2>1. /\ UNCHANGED <<world, blocked, dbSeen, cache>>
        /\ Crawl(S) /\ lost' = lost \cup Dropped(S) /\ blank' \subseteq blank
        /\ Loop("folders")
    BY <1>8, <2>00 DEF DoneDatabase
  <2>2. disk' = disk /\ db' = db /\ cache' = cache  BY <2>1 DEF world
  <2>3. QueuesGrow  BY <2>1, CrawlEffect
  <2>4. lost' \subseteq Dir /\ blank' \subseteq Dir
    BY <2>1, DroppedType DEF Typed, WorldType
  <2>5. WorldType'  BY <2>1, <2>3, <2>4 DEF Typed, WorldType, world, QueuesGrow
  <2> QED  BY <2>1, <2>2, <2>5, LoopTyped
<1>9. CASE DoneFile
  <2>0. PICK d \in Dir : d = thr[Crawler].of  BY CrawlerIs, ThreadIs
  <2>1. /\ UNCHANGED <<world, blocked, dbSeen, cache, folders, added, woken>>
        /\ paths' = Erase(paths, d) /\ lost' \subseteq lost \cup {d} /\ blank' \subseteq blank
        /\ Loop("folders")
    BY <1>9, <2>0 DEF DoneFile
  <2>2. disk' = disk /\ db' = db /\ cache' = cache  BY <2>1 DEF world
  <2>3. paths' \in Seq(Dir \cup {Database})  BY <2>1, EraseKeeps DEF Typed, WorldType
  <2>4. WorldType'  BY <2>1, <2>3 DEF Typed, WorldType, world
  <2> QED  BY <2>1, <2>2, <2>4, LoopTyped
<1> QED
  BY <1>1, <1>2, <1>3, <1>4, <1>5, <1>6, <1>7, <1>8, <1>9, WorkTyped, CrawlerIs DEF Crawls

LEMMA NextTyped == ASSUME Typed, Inv, [Next]_vars PROVE Typed'
<1>1. ASSUME NEW d \in Dir, Edit(d) \/ Commit(d) PROVE Typed'
  BY <1>1, EditEffect, CommitEffect
<1>2. ASSUME NEW d \in Dir, UnBlock(d) PROVE Typed'
  BY <1>2, UnBlockPathTyped DEF UnBlock
<1>3. CASE TimedOut  BY <1>3, UnBlockPathTyped, CrawlerIs DEF TimedOut
<1>4. CASE Block \/ \E e \in events : Notify(e)  BY <1>4, BlockTyped, NotifyTyped
<1>5. CASE Crawls \/ \E t \in Client : Work(t)
  BY <1>5, CrawlsTyped, WorkTyped, CrawlerIs
<1>6. CASE \E t \in Client : \/ \E d \in Dir : Ask(t, File(d))
                             \/ \E d \in Dir \ {Top} : Ask(t, Folder(d))
  BY <1>6, AskEffect, PathIs
<1>7. CASE UNCHANGED vars
  <2>1. WorldType'  BY <1>7 DEF vars, queues, world, Typed, WorldType
  <2>2. disk' = disk /\ db' = db /\ cache' = cache /\ thr' = thr
    BY <1>7 DEF vars, queues, world
  <2> QED  BY <2>1, <2>2, QuietStep
<1> QED  BY <1>1, <1>2, <1>3, <1>4, <1>5, <1>6, <1>7 DEF Next, Progress

LEMMA InitTyped == Init => Typed
<1> SUFFICES ASSUME Init PROVE Typed  OBVIOUS
<1> USE DEF Init
<1>1. WorldType
  <2>1. \A d \in Dir : disk[d] = [st |-> "normal", time |-> 0]  OBVIOUS
  <2>2. disk \in [Dir -> [st : {"normal", "modified"}, time : Nat]]  OBVIOUS
  <2>3. paths \in Seq(Dir \cup {Database}) /\ folders \in Seq(Dir)  BY EmptySeq
  <2>4. count \in [edits : 0 .. MaxEdits, commits : 0 .. MaxCommits,
                   asks : 0 .. MaxAsks, blocks : 0 .. MaxBlocks]
        /\ count.edits = 0 /\ count.commits = 0
    BY Bounded
  <2>5. \A d \in Dir : disk[d].time <= count.edits  BY <2>1, <2>4
  <2>6. db = count.commits + 1 /\ dbSeen \in 0 .. db
    <3>1. db = 1 /\ dbSeen = 0  OBVIOUS
    <3> QED  BY <2>4, <3>1
  <2>7. /\ events \subseteq Dir \cup {Database} /\ blocked \in BOOLEAN
        /\ added \in BOOLEAN /\ woken \in BOOLEAN /\ blank \subseteq Dir /\ lost \subseteq Dir
    OBVIOUS
  <2> HIDE DEF Init
  <2> QED  BY <2>2, <2>3, <2>4, <2>5, <2>6, <2>7 DEF WorldType
<1>2. CacheType
  <2>1. \A d \in Dir : cache[d] = Fresh  OBVIOUS
  <2>2. cache \in [Dir -> CacheRec]  BY FreshType
  <2>3. ASSUME NEW d \in Dir PROVE Bounds(d)
    <3>1. PICK f : f = Fresh  OBVIOUS
    <3>2. f.entry.time = -1 /\ f.db = 0 /\ \A c \in Dir : f.kids[c] = Unknown
      BY <3>1, FreshType DEF Fresh
    <3>3. disk[d].time = 0 /\ db = 1  OBVIOUS
    <3> QED  BY <2>1, <3>1, <3>2, <3>3 DEF Bounds
  <2> QED  BY <2>2, <2>3 DEF CacheType
<1>3. ThreadType
  <2>1. [Idle EXCEPT !.pc = "asleep"] \in ThreadRec  BY IdleType, LabelIs DEF ThreadRec
  <2>2. thr \in [Thread -> ThreadRec]  BY <2>1, IdleType
  <2>3. ASSUME NEW t \in Thread PROVE Doing(t)
    <3>1. thr[t].next = "answer" /\ thr[t].item = "ask" /\ thr[t].seen = 0
          /\ thr[t].pc \in {"idle", "asleep"} /\ ~thr[t].fetch
      BY IdleType DEF Idle
    <3>2. db = 1  OBVIOUS
    <3> QED  BY <3>1, <3>2 DEF Doing, Timed, Fetchers, Updaters
  <2> QED  BY <2>2, <2>3 DEF ThreadType
<1> QED  BY <1>1, <1>2, <1>3 DEF Typed

LEMMA TypedTypes == Typed => TypeOK
<1> SUFFICES ASSUME Typed PROVE TypeOK  OBVIOUS
<1>1. /\ disk \in [Dir -> [st : {"normal", "modified"}, time : 0 .. MaxEdits]]
  <2>1. \A d \in Dir : disk[d].time \in 0 .. MaxEdits
    <3> TAKE d \in Dir
    <3>1. disk[d].time \in Nat /\ disk[d].time <= count.edits /\ count.edits \in 0 .. MaxEdits
          /\ MaxEdits \in Nat
      BY Bounded DEF Typed, WorldType
    <3> QED  BY <3>1
  <2> QED  BY <2>1 DEF Typed, WorldType
<1>2. db \in 1 .. MaxCommits + 1 /\ dbSeen \in 0 .. db
  <2>1. count.commits \in 0 .. MaxCommits /\ db = count.commits + 1 /\ MaxCommits \in Nat
    BY Bounded DEF Typed, WorldType
  <2> QED  BY <2>1, WorldIs
<1>3. ASSUME NEW d \in Dir
      PROVE  /\ cache[d].most \in Status /\ cache[d].full \in Status
             /\ cache[d].eff \in {"none", "normal"}
             /\ cache[d].kids \in [Dir -> Status \cup {Unknown}]
             /\ cache[d].entry \in [st : Status, time : -1 .. MaxEdits]
             /\ cache[d].db \in 0 .. db
  <2>1. /\ cache[d].entry.st \in Status /\ cache[d].entry.time \in Int
        /\ cache[d].entry = [st |-> cache[d].entry.st, time |-> cache[d].entry.time]
        /\ Bounds(d) /\ cache[d].db \in Nat
    BY CacheIs
  <2>2. disk[d].time \in 0 .. MaxEdits /\ MaxEdits \in Nat /\ db \in Nat
    BY <1>1, Bounded, WorldIs
  <2>3. cache[d].entry.time \in -1 .. MaxEdits /\ cache[d].db \in 0 .. db
    BY <2>1, <2>2 DEF Bounds
  <2> QED  BY <2>1, <2>3, CacheIs
<1>4. Elements(paths) \subseteq Dir \cup {Database} /\ Elements(folders) \subseteq Dir
  BY InQueue DEF Typed, WorldType
<1> QED  BY <1>1, <1>2, <1>3, <1>4 DEF TypeOK, Typed, WorldType

\* Whatever happens, the fields keep their types, only directories are crawled,
\* and no time stamp of the database that the cache has is from the future.
THEOREM StatusTypes == Spec => []TypeOK
<1>1. Inv /\ Typed /\ [Next]_vars => Inv' /\ Typed'
  BY NextInv, NextTyped
<1> QED  BY InitInv, InitTyped, TypedTypes, <1>1, PTL DEF Spec

-----------------------------------------------------------------------------
(* What is in the cache, and who is about to put it right *)

Unlisted == {"clear", "exchange", "list", "folder", "child", "own"}
Fill == Unlisted \cup {"file", "entry"}
Fetch == Fill \cup {"end", "most", "mark"}

\* Where a thread is in the fetch of a directory, and in the update of one.
Phase(t, d) ==
  IF thr[t].this # d THEN "none"
  ELSE IF thr[t].pc \in Fetch THEN thr[t].pc
  ELSE IF thr[t].fetch /\ thr[t].pc \in {"changed", "drop", "look"} THEN "clear"
  ELSE IF thr[t].pc = "fetched" \/ thr[t].next = "fetched" THEN "past" ELSE "none"
Upd(t, d) == IF thr[t].up = d /\ thr[t].pc \in Updaters THEN thr[t].pc ELSE "none"

In(S, d) == \E t \in Thread : Phase(t, d) \in S
Updating(d) == \E t \in Thread : Upd(t, d) \in {"calc", "write"}

\* A thread is going to tell the parent what the status of d is now.
Brings(t, d) ==
  \/ Upd(t, d) \in {"calc", "write", "tell"}
  \/ Upd(t, d) \in {"compare", "put"} /\ thr[t].val = cache[d].full
Brought(d) == \E t \in Thread : Brings(t, d)

Filling(d) == In(Fill, d)
Fetching(d) == In(Fetch, d)
Cleared(d) == In({"clear", "exchange"}, d)

\* A fetch has come so far, now or before.
Listed(d) == cache[d].db # 0 \/ In({"file", "entry", "end", "most", "mark", "past"}, d)
Ended(d) == cache[d].db # 0 \/ In({"end", "most", "mark", "past"}, d)
Loaded(d) == cache[d].db # 0 \/ In({"past"}, d)

\* The folders that svn has reported, and those that it has yet to.
Done(t) ==
  (Children(thr[t].this) \ thr[t].left) \cup (IF thr[t].pc = "own" THEN {Child(t)} ELSE {})
Missing(p, c) == \E t \in Thread :
  \/ Phase(t, p) \in {"clear", "exchange", "list"}
  \/ Phase(t, p) \in Listers /\ c \notin Done(t)

HasFolders(d) ==
  d \notin lost /\ Listed(d) =>
    \/ /\ cache[d].eff = "normal"
       /\ \A c \in Children(d) : cache[d].kids[c] # Unknown /\ cache[c].here
    \/ In(Unlisted, d)
Listing(d) ==
  d \notin lost => \A t \in Thread : Phase(t, d) \in Listers =>
    \/ /\ cache[d].eff = "normal"
       /\ \A c \in Done(t) : cache[d].kids[c] # Unknown /\ cache[c].here
    \/ Cleared(d)
HasFile(d) ==
  d \notin lost /\ Ended(d) => cache[d].entry.st # "none" \/ Filling(d)
MostRight(d) ==
  d \notin lost /\ Loaded(d) =>
    cache[d].most = Important(cache[d].eff, cache[d].entry.st) \/ Fetching(d)
FullRight(d) ==
  d \notin lost /\ Loaded(d) =>
    cache[d].full = MostOf(Parts(d)) \/ Fetching(d) \/ Updating(d)
KidRight(p, c) ==
  p \notin lost /\ c \notin lost /\ Loaded(c) /\ cache[p].kids[c] # Unknown =>
    cache[p].kids[c] = cache[c].full \/ Fetching(c) \/ Brought(c) \/ Missing(p, c)

Right(d) == HasFolders(d) /\ Listing(d) /\ HasFile(d) /\ MostRight(d) /\ FullRight(d)

Contents ==
  /\ \A d \in Dir : Right(d)
  /\ \A p \in Dir : \A c \in Children(p) : KidRight(p, c)

\* A step that leaves a directory as it is; whoever is at work on it stays so.
PhaseKept(t, d) ==
  \/ Phase(t, d)' = Phase(t, d) /\ (Phase(t, d) \in Listers => Done(t)' = Done(t))
  \/ Phase(t, d) = "none" /\ Phase(t, d)' = "clear"
  \/ Phase(t, d) = "past" /\ Phase(t, d)' = "none" /\ cache'[d].db # 0
  \/ Phase(t, d) \in Listers /\ Phase(t, d)' \in Listers /\ Done(t)' = Done(t)
  \/ Phase(t, d) = "file" /\ Phase(t, d)' = "entry"
  \/ Phase(t, d) \in {"end", "most"} /\ Phase(t, d)' \in {"most", "mark"}

UpdKept(t, d) == Upd(t, d) \in {"calc", "write"} => Upd(t, d)' \in {"calc", "write"}
BringsStill(t, d) == Brings(t, d) => Brings(t, d)'

Kept(d) ==
  /\ d \in lost => d \in lost'
  /\ cache'[d].eff = cache[d].eff /\ cache'[d].most = cache[d].most
  /\ cache'[d].full = cache[d].full /\ cache'[d].kids = cache[d].kids
  /\ cache'[d].entry.st = cache[d].entry.st
  /\ cache'[d].db # 0 => cache[d].db # 0 \/ In({"past"}, d)
  /\ \A t \in Thread : PhaseKept(t, d) /\ UpdKept(t, d)

Spared(d) == Kept(d) /\ \A t \in Thread : BringsStill(t, d)

\* A step that makes the entry anew, with nobody at work in it.
Renewed(d) ==
  /\ cache'[d].db = 0 /\ \A c \in Dir : cache'[d].kids[c] = Unknown
  /\ \A t \in Thread : Phase(t, d)' = "none"

HereStays == \A d \in Dir : cache[d].here => cache'[d].here

LEMMA PhasesKeep ==
  ASSUME NEW d \in Dir, \A t \in Thread : PhaseKept(t, d),
         cache'[d].db # 0 => cache[d].db # 0 \/ In({"past"}, d)
  PROVE  /\ Listed(d)' => Listed(d)
         /\ Ended(d)' => Ended(d)
         /\ Loaded(d)' => Loaded(d)
         /\ In(Unlisted, d) => In(Unlisted, d)'
         /\ Cleared(d) => Cleared(d)'
         /\ Filling(d) => Filling(d)'
         /\ Fetching(d) => Fetching(d)'
         /\ \A c \in Dir : Missing(d, c) => Missing(d, c)'
         /\ \A t \in Thread : Phase(t, d)' \in Listers =>
                                Phase(t, d) \in Listers /\ Done(t)' = Done(t)
<1>1. Listed(d)' => Listed(d)  BY DEF Listed, In, PhaseKept, Listers
<1>2. Ended(d)' => Ended(d)  BY DEF Ended, In, PhaseKept, Listers
<1>3. Loaded(d)' => Loaded(d)  BY DEF Loaded, In, PhaseKept, Listers
<1>4. In(Unlisted, d) => In(Unlisted, d)'  BY DEF In, PhaseKept, Unlisted, Listers
<1>5. Cleared(d) => Cleared(d)'  BY DEF Cleared, In, PhaseKept, Listers
<1>6. Filling(d) => Filling(d)'  BY DEF Filling, In, PhaseKept, Fill, Unlisted, Listers
<1>7. Fetching(d) => Fetching(d)'
  BY DEF Fetching, In, PhaseKept, Fetch, Fill, Unlisted, Listers
<1>8. \A t \in Thread : Phase(t, d)' \in Listers =>
                          Phase(t, d) \in Listers /\ Done(t)' = Done(t)
  BY DEF PhaseKept, Listers
<1>9. ASSUME NEW c \in Dir, Missing(d, c) PROVE Missing(d, c)'
  <2>1. PICK t \in Thread : \/ Phase(t, d) \in {"clear", "exchange", "list"}
                            \/ Phase(t, d) \in Listers /\ c \notin Done(t)
    BY <1>9 DEF Missing
  <2>2. PhaseKept(t, d)  OBVIOUS
  <2>3. \/ Phase(t, d)' \in {"clear", "exchange", "list"}
        \/ Phase(t, d)' \in Listers /\ c \notin Done(t)'
    BY <2>1, <2>2 DEF PhaseKept, Listers
  <2> QED  BY <2>3 DEF Missing
<1> QED  BY <1>1, <1>2, <1>3, <1>4, <1>5, <1>6, <1>7, <1>8, <1>9

LEMMA KeptHas ==
  ASSUME NEW d \in Dir, Kept(d)
  PROVE  /\ d \in lost => d \in lost'
         /\ cache'[d].eff = cache[d].eff /\ cache'[d].most = cache[d].most
         /\ cache'[d].full = cache[d].full /\ cache'[d].kids = cache[d].kids
         /\ cache'[d].entry.st = cache[d].entry.st
         /\ Listed(d)' => Listed(d)
         /\ Ended(d)' => Ended(d)
         /\ Loaded(d)' => Loaded(d)
         /\ In(Unlisted, d) => In(Unlisted, d)'
         /\ Cleared(d) => Cleared(d)'
         /\ Filling(d) => Filling(d)'
         /\ Fetching(d) => Fetching(d)'
         /\ Updating(d) => Updating(d)'
         /\ \A c \in Dir : Missing(d, c) => Missing(d, c)'
         /\ \A t \in Thread : Phase(t, d)' \in Listers =>
                                Phase(t, d) \in Listers /\ Done(t)' = Done(t)
         /\ Parts(d)' = Parts(d)
<1>1. Parts(d)' = Parts(d)  BY DEF Kept, Parts, Known
<1>2. Updating(d) => Updating(d)'  BY DEF Kept, Updating, UpdKept
<1>3. (\A t \in Thread : PhaseKept(t, d)) /\ (cache'[d].db # 0 => cache[d].db # 0 \/ In({"past"}, d))
  BY DEF Kept
<1>4. /\ d \in lost => d \in lost'
      /\ cache'[d].eff = cache[d].eff /\ cache'[d].most = cache[d].most
      /\ cache'[d].full = cache[d].full /\ cache'[d].kids = cache[d].kids
      /\ cache'[d].entry.st = cache[d].entry.st
  BY DEF Kept
<1> QED  BY <1>1, <1>2, <1>3, <1>4, PhasesKeep

LEMMA RenewedHas ==
  ASSUME NEW d \in Dir, Renewed(d)
  PROVE  ~Listed(d)' /\ ~Ended(d)' /\ ~Loaded(d)' /\ \A t \in Thread : Phase(t, d)' \notin Listers
BY DEF Renewed, Listed, Ended, Loaded, In, Listers

\* What is expected of the folders depends on little.
LEMMA FoldersKept ==
  ASSUME Contents, HereStays, NEW d \in Dir, d \in lost => d \in lost',
         cache[d].eff = "normal" => cache'[d].eff = "normal", cache'[d].kids = cache[d].kids,
         Listed(d)' => Listed(d), In(Unlisted, d) => In(Unlisted, d)'
  PROVE  HasFolders(d)'
<1>1. \A c \in Children(d) : cache[c].here => cache'[c].here  BY DEF HereStays, Children
<1> QED  BY <1>1 DEF Contents, Right, HasFolders

LEMMA ListingKept ==
  ASSUME Typed, Inv, Contents, HereStays, NEW d \in Dir, d \in lost => d \in lost',
         cache[d].eff = "normal" => cache'[d].eff = "normal", cache'[d].kids = cache[d].kids,
         Cleared(d) => Cleared(d)',
         \A t \in Thread : Phase(t, d)' \in Listers =>
                             Phase(t, d) \in Listers /\ Done(t)' = Done(t)
  PROVE  Listing(d)'
<1> SUFFICES ASSUME d \notin lost', NEW t \in Thread, Phase(t, d)' \in Listers
             PROVE  \/ /\ cache'[d].eff = "normal"
                       /\ \A c \in Done(t)' : cache'[d].kids[c] # Unknown /\ cache'[c].here
                    \/ Cleared(d)'
  BY DEF Listing
<1>1. Phase(t, d) \in Listers /\ Done(t)' = Done(t) /\ d \notin lost  OBVIOUS
<1>2. \/ /\ cache[d].eff = "normal"
         /\ \A c \in Done(t) : cache[d].kids[c] # Unknown /\ cache[c].here
      \/ Cleared(d)
  BY <1>1 DEF Contents, Right, Listing
<1>3. Done(t) \subseteq Dir
  <2>1. thr[t].pc \in Listers
    BY <1>1 DEF Phase, Listers, Fetch, Fill, Unlisted
  <2> QED  BY <2>1, ChildIs DEF Done, Children
<1> QED  BY <1>1, <1>2, <1>3 DEF HereStays

LEMMA RightKept ==
  ASSUME Typed, Inv, Contents, HereStays, NEW d \in Dir, Kept(d) \/ Renewed(d)
  PROVE  Right(d)'
<1>1. CASE Renewed(d)
  BY <1>1, RenewedHas DEF Right, HasFolders, Listing, HasFile, MostRight, FullRight
<1>2. CASE Kept(d)
  <2>0. Right(d)  BY DEF Contents
  <2>1. HasFolders(d)'  BY <1>2, KeptHas, FoldersKept
  <2>2. Listing(d)'  BY <1>2, KeptHas, ListingKept
  <2>3. HasFile(d)'  BY <1>2, <2>0, KeptHas DEF Right, HasFile
  <2>4. MostRight(d)'  BY <1>2, <2>0, KeptHas DEF Right, MostRight
  <2>5. FullRight(d)'  BY <1>2, <2>0, KeptHas DEF Right, FullRight
  <2> QED  BY <2>1, <2>2, <2>3, <2>4, <2>5 DEF Right
<1> QED  BY <1>1, <1>2

\* What a folder tells its parent stays right ...
Telling(c) ==
  /\ c \in lost => c \in lost'
  /\ cache'[c].full = cache[c].full
  /\ Loaded(c)' => Loaded(c)
  /\ Fetching(c) => Fetching(c)'
  /\ Brought(c) => Brought(c)'

\* ... and what the parent knows.
Holding(p) ==
  /\ p \in lost => p \in lost'
  /\ cache'[p].kids = cache[p].kids
  /\ \A c \in Dir : Missing(p, c) => Missing(p, c)'

LEMMA SparedTells ==
  ASSUME NEW c \in Dir, Spared(c) \/ Renewed(c)
  PROVE  Telling(c) \/ ~Loaded(c)'
<1>1. CASE Spared(c)
  <2>1. Brought(c) => Brought(c)'  BY <1>1 DEF Spared, Brought, BringsStill
  <2> QED  BY <1>1, <2>1, KeptHas DEF Telling, Spared
<1>2. CASE Renewed(c)  BY <1>2, RenewedHas
<1> QED  BY <1>1, <1>2

LEMMA KeptHolds == ASSUME NEW p \in Dir, Kept(p) PROVE Holding(p)
BY KeptHas DEF Holding

LEMMA KidSame ==
  ASSUME NEW p \in Dir, NEW c \in Children(p), Contents, Holding(p), Telling(c) \/ ~Loaded(c)'
  PROVE  KidRight(p, c)'
<1>1. KidRight(p, c) /\ c \in Dir  BY DEF Contents, Children
<1>2. CASE ~Loaded(c)'  BY <1>2 DEF KidRight
<1>3. CASE Telling(c)  BY <1>1, <1>3 DEF KidRight, Telling, Holding
<1> QED  BY <1>2, <1>3

LEMMA KidKept ==
  ASSUME NEW p \in Dir, NEW c \in Children(p), Contents,
         Kept(p) \/ Renewed(p), Spared(c) \/ Renewed(c)
  PROVE  KidRight(p, c)'
<1>0. c \in Dir  BY DEF Children
<1>1. CASE Renewed(p)
  <2>1. cache'[p].kids[c] = Unknown  BY <1>0, <1>1 DEF Renewed
  <2> QED  BY <2>1 DEF KidRight
<1>2. CASE Kept(p)  BY <1>0, <1>2, KeptHolds, SparedTells, KidSame
<1> QED  BY <1>1, <1>2

LEMMA ContentsKept ==
  ASSUME Typed, Inv, Contents, HereStays, \A d \in Dir : Spared(d) \/ Renewed(d)
  PROVE  Contents'
<1>1. \A d \in Dir : Right(d)'  BY RightKept DEF Spared
<1>2. ASSUME NEW p \in Dir, NEW c \in Children(p) PROVE KidRight(p, c)'
  <2>1. c \in Dir  BY DEF Children
  <2> QED  BY <2>1, KidKept DEF Spared
<1> QED  BY <1>1, <1>2 DEF Contents

\* Some directories are not spared: what is left to show.
LEMMA ContentsBut ==
  ASSUME Typed, Inv, Contents, HereStays, NEW S \in SUBSET Dir,
         \A x \in Dir : x \notin S => Spared(x) \/ Renewed(x),
         \A x \in S : Right(x)',
         \A p \in Dir : \A c \in Children(p) : p \in S \/ c \in S => KidRight(p, c)'
  PROVE  Contents'
<1>1. \A x \in Dir : Right(x)'  BY RightKept DEF Spared
<1>2. ASSUME NEW p \in Dir, NEW c \in Children(p) PROVE KidRight(p, c)'
  <2>1. c \in Dir  BY DEF Children
  <2>2. CASE p \notin S /\ c \notin S  BY <2>1, <2>2, KidKept DEF Spared
  <2> QED  BY <2>2
<1> QED  BY <1>1, <1>2 DEF Contents

\* One directory is not spared, and the folders in it are.
LEMMA ContentsOne ==
  ASSUME Typed, Inv, Contents, HereStays, NEW d \in Dir,
         \A x \in Dir : x # d => Spared(x) \/ Renewed(x),
         Right(d)',
         \/ Holding(d)
         \/ d \in lost' \/ \A c \in Dir : cache'[d].kids[c] = Unknown \/ Missing(d, c)',
         Telling(d) \/ ~Loaded(d)' \/ d \in lost' \/ Fetching(d)' \/ Brought(d)'
  PROVE  Contents'
<1>1. ASSUME NEW p \in Dir, NEW c \in Children(p), p \in {d} \/ c \in {d}
      PROVE  KidRight(p, c)'
  <2>1. c \in Dir /\ c # Top /\ p = Parent[c]  BY DEF Children
  <2>2. p # c  BY <2>1, ParentAbove
  <2>3. CASE p = d
    <3>1. Spared(c) \/ Renewed(c)  BY <2>1, <2>2, <2>3
    <3>2. Telling(c) \/ ~Loaded(c)'  BY <2>1, <3>1, SparedTells
    <3>3. CASE Holding(d)  BY <2>3, <3>2, <3>3, KidSame
    <3>4. CASE d \in lost' \/ \A x \in Dir : cache'[d].kids[x] = Unknown \/ Missing(d, x)'
      BY <2>1, <2>3, <3>4 DEF KidRight
    <3> QED  BY <3>3, <3>4
  <2>4. CASE c = d
    <3>1. Spared(p) \/ Renewed(p)  BY <2>1, <2>2, <2>4
    <3>2. CASE Renewed(p)
      <4>1. cache'[p].kids[c] = Unknown  BY <2>1, <3>2 DEF Renewed
      <4> QED  BY <4>1 DEF KidRight
    <3>3. CASE Spared(p) /\ (Telling(d) \/ ~Loaded(d)')
      BY <2>4, <3>3, KeptHolds, KidSame DEF Spared
    <3>4. CASE d \in lost' \/ Fetching(d)' \/ Brought(d)'
      BY <2>4, <3>4 DEF KidRight
    <3> QED  BY <3>1, <3>2, <3>3, <3>4
  <2> QED  BY <1>1, <2>3, <2>4
<1> DEFINE S == {d}
<1>2. S \in SUBSET Dir /\ \A x \in S : Right(x)'  OBVIOUS
<1>3. \A x \in Dir : x \notin S => Spared(x) \/ Renewed(x)  OBVIOUS
<1>4. \A p \in Dir : \A c \in Children(p) : p \in S \/ c \in S => KidRight(p, c)'  BY <1>1
<1> HIDE DEF S
<1> QED  BY <1>2, <1>3, <1>4, ContentsBut

-----------------------------------------------------------------------------
(* Who is at work where, before and after a step *)

\* Nobody is at work in an entry that is made.
LEMMA NewIdle ==
  ASSUME Inv, Typed, NEW t \in Thread, Upgraded(t), NEW d \in Dir, d \in New(t), NEW u \in Thread
  PROVE  Phase(u, d) = "none" /\ Upd(u, d) = "none"
<1>1. thr[u].next = "fetched" => thr[u].pc \in Updaters
  BY ThreadIs DEF Doing
<1>2. CASE ~cache[d].here
  <2>1. thr[u].pc \notin Outside => thr[u].this # d  BY <1>2 DEF Inv, Local
  <2>2. thr[u].pc \in Updaters => thr[u].up # d  BY <1>2 DEF Inv, Local
  <2>3. thr[u].pc \in Outside => Phase(u, d) = "none"
    BY <1>1 DEF Phase, Outside, Fetch, Fill, Unlisted, Updaters
  <2> QED  BY <2>1, <2>2, <2>3 DEF Phase, Upd
<1>3. CASE cache[d].here
  <2>1. d \in thr[t].want /\ Alone(t)  BY <1>3 DEF New, Upgraded
  <2>2. thr[u].want # {} \/ thr[u].pc \in Outside
    BY <2>1 DEF Alone, Reads, Outside
  <2>3. thr[u].pc \notin Outside => thr[u].this # d /\ (thr[u].pc = "tell" => thr[u].up # d)
    BY <2>1, <2>2 DEF Inv, NotReplaced
  <2>4. thr[u].pc \in {"enter", "folder", "tell"} \cup Outside
    BY <2>2 DEF Inv, Local
  <2>5. thr[u].pc \in Outside => Phase(u, d) = "none" /\ Upd(u, d) = "none"
    BY <1>1 DEF Phase, Upd, Outside, Fetch, Fill, Unlisted, Updaters
  <2> QED  BY <2>3, <2>4, <2>5 DEF Phase, Upd, Updaters, Outside
<1> QED  BY <1>2, <1>3

LEMMA OthersStay ==
  ASSUME NEW t \in Thread, Others(t), NEW u \in Thread, u # t
  PROVE  /\ \A d \in Dir : Phase(u, d)' = Phase(u, d) /\ Upd(u, d)' = Upd(u, d)
         /\ Done(u)' = Done(u) /\ thr'[u].val = thr[u].val
<1>1. thr'[u] = thr[u]  BY DEF Others
<1> QED  BY <1>1 DEF Phase, Upd, Done, Child

LEMMA OthersKept ==
  ASSUME NEW t \in Thread, Others(t), NEW u \in Thread, u # t, NEW d \in Dir
  PROVE  /\ PhaseKept(u, d) /\ UpdKept(u, d)
         /\ cache'[d].full = cache[d].full => BringsStill(u, d)
BY OthersStay DEF PhaseKept, UpdKept, BringsStill, Brings

\* Where t is, in all directories, when it is not in a fetch or an update.
Nowhere(t) == \A d \in Dir : Phase(t, d) = "none" /\ Upd(t, d) = "none"

LEMMA NowhereIs ==
  ASSUME Typed, NEW t \in Thread, thr[t].pc \notin Fetch \cup Updaters \cup {"fetched"},
         thr[t].pc \in {"changed", "drop", "look"} => ~thr[t].fetch
  PROVE  Nowhere(t)
<1>1. thr[t].next # "fetched"  BY NextIs
<1> QED  BY <1>1 DEF Nowhere, Phase, Upd

Begins == {"idle", "asleep", "folders", "enter", "invalidate", "decide", "same", "find",
           "changed", "drop", "look", "none", "request", "clear", "miss", "answer", "done"}

LEMMA BeginsNext ==
  ASSUME NEW t \in Thread, thr'[t].next \in {"answer", "request"}, thr'[t].pc \in Begins \cup {"calc"},
         NEW d \in Dir
  PROVE  /\ Phase(t, d)' \in {"none", "clear"}
         /\ thr'[t].pc # "clear" /\ (thr'[t].pc \in {"changed", "drop", "look"} => ~thr'[t].fetch)
              => Phase(t, d)' = "none"
         /\ Upd(t, d)' \in {"none", "calc"} /\ (thr'[t].pc # "calc" => Upd(t, d)' = "none")
BY DEF Begins, Phase, Upd, Fetch, Fill, Unlisted, Updaters

LEMMA LeavesTo ==
  ASSUME NEW t \in Thread, Leaves(t), NEW d \in Dir
  PROVE  /\ Phase(t, d)' = "none" /\ Upd(t, d)' \in {"none", "calc"}
         /\ thr'[t].pc # "calc" => Upd(t, d)' = "none"
BY BeginsNext DEF Leaves, Begins

\* A thread stays at what it is at, or begins something.
Stays(t, d) == PhaseKept(t, d) /\ UpdKept(t, d) /\ BringsStill(t, d)

LEMMA NowhereStays ==
  ASSUME NEW t \in Thread, Nowhere(t), NEW d \in Dir, Phase(t, d)' \in {"none", "clear"}
  PROVE  Stays(t, d)
BY DEF Nowhere, Stays, PhaseKept, UpdKept, BringsStill, Brings, Listers

LEMMA SparedBy ==
  ASSUME NEW t \in Thread, Others(t), NEW d \in Dir, Stays(t, d),
         d \in lost => d \in lost',
         cache'[d].eff = cache[d].eff, cache'[d].most = cache[d].most,
         cache'[d].full = cache[d].full, cache'[d].kids = cache[d].kids,
         cache'[d].entry.st = cache[d].entry.st,
         cache'[d].db # 0 => cache[d].db # 0 \/ In({"past"}, d)
  PROVE  Spared(d)
<1>1. \A u \in Thread : PhaseKept(u, d) /\ UpdKept(u, d) /\ BringsStill(u, d)
  BY OthersKept DEF Stays
<1> QED  BY <1>1 DEF Spared, Kept

LEMMA SparedSame ==
  ASSUME NEW t \in Thread, Others(t), NEW d \in Dir, Stays(t, d),
         d \in lost => d \in lost', cache'[d] = cache[d]
  PROVE  Spared(d)
BY SparedBy

LEMMA OnlySpares ==
  ASSUME NEW t \in Thread, Others(t), NEW d \in Dir, Only(d),
         \A x \in Dir : x # d => Stays(t, x) /\ (x \in lost => x \in lost')
  PROVE  HereStays /\ \A x \in Dir : x # d => Spared(x)
<1>1. ASSUME NEW x \in Dir, x # d PROVE Spared(x)
  <2>1. cache'[x] = cache[x]  BY <1>1 DEF Only, Elsewhere
  <2> QED  BY <1>1, <2>1, SparedSame
<1>2. HereStays  BY DEF HereStays, Only, Elsewhere
<1> QED  BY <1>1, <1>2

\* A step of t that changes nothing in the cache.
LEMMA StillContents ==
  ASSUME Typed, Inv, Contents, NEW t \in Thread, Others(t), cache' = cache,
         \A d \in Dir : (d \in lost => d \in lost') /\ Stays(t, d)
  PROVE  Contents'
<1>1. \A d \in Dir : Spared(d)  BY SparedSame
<1>2. HereStays  BY DEF HereStays
<1> QED  BY <1>1, <1>2, ContentsKept

\* A directory of which the entry is made anew.
LEMMA MadeRenews ==
  ASSUME Typed, Inv, NEW t \in Thread, Upgraded(t), Others(t), cache' = Made(t),
         NEW d \in Dir, d \in New(t), Phase(t, d)' = "none"
  PROVE  Renewed(d)
<1>1. \A u \in Thread : u # t => Phase(u, d)' = "none"  BY NewIdle, OthersStay
<1>2. cache'[d] = [Fresh EXCEPT !.here = TRUE]  BY MadeIs
<1>3. PICK f : f = [Fresh EXCEPT !.here = TRUE]  OBVIOUS
<1>4. f.db = 0 /\ \A c \in Dir : f.kids[c] = Unknown  BY <1>3, FreshType
<1> QED  BY <1>1, <1>2, <1>3, <1>4 DEF Renewed

\* A step of t that makes entries.
LEMMA GrowContents ==
  ASSUME Typed, Inv, Contents, NEW t \in Thread, Upgraded(t), Others(t), cache' = Made(t),
         \A d \in Dir : /\ d \in lost => d \in lost'
                        /\ d \in New(t) => Phase(t, d)' = "none"
                        /\ d \notin New(t) => Stays(t, d)
  PROVE  Contents'
<1>1. ASSUME NEW d \in Dir PROVE Spared(d) \/ Renewed(d)
  <2>1. CASE d \in New(t)  BY <2>1, MadeRenews
  <2>2. CASE d \notin New(t)
    <3>1. cache'[d] = cache[d]  BY <2>2, MadeIs
    <3> QED  BY <2>2, <3>1, SparedSame
  <2> QED  BY <2>1, <2>2
<1>2. ASSUME NEW d \in Dir, cache[d].here PROVE cache'[d].here
  BY <1>2, MadeIs, FreshType
<1>3. HereStays  BY <1>2 DEF HereStays
<1> QED  BY <1>1, <1>3, ContentsKept

-----------------------------------------------------------------------------
(* The steps keep what is in the cache right *)

\* Up to the fetch nothing changes.
LEMMA AwaitContents ==
  ASSUME Typed, Inv, Contents, NEW t \in Thread, Await(t)
  PROVE  Contents'
<1>1. /\ Steps(t, thr[t].pc) /\ thr'[t].val = thr[t].val /\ cache' = cache /\ lost' = lost
  BY AwaitEffect
<1>2. thr'[t].pc = thr[t].pc /\ Others(t)  BY <1>1 DEF Steps, Moves
<1>3. Done(t)' = Done(t)  BY <1>1, <1>2 DEF Steps, Moves, Like, Done, Child
<1>4. ASSUME NEW d \in Dir PROVE Stays(t, d)
  <2>1. Phase(t, d)' = Phase(t, d) /\ Upd(t, d)' = Upd(t, d)
    BY <1>1, <1>2 DEF Steps, Moves, Like, Phase, Upd
  <2> QED  BY <1>1, <1>3, <2>1 DEF Stays, PhaseKept, UpdKept, BringsStill, Brings
<1> QED  BY <1>1, <1>2, <1>4, StillContents

LEMMA EnterContents ==
  ASSUME Typed, Inv, Contents, NEW t \in Thread, Enter(t)
  PROVE  Contents'
<1>1. /\ thr[t].pc = "enter" /\ Upgraded(t) /\ cache' = Made(t)
      /\ Steps(t, "invalidate") \/ Steps(t, "decide")
      /\ lost' = lost
  BY EnterEffect
<1>2. Nowhere(t)  BY <1>1, NowhereIs DEF Fetch, Fill, Unlisted, Updaters
<1>3. Others(t) /\ thr'[t].pc \in {"invalidate", "decide"} /\ thr'[t].next \in {"answer", "request"}
  BY <1>1, NextIs DEF Steps, Moves, Updaters
<1>4. \A d \in Dir : Phase(t, d)' = "none"  BY <1>3, BeginsNext DEF Begins
<1>5. \A d \in Dir : Stays(t, d)  BY <1>2, <1>4, NowhereStays
<1> QED  BY <1>1, <1>3, <1>4, <1>5, GrowContents

LEMMA LooseContents ==
  ASSUME Typed, Inv, Contents, NEW t \in Thread, Others(t), Nowhere(t), cache' = cache,
         lost' = lost, thr'[t].next \in {"answer", "request"}, thr'[t].pc \in Begins \cup {"calc"}
  PROVE  Contents'
<1>1. \A d \in Dir : Stays(t, d)  BY BeginsNext, NowhereStays
<1> QED  BY <1>1, StillContents

LEMMA DecideContents ==
  ASSUME Typed, Inv, Contents, NEW t \in Thread, Decide(t)
  PROVE  Contents'
<1>1. PICK d : d = thr[t].this  OBVIOUS
<1>2. /\ thr[t].pc = "decide" /\ thr'[t].next = thr[t].next
      /\ Moves(t, "same") \/ Moves(t, "changed")
      /\ cache' = cache /\ lost' = lost
  BY <1>1, DecideEffect
<1>3. Nowhere(t)  BY <1>2, NowhereIs DEF Fetch, Fill, Unlisted, Updaters
<1>4. Others(t) /\ thr'[t].pc \in Begins /\ thr'[t].next \in {"answer", "request"}
  BY <1>2, NextIs DEF Moves, Begins, Updaters
<1> QED  BY <1>2, <1>3, <1>4, LooseContents

LEMMA SameContents ==
  ASSUME Typed, Inv, Contents, NEW t \in Thread, Same(t)
  PROVE  Contents'
<1>1. /\ thr[t].pc = "same" /\ cache' = cache /\ lost' = lost
      /\ Leaves(t) \/ Steps(t, "look") \/ Steps(t, "none") \/ Steps(t, "find")
  BY SameEffect
<1>2. Nowhere(t)  BY <1>1, NowhereIs DEF Fetch, Fill, Unlisted, Updaters
<1>3. CASE Leaves(t)
  BY <1>1, <1>2, <1>3, LooseContents DEF Leaves, Begins
<1>4. CASE Steps(t, "look") \/ Steps(t, "none") \/ Steps(t, "find")
  <2>1. Others(t) /\ thr'[t].pc \in Begins /\ thr'[t].next \in {"answer", "request"}
    BY <1>1, <1>4, NextIs DEF Steps, Moves, Begins, Updaters
  <2> QED  BY <1>1, <1>2, <2>1, LooseContents
<1> QED  BY <1>1, <1>3, <1>4

LEMMA FindEntryContents ==
  ASSUME Typed, Inv, Contents, NEW t \in Thread, FindEntry(t)
  PROVE  Contents'
<1>1. PICK d : d = thr[t].this  OBVIOUS
<1>2. /\ thr[t].pc = "find" /\ cache' = cache /\ lost' = lost
      /\ Leaves(t) \/ Steps(t, "look")
  BY <1>1, FindEntryEffect
<1>3. Nowhere(t)  BY <1>2, NowhereIs DEF Fetch, Fill, Unlisted, Updaters
<1>4. CASE Leaves(t)
  BY <1>2, <1>3, <1>4, LooseContents DEF Leaves, Begins
<1>5. CASE Steps(t, "look")
  <2>1. Others(t) /\ thr'[t].pc \in Begins /\ thr'[t].next \in {"answer", "request"}
    BY <1>2, <1>5, NextIs DEF Steps, Moves, Begins, Updaters
  <2> QED  BY <1>2, <1>3, <2>1, LooseContents
<1> QED  BY <1>2, <1>4, <1>5

\* Where a thread is that has to fetch, or finds that it has to.
LEMMA ClearingIs ==
  ASSUME Typed, NEW t \in Thread, thr[t].pc \in {"changed", "drop", "look"}, NEW x \in Dir
  PROVE  /\ Phase(t, x) = (IF thr[t].fetch /\ thr[t].this = x THEN "clear" ELSE "none")
         /\ Upd(t, x) = "none"
<1>1. thr[t].next = "answer"  BY NextIs DEF Updaters
<1> QED  BY <1>1 DEF Phase, Upd, Fetch, Fill, Unlisted, Updaters

LEMMA ClearingStays ==
  ASSUME Typed, NEW t \in Thread, thr[t].pc \in {"changed", "drop", "look"}, NEW x \in Dir,
         \/ Steps(t, "drop") \/ Steps(t, "look") \/ Steps(t, "clear")
         \/ ~thr[t].fetch /\ thr'[t].pc \in Begins /\ thr'[t].next \in {"answer", "request"}
  PROVE  Stays(t, x)
<1>1. thr[t].next = "answer"  BY NextIs DEF Updaters
<1>2. CASE Steps(t, "drop") \/ Steps(t, "look") \/ Steps(t, "clear")
  <2>1. Phase(t, x)' \in {Phase(t, x), "clear"} /\ (Phase(t, x) = "clear" => Phase(t, x)' = "clear")
        /\ Upd(t, x)' = "none"
    BY <1>1, <1>2, ClearingIs DEF Steps, Moves, Like, Phase, Upd, Fetch, Fill, Unlisted, Updaters
  <2> QED
    BY <2>1, ClearingIs DEF Stays, PhaseKept, UpdKept, BringsStill, Brings, Listers
<1>3. CASE ~thr[t].fetch /\ thr'[t].pc \in Begins /\ thr'[t].next \in {"answer", "request"}
  <2>1. Nowhere(t)  BY <1>3, ClearingIs DEF Nowhere
  <2> QED  BY <1>3, <2>1, BeginsNext, NowhereStays
<1> QED  BY <1>2, <1>3

LEMMA ChangedDbContents ==
  ASSUME Typed, Inv, Contents, NEW t \in Thread, ChangedDb(t)
  PROVE  Contents'
<1>1. PICK d : d = thr[t].this  OBVIOUS
<1>2. /\ thr[t].pc = "changed" /\ cache' = cache /\ lost' = lost
      /\ \/ Moves(t, "none") /\ ~thr[t].fetch /\ thr'[t].next = "request"
         \/ Steps(t, "request") /\ ~thr[t].fetch
         \/ Steps(t, "drop")
  BY <1>1, ChangedDbEffect
<1>3. thr[t].next = "answer"  BY <1>2, NextIs DEF Updaters
<1>4. Others(t)  BY <1>2 DEF Steps, Moves
<1>5. \/ Steps(t, "drop")
      \/ ~thr[t].fetch /\ thr'[t].pc \in Begins /\ thr'[t].next \in {"answer", "request"}
  BY <1>2, <1>3 DEF Steps, Moves, Begins
<1>6. \A x \in Dir : Stays(t, x)  BY <1>2, <1>5, ClearingStays
<1> QED  BY <1>2, <1>4, <1>6, StillContents

LEMMA LookContents ==
  ASSUME Typed, Inv, Contents, NEW t \in Thread, Look(t)
  PROVE  Contents'
<1>1. /\ thr[t].pc = "look" /\ cache' = cache /\ lost' = lost
      /\ (Steps(t, "none") /\ ~thr[t].fetch) \/ Steps(t, "clear")
  BY LookEffect
<1>2. thr[t].next = "answer"  BY <1>1, NextIs DEF Updaters
<1>3. Others(t)  BY <1>1 DEF Steps, Moves
<1>4. \/ Steps(t, "clear")
      \/ ~thr[t].fetch /\ thr'[t].pc \in Begins /\ thr'[t].next \in {"answer", "request"}
  BY <1>1, <1>2 DEF Steps, Moves, Begins
<1>5. \A x \in Dir : Stays(t, x)  BY <1>1, <1>4, ClearingStays
<1> QED  BY <1>1, <1>3, <1>5, StillContents

LEMMA RequestContents ==
  ASSUME Typed, Inv, Contents, NEW t \in Thread, Request(t)
  PROVE  Contents'
<1>1. /\ thr[t].pc = "request" /\ cache' = cache /\ lost' = lost /\ Leaves(t)
  BY RequestEffect
<1>2. Nowhere(t)  BY <1>1, NowhereIs DEF Fetch, Fill, Unlisted, Updaters
<1> QED  BY <1>1, <1>2, LooseContents DEF Leaves, Begins

\* Of what is lost nothing is expected.
LEMMA LostRight == ASSUME NEW d \in Dir, d \in lost' PROVE Right(d)'
BY DEF Right, HasFolders, Listing, HasFile, MostRight, FullRight

LEMMA DropContents ==
  ASSUME Typed, Inv, Contents, NEW t \in Thread, Drop(t)
  PROVE  Contents'
<1>1. PICK d \in Dir : d = thr[t].this  BY ThreadIs
<1>2. /\ thr[t].pc = "drop" /\ Steps(t, "look") /\ Only(d)
      /\ cache'[d].eff = cache[d].eff /\ cache'[d].most = cache[d].most
      /\ cache'[d].full = cache[d].full /\ cache'[d].kids = cache[d].kids
      /\ cache'[d].entry = NoEntry /\ cache'[d].db = cache[d].db
      /\ lost' = IF cache[d].entry # NoEntry THEN lost \cup {d} ELSE lost
  BY <1>1, DropEffect
<1>3. Others(t)  BY <1>2 DEF Steps, Moves
<1>4. \A x \in Dir : Stays(t, x) /\ (x \in lost => x \in lost')  BY <1>2, ClearingStays
<1>5. HereStays /\ \A x \in Dir : x # d => Spared(x)  BY <1>2, <1>3, <1>4, OnlySpares
<1>6. CASE cache[d].entry # NoEntry
  <2>1. d \in lost'  BY <1>2, <1>6
  <2> QED  BY <1>5, <2>1, LostRight, ContentsOne
<1>7. CASE cache[d].entry = NoEntry
  <2>1. Spared(d)  BY <1>2, <1>3, <1>4, <1>7, SparedBy
  <2> QED  BY <1>5, <2>1, ContentsKept
<1> QED  BY <1>6, <1>7

-----------------------------------------------------------------------------

LEMMA SetNoneContents ==
  ASSUME Typed, Inv, Contents, NEW t \in Thread, SetNone(t)
  PROVE  Contents'
<1>1. PICK d \in Dir : d = thr[t].this  BY ThreadIs
<1>2. /\ thr[t].pc = "none" /\ Only(d)
      /\ cache'[d].eff = cache[d].eff /\ cache'[d].kids = cache[d].kids
      /\ cache'[d].entry = cache[d].entry /\ cache'[d].db = cache[d].db
      /\ lost' = (IF \E u \in Thread : Renews(u, d) THEN lost ELSE lost \cup {d})
      /\ \/ Moves(t, "request") /\ thr'[t].next = "answer"
         \/ Leaves(t) /\ thr'[t].pc # "calc"
  BY <1>1, SetNoneEffect
<1>3. Nowhere(t)  BY <1>2, NowhereIs DEF Fetch, Fill, Unlisted, Updaters
<1>4. Others(t) /\ thr'[t].pc \in Begins /\ thr'[t].next = "answer"
  BY <1>2 DEF Moves, Leaves, Begins
<1>5. \A x \in Dir : Stays(t, x) /\ (x \in lost => x \in lost')
  BY <1>2, <1>3, <1>4, BeginsNext, NowhereStays
<1>6. HereStays /\ \A x \in Dir : x # d => Spared(x)  BY <1>2, <1>4, <1>5, OnlySpares
<1>7. CASE ~\E u \in Thread : Renews(u, d)
  <2>1. d \in lost'  BY <1>2, <1>7
  <2> QED  BY <1>6, <2>1, LostRight, ContentsOne
<1>8. CASE \E u \in Thread : Renews(u, d)
  <2>1. PICK u \in Thread : Renews(u, d)  BY <1>8
  <2>2. u # t  BY <1>2, <2>1 DEF Renews, Fetches, At
  <2>3. Phase(u, d) \in Fetch
    BY <2>1 DEF Renews, Fetches, At, Phase, Fetch, Fill, Unlisted
  <2>4. Fetching(d)'  BY <1>4, <2>2, <2>3, OthersStay DEF Fetching, In
  <2>5. \A w \in Thread : PhaseKept(w, d)  BY <1>4, <1>5, OthersKept DEF Stays
  <2>6. HasFolders(d)' /\ Listing(d)'
    BY <1>2, <1>5, <1>6, <2>5, PhasesKeep, FoldersKept, ListingKept
  <2>7. HasFile(d)'  BY <1>2, <1>5, <2>5, PhasesKeep DEF Contents, Right, HasFile
  <2>8. Right(d)'  BY <2>4, <2>6, <2>7 DEF Right, MostRight, FullRight
  <2>9. Holding(d)  BY <1>2, <1>5, <2>5, PhasesKeep DEF Holding
  <2> QED  BY <1>6, <2>4, <2>8, <2>9, ContentsOne
<1> QED  BY <1>7, <1>8

\* Where the thread is that fetches.
LEMMA FetchIs ==
  ASSUME Typed, NEW t \in Thread, thr[t].pc \in Fetch, NEW d, d = thr[t].this, NEW x \in Dir
  PROVE  Phase(t, x) = (IF x = d THEN thr[t].pc ELSE "none") /\ Upd(t, x) = "none"
<1>1. thr[t].next = "answer" /\ thr[t].pc \notin Updaters \cup {"fetched", "changed", "drop", "look"}
  <2>1. thr[t].pc \notin Updaters \cup {"fetched", "none", "changed", "drop", "look"}
    BY DEF Fetch, Fill, Unlisted, Updaters
  <2> QED  BY <2>1, NextIs
<1> QED  BY <1>1 DEF Phase, Upd

LEMMA FetchNext ==
  ASSUME Typed, NEW t \in Thread, thr[t].pc \in Fetch, NEW pc \in Fetch, Moves(t, pc),
         NEW d, d = thr[t].this, NEW x \in Dir
  PROVE  \/ Phase(t, x)' = (IF x = d THEN pc ELSE "none") /\ Upd(t, x)' = "none"
         \/ thr'[t].next # thr[t].next
<1>1. SUFFICES ASSUME thr'[t].next = thr[t].next
               PROVE  Phase(t, x)' = (IF x = d THEN pc ELSE "none") /\ Upd(t, x)' = "none"
  OBVIOUS
<1>2. thr[t].pc \notin Updaters \cup {"none"} /\ pc \notin Updaters \cup {"fetched", "changed", "drop", "look"}
  BY DEF Fetch, Fill, Unlisted, Updaters
<1>3. thr'[t].next = "answer" /\ thr'[t].pc = pc /\ thr'[t].this = thr[t].this
  BY <1>1, <1>2, NextIs DEF Moves, Like
<1> QED  BY <1>2, <1>3 DEF Phase, Upd

\* ... which leaves the other directories as they are.
LEMMA FetchStays ==
  ASSUME Typed, NEW t \in Thread, thr[t].pc \in Fetch, NEW x \in Dir, x # thr[t].this,
         Phase(t, x)' = "none"
  PROVE  Stays(t, x)
<1>1. Phase(t, x) = "none" /\ Upd(t, x) = "none"  BY FetchIs
<1> QED  BY <1>1 DEF Stays, PhaseKept, UpdKept, BringsStill, Brings, Listers

\* While a fetch has yet to fill the entry, little is expected of it.
LEMMA FillingRight ==
  ASSUME NEW d \in Dir, HasFolders(d)', Listing(d)', Filling(d)'
  PROVE  Right(d)' /\ Fetching(d)'
BY DEF Right, HasFile, MostRight, FullRight, Fetching, Filling, In, Fetch

LEMMA ClearedRight ==
  ASSUME NEW d \in Dir, Cleared(d)'
  PROVE  Right(d)' /\ Fetching(d)'
<1>1. In(Unlisted, d)' /\ Filling(d)'  BY DEF Cleared, In, Unlisted, Filling, Fill
<1>2. HasFolders(d)' /\ Listing(d)'  BY <1>1 DEF HasFolders, Listing
<1> QED  BY <1>1, <1>2, FillingRight

LEMMA ClearContents ==
  ASSUME Typed, Inv, Contents, NEW t \in Thread, Clear(t)
  PROVE  Contents'
<1>1. PICK d \in Dir : d = thr[t].this  BY ThreadIs
<1>2. /\ thr[t].pc = "clear" /\ Steps(t, "exchange") /\ Only(d)
      /\ cache'[d].kids = Fresh.kids /\ lost' = lost
  BY <1>1, ClearEffect
<1>3. thr[t].pc \in Fetch /\ "exchange" \in Fetch  BY <1>2 DEF Fetch, Fill, Unlisted
<1>4. \A x \in Dir : Phase(t, x)' = (IF x = d THEN "exchange" ELSE "none")
  BY <1>1, <1>2, <1>3, FetchNext DEF Steps
<1>5. \A x \in Dir : x # d => Stays(t, x)  BY <1>1, <1>3, <1>4, FetchStays
<1>6. Others(t)  BY <1>2 DEF Steps, Moves
<1>7. HereStays /\ \A x \in Dir : x # d => Spared(x)  BY <1>2, <1>5, <1>6, OnlySpares
<1>8. Cleared(d)'  BY <1>4 DEF Cleared, In
<1>9. \A c \in Dir : cache'[d].kids[c] = Unknown  BY <1>2, FreshType
<1> QED  BY <1>7, <1>8, <1>9, ClearedRight, ContentsOne

LEMMA ExchangeContents ==
  ASSUME Typed, Inv, Contents, NEW t \in Thread, Exchange(t)
  PROVE  Contents'
<1>1. PICK d \in Dir : d = thr[t].this  BY ThreadIs
<1>2. /\ thr[t].pc = "exchange" /\ Only(d)
      /\ \/ cache[d].fetching /\ lost' = lost \cup Below[d] /\ Leaves(t)
         \/ /\ ~cache[d].fetching /\ lost' = lost \ {d} /\ Steps(t, "list")
  BY <1>1, ExchangeEffect
<1>3. thr[t].pc \in Fetch /\ "list" \in Fetch  BY <1>2 DEF Fetch, Fill, Unlisted
<1>4. CASE lost' = lost \cup Below[d] /\ Leaves(t)
  <2>1. \A x \in Dir : x # d => Stays(t, x)  BY <1>1, <1>3, <1>4, FetchStays, LeavesTo
  <2>2. HereStays /\ \A x \in Dir : x # d => Spared(x)
    BY <1>2, <1>4, <2>1, OnlySpares DEF Leaves
  <2>3. d \in lost'  BY <1>4, BelowSelf
  <2> QED  BY <2>2, <2>3, LostRight, ContentsOne
<1>5. CASE ~cache[d].fetching /\ lost' = lost \ {d} /\ Steps(t, "list")
  <2>1. \A x \in Dir : Phase(t, x)' = (IF x = d THEN "list" ELSE "none")
    BY <1>1, <1>3, <1>5, FetchNext DEF Steps
  <2>2. \A x \in Dir : x # d => Stays(t, x) /\ (x \in lost => x \in lost')
    BY <1>1, <1>3, <1>5, <2>1, FetchStays
  <2>3. Others(t)  BY <1>5 DEF Steps, Moves
  <2>4. HereStays /\ \A x \in Dir : x # d => Spared(x)  BY <1>2, <2>2, <2>3, OnlySpares
  <2>5. \A u \in Thread : Phase(u, d)' \notin Listers
    <3>1. ASSUME NEW u \in Thread, u # t, Phase(u, d) \in Listers PROVE FALSE
      <4>1. thr[u].this = d /\ thr[u].pc \in Listers
        BY <3>1 DEF Phase, Listers, Fetch, Fill, Unlisted
      <4>2. Fetches(u)  BY <4>1 DEF Fetches, Listers
      <4> QED  BY <1>5, <4>1, <4>2 DEF Inv, OneFetcher
    <3> QED  BY <2>1, <2>3, <3>1, OthersStay DEF Listers
  <2>6. In(Unlisted, d)' /\ Filling(d)' /\ \A c \in Dir : Missing(d, c)'
    BY <2>1 DEF In, Unlisted, Filling, Fill, Missing
  <2>7. HasFolders(d)' /\ Listing(d)'  BY <2>5, <2>6 DEF HasFolders, Listing
  <2> QED  BY <2>4, <2>6, <2>7, FillingRight, ContentsOne
<1> QED  BY <1>2, <1>4, <1>5

-----------------------------------------------------------------------------

\* Nobody else is in the svn status of the directory.
LEMMA SoleFetcher ==
  ASSUME Inv, NEW t \in Thread, Fetches(t), Others(t), NEW u \in Thread, u # t,
         NEW d \in Dir, d = thr[t].this
  PROVE  Phase(u, d) \notin Listers /\ Phase(u, d)' = Phase(u, d)
<1>1. thr[u].this = d => ~Fetches(u)  BY DEF Inv, OneFetcher
<1>2. Phase(u, d) \notin Listers
  BY <1>1 DEF Phase, Fetches, Listers, Fetch, Fill, Unlisted
<1> QED  BY <1>2, OthersStay

LEMMA ListContents ==
  ASSUME Typed, Inv, Contents, NEW t \in Thread, List(t)
  PROVE  Contents'
<1>1. PICK d \in Dir : d = thr[t].this  BY ThreadIs
<1>2. /\ thr[t].pc = "list" /\ Only(d)
      /\ cache'[d].eff = "normal" /\ cache'[d].kids = cache[d].kids
      /\ IF Children(d) = {} THEN Moves(t, "file") ELSE Moves(t, "folder")
      /\ thr'[t].left = Children(d) /\ thr'[t].next = thr[t].next
      /\ lost' = lost
  BY <1>1, ListEffect
<1>3. Others(t) /\ Fetches(t)  BY <1>2 DEF Moves, Fetches
<1>4. PICK pc : pc = IF Children(d) = {} THEN "file" ELSE "folder"  OBVIOUS
<1>5. thr[t].pc \in Fetch /\ pc \in Fetch  BY <1>2, <1>4 DEF Fetch, Fill, Unlisted
<1>6. Moves(t, pc) /\ thr'[t].this = d  BY <1>1, <1>2, <1>4 DEF Moves, Like
<1>7. \A x \in Dir : Phase(t, x)' = (IF x = d THEN pc ELSE "none")
  BY <1>1, <1>2, <1>5, <1>6, FetchNext
<1>8. \A x \in Dir : x # d => Stays(t, x)  BY <1>1, <1>5, <1>7, FetchStays
<1>9. HereStays /\ \A x \in Dir : x # d => Spared(x)  BY <1>2, <1>3, <1>8, OnlySpares
<1>10. Filling(d)'  BY <1>4, <1>7 DEF Filling, In, Fill, Unlisted
<1>11. HasFolders(d)'
  <2>1. CASE Children(d) = {}  BY <1>2, <2>1 DEF HasFolders
  <2>2. CASE Children(d) # {}
    <3>1. In(Unlisted, d)'  BY <1>4, <1>7, <2>2 DEF In, Unlisted
    <3> QED  BY <3>1 DEF HasFolders
  <2> QED  BY <2>1, <2>2
<1>12. Done(t)' = {}
  <2>1. thr'[t].pc # "own"  BY <1>4, <1>6 DEF Moves
  <2> QED  BY <1>2, <1>6, <2>1 DEF Done
<1>13. Listing(d)'
  <2>1. ASSUME NEW u \in Thread, Phase(u, d)' \in Listers PROVE u = t
    BY <1>1, <1>3, <2>1, SoleFetcher
  <2> QED  BY <1>2, <1>12, <2>1 DEF Listing
<1>14. ASSUME NEW c \in Dir PROVE cache'[d].kids[c] = Unknown \/ Missing(d, c)'
  <2>1. CASE c \notin Children(d)  BY <1>2, <2>1, CacheIs DEF Bounds
  <2>2. CASE c \in Children(d)
    <3>1. Phase(t, d)' = "folder"  BY <1>4, <1>7, <2>2
    <3> QED  BY <1>12, <3>1 DEF Missing, Listers
  <2> QED  BY <2>1, <2>2
<1>15. Right(d)' /\ Fetching(d)'  BY <1>10, <1>11, <1>13, FillingRight
<1> QED  BY <1>9, <1>14, <1>15, ContentsOne

LEMMA AskChildContents ==
  ASSUME Typed, Inv, Contents, NEW t \in Thread, AskChild(t)
  PROVE  Contents'
<1>1. PICK d \in Dir : d = thr[t].this  BY ThreadIs
<1>2. PICK c : c = Child(t)  OBVIOUS
<1>3. /\ thr[t].pc = "folder" /\ Upgraded(t) /\ cache' = Made(t)
      /\ Steps(t, "child") /\ lost' = lost \cup Dropped(New(t))
  BY <1>2, AskChildEffect
<1>4. Others(t) /\ thr'[t].this = d /\ thr'[t].left = thr[t].left /\ thr'[t].pc = "child"
  BY <1>1, <1>3 DEF Steps, Moves, Like
<1>5. thr[t].pc \in Fetch /\ "child" \in Fetch /\ thr[t].pc \in Listers
  BY <1>3 DEF Fetch, Fill, Unlisted, Listers
<1>6. \A x \in Dir : Phase(t, x)' = (IF x = d THEN "child" ELSE "none")
  BY <1>1, <1>3, <1>5, FetchNext DEF Steps
<1>7. \A x \in Dir : Phase(t, x) = (IF x = d THEN "folder" ELSE "none") /\ Upd(t, x) = "none"
  BY <1>1, <1>3, <1>5, FetchIs
<1>8. d \notin New(t)
  <2>1. c # d  BY <1>1, <1>2, <1>5, ChildIs
  <2>2. Needs(t) = {c}  BY <1>2, <1>3 DEF Needs
  <2>3. thr[t].want \subseteq Needs(t)  BY DEF Inv, Local
  <2> QED  BY <2>1, <2>2, <2>3 DEF New
<1>9. Done(t)' = Done(t)  BY <1>1, <1>3, <1>4 DEF Done
<1>10. Stays(t, d)
  BY <1>6, <1>7, <1>9 DEF Stays, PhaseKept, UpdKept, BringsStill, Brings, Listers
<1>11. \A x \in Dir : x # d => Stays(t, x)  BY <1>1, <1>5, <1>6, FetchStays
<1>12. \A x \in Dir : x \in lost => x \in lost'  BY <1>3
<1> QED  BY <1>3, <1>4, <1>6, <1>8, <1>10, <1>11, <1>12, GrowContents

\* A directory with the recursive status 'none' has no own status.
LEMMA NoneIsBare ==
  ASSUME Typed, NEW d \in Dir, MostOf(Parts(d)) = "none"
  PROVE  cache[d].eff = "none"
<1>1. cache[d].most \in Status /\ cache[d].eff \in Status  BY CacheIs DEF Status
<1>2. \A c \in Known(d) : cache[d].kids[c] \in Status  BY CacheIs DEF Known
<1>3. Parts(d) \in SUBSET Status /\ cache[d].eff \in Parts(d)  BY <1>1, <1>2 DEF Parts
<1> HIDE DEF Parts
<1>4. "normal" \in Parts(d) => MostOf(Parts(d)) # "none"  BY <1>3, MostOfMost
<1>5. cache[d].eff \in {"none", "normal"}  BY CacheIs
<1> QED  BY <1>3, <1>4, <1>5

LEMMA SettledFull ==
  ASSUME Typed, Contents, NEW c \in Dir, c \notin lost, Loaded(c), ~Fetching(c), ~Updating(c)
  PROVE  Important("normal", cache[c].full) = cache[c].full
<1>1. Right(c)  BY DEF Contents
<1>2. Listed(c)  BY DEF Loaded, Listed, In
<1>3. ~In(Unlisted, c)  BY DEF Fetching, In, Fetch, Fill
<1>4. cache[c].eff = "normal"  BY <1>1, <1>2, <1>3 DEF Right, HasFolders
<1>5. cache[c].full = MostOf(Parts(c))  BY <1>1 DEF Right, FullRight
<1>6. cache[c].full # "none"  BY <1>4, <1>5, NoneIsBare
<1>7. cache[c].full \in {"normal", "modified"}  BY <1>6, CacheIs DEF Status
<1> QED  BY <1>7 DEF Important, Rank

LEMMA SetChildContents ==
  ASSUME Typed, Inv, Contents, NEW t \in Thread, SetChild(t)
  PROVE  Contents'
<1>1. PICK d \in Dir : d = thr[t].this  BY ThreadIs
<1>2. PICK c : c = Child(t)  OBVIOUS
<1>3. /\ thr[t].pc = "child" /\ Only(d) /\ Steps(t, "own")
      /\ cache'[d].eff = cache[d].eff /\ cache'[d].kids[c] = thr[t].val
      /\ \A x \in Dir : x # c => cache'[d].kids[x] = cache[d].kids[x]
      /\ lost' = IF thr[t].val # Important("normal", cache[c].full) THEN lost \cup {d} ELSE lost
  BY <1>1, <1>2, SetChildEffect
<1>4. Others(t) /\ Fetches(t) /\ thr'[t].this = d /\ thr'[t].left = thr[t].left /\ thr'[t].pc = "own"
  BY <1>1, <1>3 DEF Steps, Moves, Like, Fetches
<1>5. thr[t].pc \in Fetch /\ "own" \in Fetch /\ thr[t].pc \in Listers
  BY <1>3 DEF Fetch, Fill, Unlisted, Listers
<1>6. c \in Dir /\ c # d /\ c \in Children(d) /\ cache[c].here
  <2>1. c \in Dir \ {Top} /\ Parent[c] = d /\ c # d  BY <1>1, <1>2, <1>5, ChildIs
  <2>2. cache[c].here  BY <1>2, <1>3 DEF Inv, Local
  <2> QED  BY <2>1, <2>2 DEF Children
<1>7. \A x \in Dir : Phase(t, x)' = (IF x = d THEN "own" ELSE "none")
  BY <1>1, <1>3, <1>5, FetchNext DEF Steps
<1>8. Phase(t, d) = "child"  BY <1>1, <1>3, <1>5, FetchIs
<1>9. \A x \in Dir : x # d => Stays(t, x)  BY <1>1, <1>5, <1>7, FetchStays
<1>10. \A x \in Dir : x \in lost => x \in lost'  BY <1>3
<1>11. HereStays /\ \A x \in Dir : x # d => Spared(x)
  BY <1>3, <1>4, <1>9, <1>10, OnlySpares
<1>12. thr[t].val \in Status /\ Unknown \notin Status  BY ThreadIs DEF Status, Unknown
<1>13. Done(t)' = Done(t) \cup {c}
  BY <1>1, <1>2, <1>3, <1>4 DEF Done, Child
<1>14. Filling(d)' /\ In(Unlisted, d)'  BY <1>7 DEF Filling, Fill, In, Unlisted
<1>15. HasFolders(d)'  BY <1>14 DEF HasFolders
<1>16. Listing(d)'
  <2>1. SUFFICES ASSUME d \notin lost'
                 PROVE  \/ /\ cache'[d].eff = "normal"
                           /\ \A x \in Done(t)' : cache'[d].kids[x] # Unknown /\ cache'[x].here
                        \/ Cleared(d)'
    <3>1. ASSUME NEW u \in Thread, Phase(u, d)' \in Listers PROVE u = t
      BY <1>1, <1>4, <3>1, SoleFetcher
    <3> QED  BY <2>1, <3>1 DEF Listing
  <2>2. \/ /\ cache[d].eff = "normal"
           /\ \A x \in Done(t) : cache[d].kids[x] # Unknown /\ cache[x].here
        \/ Cleared(d)
    BY <1>8, <1>10, <2>1 DEF Contents, Right, Listing, Listers
  <2>3. CASE Cleared(d)
    <3>1. PICK u \in Thread : Phase(u, d) \in {"clear", "exchange"}  BY <2>3 DEF Cleared, In
    <3>2. u # t  BY <1>8, <3>1
    <3>3. Phase(u, d)' = Phase(u, d)  BY <1>4, <3>2, OthersStay
    <3> QED  BY <3>1, <3>3 DEF Cleared, In
  <2>4. CASE /\ cache[d].eff = "normal"
             /\ \A x \in Done(t) : cache[d].kids[x] # Unknown /\ cache[x].here
    <3>1. Done(t) \subseteq Dir  BY <1>1, <1>3 DEF Done, Children
    <3>2. ASSUME NEW x \in Done(t)' PROVE cache'[d].kids[x] # Unknown /\ cache'[x].here
      <4>1. CASE x = c  BY <1>3, <1>6, <1>11, <1>12, <4>1 DEF HereStays
      <4>2. CASE x # c /\ x \in Done(t)  BY <1>3, <1>11, <2>4, <3>1, <4>2 DEF HereStays
      <4> QED  BY <1>13, <4>1, <4>2
    <3> QED  BY <1>3, <2>4, <3>2
  <2> QED  BY <2>2, <2>3, <2>4
<1>17. Right(d)' /\ Fetching(d)'  BY <1>14, <1>15, <1>16, FillingRight
<1>18. ASSUME NEW x \in Dir, x # c, Missing(d, x) PROVE Missing(d, x)'
  <2>1. PICK u \in Thread : \/ Phase(u, d) \in {"clear", "exchange", "list"}
                            \/ Phase(u, d) \in Listers /\ x \notin Done(u)
    BY <1>18 DEF Missing
  <2>2. CASE u = t
    <3>1. Phase(t, d)' \in Listers /\ x \notin Done(t)'
      BY <1>7, <1>8, <1>13, <1>18, <2>1, <2>2 DEF Listers
    <3> QED  BY <3>1 DEF Missing
  <2>3. CASE u # t
    <3>1. Phase(u, d)' = Phase(u, d) /\ Done(u)' = Done(u)  BY <1>4, <2>3, OthersStay
    <3> QED  BY <2>1, <3>1 DEF Missing
  <2> QED  BY <2>2, <2>3
<1>19. ASSUME NEW x \in Children(d) PROVE KidRight(d, x)'
  <2>1. x \in Dir /\ x # d  BY ParentAbove DEF Children
  <2>2. Spared(x)  BY <1>11, <2>1
  <2>3. Telling(x) \/ ~Loaded(x)'  BY <2>1, <2>2, SparedTells
  <2>4. CASE ~Loaded(x)'  BY <2>4 DEF KidRight
  <2>5. CASE Telling(x) /\ x # c
    <3>1. KidRight(d, x)  BY DEF Contents
    <3> QED  BY <1>3, <1>10, <1>18, <2>1, <2>5, <3>1 DEF KidRight, Telling
  <2>6. CASE Telling(x) /\ x = c
    <3>1. SUFFICES ASSUME d \notin lost', c \notin lost', Loaded(c)', ~Fetching(c)', ~Brought(c)'
                   PROVE  cache'[d].kids[c] = cache'[c].full
      BY <2>6 DEF KidRight
    <3>2. thr[t].val = Important("normal", cache[c].full)  BY <1>3, <3>1
    <3>3. c \notin lost /\ Loaded(c) /\ ~Fetching(c) /\ ~Brought(c)
          /\ cache'[c].full = cache[c].full
      BY <2>6, <3>1 DEF Telling
    <3>4. ~Updating(c)  BY <3>3 DEF Updating, Brought, Brings
    <3> QED  BY <1>3, <1>6, <3>2, <3>3, <3>4, SettledFull
  <2> QED  BY <2>3, <2>4, <2>5, <2>6
<1> DEFINE S == {d}
<1>20. S \in SUBSET Dir /\ \A x \in S : Right(x)'  BY <1>17
<1>21. \A x \in Dir : x \notin S => Spared(x) \/ Renewed(x)  BY <1>11
<1>22. \A p \in Dir : \A x \in Children(p) : p \in S \/ x \in S => KidRight(p, x)'
  BY <1>17, <1>19 DEF KidRight
<1> HIDE DEF S
<1> QED  BY <1>11, <1>20, <1>21, <1>22, ContentsBut

-----------------------------------------------------------------------------

\* A folder gets its own status: it has one already if it has been fetched.
LEMMA OwnedRight ==
  ASSUME Typed, Inv, Contents, HereStays, NEW c \in Dir,
         \A u \in Thread : PhaseKept(u, c) /\ UpdKept(u, c),
         lost' = lost, cache'[c].eff = "normal", cache'[c].most = cache[c].most,
         cache'[c].full = cache[c].full, cache'[c].kids = cache[c].kids,
         cache'[c].entry = cache[c].entry, cache'[c].db = cache[c].db
  PROVE  Right(c)'
<1>1. /\ Listed(c)' => Listed(c)
      /\ Ended(c)' => Ended(c)
      /\ Loaded(c)' => Loaded(c)
      /\ In(Unlisted, c) => In(Unlisted, c)'
      /\ Cleared(c) => Cleared(c)'
      /\ Filling(c) => Filling(c)'
      /\ Fetching(c) => Fetching(c)'
      /\ \A t \in Thread : Phase(t, c)' \in Listers =>
                             Phase(t, c) \in Listers /\ Done(t)' = Done(t)
  BY PhasesKeep
<1>2. Right(c)  BY DEF Contents
<1>3. HasFolders(c)' /\ Listing(c)'  BY <1>1, FoldersKept, ListingKept
<1>4. HasFile(c)'  BY <1>1, <1>2 DEF Right, HasFile
<1>5. c \notin lost /\ Loaded(c) => cache[c].eff = "normal" \/ Fetching(c)
  <2>1. Loaded(c) => Listed(c)  BY DEF Loaded, Listed, In
  <2>2. In(Unlisted, c) => Fetching(c)  BY DEF In, Fetching, Fetch, Fill
  <2> QED  BY <1>2, <2>1, <2>2 DEF Right, HasFolders
<1>6. MostRight(c)'  BY <1>1, <1>2, <1>5 DEF Right, MostRight
<1>7. Updating(c) => Updating(c)'  BY DEF Updating, UpdKept
<1>8. cache[c].eff = "normal" => Parts(c)' = Parts(c)  BY DEF Parts, Known
<1>9. FullRight(c)'  BY <1>1, <1>2, <1>5, <1>7, <1>8 DEF Right, FullRight
<1> QED  BY <1>3, <1>4, <1>6, <1>9 DEF Right

LEMMA OwnChildContents ==
  ASSUME Typed, Inv, Contents, NEW t \in Thread, OwnChild(t)
  PROVE  Contents'
<1>1. PICK d \in Dir : d = thr[t].this  BY ThreadIs
<1>2. PICK c : c = Child(t)  OBVIOUS
<1>3. /\ thr[t].pc = "own" /\ Only(c)
      /\ cache'[c].eff = "normal" /\ cache'[c].most = cache[c].most
      /\ cache'[c].full = cache[c].full /\ cache'[c].kids = cache[c].kids
      /\ cache'[c].entry = cache[c].entry /\ cache'[c].db = cache[c].db
      /\ IF thr[t].left \ {c} = {} THEN Moves(t, "file") ELSE Moves(t, "folder")
      /\ thr'[t].left = thr[t].left \ {c}
      /\ thr'[t].next = thr[t].next /\ lost' = lost
  BY <1>2, OwnChildEffect
<1>4. Others(t) /\ Fetches(t)  BY <1>3 DEF Moves, Fetches
<1>5. PICK pc : pc = IF thr[t].left \ {c} = {} THEN "file" ELSE "folder"  OBVIOUS
<1>6. thr[t].pc \in Fetch /\ pc \in Fetch /\ thr[t].pc \in Listers
  BY <1>3, <1>5 DEF Fetch, Fill, Unlisted, Listers
<1>7. Moves(t, pc) /\ thr'[t].this = d /\ thr'[t].pc = pc  BY <1>1, <1>3, <1>5 DEF Moves, Like
<1>8. c \in Dir /\ c # d /\ c \in Children(d) /\ c \in thr[t].left
  <2>1. c \in Dir \ {Top} /\ Parent[c] = d /\ c # d /\ c \in thr[t].left
    BY <1>1, <1>2, <1>6, ChildIs
  <2> QED  BY <2>1 DEF Children
<1>9. \A x \in Dir : Phase(t, x)' = (IF x = d THEN pc ELSE "none")
  BY <1>1, <1>3, <1>6, <1>7, FetchNext
<1>10. Phase(t, d) = "own"  BY <1>1, <1>3, <1>6, FetchIs
<1>11. \A x \in Dir : x # d => Stays(t, x)  BY <1>1, <1>6, <1>9, FetchStays
<1>12. cache'[d] = cache[d]  BY <1>3, <1>8 DEF Only, Elsewhere
<1>13. HereStays  BY <1>3 DEF HereStays, Only, Elsewhere
<1>14. \A x \in Dir : x # d /\ x # c => Spared(x)
  BY <1>3, <1>4, <1>11, SparedSame DEF Only, Elsewhere
<1>15. \A u \in Thread : PhaseKept(u, c) /\ UpdKept(u, c) /\ BringsStill(u, c)
  BY <1>3, <1>4, <1>8, <1>11, OthersKept DEF Stays
<1>16. Right(c)'  BY <1>3, <1>8, <1>13, <1>15, OwnedRight
<1>17. Telling(c) /\ Holding(c)
  <2>1. Brought(c) => Brought(c)'  BY <1>15 DEF Brought, BringsStill
  <2> QED  BY <1>3, <1>8, <1>15, <2>1, PhasesKeep DEF Telling, Holding
<1>18. Done(t) = (Children(d) \ thr[t].left) \cup {c}  BY <1>1, <1>2, <1>3 DEF Done
<1>19. CASE pc = "folder"
  <2>1. Done(t)' = Done(t)
    <3>1. Done(t)' = Children(d) \ (thr[t].left \ {c})  BY <1>3, <1>7, <1>19 DEF Done
    <3> QED  BY <1>8, <1>18, <3>1
  <2>2. Stays(t, d)
    <3>1. Upd(t, d) = "none"  BY <1>1, <1>6, FetchIs
    <3> QED
      BY <1>9, <1>10, <1>19, <2>1, <3>1
      DEF Stays, PhaseKept, UpdKept, BringsStill, Brings, Listers
  <2>3. Spared(d)  BY <1>3, <1>4, <1>12, <2>2, SparedSame
  <2> QED  BY <1>8, <1>13, <1>14, <1>16, <1>17, <2>3, ContentsOne
<1>20. CASE pc = "file"
  <2>1. Done(t) = Children(d)
    <3>1. thr[t].left \subseteq {c}  BY <1>5, <1>20
    <3> QED  BY <1>8, <1>18, <3>1
  <2>2. Filling(d)'  BY <1>9, <1>20 DEF Filling, In, Fill
  <2>3. HasFolders(d)'
    <3>1. SUFFICES ASSUME d \notin lost', ~In(Unlisted, d)'
                   PROVE  /\ cache'[d].eff = "normal"
                          /\ \A x \in Children(d) : cache'[d].kids[x] # Unknown /\ cache'[x].here
      BY DEF HasFolders
    <3>2. ~Cleared(d)
      <4>1. ASSUME Cleared(d) PROVE FALSE
        <5>1. PICK u \in Thread : Phase(u, d) \in {"clear", "exchange"}  BY <4>1 DEF Cleared, In
        <5>2. u # t  BY <1>10, <5>1
        <5>3. Phase(u, d)' = Phase(u, d)  BY <1>4, <5>2, OthersStay
        <5> QED  BY <3>1, <5>1, <5>3 DEF In, Unlisted
      <4> QED  BY <4>1
    <3>3. cache[d].eff = "normal" /\ \A x \in Done(t) : cache[d].kids[x] # Unknown /\ cache[x].here
      BY <1>3, <1>10, <3>1, <3>2 DEF Contents, Right, Listing, Listers
    <3> QED  BY <1>12, <1>13, <2>1, <3>3 DEF HereStays, Children
  <2>4. Listing(d)'
    <3>1. ASSUME NEW u \in Thread PROVE Phase(u, d)' \notin Listers
      <4>1. CASE u = t  BY <1>9, <1>20, <4>1 DEF Listers
      <4>2. CASE u # t  BY <1>1, <1>4, <4>2, SoleFetcher
      <4> QED  BY <4>1, <4>2
    <3> QED  BY <3>1 DEF Listing
  <2>5. Right(d)' /\ Fetching(d)'  BY <2>2, <2>3, <2>4, FillingRight
  <2>6. ASSUME NEW x \in Children(d), Missing(d, x) PROVE Missing(d, x)'
    <3>1. PICK u \in Thread : \/ Phase(u, d) \in {"clear", "exchange", "list"}
                              \/ Phase(u, d) \in Listers /\ x \notin Done(u)
      BY <2>6 DEF Missing
    <3>2. u # t  BY <1>10, <2>1, <3>1
    <3>3. Phase(u, d)' = Phase(u, d) /\ Done(u)' = Done(u)  BY <1>4, <3>2, OthersStay
    <3> QED  BY <3>1, <3>3 DEF Missing
  <2> DEFINE S == {c, d}
  <2>7. S \in SUBSET Dir /\ \A x \in S : Right(x)'  BY <1>8, <1>16, <2>5
  <2>8. \A x \in Dir : x \notin S => Spared(x) \/ Renewed(x)  BY <1>14
  <2>9. ASSUME NEW q \in Dir, NEW x \in Children(q), q \in S \/ x \in S PROVE KidRight(q, x)'
    <3>1. x \in Dir /\ x # Top /\ q = Parent[x] /\ x # q  BY ParentAbove DEF Children
    <3>2. CASE x = d  BY <2>5, <3>2 DEF KidRight
    <3>3. CASE x # d
      <4>1. Telling(x) \/ ~Loaded(x)'
        <5>1. x # c => Spared(x)  BY <1>14, <3>1, <3>3
        <5> QED  BY <1>17, <3>1, <5>1, SparedTells
      <4>2. CASE q = c  BY <1>17, <4>1, <4>2, KidSame
      <4>3. CASE q = d
        <5>1. KidRight(d, x)  BY <4>3 DEF Contents
        <5>2. CASE ~Loaded(x)'  BY <5>2 DEF KidRight
        <5>3. CASE Telling(x)
          BY <1>3, <1>12, <2>6, <4>3, <5>1, <5>3 DEF KidRight, Telling
        <5> QED  BY <4>1, <5>2, <5>3
      <4>4. q = c \/ q = d  BY <1>8, <2>9, <3>1, <3>3 DEF Children
      <4> QED  BY <4>2, <4>3, <4>4
    <3> QED  BY <3>2, <3>3
  <2> HIDE DEF S
  <2> QED  BY <1>13, <2>7, <2>8, <2>9, ContentsBut
<1> QED  BY <1>5, <1>19, <1>20

LEMMA StatFileContents ==
  ASSUME Typed, Inv, Contents, NEW t \in Thread, StatFile(t) \/ Most(t)
  PROVE  Contents'
<1>1. PICK d \in Dir : d = thr[t].this  BY ThreadIs
<1>2. /\ \/ thr[t].pc = "file" /\ Steps(t, "entry")
         \/ thr[t].pc = "most" /\ Steps(t, "mark")
      /\ cache' = cache /\ lost' = lost
  BY <1>1, StatFileEffect, MostEffect
<1>3. thr[t].pc \in Fetch /\ Others(t)  BY <1>2 DEF Fetch, Fill, Unlisted, Steps, Moves
<1>4. PICK pc \in {"entry", "mark"} : Steps(t, pc) /\ (pc = "entry" <=> thr[t].pc = "file")
  BY <1>2
<1>5. pc \in Fetch  BY <1>4 DEF Fetch, Fill
<1>6. \A x \in Dir : Phase(t, x)' = (IF x = d THEN pc ELSE "none")
  BY <1>1, <1>3, <1>4, <1>5, FetchNext DEF Steps
<1>7. \A x \in Dir : x # d => Stays(t, x)  BY <1>1, <1>3, <1>6, FetchStays
<1>8. Phase(t, d) = thr[t].pc /\ Upd(t, d) = "none"  BY <1>1, <1>3, FetchIs
<1>9. Stays(t, d)
  BY <1>2, <1>4, <1>6, <1>8 DEF Stays, PhaseKept, UpdKept, BringsStill, Brings, Listers
<1> QED  BY <1>2, <1>3, <1>7, <1>9, StillContents

LEMMA EndFetchContents ==
  ASSUME Typed, Inv, Contents, NEW t \in Thread, EndFetch(t)
  PROVE  Contents'
<1>1. PICK d \in Dir : d = thr[t].this  BY ThreadIs
<1>2. /\ thr[t].pc = "end" /\ Only(d) /\ Steps(t, "most")
      /\ cache'[d].eff = cache[d].eff /\ cache'[d].most = cache[d].most
      /\ cache'[d].full = cache[d].full /\ cache'[d].kids = cache[d].kids
      /\ cache'[d].entry = cache[d].entry /\ cache'[d].db = cache[d].db
      /\ lost' = lost
  BY <1>1, EndFetchEffect
<1>3. thr[t].pc \in Fetch /\ "most" \in Fetch /\ Others(t)  BY <1>2 DEF Fetch, Steps, Moves
<1>4. \A x \in Dir : Phase(t, x)' = (IF x = d THEN "most" ELSE "none")
  BY <1>1, <1>2, <1>3, FetchNext DEF Steps
<1>5. \A x \in Dir : x # d => Stays(t, x)  BY <1>1, <1>3, <1>4, FetchStays
<1>6. HereStays /\ \A x \in Dir : x # d => Spared(x)  BY <1>2, <1>3, <1>5, OnlySpares
<1>7. Phase(t, d) = "end" /\ Upd(t, d) = "none"  BY <1>1, <1>2, <1>3, FetchIs
<1>8. Stays(t, d)
  BY <1>4, <1>7 DEF Stays, PhaseKept, UpdKept, BringsStill, Brings, Listers
<1>9. Spared(d)  BY <1>2, <1>3, <1>8, SparedBy
<1> QED  BY <1>6, <1>9, ContentsKept

LEMMA AddEntryContents ==
  ASSUME Typed, Inv, Contents, NEW t \in Thread, AddEntry(t)
  PROVE  Contents'
<1>1. PICK d \in Dir : d = thr[t].this  BY ThreadIs
<1>2. /\ thr[t].pc = "entry" /\ Only(d) /\ Steps(t, "end")
      /\ cache'[d].eff = cache[d].eff /\ cache'[d].kids = cache[d].kids
      /\ cache'[d].entry.st = thr[t].val /\ cache'[d].db = cache[d].db
      /\ \A x \in Dir : x \in lost => x \in lost'
  BY <1>1, AddEntryEffect
<1>3. thr[t].pc \in Fetch /\ "end" \in Fetch /\ Others(t)
  BY <1>2 DEF Fetch, Fill, Steps, Moves
<1>4. \A x \in Dir : Phase(t, x)' = (IF x = d THEN "end" ELSE "none")
  BY <1>1, <1>2, <1>3, FetchNext DEF Steps
<1>5. \A x \in Dir : x # d => Stays(t, x)  BY <1>1, <1>3, <1>4, FetchStays
<1>6. HereStays /\ \A x \in Dir : x # d => Spared(x)  BY <1>2, <1>3, <1>5, OnlySpares
<1>7. Phase(t, d) = "entry"  BY <1>1, <1>2, <1>3, FetchIs
<1>8. \A u \in Thread : u # t => Phase(u, d)' = Phase(u, d) /\ Done(u)' = Done(u)
  BY <1>3, OthersStay
<1>9. /\ Listed(d)
      /\ In(Unlisted, d) => In(Unlisted, d)'
      /\ Cleared(d) => Cleared(d)'
      /\ Fetching(d)'
      /\ \A u \in Thread : Phase(u, d)' \in Listers =>
                             Phase(u, d) \in Listers /\ Done(u)' = Done(u)
      /\ \A c \in Dir : Missing(d, c) => Missing(d, c)'
  <2>1. Listed(d) /\ Fetching(d)'  BY <1>3, <1>4, <1>7 DEF Listed, Fetching, In
  <2>2. In(Unlisted, d) => In(Unlisted, d)'  BY <1>7, <1>8 DEF In, Unlisted
  <2>3. Cleared(d) => Cleared(d)'  BY <1>7, <1>8 DEF In, Cleared
  <2>4. ASSUME NEW u \in Thread, Phase(u, d)' \in Listers
        PROVE  Phase(u, d) \in Listers /\ Done(u)' = Done(u)
    <3>1. u # t  BY <1>4, <2>4 DEF Listers
    <3> QED  BY <1>8, <2>4, <3>1
  <2>5. ASSUME NEW c \in Dir, Missing(d, c) PROVE Missing(d, c)'
    <3>1. PICK u \in Thread : \/ Phase(u, d) \in {"clear", "exchange", "list"}
                              \/ Phase(u, d) \in Listers /\ c \notin Done(u)
      BY <2>5 DEF Missing
    <3>2. u # t  BY <1>7, <3>1 DEF Listers
    <3> QED  BY <1>8, <3>1, <3>2 DEF Missing
  <2> QED  BY <2>1, <2>2, <2>3, <2>4, <2>5
<1>10. HasFolders(d)' /\ Listing(d)'  BY <1>2, <1>6, <1>9, FoldersKept, ListingKept
<1>11. thr[t].val # "none"  BY <1>2, ThreadIs DEF Doing
<1>12. Right(d)'  BY <1>2, <1>9, <1>10, <1>11 DEF Right, HasFile, MostRight, FullRight
<1>13. Holding(d)  BY <1>2, <1>9 DEF Holding
<1> QED  BY <1>6, <1>9, <1>12, <1>13, ContentsOne

-----------------------------------------------------------------------------

LEMMA MarkContents ==
  ASSUME Typed, Inv, Contents, NEW t \in Thread, Mark(t)
  PROVE  Contents'
<1>1. PICK d \in Dir : d = thr[t].this  BY ThreadIs
<1>2. /\ thr[t].pc = "mark" /\ Only(d)
      /\ cache'[d].eff = cache[d].eff /\ cache'[d].most = thr[t].val
      /\ cache'[d].full = cache[d].full /\ cache'[d].kids = cache[d].kids
      /\ cache'[d].entry = cache[d].entry /\ cache'[d].db = cache[d].db
      /\ lost' = IF thr[t].val # MostImportant(d) THEN lost \cup {d} ELSE lost
      /\ Moves(t, "calc") /\ thr'[t].next = "fetched" /\ thr'[t].up = d
  BY <1>1, MarkEffect
<1>3. thr[t].pc \in Fetch /\ Others(t)  BY <1>2 DEF Fetch, Moves
<1>4. \A x \in Dir : /\ Phase(t, x)' = (IF x = d THEN "past" ELSE "none")
                     /\ Upd(t, x)' = (IF x = d THEN "calc" ELSE "none")
  BY <1>1, <1>2 DEF Moves, Like, Phase, Upd, Fetch, Fill, Unlisted, Updaters
<1>5. \A x \in Dir : x # d => Stays(t, x)  BY <1>1, <1>3, <1>4, FetchStays
<1>6. \A x \in Dir : x \in lost => x \in lost'  BY <1>2
<1>7. HereStays /\ \A x \in Dir : x # d => Spared(x)  BY <1>2, <1>3, <1>5, <1>6, OnlySpares
<1>8. Phase(t, d) = "mark"  BY <1>1, <1>2, <1>3, FetchIs
<1>9. \A u \in Thread : u # t => Phase(u, d)' = Phase(u, d) /\ Done(u)' = Done(u)
  BY <1>3, OthersStay
<1>10. /\ Listed(d) /\ Ended(d)
       /\ In(Unlisted, d) => In(Unlisted, d)'
       /\ Cleared(d) => Cleared(d)'
       /\ Filling(d) => Filling(d)'
       /\ \A u \in Thread : Phase(u, d)' \in Listers =>
                              Phase(u, d) \in Listers /\ Done(u)' = Done(u)
       /\ \A c \in Dir : Missing(d, c) => Missing(d, c)'
  <2>1. Listed(d) /\ Ended(d)  BY <1>8 DEF Listed, Ended, In
  <2>2. In(Unlisted, d) => In(Unlisted, d)'  BY <1>8, <1>9 DEF In, Unlisted
  <2>3. Cleared(d) => Cleared(d)'  BY <1>8, <1>9 DEF In, Cleared
  <2>4. Filling(d) => Filling(d)'  BY <1>8, <1>9 DEF In, Filling, Fill, Unlisted
  <2>5. ASSUME NEW u \in Thread, Phase(u, d)' \in Listers
        PROVE  Phase(u, d) \in Listers /\ Done(u)' = Done(u)
    <3>1. u # t  BY <1>4, <2>5 DEF Listers
    <3> QED  BY <1>9, <2>5, <3>1
  <2>6. ASSUME NEW c \in Dir, Missing(d, c) PROVE Missing(d, c)'
    <3>1. PICK u \in Thread : \/ Phase(u, d) \in {"clear", "exchange", "list"}
                              \/ Phase(u, d) \in Listers /\ c \notin Done(u)
      BY <2>6 DEF Missing
    <3>2. u # t  BY <1>8, <3>1 DEF Listers
    <3> QED  BY <1>9, <3>1, <3>2 DEF Missing
  <2> QED  BY <2>1, <2>2, <2>3, <2>4, <2>5, <2>6
<1>11. HasFolders(d)' /\ Listing(d)'
  BY <1>2, <1>6, <1>7, <1>10, FoldersKept, ListingKept
<1>12. HasFile(d)'  BY <1>2, <1>6, <1>10 DEF Contents, Right, HasFile
<1>13. MostRight(d)'  BY <1>2, MostIs DEF MostRight
<1>14. Updating(d)' /\ Brought(d)'  BY <1>4 DEF Updating, Brought, Brings
<1>15. Right(d)'  BY <1>11, <1>12, <1>13, <1>14 DEF Right, FullRight
<1>16. Holding(d)  BY <1>2, <1>6, <1>10 DEF Holding
<1> QED  BY <1>7, <1>14, <1>15, <1>16, ContentsOne

\* Where the thread is that updates a directory.
LEMMA UpdIs ==
  ASSUME Typed, NEW t \in Thread, thr[t].pc \in Updaters, NEW x \in Dir
  PROVE  /\ Phase(t, x) = (IF thr[t].this = x /\ thr[t].next = "fetched" THEN "past" ELSE "none")
         /\ Upd(t, x) = (IF thr[t].up = x THEN thr[t].pc ELSE "none")
BY DEF Phase, Upd, Fetch, Fill, Unlisted, Updaters

LEMMA UpdNext ==
  ASSUME Typed, NEW t \in Thread, thr[t].pc \in Updaters, NEW pc \in Updaters,
         Moves(t, pc), thr'[t].next = thr[t].next, NEW x \in Dir
  PROVE  /\ Phase(t, x)' = Phase(t, x)
         /\ Upd(t, x)' = (IF thr'[t].up = x THEN pc ELSE "none")
<1>1. thr'[t].pc = pc /\ thr'[t].this = thr[t].this  BY DEF Moves, Like
<1> QED  BY <1>1 DEF Phase, Upd, Fetch, Fill, Unlisted, Updaters

LEMMA EndsTo ==
  ASSUME Typed, NEW t \in Thread, thr[t].pc \in Updaters, Ends(t), NEW x \in Dir
  PROVE  Phase(t, x)' = Phase(t, x) /\ Upd(t, x)' = "none" /\ Others(t)
<1>1. CASE thr[t].next = "fetched" /\ Moves(t, "fetched") /\ thr'[t].next = "answer"
  BY <1>1, UpdIs DEF Moves, Like, Phase, Upd, Fetch, Fill, Unlisted, Updaters
<1>2. CASE thr[t].next = "answer" /\ Leaves(t) /\ thr'[t].pc # "calc"
  BY <1>2, UpdIs, LeavesTo DEF Leaves
<1> QED  BY <1>1, <1>2 DEF Ends

LEMMA CalcContents ==
  ASSUME Typed, Inv, Contents, NEW t \in Thread, Calc(t)
  PROVE  Contents'
<1>1. PICK d \in Dir : d = thr[t].up  BY ThreadIs
<1>2. thr[t].pc = "calc" /\ Steps(t, "write") /\ cache' = cache /\ lost' = lost
  BY <1>1, CalcEffect
<1>3. thr[t].pc \in Updaters /\ "write" \in Updaters /\ Others(t)
  BY <1>2 DEF Updaters, Steps, Moves
<1>4. ASSUME NEW x \in Dir PROVE Stays(t, x)
  <2>1. /\ Phase(t, x) \in {"past", "none"} /\ Phase(t, x)' = Phase(t, x)
        /\ Upd(t, x) = (IF d = x THEN "calc" ELSE "none")
        /\ Upd(t, x)' = (IF d = x THEN "write" ELSE "none")
    BY <1>1, <1>2, <1>3, UpdIs, UpdNext DEF Steps
  <2> QED  BY <2>1 DEF Stays, PhaseKept, UpdKept, BringsStill, Brings, Listers
<1> QED  BY <1>2, <1>3, <1>4, StillContents

LEMMA WriteContents ==
  ASSUME Typed, Inv, Contents, NEW t \in Thread, Write(t)
  PROVE  Contents'
<1>1. PICK d \in Dir : d = thr[t].up  BY ThreadIs
<1>2. /\ thr[t].pc = "write" /\ Only(d)
      /\ cache'[d].full = IF cache[d].eff # "none" THEN thr[t].val ELSE cache[d].full
      /\ cache'[d].eff = cache[d].eff /\ cache'[d].entry = cache[d].entry
      /\ cache'[d].most = cache[d].most /\ cache'[d].kids = cache[d].kids
      /\ cache'[d].db = cache[d].db
      /\ lost' = IF thr[t].val # CalculateRecursiveStatus(d) THEN lost \cup {d} ELSE lost
      /\ \/ d = Top /\ Ends(t)
         \/ d # Top /\ Steps(t, "tell")
  BY <1>1, WriteEffect
<1>3. \A x \in Dir : x \in lost => x \in lost'  BY <1>2
<1>4. thr[t].pc \in Updaters /\ "tell" \in Updaters  BY <1>2 DEF Updaters
<1>5. /\ Others(t)
      /\ \A x \in Dir : /\ Phase(t, x) \in {"past", "none"} /\ Phase(t, x)' = Phase(t, x)
                        /\ Upd(t, x) = (IF x = d THEN "write" ELSE "none")
                        /\ x # d => Upd(t, x)' = "none"
                        /\ d # Top => Upd(t, d)' = "tell"
  <2>1. \A x \in Dir : /\ Phase(t, x) \in {"past", "none"}
                       /\ Upd(t, x) = (IF x = d THEN "write" ELSE "none")
    BY <1>1, <1>2, <1>4, UpdIs
  <2>2. CASE d = Top /\ Ends(t)  BY <1>4, <2>1, <2>2, EndsTo
  <2>3. CASE d # Top /\ Steps(t, "tell")
    BY <1>1, <1>4, <2>1, <2>3, UpdNext DEF Steps, Moves
  <2> QED  BY <1>2, <2>2, <2>3
<1>6. \A x \in Dir : x # d => Stays(t, x)
  BY <1>5 DEF Stays, PhaseKept, UpdKept, BringsStill, Brings, Listers
<1>7. HereStays /\ \A x \in Dir : x # d => Spared(x)  BY <1>2, <1>3, <1>5, <1>6, OnlySpares
<1>8. \A u \in Thread : PhaseKept(u, d)
  BY <1>5, OthersKept DEF PhaseKept, Listers
<1>9. /\ Listed(d)' => Listed(d)
      /\ Ended(d)' => Ended(d)
      /\ Loaded(d)' => Loaded(d)
      /\ In(Unlisted, d) => In(Unlisted, d)'
      /\ Cleared(d) => Cleared(d)'
      /\ Filling(d) => Filling(d)'
      /\ Fetching(d) => Fetching(d)'
      /\ \A c \in Dir : Missing(d, c) => Missing(d, c)'
      /\ \A u \in Thread : Phase(u, d)' \in Listers =>
                             Phase(u, d) \in Listers /\ Done(u)' = Done(u)
  BY <1>2, <1>8, PhasesKeep
<1>10. HasFolders(d)' /\ Listing(d)'
  BY <1>2, <1>3, <1>7, <1>9, FoldersKept, ListingKept
<1>11. HasFile(d)'  BY <1>2, <1>3, <1>9 DEF Contents, Right, HasFile
<1>12. MostRight(d)'  BY <1>2, <1>3, <1>9 DEF Contents, Right, MostRight
<1>13. Parts(d)' = Parts(d)  BY <1>2 DEF Parts, Known
<1>14. FullRight(d)'
  <2>1. SUFFICES ASSUME d \notin lost', Loaded(d)', ~Fetching(d)'
                 PROVE  cache'[d].full = MostOf(Parts(d))
    BY <1>13 DEF FullRight
  <2>2. thr[t].val = MostOf(Parts(d))  BY <1>2, <2>1, PartsType
  <2>3. d \notin lost /\ Listed(d)  BY <1>3, <1>9, <2>1 DEF Loaded, Listed, In
  <2>4. ~In(Unlisted, d)  BY <1>9, <2>1 DEF Fetching, In, Fetch, Fill
  <2>5. cache[d].eff = "normal"  BY <2>3, <2>4 DEF Contents, Right, HasFolders
  <2> QED  BY <1>2, <2>2, <2>5
<1>15. Right(d)'  BY <1>10, <1>11, <1>12, <1>14 DEF Right
<1>16. Holding(d)  BY <1>2, <1>3, <1>9 DEF Holding
<1>17. CASE d # Top
  <2>1. Brought(d)'  BY <1>5, <1>17 DEF Brought, Brings
  <2> QED  BY <1>7, <1>15, <1>16, <2>1, ContentsOne
<1>18. CASE d = Top
  <2> DEFINE S == {d}
  <2>1. S \in SUBSET Dir /\ \A x \in S : Right(x)'  BY <1>15
  <2>2. \A x \in Dir : x \notin S => Spared(x) \/ Renewed(x)  BY <1>7
  <2>3. ASSUME NEW p \in Dir, NEW c \in Children(p), p \in S \/ c \in S PROVE KidRight(p, c)'
    <3>1. c \in Dir /\ c # Top /\ p = Parent[c]  BY DEF Children
    <3>2. p = d /\ c # d  BY <1>18, <2>3, <3>1
    <3>3. Telling(c) \/ ~Loaded(c)'  BY <1>7, <3>1, <3>2, SparedTells
    <3> QED  BY <1>16, <3>2, <3>3, KidSame
  <2> HIDE DEF S
  <2> QED  BY <1>7, <2>1, <2>2, <2>3, ContentsBut
<1> QED  BY <1>17, <1>18

LEMMA TellContents ==
  ASSUME Typed, Inv, Contents, NEW t \in Thread, Tell(t)
  PROVE  Contents'
<1>1. PICK d \in Dir : d = thr[t].up  BY ThreadIs
<1>2. /\ thr[t].pc = "tell" /\ d # Top /\ Upgraded(t) /\ cache' = Made(t)
      /\ Steps(t, "compare") /\ thr'[t].val = cache[d].full
      /\ \A x \in Dir : x \in lost => x \in lost'
  BY <1>1, TellEffect
<1>3. thr[t].pc \in Updaters /\ "compare" \in Updaters /\ Others(t) /\ thr'[t].up = d
  BY <1>1, <1>2 DEF Updaters, Steps, Moves
<1>4. \A x \in Dir : /\ Phase(t, x) \in {"past", "none"} /\ Phase(t, x)' = Phase(t, x)
                     /\ Upd(t, x) = (IF x = d THEN "tell" ELSE "none")
                     /\ Upd(t, x)' = (IF x = d THEN "compare" ELSE "none")
  BY <1>1, <1>2, <1>3, UpdIs, UpdNext DEF Steps
<1>5. ASSUME NEW x \in Dir, x \in New(t) PROVE Phase(t, x)' = "none" /\ x # d
  <2>1. Phase(t, x) = "none" /\ Upd(t, x) = "none"  BY <1>2, <1>5, NewIdle
  <2> QED  BY <1>4, <2>1
<1>6. cache'[d] = cache[d]  BY <1>2, <1>5, MadeIs
<1>7. ASSUME NEW x \in Dir, x \notin New(t) PROVE Stays(t, x)
  BY <1>2, <1>4, <1>6 DEF Stays, PhaseKept, UpdKept, BringsStill, Brings, Listers
<1> QED  BY <1>2, <1>3, <1>5, <1>7, GrowContents

LEMMA CompareContents ==
  ASSUME Typed, Inv, Contents, NEW t \in Thread, Compare(t)
  PROVE  Contents'
<1>1. PICK d \in Dir : d = thr[t].up  BY ThreadIs
<1>2. PICK p : p = Parent[d]  OBVIOUS
<1>3. /\ thr[t].pc = "compare"
      /\ \/ Steps(t, "put") /\ thr'[t].val = thr[t].val
         \/ /\ Ends(t)
            /\ cache[p].kids[d] # Unknown => cache[p].kids[d] = thr[t].val
      /\ cache' = cache /\ lost' = lost
  BY <1>1, <1>2, CompareEffect
<1>4. thr[t].pc \in Updaters /\ "put" \in Updaters  BY <1>3 DEF Updaters
<1>5. \A x \in Dir : /\ Phase(t, x) \in {"past", "none"}
                     /\ Upd(t, x) = (IF x = d THEN "compare" ELSE "none")
  BY <1>1, <1>3, <1>4, UpdIs
<1>6. CASE Steps(t, "put") /\ thr'[t].val = thr[t].val
  <2>1. Others(t)  BY <1>6 DEF Steps, Moves
  <2>2. \A x \in Dir : Phase(t, x)' = Phase(t, x) /\ Upd(t, x)' = (IF x = d THEN "put" ELSE "none")
    BY <1>1, <1>4, <1>6, UpdNext DEF Steps
  <2>3. \A x \in Dir : Stays(t, x)
    BY <1>3, <1>5, <1>6, <2>2 DEF Stays, PhaseKept, UpdKept, BringsStill, Brings, Listers
  <2> QED  BY <1>3, <2>1, <2>3, StillContents
<1>7. CASE Ends(t) /\ (cache[p].kids[d] # Unknown => cache[p].kids[d] = thr[t].val)
  <2>1. Others(t)  BY <1>1, <1>4, <1>7, EndsTo
  <2>2. \A x \in Dir : Phase(t, x)' = Phase(t, x) /\ Upd(t, x)' = "none"
    BY <1>4, <1>7, EndsTo
  <2>3. \A x \in Dir : PhaseKept(t, x) /\ UpdKept(t, x) /\ (x # d => BringsStill(t, x))
    BY <1>5, <2>2 DEF PhaseKept, UpdKept, BringsStill, Brings, Listers
  <2>4. HereStays  BY <1>3 DEF HereStays
  <2>5. \A x \in Dir : x # d => Spared(x)  BY <1>3, <2>1, <2>3, SparedSame DEF Stays
  <2>6. Kept(d)  BY <1>3, <2>1, <2>3, OthersKept DEF Kept
  <2>7. CASE thr[t].val # cache[d].full
    <3>1. BringsStill(t, d)  BY <1>5, <2>7 DEF BringsStill, Brings
    <3>2. Spared(d)  BY <1>3, <2>1, <2>3, <3>1, SparedSame DEF Stays
    <3> QED  BY <2>4, <2>5, <3>2, ContentsKept
  <2>8. CASE thr[t].val = cache[d].full
    <3> DEFINE S == {d}
    <3>1. S \in SUBSET Dir /\ \A x \in S : Right(x)'  BY <2>4, <2>6, RightKept
    <3>2. \A x \in Dir : x \notin S => Spared(x) \/ Renewed(x)  BY <2>5
    <3>3. ASSUME NEW q \in Dir, NEW c \in Children(q), q \in S \/ c \in S PROVE KidRight(q, c)'
      <4>1. c \in Dir /\ c # Top /\ q = Parent[c] /\ c # q  BY ParentAbove DEF Children
      <4>2. CASE c = d  BY <1>2, <1>3, <1>7, <2>8, <4>1, <4>2 DEF KidRight
      <4>3. CASE c # d
        <5>1. q = d  BY <3>3, <4>3
        <5>2. Telling(c) \/ ~Loaded(c)'  BY <2>5, <4>1, <4>3, SparedTells
        <5> QED  BY <2>6, <5>1, <5>2, KeptHolds, KidSame
      <4> QED  BY <4>2, <4>3
    <3> HIDE DEF S
    <3> QED  BY <2>4, <3>1, <3>2, <3>3, ContentsBut
  <2> QED  BY <2>7, <2>8
<1> QED  BY <1>3, <1>6, <1>7

LEMMA PutContents ==
  ASSUME Typed, Inv, Contents, NEW t \in Thread, Put(t)
  PROVE  Contents'
<1>1. PICK d \in Dir : d = thr[t].up  BY ThreadIs
<1>2. PICK p : p = Parent[d]  OBVIOUS
<1>3. /\ thr[t].pc = "put" /\ d # Top /\ p \in Dir /\ Only(p)
      /\ cache'[p].eff = cache[p].eff /\ cache'[p].most = cache[p].most
      /\ cache'[p].full = cache[p].full /\ cache'[p].entry = cache[p].entry
      /\ cache'[p].db = cache[p].db /\ cache'[p].kids[d] = thr[t].val
      /\ \A x \in Dir : x # d => cache'[p].kids[x] = cache[p].kids[x]
      /\ Moves(t, "calc") /\ thr'[t].next = thr[t].next /\ thr'[t].up = p
      /\ lost' = IF thr[t].val # cache[d].full THEN lost \cup {p} ELSE lost
  BY <1>1, <1>2, PutEffect
<1>4. p # d  BY <1>2, <1>3, ParentAbove
<1>5. thr[t].val \in Status /\ Unknown \notin Status  BY ThreadIs DEF Status, Unknown
<1>6. \A x \in Dir : x \in lost => x \in lost'  BY <1>3
<1>7. thr[t].pc \in Updaters /\ "calc" \in Updaters /\ Others(t)
  BY <1>3 DEF Updaters, Moves
<1>8. \A x \in Dir : /\ Phase(t, x) \in {"past", "none"} /\ Phase(t, x)' = Phase(t, x)
                     /\ Upd(t, x) = (IF x = d THEN "put" ELSE "none")
                     /\ Upd(t, x)' = (IF x = p THEN "calc" ELSE "none")
  BY <1>1, <1>3, <1>7, UpdIs, UpdNext
<1>9. \A x \in Dir : PhaseKept(t, x) /\ UpdKept(t, x) /\ (x # d => BringsStill(t, x))
  BY <1>8 DEF PhaseKept, UpdKept, BringsStill, Brings, Listers
<1>10. HereStays  BY <1>3 DEF HereStays, Only, Elsewhere
<1>11. \A x \in Dir : x # d /\ x # p => Spared(x)
  BY <1>3, <1>6, <1>7, <1>9, SparedSame DEF Only, Elsewhere, Stays
<1>12. cache'[d] = cache[d]  BY <1>3, <1>4 DEF Only, Elsewhere
<1>13. Kept(d)  BY <1>6, <1>7, <1>9, <1>12, OthersKept DEF Kept
<1>14. Right(d)'  BY <1>10, <1>13, RightKept
<1>15. \A u \in Thread : PhaseKept(u, p)  BY <1>3, <1>7, <1>9, OthersKept
<1>16. /\ Listed(p)' => Listed(p)
       /\ Ended(p)' => Ended(p)
       /\ Loaded(p)' => Loaded(p)
       /\ In(Unlisted, p) => In(Unlisted, p)'
       /\ Cleared(p) => Cleared(p)'
       /\ Filling(p) => Filling(p)'
       /\ Fetching(p) => Fetching(p)'
       /\ \A c \in Dir : Missing(p, c) => Missing(p, c)'
       /\ \A u \in Thread : Phase(u, p)' \in Listers =>
                              Phase(u, p) \in Listers /\ Done(u)' = Done(u)
  BY <1>3, <1>15, PhasesKeep
<1>17. \A c \in Dir : /\ cache[c].here => cache'[c].here
                      /\ cache[p].kids[c] # Unknown => cache'[p].kids[c] # Unknown
  BY <1>3, <1>5, <1>10 DEF HereStays
<1>18. HasFolders(p)'
  <2>1. Children(p) \subseteq Dir  BY DEF Children
  <2> QED  BY <1>3, <1>6, <1>16, <1>17, <2>1 DEF Contents, Right, HasFolders
<1>19. Listing(p)'
  <2> SUFFICES ASSUME p \notin lost', NEW u \in Thread, Phase(u, p)' \in Listers
               PROVE  \/ /\ cache'[p].eff = "normal"
                         /\ \A c \in Done(u)' : cache'[p].kids[c] # Unknown /\ cache'[c].here
                      \/ Cleared(p)'
    BY DEF Listing
  <2>1. Phase(u, p) \in Listers /\ Done(u)' = Done(u) /\ p \notin lost  BY <1>3, <1>6, <1>16
  <2>2. \/ /\ cache[p].eff = "normal"
           /\ \A c \in Done(u) : cache[p].kids[c] # Unknown /\ cache[c].here
        \/ Cleared(p)
    BY <1>3, <2>1 DEF Contents, Right, Listing
  <2>3. Done(u) \subseteq Dir
    <3>1. thr[u].pc \in Listers  BY <2>1 DEF Phase, Listers, Fetch, Fill, Unlisted
    <3> QED  BY <3>1, ChildIs DEF Done, Children
  <2> QED  BY <1>3, <1>16, <1>17, <2>1, <2>2, <2>3
<1>20. HasFile(p)'  BY <1>3, <1>6, <1>16 DEF Contents, Right, HasFile
<1>21. MostRight(p)'  BY <1>3, <1>6, <1>16 DEF Contents, Right, MostRight
<1>22. Updating(p)' /\ Brought(p)'  BY <1>3, <1>8 DEF Updating, Brought, Brings
<1>23. Right(p)'  BY <1>18, <1>19, <1>20, <1>21, <1>22 DEF Right, FullRight
<1> DEFINE S == {d, p}
<1>24. S \in SUBSET Dir /\ \A x \in S : Right(x)'  BY <1>3, <1>14, <1>23
<1>25. \A x \in Dir : x \notin S => Spared(x) \/ Renewed(x)  BY <1>11
<1>26. ASSUME NEW q \in Dir, NEW c \in Children(q), q \in S \/ c \in S PROVE KidRight(q, c)'
  <2>1. c \in Dir /\ c # Top /\ q = Parent[c]  BY DEF Children
  <2>2. CASE c = d
    <3>1. q = p  BY <1>2, <2>1, <2>2
    <3>2. p \notin lost' => thr[t].val = cache[d].full  BY <1>3
    <3> QED  BY <1>3, <1>12, <2>2, <3>1, <3>2 DEF KidRight
  <2>3. CASE c = p  BY <1>22, <2>3 DEF KidRight
  <2>4. CASE c # d /\ c # p
    <3>1. Spared(c)  BY <1>11, <2>1, <2>4
    <3>2. Telling(c) \/ ~Loaded(c)'  BY <2>1, <3>1, SparedTells
    <3>3. CASE q = d  BY <1>13, <3>2, <3>3, KeptHolds, KidSame
    <3>4. CASE q = p
      <4>1. cache'[p].kids[c] = cache[p].kids[c]  BY <1>3, <2>1, <2>4
      <4>2. KidRight(p, c)  BY <3>4 DEF Contents
      <4>3. CASE ~Loaded(c)'  BY <3>4, <4>3 DEF KidRight
      <4>4. CASE Telling(c)
        BY <1>3, <1>6, <1>16, <2>1, <3>4, <4>1, <4>2, <4>4 DEF KidRight, Telling
      <4> QED  BY <3>2, <4>3, <4>4
    <3> QED  BY <1>26, <2>4, <3>3, <3>4
  <2> QED  BY <2>2, <2>3, <2>4
<1> HIDE DEF S
<1> QED  BY <1>10, <1>24, <1>25, <1>26, ContentsBut

LEMMA FetchedContents ==
  ASSUME Typed, Inv, Contents, NEW t \in Thread, Fetched(t)
  PROVE  Contents'
<1>1. PICK d \in Dir : d = thr[t].this  BY ThreadIs
<1>2. /\ thr[t].pc = "fetched" /\ Only(d)
      /\ cache'[d].eff = cache[d].eff /\ cache'[d].most = cache[d].most
      /\ cache'[d].full = cache[d].full /\ cache'[d].kids = cache[d].kids
      /\ cache'[d].entry = cache[d].entry /\ cache'[d].db = thr[t].seen
      /\ \/ Leaves(t)
         \/ Moves(t, "miss") /\ thr'[t].next = "answer"
      /\ lost' = lost
  BY <1>1, FetchedEffect
<1>3. thr[t].seen # 0  BY <1>2, ThreadIs DEF Doing, Timed
<1>4. Others(t)  BY <1>2 DEF Leaves, Moves
<1>5. \A x \in Dir : Phase(t, x) = (IF x = d THEN "past" ELSE "none") /\ Upd(t, x) = "none"
  <2>1. thr[t].next = "answer"  BY <1>2, NextIs DEF Updaters
  <2> QED  BY <1>1, <1>2, <2>1 DEF Phase, Upd, Fetch, Fill, Unlisted, Updaters
<1>6. \A x \in Dir : Phase(t, x)' = "none"
  BY <1>2, LeavesTo, BeginsNext DEF Moves, Begins
<1>7. \A x \in Dir : Stays(t, x)
  BY <1>2, <1>3, <1>5, <1>6 DEF Stays, PhaseKept, UpdKept, BringsStill, Brings, Listers
<1>8. HereStays /\ \A x \in Dir : x # d => Spared(x)  BY <1>2, <1>4, <1>7, OnlySpares
<1>9. In({"past"}, d)  BY <1>5 DEF In
<1>10. Spared(d)  BY <1>2, <1>4, <1>7, <1>9, SparedBy
<1> QED  BY <1>8, <1>10, ContentsKept

LEMMA MissContents ==
  ASSUME Typed, Inv, Contents, NEW t \in Thread, Miss(t)
  PROVE  Contents'
<1>1. PICK d \in Dir : d = thr[t].this  BY ThreadIs
<1>2. thr[t].pc = "miss" /\ Only(d) /\ lost' = lost \cup {d} /\ Leaves(t)
  BY <1>1, MissEffect
<1>3. Nowhere(t)  BY <1>2, NowhereIs DEF Fetch, Fill, Unlisted, Updaters
<1>4. Others(t) /\ \A x \in Dir : Stays(t, x)  BY <1>2, <1>3, LeavesTo, NowhereStays DEF Leaves
<1>5. HereStays /\ \A x \in Dir : x # d => Spared(x)  BY <1>2, <1>4, OnlySpares
<1> QED  BY <1>2, <1>5, LostRight, ContentsOne

LEMMA WorkContents ==
  ASSUME Typed, Inv, Contents, NEW t \in Thread, Work(t)
  PROVE  Contents'
BY AwaitContents, EnterContents, DecideContents, SameContents, FindEntryContents,
   ChangedDbContents, DropContents, LookContents, SetNoneContents, RequestContents,
   ClearContents, ExchangeContents, ListContents, AskChildContents, SetChildContents,
   OwnChildContents, StatFileContents, AddEntryContents, EndFetchContents, MarkContents,
   CalcContents, WriteContents, TellContents, CompareContents, PutContents,
   FetchedContents, MissContents
   DEF Work

-----------------------------------------------------------------------------

LEMMA WorldContents ==
  ASSUME Typed, Inv, Contents, cache' = cache, thr' = thr, \A d \in Dir : d \in lost => d \in lost'
  PROVE  Contents'
<1>1. ASSUME NEW d \in Dir PROVE Spared(d)
  <2>1. \A t \in Thread : Phase(t, d)' = Phase(t, d) /\ Upd(t, d)' = Upd(t, d) /\ Done(t)' = Done(t)
    BY DEF Phase, Upd, Done, Child
  <2> QED  BY <2>1 DEF Spared, Kept, PhaseKept, UpdKept, BringsStill, Brings
<1>2. HereStays  BY DEF HereStays
<1> QED  BY <1>1, <1>2, ContentsKept

\* The crawler is at none of the steps of a fetch, before and after.
LEMMA CrawlerContents ==
  ASSUME Typed, Inv, Contents, Others(Crawler), cache' = cache,
         \A d \in Dir : d \in lost => d \in lost',
         thr[Crawler].pc \in {"idle", "asleep", "folders", "answer", "done"},
         thr'[Crawler].pc \in {"idle", "asleep", "folders", "enter", "decide", "done"},
         thr'[Crawler].next = "answer"
  PROVE  Contents'
<1>1. Nowhere(Crawler)  BY CrawlerIs, NowhereIs DEF Fetch, Fill, Unlisted, Updaters
<1>2. \A d \in Dir : Stays(Crawler, d)  BY <1>1, CrawlerIs, BeginsNext, NowhereStays DEF Begins
<1> QED  BY <1>2, CrawlerIs, StillContents

LEMMA InvalidateContents == ASSUME Typed, Inv, Contents, Invalidate PROVE Contents'
<1>1. /\ Others(Crawler) /\ thr[Crawler].pc = "invalidate" /\ thr'[Crawler].pc = "decide"
      /\ thr'[Crawler].next = thr[Crawler].next
      /\ Elsewhere(Top)
      /\ cache'[Top].here = cache[Top].here /\ cache'[Top].eff = cache[Top].eff
      /\ cache'[Top].most = cache[Top].most /\ cache'[Top].full = cache[Top].full
      /\ cache'[Top].kids = cache[Top].kids /\ cache'[Top].entry = cache[Top].entry
      /\ cache'[Top].db = cache[Top].db
  BY InvalidateEffect DEF Invalidate, world
<1>2. thr[Crawler].next = "answer"  BY <1>1, CrawlerIs, NextIs DEF Updaters
<1>3. Nowhere(Crawler)  BY <1>1, CrawlerIs, NowhereIs DEF Fetch, Fill, Unlisted, Updaters
<1>4. \A d \in Dir : Stays(Crawler, d)
  BY <1>1, <1>2, <1>3, CrawlerIs, BeginsNext, NowhereStays DEF Begins
<1>5. lost' = lost  BY DEF Invalidate
<1>6. ASSUME NEW d \in Dir PROVE Spared(d)
  <2>1. CASE d = Top  BY <1>1, <1>4, <1>5, <2>1, CrawlerIs, SparedBy
  <2>2. CASE d # Top  BY <1>1, <1>4, <1>5, <2>2, CrawlerIs, SparedSame DEF Elsewhere
  <2> QED  BY <2>1, <2>2
<1>7. HereStays  BY <1>1 DEF HereStays, Elsewhere
<1> QED  BY <1>6, <1>7, ContentsKept

LEMMA CrawlsContents == ASSUME Typed, Inv, Contents, Crawls PROVE Contents'
<1> DEFINE lostGrows == \A d \in Dir : d \in lost => d \in lost'
           rests == thr[Crawler].pc \in {"idle", "asleep", "folders", "answer", "done"}
<1>1. ASSUME NEW pc \in {"idle", "asleep", "folders"}, Loop(pc), rests, lostGrows,
             UNCHANGED <<world, cache>>
      PROVE  Contents'
  <2>1. Loops(pc)  BY <1>1, LoopEffect DEF world
  <2> QED  BY <1>1, <2>1, CrawlerContents DEF Loops
<1>2. ASSUME NEW kind, NEW d \in Dir, NEW p, Item(kind, d, p), rests, lostGrows,
             UNCHANGED <<world, cache>>,
             \/ kind = "file" /\ p = File(d)
             \/ kind = "folder" /\ p = Folder(d)
             \/ kind = "db" /\ p = Folder(d) /\ d = Top
      PROVE  Contents'
  <2>1. Gets(kind, d, p)  BY <1>2, ItemEffect DEF world
  <2> QED  BY <1>2, <2>1, CrawlerContents DEF Gets
<1>3. CASE Wake  BY <1>1, <1>3 DEF Wake, At
<1>4. CASE Sleep  BY <1>1, <1>4 DEF Sleep, MayCrawl, At
<1>5. CASE NoFolder  BY <1>1, <1>5 DEF NoFolder, At
<1>6. CASE Invalidate  BY <1>6, InvalidateContents
<1>7. CASE Refresh
  <2>1. PICK d : d = thr[Crawler].of  OBVIOUS
  <2>2. /\ Others(Crawler) /\ thr[Crawler].pc = "answer" /\ thr'[Crawler].pc \in {"decide", "done"}
        /\ thr'[Crawler].next = "answer"
        /\ \A x \in Dir : x \in lost => x \in lost'
    BY <1>7, <2>1, RefreshEffect DEF Refresh, world
  <2> QED  BY <1>7, <2>2, CrawlerContents DEF Refresh
<1>8. CASE Refreshed
  <2>1. /\ Others(Crawler) /\ thr[Crawler].pc = "answer" /\ thr'[Crawler].pc = "done"
        /\ thr'[Crawler].next = thr[Crawler].next
    BY <1>8, RefreshedEffect DEF Refreshed, world
  <2>2. thr[Crawler].next = "answer"  BY <2>1, CrawlerIs, NextIs DEF Updaters
  <2> QED  BY <1>8, <2>1, <2>2, CrawlerContents DEF Refreshed
<1>9. ASSUME NEW e \in Dir \cup {Database}, TakePath(e) PROVE Contents'
  <2>1. /\ rests /\ lostGrows /\ UNCHANGED <<world, cache>>
    BY <1>9 DEF TakePath, MayCrawl, At
  <2>2. CASE thr' = thr  BY <2>1, <2>2, WorldContents
  <2>3. CASE Item("db", Top, Folder(Top))  BY <1>2, <2>1, <2>3, CrawlerIs
  <2>4. CASE e # Database /\ Item("file", e, File(e))  BY <1>2, <2>1, <2>4
  <2> QED  BY <1>9, <2>2, <2>3, <2>4 DEF TakePath
<1>10. ASSUME NEW d \in Dir, TakeFolder(d) PROVE Contents'
  <2>1. /\ rests /\ lostGrows /\ UNCHANGED <<world, cache>>
    BY <1>10 DEF TakeFolder, MayCrawl, At
  <2>2. CASE Loop("idle")  BY <1>1, <2>1, <2>2
  <2>3. CASE Item("folder", d, Folder(d))  BY <1>2, <2>1, <2>3
  <2> QED  BY <1>10, <2>2, <2>3 DEF TakeFolder
<1>11. CASE DoneFolder  BY <1>1, <1>11 DEF DoneFolder, At
<1>12. CASE DoneDatabase  BY <1>1, <1>12 DEF DoneDatabase, At
<1>13. CASE DoneFile  BY <1>1, <1>13 DEF DoneFile, At
<1>14. CASE Work(Crawler)  BY <1>14, CrawlerIs, WorkContents
<1> QED  BY <1>3, <1>4, <1>5, <1>6, <1>7, <1>8, <1>9, <1>10, <1>11, <1>12, <1>13, <1>14 DEF Crawls

LEMMA NextContents == ASSUME Typed, Inv, Contents, [Next]_vars PROVE Contents'
<1>1. ASSUME NEW d \in Dir, Edit(d) PROVE Contents'  BY <1>1, WorldContents DEF Edit
<1>2. ASSUME NEW d \in Dir, Commit(d) PROVE Contents'  BY <1>2, WorldContents DEF Commit
<1>3. ASSUME NEW d \in Dir, UnBlock(d) PROVE Contents'
  BY <1>3, WorldContents DEF UnBlock, UnBlockPath
<1>4. CASE Block  BY <1>4, WorldContents DEF Block
<1>5. ASSUME NEW e, Notify(e) PROVE Contents'  BY <1>5, WorldContents DEF Notify
<1>6. CASE TimedOut  BY <1>6, WorldContents DEF TimedOut, UnBlockPath
<1>7. CASE Crawls  BY <1>7, CrawlsContents
<1>8. ASSUME NEW t \in Client, Work(t) PROVE Contents'  BY <1>8, CrawlerIs, WorkContents
<1>9. ASSUME NEW t \in Client, NEW p \in [file : BOOLEAN, dir : Dir], Ask(t, p),
             p.file \/ p.dir # Top
      PROVE  Contents'
  <2>1. Others(t) /\ thr[t].pc = "idle" /\ thr'[t].pc = "enter" /\ thr'[t].next = "answer"
    BY <1>9, AskEffect
  <2>2. t \in Thread  BY CrawlerIs
  <2>3. Nowhere(t)  BY <2>1, <2>2, NowhereIs DEF Fetch, Fill, Unlisted, Updaters
  <2>4. cache' = cache /\ lost' = lost  BY <1>9 DEF Ask
  <2> QED  BY <2>1, <2>2, <2>3, <2>4, LooseContents DEF Begins
<1>10. CASE UNCHANGED vars  BY <1>10, WorldContents DEF vars
<1>11. ASSUME NEW t \in Client, NEW d \in Dir, Ask(t, File(d)) PROVE Contents'
  BY <1>9, <1>11, PathIs
<1>12. ASSUME NEW t \in Client, NEW d \in Dir \ {Top}, Ask(t, Folder(d)) PROVE Contents'
  BY <1>9, <1>12, PathIs
<1> QED  BY <1>1, <1>2, <1>3, <1>4, <1>5, <1>6, <1>7, <1>8, <1>10, <1>11, <1>12
         DEF Next, Progress

LEMMA InitContents == Init => Contents
<1> SUFFICES ASSUME Init PROVE Contents  OBVIOUS
<1>1. \A d \in Dir : cache[d] = Fresh  BY DEF Init
<1>2. \A t \in Thread : thr[t].next = "answer" /\ thr[t].pc \in {"idle", "asleep"}
  <2>1. Idle.pc = "idle" /\ Idle.next = "answer"  BY IdleType
  <2>2. [Idle EXCEPT !.pc = "asleep"].pc = "asleep" /\ [Idle EXCEPT !.pc = "asleep"].next = "answer"
    BY DEF Idle
  <2> QED  BY <2>1, <2>2 DEF Init
<1>3. \A t \in Thread : \A d \in Dir : Phase(t, d) = "none"
  BY <1>2 DEF Phase, Fetch, Fill, Unlisted
<1>4. \A d \in Dir : ~Listed(d) /\ ~Ended(d) /\ ~Loaded(d)
  <2>1. Fresh.db = 0  BY DEF Fresh
  <2> QED  BY <1>1, <1>3, <2>1 DEF Listed, Ended, Loaded, In
<1>5. \A d \in Dir : Right(d)
  BY <1>3, <1>4 DEF Right, HasFolders, Listing, HasFile, MostRight, FullRight, Listers
<1>6. \A p \in Dir : \A c \in Children(p) : KidRight(p, c)
  <2>1. \A p \in Dir : Children(p) \subseteq Dir  BY DEF Children
  <2> QED  BY <1>4, <2>1 DEF KidRight
<1> QED  BY <1>5, <1>6 DEF Contents

-----------------------------------------------------------------------------
(* What is out of date, and who is to notice it *)

\* The crawler has taken a directory to be refreshed, with all below it.
Taken(d) ==
  /\ thr[Crawler].item \in {"folder", "db"}
  /\ \/ /\ ~thr[Crawler].path.file /\ d \in Below[thr[Crawler].of]
        /\ d = thr[Crawler].of => thr[Crawler].pc \in {"enter", "invalidate", "decide"}
     \/ thr[Crawler].path.file /\ \E k \in thr[Crawler].kids : d \in Below[k]
Due(d) == (\E a \in Elements(folders) : d \in Below[a]) \/ Taken(d)
DbPend == Database \in events \/ Database \in Elements(paths)
EditDue(d) ==
  \/ d \in events \/ d \in Elements(paths)
  \/ /\ thr[Crawler].item = "file" /\ thr[Crawler].of = d
     /\ thr[Crawler].pc \in {"enter", "decide", "same", "find"}
Waits == {"invalidate", "decide", "changed", "drop", "look"}
Awaited(d) == \E t \in Thread : thr[t].this = d /\ thr[t].pc \in Waits

\* Who will notice a change of wc.db, and a new entry.
CommitSeen(d) == DbPend \/ (dbSeen \in {0, db} /\ Due(d))
NewSeen(d) == Due(d) \/ Awaited(d) \/ Fetching(d) \/ In({"past"}, d)

\* The file has the write time of the entry, and not its status.
Stale(d) ==
  cache[d].entry.st # "none" /\ cache[d].entry.time = disk[d].time
    /\ cache[d].entry.st # disk[d].st

\* What is out of date has not been fetched with the wc.db of now.
Late == {"end", "most", "mark", "past"}
OldDb(d) ==
  /\ cache[d].db # db
  /\ \A t \in Thread : Phase(t, d) \in Late => thr[t].seen # db
StaleOld(d) == d \notin lost /\ Stale(d) => Filling(d) \/ (OldDb(d) /\ CommitSeen(d))
EntryOld(t, d) ==
  Phase(t, d) = "entry" /\ thr[t].val # disk[d].st /\ thr[t].time = disk[d].time =>
    OldDb(d) /\ thr[t].seen # db /\ (d \notin lost => CommitSeen(d) \/ Cleared(d))
TimeOld(d) ==
  d \notin lost /\ cache[d].entry.st # "none" /\ cache[d].entry.time # disk[d].time =>
    Filling(d) \/ EditDue(d)
NewOld(d) == d \notin lost /\ cache[d].here /\ cache[d].db = 0 => NewSeen(d)

Notices(d) == StaleOld(d) /\ (\A t \in Thread : EntryOld(t, d)) /\ TimeOld(d) /\ NewOld(d)
Noticed == \A d \in Dir : Notices(d)

\* t goes on with d: it does not give it up before the end, and then with the
\* wc.db and the file that it has seen.
Minds(t, d) ==
  /\ Phase(t, d) \in {"clear", "exchange"} => Phase(t, d)' \in {"clear", "exchange"}
  /\ Phase(t, d) \in Fill => Phase(t, d)' \in Fill
  /\ Phase(t, d) \in Fetch => Phase(t, d)' \in Fetch
  /\ Phase(t, d) = "past" => Phase(t, d)' = "past"
  /\ Phase(t, d)' \in Late => Phase(t, d) \in Late /\ thr'[t].seen = thr[t].seen
  /\ Phase(t, d)' = "entry" =>
       /\ Phase(t, d) = "entry" /\ thr'[t].seen = thr[t].seen
       /\ thr'[t].val = thr[t].val /\ thr'[t].time = thr[t].time

Unmarked(d) ==
  /\ d \in lost => d \in lost'
  /\ cache'[d].entry.st # "none" => cache'[d].entry = cache[d].entry
  /\ cache'[d].db = cache[d].db /\ cache'[d].here = cache[d].here
  /\ disk'[d] = disk[d] /\ db' = db

LEMMA MindsAll ==
  ASSUME NEW d \in Dir, \A u \in Thread : Minds(u, d)
  PROVE  /\ Cleared(d) => Cleared(d)'
         /\ Filling(d) => Filling(d)'
         /\ Fetching(d) => Fetching(d)'
         /\ In({"past"}, d) => In({"past"}, d)'
         /\ cache'[d].db = cache[d].db /\ db' = db /\ OldDb(d) => OldDb(d)'
BY DEF Minds, Cleared, Filling, Fetching, In, OldDb

LEMMA NoticesKept ==
  ASSUME NEW d \in Dir, Notices(d), Unmarked(d), \A u \in Thread : Minds(u, d),
         OldDb(d) /\ CommitSeen(d) => CommitSeen(d)' \/ Cleared(d)' \/ d \in lost',
         EditDue(d) => \/ EditDue(d)' \/ Filling(d)' \/ d \in lost'
                       \/ cache'[d].entry.time = disk[d].time,
         Due(d) \/ Awaited(d) => NewSeen(d)' \/ d \in lost' \/ cache'[d].db # 0
  PROVE  Notices(d)'
<1>1. /\ Cleared(d) => Cleared(d)'
      /\ Filling(d) => Filling(d)'
      /\ Fetching(d) => Fetching(d)'
      /\ In({"past"}, d) => In({"past"}, d)'
      /\ OldDb(d) => OldDb(d)'
  BY MindsAll DEF Unmarked
<1>2. Cleared(d)' => Filling(d)'  BY DEF Cleared, Filling, In, Fill, Unlisted
<1>3. StaleOld(d)'  BY <1>1, <1>2 DEF Notices, StaleOld, Stale, Unmarked
<1>4. ASSUME NEW u \in Thread PROVE EntryOld(u, d)'
  BY <1>1 DEF Notices, EntryOld, Unmarked, Minds
<1>5. TimeOld(d)'  BY <1>1 DEF Notices, TimeOld, Unmarked
<1>6. NewOld(d)'  BY <1>1 DEF Notices, NewOld, NewSeen, Unmarked
<1> QED  BY <1>3, <1>4, <1>5, <1>6 DEF Notices

-----------------------------------------------------------------------------
(* A step of a thread in the cache *)

Turn(t) ==
  /\ Typed /\ Inv /\ Typed' /\ Others(t) /\ QueuesGrow
  /\ disk' = disk /\ db' = db /\ events' = events
  /\ Like(thr'[t], thr[t]) \/ (t # Crawler /\ Leaves(t))
  /\ dbSeen \in {0, db} => dbSeen' \in {0, db}

LEMMA LeavesKeeps ==
  ASSUME Typed, NEW t \in Thread, Leaves(t), thr[t].pc \notin {"idle", "asleep", "folders"}
  PROVE  Like(thr'[t], thr[t]) \/ (t # Crawler /\ Leaves(t))
<1>1. t = Crawler => thr[t].item # "ask"  BY ThreadIs DEF Doing
<1> QED  BY <1>1 DEF Leaves

LEMMA WorkLike ==
  ASSUME Typed, Inv, NEW t \in Thread, Work(t)
  PROVE  Like(thr'[t], thr[t]) \/ (t # Crawler /\ Leaves(t))
<1>1. \A pc : Steps(t, pc) \/ Moves(t, pc) => Like(thr'[t], thr[t])  BY DEF Steps, Moves
<1>2. thr[t].pc \notin {"idle", "asleep", "folders"} /\ (Leaves(t) \/ Ends(t)) =>
        Like(thr'[t], thr[t]) \/ (t # Crawler /\ Leaves(t))
  BY LeavesKeeps DEF Ends, Moves
<1>3. CASE Await(t) \/ Enter(t) \/ Decide(t) \/ Same(t) \/ FindEntry(t) \/ ChangedDb(t)
           \/ Drop(t) \/ Look(t)
  BY <1>1, <1>2, <1>3, AwaitEffect, EnterEffect, DecideEffect, SameEffect, FindEntryEffect,
     ChangedDbEffect, DropEffect, LookEffect
<1>4. CASE SetNone(t) \/ Request(t) \/ Clear(t) \/ Exchange(t) \/ List(t) \/ AskChild(t)
           \/ SetChild(t) \/ OwnChild(t)
  BY <1>1, <1>2, <1>4, SetNoneEffect, RequestEffect, ClearEffect, ExchangeEffect, ListEffect,
     AskChildEffect, SetChildEffect, OwnChildEffect
<1>5. CASE StatFile(t) \/ AddEntry(t) \/ EndFetch(t) \/ Most(t) \/ Mark(t) \/ Calc(t) \/ Write(t)
  BY <1>1, <1>2, <1>5, StatFileEffect, AddEntryEffect, EndFetchEffect, MostEffect, MarkEffect,
     CalcEffect, WriteEffect
<1>6. CASE Tell(t) \/ Compare(t) \/ Put(t) \/ Fetched(t) \/ Miss(t)
  BY <1>1, <1>2, <1>6, TellEffect, CompareEffect, PutEffect, FetchedEffect, MissEffect
<1> QED  BY <1>3, <1>4, <1>5, <1>6 DEF Work

LEMMA WorkSeen ==
  ASSUME Typed, Inv, NEW t \in Thread, Work(t), dbSeen \in {0, db}
  PROVE  dbSeen' \in {0, db}
<1>1. CASE Decide(t)  BY <1>1, DecideEffect
<1>2. CASE dbSeen' = dbSeen  BY <1>2
<1>3. CASE Await(t) \/ Enter(t) \/ Same(t) \/ FindEntry(t) \/ ChangedDb(t)
           \/ Drop(t) \/ Look(t) \/ SetNone(t) \/ Request(t)
  BY <1>2, <1>3, Zenon
  DEF Await, Enter, Same, FindEntry, ChangedDb, Drop, Look, SetNone, Request
<1>4. CASE Clear(t) \/ Exchange(t) \/ List(t) \/ AskChild(t) \/ SetChild(t) \/ OwnChild(t)
           \/ StatFile(t) \/ AddEntry(t) \/ EndFetch(t)
  BY <1>2, <1>4, Zenon
  DEF Clear, Exchange, List, AskChild, SetChild, OwnChild, StatFile, AddEntry, EndFetch
<1>5. CASE Most(t) \/ Mark(t) \/ Calc(t) \/ Write(t) \/ Tell(t) \/ Compare(t) \/ Put(t)
           \/ Fetched(t) \/ Miss(t)
  BY <1>2, <1>5, Zenon DEF Most, Mark, Calc, Write, Tell, Compare, Put, Fetched, Miss
<1> QED  BY <1>1, <1>3, <1>4, <1>5 DEF Work

LEMMA TurnIs == ASSUME Typed, Inv, NEW t \in Thread, Work(t) PROVE Turn(t)
<1>1. Fits(t) /\ Frame /\ Typed'  BY WorkFits, WorkTyped
<1>2. dbSeen \in {0, db} => dbSeen' \in {0, db}  BY WorkSeen
<1> QED  BY <1>1, <1>2, WorkLike DEF Turn, Fits, Frame

LEMMA OthersMind ==
  ASSUME NEW t \in Thread, Others(t), NEW u \in Thread, u # t, NEW d \in Dir
  PROVE  Minds(u, d)
BY OthersStay DEF Minds, Others

\* Elsewhere than in the directory it is at, a thread has no part in a fetch.
LEMMA MindsAway ==
  ASSUME NEW t \in Thread, Turn(t), NEW d \in Dir, d # thr[t].this
  PROVE  Minds(t, d) /\ Phase(t, d)' = "none"
<1>1. Phase(t, d) = "none"  BY DEF Phase
<1>2. Phase(t, d)' = "none"
  <2>1. CASE Like(thr'[t], thr[t])  BY <2>1 DEF Like, Phase
  <2>2. CASE Leaves(t)  BY <2>2, LeavesTo
  <2> QED  BY <2>1, <2>2 DEF Turn
<1> QED  BY <1>1, <1>2 DEF Minds, Fill, Unlisted, Fetch, Late

-----------------------------------------------------------------------------

\* The directory that the crawler has taken is at hand until it has been looked
\* at.
Holds(t, d) ==
  t = Crawler /\ thr[t].this = d =>
    /\ thr[t].pc \in {"enter", "invalidate", "decide"} =>
         thr'[t].pc \in {"enter", "invalidate", "decide"}
    /\ thr[t].item = "file" /\ thr[t].pc \in {"enter", "decide", "same", "find"} =>
         thr'[t].pc \in {"enter", "decide", "same", "find"}

LEMMA DueKept ==
  ASSUME NEW t \in Thread, Turn(t), NEW d \in Dir
  PROVE  /\ DbPend => DbPend'
         /\ t # Crawler \/ thr[t].this # d \/ thr[t].item = "file" \/ thr[t].path.file
              \/ thr[t].pc \notin {"enter", "invalidate", "decide"}
              \/ thr'[t].pc \in {"enter", "invalidate", "decide"} => (Due(d) => Due(d)')
         /\ t # Crawler \/ thr[t].this # d \/ thr[t].item # "file"
              \/ thr[t].pc \notin {"enter", "decide", "same", "find"}
              \/ thr'[t].pc \in {"enter", "decide", "same", "find"} => (EditDue(d) => EditDue(d)')
<1>1. t = Crawler \/ thr'[Crawler] = thr[Crawler]  BY CrawlerIs DEF Turn, Others
<1>2. /\ thr'[Crawler].item = thr[Crawler].item /\ thr'[Crawler].of = thr[Crawler].of
      /\ thr'[Crawler].path = thr[Crawler].path /\ thr'[Crawler].kids = thr[Crawler].kids
  BY <1>1 DEF Turn, Like
<1>3. thr[Crawler].item # "ask" => thr[Crawler].of = thr[Crawler].this
  BY CrawlerIs DEF Turn, Inv, Local
<1>4. DbPend => DbPend'  BY DEF DbPend, QueuesGrow, Turn
<1>5. ASSUME t # Crawler \/ thr[t].this # d \/ thr[t].item = "file" \/ thr[t].path.file
              \/ thr[t].pc \notin {"enter", "invalidate", "decide"}
              \/ thr'[t].pc \in {"enter", "invalidate", "decide"}, Due(d)
      PROVE  Due(d)'
  <2>1. Taken(d) => Taken(d)'  BY <1>1, <1>2, <1>3, <1>5 DEF Taken
  <2> QED  BY <1>5, <2>1 DEF Due, QueuesGrow, Turn
<1>6. ASSUME t # Crawler \/ thr[t].this # d \/ thr[t].item # "file"
              \/ thr[t].pc \notin {"enter", "decide", "same", "find"}
              \/ thr'[t].pc \in {"enter", "decide", "same", "find"}, EditDue(d)
      PROVE  EditDue(d)'
  BY <1>1, <1>2, <1>3, <1>6 DEF EditDue, QueuesGrow, Turn
<1> QED  BY <1>4, <1>5, <1>6

LEMMA SeenKept ==
  ASSUME NEW t \in Thread, Turn(t), NEW d \in Dir, Holds(t, d)
  PROVE  /\ DbPend => DbPend'
         /\ Due(d) => Due(d)'
         /\ EditDue(d) => EditDue(d)'
         /\ CommitSeen(d) => CommitSeen(d)'
<1>1. /\ DbPend => DbPend'
      /\ Due(d) => Due(d)'
      /\ EditDue(d) => EditDue(d)'
  BY DueKept DEF Holds
<1> QED  BY <1>1 DEF CommitSeen, Turn

LEMMA HoldsAway == ASSUME NEW t \in Thread, NEW d, d # thr[t].this PROVE Holds(t, d)
BY DEF Holds

LEMMA HoldsPast ==
  ASSUME NEW t \in Thread, NEW d, thr[t].pc \notin {"enter", "invalidate", "decide", "same", "find"}
  PROVE  Holds(t, d)
BY DEF Holds

\* Who waits for d to be fetched still does, or d is, or nobody need.
LEMMA AwaitedKept ==
  ASSUME NEW t \in Thread, Others(t), NEW d \in Dir,
         thr[t].this = d /\ thr[t].pc \in Waits =>
           (thr'[t].this = d /\ thr'[t].pc \in Waits) \/ NewSeen(d)' \/ cache'[d].db # 0,
         Awaited(d)
  PROVE  NewSeen(d)' \/ cache'[d].db # 0
<1>1. PICK u \in Thread : thr[u].this = d /\ thr[u].pc \in Waits  BY DEF Awaited
<1>2. CASE u = t  BY <1>1, <1>2 DEF Awaited, NewSeen
<1>3. CASE u # t
  <2>1. thr'[u] = thr[u]  BY <1>3 DEF Others
  <2> QED  BY <1>1, <2>1 DEF Awaited, NewSeen
<1> QED  BY <1>2, <1>3

LEMMA NoticesStep ==
  ASSUME NEW t \in Thread, Turn(t), NEW d \in Dir, Notices(d), Minds(t, d), Holds(t, d),
         d \in lost => d \in lost',
         cache'[d].entry.st # "none" => cache'[d].entry = cache[d].entry,
         cache'[d].db = cache[d].db, cache'[d].here = cache[d].here,
         thr[t].this = d /\ thr[t].pc \in Waits =>
           (thr'[t].this = d /\ thr'[t].pc \in Waits) \/ NewSeen(d)' \/ cache'[d].db # 0
  PROVE  Notices(d)'
<1>1. /\ Due(d) => Due(d)'
      /\ EditDue(d) => EditDue(d)'
      /\ CommitSeen(d) => CommitSeen(d)'
  BY SeenKept
<1>2. \A u \in Thread : Minds(u, d)  BY OthersMind DEF Turn
<1>3. Unmarked(d)  BY DEF Unmarked, Turn
<1>4. Awaited(d) => NewSeen(d)' \/ cache'[d].db # 0  BY AwaitedKept DEF Turn
<1>5. Due(d) => NewSeen(d)'  BY <1>1 DEF NewSeen
<1> QED  BY <1>1, <1>2, <1>3, <1>4, <1>5, NoticesKept

\* ... in a directory that the thread is not at.
LEMMA NoticesAway ==
  ASSUME Noticed, NEW t \in Thread, Turn(t), NEW d \in Dir, d # thr[t].this,
         d \in lost => d \in lost',
         cache'[d].entry = cache[d].entry,
         cache'[d].db = cache[d].db, cache'[d].here = cache[d].here
  PROVE  Notices(d)'
<1>1. Minds(t, d) /\ Holds(t, d) /\ Notices(d)  BY MindsAway, HoldsAway DEF Noticed
<1> QED  BY <1>1, NoticesStep

\* It is enough to look at the directory that the thread is at.
LEMMA NoticesHere ==
  ASSUME Noticed, NEW t \in Thread, Turn(t), NEW d \in Dir, d = thr[t].this, Only(d),
         \A x \in Dir : x # d /\ x \in lost => x \in lost',
         Notices(d)'
  PROVE  Noticed'
<1>1. ASSUME NEW x \in Dir, x # d PROVE Notices(x)'
  <2>1. cache'[x] = cache[x]  BY <1>1 DEF Only, Elsewhere
  <2> QED  BY <1>1, <2>1, NoticesAway
<1> QED  BY <1>1 DEF Noticed

LEMMA OnlySame == ASSUME Typed, cache' = cache, NEW d \in Dir PROVE Only(d)
BY DEF Only, Elsewhere, Typed, CacheType

\* An entry that is made: somebody will come to it.
LEMMA NoticesNew ==
  ASSUME NEW t \in Thread, Turn(t), NEW d \in Dir, Upgraded(t), d \in New(t),
         Phase(t, d)' = "none", cache'[d].entry = NoEntry, d \in lost' \/ NewSeen(d)'
  PROVE  Notices(d)'
<1>1. \A u \in Thread : Phase(u, d)' = "none"  BY NewIdle, OthersStay DEF Turn
<1>2. cache'[d].entry.st = "none"  BY FreshType
<1> QED  BY <1>1, <1>2 DEF Notices, StaleOld, Stale, EntryOld, TimeOld, NewOld

\* ... because it is to be crawled, or its request is dropped.
LEMMA CrawledSeen ==
  ASSUME Typed, NEW S \in SUBSET Dir, Crawl(S), NEW d \in S, Dropped(S) \subseteq lost'
  PROVE  d \in lost' \/ NewSeen(d)'
<1>1. d \in Below[d]  BY BelowSelf
<1>2. CASE blocked  BY <1>1, <1>2 DEF Dropped
<1>3. CASE ~blocked
  <2>1. d \in Elements(folders')  BY <1>3, CrawlEffect
  <2> QED  BY <1>1, <2>1 DEF NewSeen, Due
<1> QED  BY <1>2, <1>3

\* GetDirectoryCacheEntry in a fetch or an update
LEMMA GrowNotices ==
  ASSUME Noticed, NEW t \in Thread, Turn(t), Upgraded(t), cache' = Made(t), Crawl(New(t)),
         lost' = lost \cup Dropped(New(t)), NEW o \in Dir, o = thr[t].this,
         thr[t].pc \in {"folder", "tell"}, Minds(t, o), Phase(t, o) = "none" => Phase(t, o)' = "none"
  PROVE  Noticed'
<1>1. New(t) \in SUBSET Dir  BY NewType DEF Turn
<1>2. ASSUME NEW d \in Dir, d \in New(t) PROVE Notices(d)'
  <2>1. cache'[d].entry = NoEntry  BY <1>2, MadeIs, FreshType DEF Turn
  <2>2. d \in lost' \/ NewSeen(d)'  BY <1>1, <1>2, CrawledSeen DEF Turn
  <2>3. Phase(t, d)' = "none"
    <3>1. Phase(t, d) = "none"  BY <1>2, NewIdle DEF Turn
    <3> QED  BY <3>1, MindsAway
  <2> QED  BY <1>2, <2>1, <2>2, <2>3, NoticesNew
<1>3. ASSUME NEW d \in Dir, d \notin New(t) PROVE Notices(d)'
  <2>1. cache'[d] = cache[d]  BY <1>3, MadeIs DEF Turn
  <2>2. CASE d # o  BY <2>1, <2>2, NoticesAway
  <2>3. CASE d = o
    <3>1. Holds(t, d) /\ thr[t].pc \notin Waits /\ Notices(d)  BY HoldsPast DEF Waits, Noticed
    <3> QED  BY <2>1, <2>3, <3>1, NoticesStep
  <2> QED  BY <2>2, <2>3
<1> QED  BY <1>2, <1>3 DEF Noticed

-----------------------------------------------------------------------------

LEMMA MindsNew ==
  ASSUME NEW t \in Thread, NEW d \in Dir, Phase(t, d) = "none", Phase(t, d)' \in {"none", "clear"}
  PROVE  Minds(t, d)
BY DEF Minds, Fill, Unlisted, Fetch, Late

LEMMA MindsSame ==
  ASSUME NEW t \in Thread, NEW d \in Dir, Phase(t, d)' = Phase(t, d),
         Phase(t, d) \in Late => thr'[t].seen = thr[t].seen,
         Phase(t, d) = "entry" => thr'[t].seen = thr[t].seen /\ thr'[t].val = thr[t].val
                                  /\ thr'[t].time = thr[t].time
  PROVE  Minds(t, d)
BY DEF Minds

LEMMA AwaitNotices ==
  ASSUME Typed, Inv, Noticed, NEW t \in Thread, Await(t)
  PROVE  Noticed'
<1>1. PICK d \in Dir : d = thr[t].this  BY ThreadIs
<1>2. /\ Steps(t, thr[t].pc) /\ thr'[t].val = thr[t].val /\ thr'[t].time = thr[t].time
      /\ thr[t].pc \in {"enter", "folder", "tell"} /\ cache' = cache /\ lost' = lost
  BY AwaitEffect
<1>3. Turn(t)  BY TurnIs DEF Work
<1>4. Phase(t, d)' = Phase(t, d)  BY <1>2 DEF Phase, Steps, Moves, Like
<1>5. Minds(t, d)  BY <1>2, <1>4, MindsSame DEF Steps
<1>6. Holds(t, d)  BY <1>2 DEF Holds, Steps, Moves
<1>7. Notices(d)'  BY <1>2, <1>3, <1>5, <1>6, NoticesStep DEF Noticed, Waits
<1> QED  BY <1>1, <1>2, <1>3, <1>7, OnlySame, NoticesHere

LEMMA EnterNotices ==
  ASSUME Typed, Inv, Noticed, NEW t \in Thread, Enter(t)
  PROVE  Noticed'
<1>1. PICK o \in Dir : o = thr[t].this  BY ThreadIs
<1>2. /\ thr[t].pc = "enter" /\ Upgraded(t) /\ cache' = Made(t) /\ lost' = lost
      /\ Steps(t, "invalidate") \/ (Steps(t, "decide") /\ thr[t].item # "db")
      /\ Steps(t, "invalidate") => thr[t].item = "db"
  BY EnterEffect DEF Steps, Moves
<1>3. Turn(t)  BY TurnIs DEF Work
<1>4. thr'[t].this = o /\ thr'[t].pc \in {"invalidate", "decide"} /\ thr[t].next = "answer"
      /\ thr'[t].next = "answer"
  BY <1>1, <1>2, NextIs DEF Steps, Moves, Like, Updaters
<1>5. Phase(t, o) = "none" /\ Phase(t, o)' = "none"
  BY <1>1, <1>2, <1>4 DEF Phase, Fetch, Fill, Unlisted
<1>6. Holds(t, o)
  BY <1>2, <1>4 DEF Holds, Steps, Moves
<1>7. Awaited(o)'  BY <1>4 DEF Awaited, Waits
<1>8. ASSUME NEW d \in Dir, d \in New(t) PROVE Notices(d)'
  <2>1. d = o
    <3>1. Needs(t) = {o}  BY <1>1, <1>2 DEF Needs
    <3> QED  BY <1>8, <3>1 DEF New, Inv, Local
  <2>2. cache'[d].entry = NoEntry  BY <1>2, <1>8, MadeIs, FreshType
  <2> QED  BY <1>2, <1>3, <1>5, <1>7, <1>8, <2>1, <2>2, NoticesNew DEF NewSeen
<1>9. ASSUME NEW d \in Dir, d \notin New(t) PROVE Notices(d)'
  <2>1. cache'[d] = cache[d]  BY <1>2, <1>9, MadeIs
  <2>2. CASE d # o  BY <1>1, <1>2, <1>3, <2>1, <2>2, NoticesAway
  <2>3. CASE d = o
    <3>1. Minds(t, d) /\ thr[t].pc \notin Waits  BY <1>2, <1>5, <2>3, MindsNew DEF Waits
    <3> QED  BY <1>2, <1>3, <1>6, <2>1, <2>3, <3>1, NoticesStep DEF Noticed
  <2> QED  BY <2>2, <2>3
<1> QED  BY <1>8, <1>9 DEF Noticed

LEMMA DecideNotices ==
  ASSUME Typed, Inv, Noticed, NEW t \in Thread, Decide(t)
  PROVE  Noticed'
<1>1. PICK d \in Dir : d = thr[t].this  BY ThreadIs
<1>2. /\ thr[t].pc = "decide" /\ dbSeen' \in 1 .. db /\ dbSeen' \in {dbSeen, db}
      /\ thr'[t].next = thr[t].next
      /\ IF cache[d].db = dbSeen' THEN Moves(t, "same") ELSE Moves(t, "changed")
      /\ cache' = cache /\ lost' = lost
  BY <1>1, DecideEffect
<1>3. Turn(t)  BY TurnIs DEF Work
<1>4. /\ Like(thr'[t], thr[t]) /\ thr[t].next = "answer"
      /\ cache[d].db = dbSeen' => thr'[t].pc = "same"
      /\ cache[d].db # dbSeen' => thr'[t].pc = "changed"
  BY <1>2, NextIs DEF Moves, Updaters
<1>5. Phase(t, d) = "none"  BY <1>1, <1>2, <1>4 DEF Phase, Fetch, Fill, Unlisted
<1>6. Phase(t, d)' = IF thr[t].fetch /\ thr'[t].pc = "changed" THEN "clear" ELSE "none"
  BY <1>1, <1>2, <1>4 DEF Phase, Fetch, Fill, Unlisted, Like
<1>7. \A u \in Thread : Minds(u, d)  BY <1>3, <1>5, <1>6, MindsNew, OthersMind DEF Turn
<1>8. t = Crawler => thr[t].item # "ask" /\ thr[t].fetch
  BY <1>2, ThreadIs DEF Doing
<1>9. DbPend => DbPend'  BY <1>3, DueKept
<1>10. t # Crawler => (Due(d) => Due(d)')  BY <1>3, DueKept
<1>11. EditDue(d) => EditDue(d)' \/ Filling(d)'
  <2>1. CASE t = Crawler /\ thr'[t].pc = "changed"
    BY <1>6, <1>8, <2>1 DEF Filling, In, Fill, Unlisted
  <2>2. CASE t # Crawler \/ thr'[t].pc = "same"  BY <1>3, <2>2, DueKept
  <2> QED  BY <1>4, <2>1, <2>2
<1>12. OldDb(d) /\ CommitSeen(d) => CommitSeen(d)' \/ Cleared(d)'
  <2>1. CASE t # Crawler  BY <1>3, <1>9, <1>10, <2>1 DEF CommitSeen, Turn
  <2>2. CASE t = Crawler /\ thr'[t].pc = "changed"
    BY <1>6, <1>8, <2>2 DEF Cleared, In
  <2>3. CASE thr'[t].pc = "same" /\ OldDb(d)
    <3>1. dbSeen' # db  BY <1>4, <2>3 DEF OldDb
    <3>2. dbSeen \notin {0, db}  BY <1>2, <3>1
    <3> QED  BY <1>9, <3>2 DEF CommitSeen
  <2> QED  BY <1>4, <2>1, <2>2, <2>3
<1>13. NewSeen(d)' \/ cache'[d].db # 0
  <2>1. CASE thr'[t].pc = "same"
    <3>1. cache[d].db # 0  BY <1>2, <1>4, <2>1
    <3> QED  BY <1>2, <3>1
  <2>2. CASE thr'[t].pc = "changed"
    BY <1>1, <1>4, <2>2 DEF NewSeen, Awaited, Waits, Like
  <2> QED  BY <1>4, <2>1, <2>2
<1>14. Unmarked(d)  BY <1>2, <1>3 DEF Unmarked, Turn
<1>15. Notices(d)'  BY <1>7, <1>11, <1>12, <1>13, <1>14, NoticesKept DEF Noticed
<1> QED  BY <1>1, <1>2, <1>3, <1>15, OnlySame, NoticesHere

\* The look at the entry of a file: what the crawler has taken a file for.
LEMMA LookNotices ==
  ASSUME Noticed, NEW t \in Thread, Turn(t), NEW d \in Dir, d = thr[t].this, lost' = lost,
         cache' = cache, thr[t].pc \in {"same", "find"},
         thr[t].next = "answer", Phase(t, d)' \in {"none", "clear"},
         \/ t # Crawler \/ thr[t].item # "file"
         \/ thr'[t].pc = "find" \/ Phase(t, d)' = "clear"
         \/ cache[d].entry.time = disk[d].time
  PROVE  Noticed'
<1>1. Phase(t, d) = "none"  BY DEF Phase, Fetch, Fill, Unlisted
<1>2. \A u \in Thread : Minds(u, d)  BY <1>1, MindsNew, OthersMind DEF Turn
<1>3. /\ DbPend => DbPend'
      /\ Due(d) => Due(d)'
  BY DueKept
<1>4. CommitSeen(d) => CommitSeen(d)'  BY <1>3 DEF CommitSeen, Turn
<1>5. EditDue(d) => EditDue(d)' \/ Filling(d)' \/ cache'[d].entry.time = disk[d].time
  <2>1. CASE t # Crawler \/ thr[t].item # "file" \/ thr'[t].pc = "find"  BY <2>1, DueKept
  <2>2. CASE Phase(t, d)' = "clear"  BY <2>2 DEF Filling, In, Fill, Unlisted
  <2> QED  BY <2>1, <2>2
<1>6. Awaited(d) => NewSeen(d)' \/ cache'[d].db # 0
  <2>1. thr[t].pc \notin Waits  BY DEF Waits
  <2> QED  BY <2>1, AwaitedKept DEF Turn
<1>7. Due(d) => NewSeen(d)'  BY <1>3 DEF NewSeen
<1>8. Unmarked(d)  BY DEF Unmarked, Turn
<1>9. Notices(d)'  BY <1>2, <1>4, <1>5, <1>6, <1>7, <1>8, NoticesKept DEF Noticed
<1> QED  BY <1>9, OnlySame, NoticesHere DEF Turn

LEMMA SameNotices ==
  ASSUME Typed, Inv, Noticed, NEW t \in Thread, Same(t)
  PROVE  Noticed'
<1>1. PICK d \in Dir : d = thr[t].this  BY ThreadIs
<1>2. /\ thr[t].pc = "same" /\ cache' = cache /\ lost' = lost
      /\ \/ ~thr[t].path.file /\ Leaves(t)
         \/ Steps(t, "look")
         \/ Steps(t, "none") /\ ~thr[t].fetch
         \/ Steps(t, "find")
  BY SameEffect
<1>3. Turn(t)  BY TurnIs DEF Work
<1>4. thr[t].next = "answer"  BY <1>2, NextIs DEF Updaters
<1>5. t = Crawler => thr[t].fetch  BY <1>2, ThreadIs DEF Doing
<1>6. thr[t].item = "file" => thr[t].path.file  BY ThreadIs, PathIs DEF Doing
<1>7. CASE ~thr[t].path.file /\ Leaves(t)
  BY <1>1, <1>2, <1>3, <1>4, <1>6, <1>7, LeavesTo, LookNotices
<1>8. CASE Steps(t, "look")
  <2>1. Phase(t, d)' = IF thr[t].fetch THEN "clear" ELSE "none"
    BY <1>1, <1>4, <1>8 DEF Phase, Steps, Moves, Like, Fetch, Fill, Unlisted
  <2> QED  BY <1>1, <1>2, <1>3, <1>4, <1>5, <2>1, LookNotices
<1>9. CASE Steps(t, "none") /\ ~thr[t].fetch
  <2>1. Phase(t, d)' = "none"
    BY <1>1, <1>4, <1>9 DEF Phase, Steps, Moves, Like, Fetch, Fill, Unlisted
  <2> QED  BY <1>1, <1>2, <1>3, <1>4, <1>5, <1>9, <2>1, LookNotices
<1>10. CASE Steps(t, "find")
  <2>1. Phase(t, d)' = "none" /\ thr'[t].pc = "find"
    BY <1>1, <1>4, <1>10 DEF Phase, Steps, Moves, Like, Fetch, Fill, Unlisted
  <2> QED  BY <1>1, <1>2, <1>3, <1>4, <2>1, LookNotices
<1> QED  BY <1>2, <1>7, <1>8, <1>9, <1>10

LEMMA FindEntryNotices ==
  ASSUME Typed, Inv, Noticed, NEW t \in Thread, FindEntry(t)
  PROVE  Noticed'
<1>1. PICK d \in Dir : d = thr[t].this  BY ThreadIs
<1>2. /\ thr[t].pc = "find" /\ cache' = cache /\ lost' = lost
      /\ \/ Leaves(t) /\ cache[d].entry.time = disk[d].time
         \/ Steps(t, "look")
  BY <1>1, FindEntryEffect
<1>3. Turn(t)  BY TurnIs DEF Work
<1>4. thr[t].next = "answer"  BY <1>2, NextIs DEF Updaters
<1>5. t = Crawler => thr[t].fetch  BY <1>2, ThreadIs DEF Doing
<1>6. CASE Leaves(t) /\ cache[d].entry.time = disk[d].time
  BY <1>1, <1>2, <1>3, <1>4, <1>6, LeavesTo, LookNotices
<1>7. CASE Steps(t, "look")
  <2>1. Phase(t, d)' = IF thr[t].fetch THEN "clear" ELSE "none"
    BY <1>1, <1>4, <1>7 DEF Phase, Steps, Moves, Like, Fetch, Fill, Unlisted
  <2> QED  BY <1>1, <1>2, <1>3, <1>4, <1>5, <2>1, LookNotices
<1> QED  BY <1>2, <1>6, <1>7

-----------------------------------------------------------------------------

\* Another thread that fetches will come to the end of it.
LEMMA FetchingSeen ==
  ASSUME Inv, NEW t \in Thread, ~Fetches(t), Others(t), NEW d \in Dir, cache[d].fetching
  PROVE  Fetching(d)'
<1>1. PICK u \in Thread : Fetches(u) /\ thr[u].this = d  BY DEF Inv, OneFetcher
<1>2. u # t /\ Phase(u, d) \in Fetch  BY <1>1 DEF Fetches, Phase, Fetch, Fill, Unlisted
<1>3. Phase(u, d)' \in Fetch  BY <1>2, OthersStay
<1> QED  BY <1>3 DEF Fetching, In

LEMMA ChangedDbNotices ==
  ASSUME Typed, Inv, Noticed, NEW t \in Thread, ChangedDb(t)
  PROVE  Noticed'
<1>1. PICK d \in Dir : d = thr[t].this  BY ThreadIs
<1>2. /\ thr[t].pc = "changed" /\ cache' = cache /\ lost' = lost
      /\ \/ Moves(t, "none") /\ ~thr[t].fetch /\ thr'[t].next = "request"
         \/ Steps(t, "request") /\ ~thr[t].fetch /\ cache[d].db # 0
         \/ Steps(t, "drop")
  BY <1>1, ChangedDbEffect
<1>3. Turn(t)  BY TurnIs DEF Work
<1>4. thr[t].next = "answer"  BY <1>2, NextIs DEF Updaters
<1>5. Phase(t, d) = (IF thr[t].fetch THEN "clear" ELSE "none")  BY <1>1, <1>2, ClearingIs
<1>6. CASE Moves(t, "none") /\ ~thr[t].fetch /\ thr'[t].next = "request"
  <2>1. Phase(t, d)' = "none"  BY <1>1, <1>6 DEF Phase, Moves, Like, Fetch, Fill, Unlisted
  <2>2. cache[d].fetching
    <3>1. Busy(t) \/ thr'[t].pc \in {"request", "drop"}
      <4>1. thr[t] \in ThreadRec  BY ThreadIs
      <4>2. CASE ~Busy(t)
        <5>1. PICK pc \in {"request", "drop"} : Goes(t, [thr[t] EXCEPT !.pc = pc])
          BY <4>2, Zenon DEF ChangedDb
        <5>2. To(t, pc)  BY <5>1 DEF To
        <5> QED  BY <5>2, ToEffect, LabelIs DEF Steps, Moves
      <4> QED  BY <4>2
    <3> QED  BY <1>1, <1>6, <3>1 DEF Busy, Moves
  <2>3. Fetching(d)'  BY <1>2, <1>3, <2>2, FetchingSeen DEF Fetches, Turn
  <2>4. Minds(t, d) /\ Holds(t, d)  BY <1>2, <1>5, <1>6, <2>1, MindsNew, HoldsPast
  <2>5. Notices(d)'  BY <1>2, <1>3, <2>3, <2>4, NoticesStep DEF Noticed, NewSeen
  <2> QED  BY <1>1, <1>2, <1>3, <2>5, OnlySame, NoticesHere
<1>7. CASE Steps(t, "request") /\ ~thr[t].fetch /\ cache[d].db # 0
  <2>1. Phase(t, d)' = "none"
    BY <1>1, <1>4, <1>7 DEF Phase, Steps, Moves, Like, Fetch, Fill, Unlisted
  <2>2. Minds(t, d) /\ Holds(t, d)  BY <1>2, <1>5, <1>7, <2>1, MindsNew, HoldsPast
  <2>3. Notices(d)'  BY <1>2, <1>3, <1>7, <2>2, NoticesStep DEF Noticed
  <2> QED  BY <1>1, <1>2, <1>3, <2>3, OnlySame, NoticesHere
<1>8. CASE Steps(t, "drop")
  <2>1. Phase(t, d)' = Phase(t, d)
    BY <1>1, <1>2, <1>8 DEF Phase, Steps, Moves, Like, Fetch, Fill, Unlisted
  <2>2. Minds(t, d) /\ Holds(t, d)  BY <1>2, <1>5, <2>1, MindsSame, HoldsPast DEF Late
  <2>3. thr'[t].this = d /\ thr'[t].pc \in Waits
    BY <1>1, <1>8 DEF Steps, Moves, Like, Waits
  <2>4. Notices(d)'  BY <1>2, <1>3, <2>2, <2>3, NoticesStep DEF Noticed
  <2> QED  BY <1>1, <1>2, <1>3, <2>4, OnlySame, NoticesHere
<1> QED  BY <1>2, <1>6, <1>7, <1>8

LEMMA DropNotices ==
  ASSUME Typed, Inv, Noticed, NEW t \in Thread, Drop(t)
  PROVE  Noticed'
<1>1. PICK d \in Dir : d = thr[t].this  BY ThreadIs
<1>2. /\ thr[t].pc = "drop" /\ Steps(t, "look") /\ Only(d)
      /\ cache'[d].entry = NoEntry /\ cache'[d].db = cache[d].db
      /\ lost' = IF cache[d].entry # NoEntry THEN lost \cup {d} ELSE lost
  BY <1>1, DropEffect
<1>3. Turn(t)  BY TurnIs DEF Work
<1>4. Phase(t, d) = (IF thr[t].fetch THEN "clear" ELSE "none")  BY <1>1, <1>2, ClearingIs
<1>5. Phase(t, d)' = Phase(t, d)
  BY <1>1, <1>2 DEF Phase, Steps, Moves, Like, Fetch, Fill, Unlisted
<1>6. Minds(t, d) /\ Holds(t, d)  BY <1>2, <1>4, <1>5, MindsSame, HoldsPast DEF Late
<1>7. thr'[t].this = d /\ thr'[t].pc \in Waits
  BY <1>1, <1>2 DEF Steps, Moves, Like, Waits
<1>8. cache'[d].entry.st = "none" /\ cache'[d].here = cache[d].here
      /\ \A x \in Dir : x \in lost => x \in lost'
  BY <1>2, FreshType DEF Only
<1>9. Notices(d)'  BY <1>2, <1>3, <1>6, <1>7, <1>8, NoticesStep DEF Noticed
<1> QED  BY <1>1, <1>2, <1>3, <1>8, <1>9, NoticesHere

LEMMA LookUpNotices ==
  ASSUME Typed, Inv, Noticed, NEW t \in Thread, Look(t)
  PROVE  Noticed'
<1>1. PICK d \in Dir : d = thr[t].this  BY ThreadIs
<1>2. /\ thr[t].pc = "look" /\ cache' = cache /\ lost' = lost
      /\ \/ Steps(t, "none") /\ ~thr[t].fetch
         \/ Steps(t, "clear")
  BY <1>1, LookEffect
<1>3. Turn(t)  BY TurnIs DEF Work
<1>4. thr[t].next = "answer"  BY <1>2, NextIs DEF Updaters
<1>5. Phase(t, d) = (IF thr[t].fetch THEN "clear" ELSE "none")  BY <1>1, <1>2, ClearingIs
<1>6. CASE Steps(t, "none") /\ ~thr[t].fetch
  <2>1. Phase(t, d)' = "none"
    BY <1>1, <1>4, <1>6 DEF Phase, Steps, Moves, Like, Fetch, Fill, Unlisted
  <2>2. cache[d].fetching
    <3>1. CASE ~Busy(t)
      <4>1. To(t, "clear")  BY <3>1 DEF Look
      <4>2. Steps(t, "clear")  BY <4>1, ToEffect, LabelIs
      <4> QED  BY <1>6, <4>2 DEF Steps, Moves
    <3> QED  BY <1>1, <3>1 DEF Busy
  <2>3. Fetching(d)'  BY <1>2, <1>3, <2>2, FetchingSeen DEF Fetches, Turn
  <2>4. Minds(t, d) /\ Holds(t, d)  BY <1>2, <1>5, <1>6, <2>1, MindsNew, HoldsPast
  <2>5. Notices(d)'  BY <1>2, <1>3, <2>3, <2>4, NoticesStep DEF Noticed, NewSeen
  <2> QED  BY <1>1, <1>2, <1>3, <2>5, OnlySame, NoticesHere
<1>7. CASE Steps(t, "clear")
  <2>1. Phase(t, d)' = "clear"  BY <1>1, <1>7 DEF Phase, Steps, Moves, Like, Fetch, Fill, Unlisted
  <2>2. Minds(t, d) /\ Holds(t, d)
    BY <1>2, <1>5, <2>1, HoldsPast DEF Minds, Fetch, Fill, Unlisted, Late
  <2>3. Fetching(d)'  BY <2>1 DEF Fetching, In, Fetch, Fill, Unlisted
  <2>4. Notices(d)'  BY <1>2, <1>3, <2>2, <2>3, NoticesStep DEF Noticed, NewSeen
  <2> QED  BY <1>1, <1>2, <1>3, <2>4, OnlySame, NoticesHere
<1> QED  BY <1>2, <1>6, <1>7

LEMMA SetNoneNotices ==
  ASSUME Typed, Inv, Noticed, NEW t \in Thread, SetNone(t)
  PROVE  Noticed'
<1>1. PICK d \in Dir : d = thr[t].this  BY ThreadIs
<1>2. /\ thr[t].pc = "none" /\ Only(d)
      /\ cache'[d].entry = cache[d].entry /\ cache'[d].db = cache[d].db
      /\ lost' = (IF \E u \in Thread : Renews(u, d) THEN lost ELSE lost \cup {d})
      /\ \/ Moves(t, "request") /\ thr'[t].next = "answer"
         \/ Leaves(t)
  BY <1>1, SetNoneEffect
<1>3. Turn(t)  BY TurnIs DEF Work
<1>4. thr[t].next \in {"answer", "request"}  BY <1>2, NextIs
<1>5. Phase(t, d) = "none"  BY <1>1, <1>2, <1>4 DEF Phase, Fetch, Fill, Unlisted
<1>6. Phase(t, d)' = "none"
  <2>1. CASE Moves(t, "request") /\ thr'[t].next = "answer"
    BY <1>1, <2>1 DEF Phase, Moves, Like, Fetch, Fill, Unlisted
  <2>2. CASE Leaves(t)  BY <2>2, LeavesTo
  <2> QED  BY <1>2, <2>1, <2>2
<1>7. Minds(t, d) /\ Holds(t, d) /\ thr[t].pc \notin Waits
  BY <1>2, <1>5, <1>6, MindsNew, HoldsPast DEF Waits
<1>8. \A x \in Dir : x \in lost => x \in lost'  BY <1>2
<1>9. Notices(d)'  BY <1>2, <1>3, <1>7, <1>8, NoticesStep DEF Noticed, Only
<1> QED  BY <1>1, <1>2, <1>3, <1>8, <1>9, NoticesHere

LEMMA RequestNotices ==
  ASSUME Typed, Inv, Noticed, NEW t \in Thread, Request(t)
  PROVE  Noticed'
<1>1. PICK d \in Dir : d = thr[t].this  BY ThreadIs
<1>2. thr[t].pc = "request" /\ cache' = cache /\ lost' = lost /\ Leaves(t)  BY RequestEffect
<1>3. Turn(t)  BY TurnIs DEF Work
<1>4. thr[t].next = "answer"  BY <1>2, NextIs DEF Updaters
<1>5. Phase(t, d) = "none" /\ Phase(t, d)' = "none"
  BY <1>1, <1>2, <1>4, LeavesTo DEF Phase, Fetch, Fill, Unlisted
<1>6. Minds(t, d) /\ Holds(t, d) /\ thr[t].pc \notin Waits
  BY <1>2, <1>5, MindsNew, HoldsPast DEF Waits
<1>7. Notices(d)'  BY <1>2, <1>3, <1>6, NoticesStep DEF Noticed
<1> QED  BY <1>1, <1>2, <1>3, <1>7, OnlySame, NoticesHere

-----------------------------------------------------------------------------

\* A step within a fetch
LEMMA FetchPhase ==
  ASSUME Typed, NEW t \in Thread, thr[t].pc \in Fetch, NEW pc \in Fetch, Moves(t, pc),
         thr'[t].next = thr[t].next, NEW d \in Dir, d = thr[t].this
  PROVE  Phase(t, d) = thr[t].pc /\ Phase(t, d)' = pc /\ Fetching(d)'
<1>1. Phase(t, d) = thr[t].pc /\ Phase(t, d)' = pc  BY FetchIs, FetchNext
<1> QED  BY <1>1 DEF Fetching, In

LEMMA FetchMinds ==
  ASSUME Typed, NEW t \in Thread, thr[t].pc \in Fetch, NEW pc \in Fetch, Moves(t, pc),
         thr'[t].next = thr[t].next, thr'[t].seen = thr[t].seen,
         thr[t].pc \in {"clear", "exchange"} => pc = "exchange",
         thr[t].pc \in Fill => pc \in Fill, pc \in Late => thr[t].pc \in Late, pc # "entry",
         NEW d \in Dir, d = thr[t].this
  PROVE  Minds(t, d) /\ Holds(t, d) /\ thr[t].pc \notin Waits
<1>1. Phase(t, d) = thr[t].pc /\ Phase(t, d)' = pc  BY FetchPhase
<1>2. Holds(t, d) /\ thr[t].pc \notin Waits  BY HoldsPast DEF Waits, Fetch, Fill, Unlisted
<1>3. thr[t].pc # "past" /\ "past" \notin Fetch  BY DEF Fetch, Fill, Unlisted
<1> QED  BY <1>1, <1>2, <1>3 DEF Minds

LEMMA ClearNotices ==
  ASSUME Typed, Inv, Noticed, NEW t \in Thread, Clear(t)
  PROVE  Noticed'
<1>1. PICK d \in Dir : d = thr[t].this  BY ThreadIs
<1>2. /\ thr[t].pc = "clear" /\ Steps(t, "exchange") /\ Only(d)
      /\ cache'[d].entry = NoEntry /\ cache'[d].db = cache[d].db /\ lost' = lost
  BY <1>1, ClearEffect
<1>3. Turn(t)  BY TurnIs DEF Work
<1>4. Minds(t, d) /\ Holds(t, d) /\ thr[t].pc \notin Waits
  BY <1>1, <1>2, FetchMinds DEF Steps, Fetch, Fill, Unlisted, Late
<1>5. cache'[d].entry.st = "none"  BY <1>2, FreshType
<1>6. Notices(d)'  BY <1>2, <1>3, <1>4, <1>5, NoticesStep DEF Noticed, Only
<1> QED  BY <1>1, <1>2, <1>3, <1>6, NoticesHere

LEMMA ExchangeNotices ==
  ASSUME Typed, Inv, Noticed, NEW t \in Thread, Exchange(t)
  PROVE  Noticed'
<1>1. PICK d \in Dir : d = thr[t].this  BY ThreadIs
<1>2. /\ thr[t].pc = "exchange" /\ Only(d) /\ cache'[d].entry = cache[d].entry
      /\ \/ /\ cache[d].fetching /\ cache'[d].db = 0 /\ lost' = lost \cup Below[d]
            /\ Leaves(t)
         \/ /\ ~cache[d].fetching /\ lost' = lost \ {d} /\ Steps(t, "list")
  BY <1>1, ExchangeEffect
<1>3. Turn(t)  BY TurnIs DEF Work
<1>4. /\ disk' = disk /\ db' = db /\ Others(t)  BY <1>3 DEF Turn
<1>5. \A x \in Dir : x # d /\ x \in lost => x \in lost'  BY <1>2
<1>6. \A u \in Thread : u # t => Phase(u, d)' = Phase(u, d) /\ thr'[u] = thr[u]
  BY <1>4, OthersStay DEF Others
<1>7. CASE ~cache[d].fetching /\ Steps(t, "list")
  <2>1. Phase(t, d)' = "list" /\ Fetching(d)'
    BY <1>1, <1>2, <1>7, FetchPhase DEF Steps, Fetch, Fill, Unlisted
  <2>2. Filling(d)'  BY <2>1 DEF Filling, In, Fill, Unlisted
  <2>3. ASSUME NEW u \in Thread PROVE EntryOld(u, d)'
    <3>1. CASE u = t  BY <2>1, <3>1 DEF EntryOld
    <3>2. CASE u # t
      <4>1. Phase(u, d) # "entry"  BY <1>7 DEF Inv, OneFetcher, Phase, Fetches
      <4> QED  BY <1>6, <3>2, <4>1 DEF EntryOld
    <3> QED  BY <3>1, <3>2
  <2>4. Notices(d)'  BY <2>1, <2>2, <2>3 DEF Notices, StaleOld, TimeOld, NewOld, NewSeen
  <2> QED  BY <1>1, <1>2, <1>3, <1>5, <2>4, NoticesHere
<1>8. CASE cache'[d].db = 0 /\ lost' = lost \cup Below[d] /\ Leaves(t)
  <2>1. d \in lost'  BY <1>8, BelowSelf
  <2>2. Phase(t, d)' = "none"  BY <1>8, LeavesTo
  <2>3. db # 0  BY WorldIs
  <2>4. OldDb(d) => OldDb(d)'  BY <1>4, <1>6, <1>8, <2>2, <2>3 DEF OldDb, Late
  <2>5. ASSUME NEW u \in Thread PROVE EntryOld(u, d)'
    <3>1. CASE u = t  BY <2>2, <3>1 DEF EntryOld
    <3>2. CASE u # t  BY <1>4, <1>6, <2>1, <2>4, <3>2 DEF Noticed, Notices, EntryOld
    <3> QED  BY <3>1, <3>2
  <2>6. Notices(d)'  BY <2>1, <2>5 DEF Notices, StaleOld, TimeOld, NewOld
  <2> QED  BY <1>1, <1>2, <1>3, <1>5, <2>6, NoticesHere
<1> QED  BY <1>2, <1>7, <1>8

LEMMA ListNotices ==
  ASSUME Typed, Inv, Noticed, NEW t \in Thread, List(t) \/ SetChild(t)
  PROVE  Noticed'
<1>1. PICK d \in Dir : d = thr[t].this  BY ThreadIs
<1>2. PICK c : c = Child(t)  OBVIOUS
<1>3. /\ thr[t].pc \in {"list", "child"} /\ Only(d)
      /\ cache'[d].entry = cache[d].entry /\ cache'[d].db = cache[d].db
      /\ Moves(t, "file") \/ Moves(t, "folder") \/ Moves(t, "own")
      /\ thr'[t].seen = thr[t].seen /\ thr'[t].next = thr[t].next
      /\ \A x \in Dir : x \in lost => x \in lost'
  <2>1. CASE List(t)  BY <1>1, <2>1, ListEffect
  <2>2. CASE SetChild(t)
    <3>1. /\ thr[t].pc = "child" /\ Only(d) /\ Steps(t, "own")
          /\ cache'[d].entry = cache[d].entry /\ cache'[d].db = cache[d].db
          /\ lost' = lost \/ lost' = lost \cup {d}
      BY <1>1, <1>2, <2>2, SetChildEffect
    <3> QED  BY <3>1 DEF Steps
  <2> QED  BY <2>1, <2>2
<1>4. Turn(t)  BY TurnIs DEF Work
<1>5. Minds(t, d) /\ Holds(t, d) /\ thr[t].pc \notin Waits
  BY <1>1, <1>3, FetchMinds DEF Fetch, Fill, Unlisted, Late
<1>6. Notices(d)'  BY <1>3, <1>4, <1>5, NoticesStep DEF Noticed, Only
<1> QED  BY <1>1, <1>3, <1>4, <1>6, NoticesHere

LEMMA AskChildNotices ==
  ASSUME Typed, Inv, Noticed, NEW t \in Thread, AskChild(t)
  PROVE  Noticed'
<1>1. PICK d \in Dir : d = thr[t].this  BY ThreadIs
<1>2. /\ thr[t].pc = "folder" /\ Upgraded(t) /\ cache' = Made(t) /\ Steps(t, "child")
      /\ lost' = lost \cup Dropped(New(t)) /\ Crawl(New(t))
  BY AskChildEffect
<1>3. Turn(t)  BY TurnIs DEF Work
<1>4. Minds(t, d)
  BY <1>1, <1>2, FetchMinds DEF Steps, Fetch, Fill, Unlisted, Late
<1>5. Phase(t, d) # "none"  BY <1>1, <1>2, FetchIs DEF Fetch, Fill, Unlisted
<1> QED  BY <1>1, <1>2, <1>3, <1>4, <1>5, GrowNotices

LEMMA OwnChildNotices ==
  ASSUME Typed, Inv, Noticed, NEW t \in Thread, OwnChild(t)
  PROVE  Noticed'
<1>1. PICK d \in Dir : d = thr[t].this  BY ThreadIs
<1>2. PICK c : c = Child(t)  OBVIOUS
<1>3. /\ thr[t].pc = "own" /\ Only(c)
      /\ cache'[c].entry = cache[c].entry /\ cache'[c].db = cache[c].db
      /\ Moves(t, "file") \/ Moves(t, "folder")
      /\ thr'[t].seen = thr[t].seen /\ thr'[t].next = thr[t].next /\ lost' = lost
  BY <1>2, OwnChildEffect
<1>4. Turn(t)  BY TurnIs DEF Work
<1>5. Minds(t, d) /\ Holds(t, d) /\ thr[t].pc \notin Waits
  BY <1>1, <1>3, FetchMinds DEF Fetch, Fill, Unlisted, Late
<1>6. ASSUME NEW x \in Dir PROVE Notices(x)'
  <2>1. cache'[x].entry = cache[x].entry /\ cache'[x].db = cache[x].db
        /\ cache'[x].here = cache[x].here
    <3>1. x = c \/ cache'[x] = cache[x]  BY <1>3 DEF Only, Elsewhere
    <3> QED  BY <1>3, <3>1 DEF Only
  <2>2. CASE x # d  BY <1>1, <1>3, <1>4, <2>1, <2>2, NoticesAway
  <2>3. CASE x = d  BY <1>3, <1>4, <1>5, <2>1, <2>3, NoticesStep DEF Noticed
  <2> QED  BY <2>2, <2>3
<1> QED  BY <1>6 DEF Noticed

LEMMA EndFetchNotices ==
  ASSUME Typed, Inv, Noticed, NEW t \in Thread, EndFetch(t) \/ Most(t)
  PROVE  Noticed'
<1>1. PICK d \in Dir : d = thr[t].this  BY ThreadIs
<1>2. /\ thr[t].pc \in {"end", "most"} /\ Only(d)
      /\ cache'[d].entry = cache[d].entry /\ cache'[d].db = cache[d].db
      /\ Moves(t, "most") \/ Moves(t, "mark")
      /\ thr'[t].seen = thr[t].seen /\ thr'[t].next = thr[t].next /\ lost' = lost
  BY <1>1, EndFetchEffect, MostEffect, OnlySame DEF Steps
<1>3. Turn(t)  BY TurnIs DEF Work
<1>4. Minds(t, d) /\ Holds(t, d) /\ thr[t].pc \notin Waits
  BY <1>1, <1>2, FetchMinds DEF Fetch, Fill, Unlisted, Late
<1>5. Notices(d)'  BY <1>2, <1>3, <1>4, NoticesStep DEF Noticed, Only
<1> QED  BY <1>1, <1>2, <1>3, <1>5, NoticesHere

-----------------------------------------------------------------------------

\* What a step in a directory that has been looked at leaves as it is
LEMMA PastKeeps ==
  ASSUME NEW t \in Thread, Turn(t), NEW d \in Dir,
         thr[t].pc \notin {"enter", "invalidate", "decide", "same", "find"}
  PROVE  /\ disk' = disk /\ db' = db
         /\ EditDue(d) => EditDue(d)'
         /\ CommitSeen(d) => CommitSeen(d)'
         /\ \A u \in Thread : u # t => Phase(u, d)' = Phase(u, d) /\ thr'[u] = thr[u]
<1>1. Holds(t, d)  BY HoldsPast
<1>2. Others(t)  BY DEF Turn
<1> QED  BY <1>1, <1>2, SeenKept, OthersStay DEF Turn, Others

\* Only one thread looks at the file of a directory.
LEMMA NoOtherEntry ==
  ASSUME NEW t \in Thread, Turn(t), Fetches(t), NEW u \in Thread, u # t, NEW d, d = thr[t].this
  PROVE  Phase(u, d) # "entry"
BY DEF Turn, Inv, OneFetcher, Phase, Fetches

LEMMA StatFileNotices ==
  ASSUME Typed, Inv, Noticed, NEW t \in Thread, StatFile(t)
  PROVE  Noticed'
<1>1. PICK d \in Dir : d = thr[t].this  BY ThreadIs
<1>2. /\ thr[t].pc = "file" /\ Steps(t, "entry") /\ thr'[t].val = disk[d].st
      /\ cache' = cache /\ lost' = lost
  BY <1>1, StatFileEffect
<1>3. Turn(t) /\ Only(d)  BY <1>2, TurnIs, OnlySame DEF Work
<1>4. Phase(t, d)' = "entry" /\ Fetching(d)'
  BY <1>1, <1>2, FetchPhase DEF Steps, Fetch, Fill, Unlisted
<1>5. Filling(d)'  BY <1>4 DEF Filling, In, Fill
<1>6. /\ disk' = disk
      /\ \A u \in Thread : u # t => Phase(u, d)' = Phase(u, d)
  BY <1>2, <1>3, PastKeeps
<1>7. ASSUME NEW u \in Thread PROVE EntryOld(u, d)'
  <2>1. CASE u = t  BY <1>2, <1>6, <2>1 DEF EntryOld
  <2>2. CASE u # t
    <3>1. Phase(u, d) # "entry"  BY <1>1, <1>2, <1>3, <2>2, NoOtherEntry DEF Fetches
    <3> QED  BY <1>6, <2>2, <3>1 DEF EntryOld
  <2> QED  BY <2>1, <2>2
<1>8. Notices(d)'  BY <1>4, <1>5, <1>7 DEF Notices, StaleOld, TimeOld, NewOld, NewSeen
<1> QED  BY <1>1, <1>2, <1>3, <1>8, NoticesHere

LEMMA AddEntryNotices ==
  ASSUME Typed, Inv, Noticed, NEW t \in Thread, AddEntry(t)
  PROVE  Noticed'
<1>1. PICK d \in Dir : d = thr[t].this  BY ThreadIs
<1>2. /\ thr[t].pc = "entry" /\ Only(d) /\ Steps(t, "end")
      /\ cache'[d].entry.st = thr[t].val /\ cache'[d].entry.time = disk[d].time
      /\ cache'[d].db = cache[d].db
      /\ lost' = IF thr[t].time # disk[d].time THEN lost \cup {d} ELSE lost
  BY <1>1, AddEntryEffect
<1>3. Turn(t)  BY TurnIs DEF Work
<1>4. Phase(t, d) = "entry" /\ Phase(t, d)' = "end" /\ Fetching(d)'
  BY <1>1, <1>2, FetchPhase DEF Steps, Fetch, Fill, Unlisted
<1>5. /\ disk' = disk /\ db' = db
      /\ CommitSeen(d) => CommitSeen(d)'
      /\ \A u \in Thread : u # t => Phase(u, d)' = Phase(u, d) /\ thr'[u] = thr[u]
  BY <1>2, <1>3, PastKeeps
<1>6. EntryOld(t, d)  BY DEF Noticed, Notices
<1>7. d \notin lost' => d \notin lost /\ thr[t].time = disk[d].time  BY <1>2
<1>8. Cleared(d) => Filling(d)'  BY <1>4, <1>5 DEF Cleared, Filling, In, Fill, Unlisted
<1>9. OldDb(d) /\ thr[t].seen # db => OldDb(d)'
  BY <1>2, <1>5 DEF OldDb, Steps
<1>10. StaleOld(d)'
  BY <1>2, <1>4, <1>5, <1>6, <1>7, <1>8, <1>9 DEF StaleOld, Stale, EntryOld
<1>11. ASSUME NEW u \in Thread PROVE EntryOld(u, d)'
  <2>1. CASE u = t  BY <1>4, <2>1 DEF EntryOld
  <2>2. CASE u # t
    <3>1. Phase(u, d) # "entry"  BY <1>1, <1>2, <1>3, <2>2, NoOtherEntry DEF Fetches
    <3> QED  BY <1>5, <2>2, <3>1 DEF EntryOld
  <2> QED  BY <2>1, <2>2
<1>12. Notices(d)'  BY <1>2, <1>4, <1>5, <1>10, <1>11 DEF Notices, TimeOld, NewOld, NewSeen
<1> QED  BY <1>1, <1>2, <1>3, <1>12, NoticesHere

LEMMA MarkNotices ==
  ASSUME Typed, Inv, Noticed, NEW t \in Thread, Mark(t)
  PROVE  Noticed'
<1>1. PICK d \in Dir : d = thr[t].this  BY ThreadIs
<1>2. /\ thr[t].pc = "mark" /\ Only(d)
      /\ cache'[d].entry = cache[d].entry /\ cache'[d].db = cache[d].db
      /\ lost' = lost \/ lost' = lost \cup {d}
      /\ Moves(t, "calc") /\ thr'[t].next = "fetched" /\ thr'[t].seen = thr[t].seen
  BY <1>1, MarkEffect
<1>3. Turn(t)  BY TurnIs DEF Work
<1>4. Phase(t, d) = "mark" /\ Phase(t, d)' = "past"
  BY <1>1, <1>2 DEF Moves, Like, Phase, Fetch, Fill, Unlisted
<1>5. /\ disk' = disk /\ db' = db
      /\ EditDue(d) => EditDue(d)'
      /\ CommitSeen(d) => CommitSeen(d)'
      /\ \A u \in Thread : u # t => Phase(u, d)' = Phase(u, d) /\ thr'[u] = thr[u]
  BY <1>2, <1>3, PastKeeps
<1>6. Notices(d)  BY DEF Noticed
<1>7. /\ Cleared(d) => Cleared(d)'
      /\ Filling(d) => Filling(d)'
  BY <1>4, <1>5 DEF Cleared, Filling, In, Fill, Unlisted
<1>8. OldDb(d) => OldDb(d)'  BY <1>2, <1>4, <1>5 DEF OldDb, Late
<1>9. StaleOld(d)'  BY <1>2, <1>5, <1>6, <1>7, <1>8 DEF Notices, StaleOld, Stale
<1>10. ASSUME NEW u \in Thread PROVE EntryOld(u, d)'
  <2>1. CASE u = t  BY <1>4, <2>1 DEF EntryOld
  <2>2. CASE u # t  BY <1>2, <1>5, <1>6, <1>7, <1>8, <2>2 DEF Notices, EntryOld
  <2> QED  BY <2>1, <2>2
<1>11. TimeOld(d)'  BY <1>2, <1>5, <1>6, <1>7 DEF Notices, TimeOld
<1>12. In({"past"}, d)'  BY <1>4 DEF In
<1>13. Notices(d)'  BY <1>9, <1>10, <1>11, <1>12 DEF Notices, NewOld, NewSeen
<1> QED  BY <1>1, <1>2, <1>3, <1>13, NoticesHere

\* A step of an update, which is no part of a fetch
LEMMA UpdateNotices ==
  ASSUME Noticed, NEW t \in Thread, Turn(t), thr[t].pc \in Updaters,
         Steps(t, "write") \/ Steps(t, "tell") \/ Steps(t, "put") \/ Ends(t)
           \/ (Moves(t, "calc") /\ thr'[t].next = thr[t].next /\ thr'[t].seen = thr[t].seen),
         NEW p \in Dir, Only(p), cache'[p].entry = cache[p].entry, cache'[p].db = cache[p].db,
         \A x \in Dir : x \in lost => x \in lost'
  PROVE  Noticed'
<1>1. Typed  BY DEF Turn
<1>2. ASSUME NEW x \in Dir PROVE Phase(t, x)' = Phase(t, x) /\ Phase(t, x) \in {"none", "past"}
                                 /\ (Phase(t, x) = "past" => thr'[t].seen = thr[t].seen)
  <2>1. Phase(t, x) \in {"none", "past"} /\ (Phase(t, x) = "past" => thr[t].next = "fetched")
    BY <1>1, UpdIs
  <2>2. CASE Ends(t)
    <3>1. Phase(t, x)' = Phase(t, x)  BY <1>1, <2>2, EndsTo
    <3> QED  BY <2>1, <2>2, <3>1 DEF Ends
  <2>3. ASSUME NEW pc \in Updaters, Moves(t, pc), thr'[t].next = thr[t].next,
               thr'[t].seen = thr[t].seen
        PROVE  Phase(t, x)' = Phase(t, x)
    BY <1>1, <2>3, UpdNext
  <2>4. "write" \in Updaters /\ "tell" \in Updaters /\ "put" \in Updaters /\ "calc" \in Updaters
    BY DEF Updaters
  <2>5. CASE Steps(t, "write")  BY <2>1, <2>3, <2>4, <2>5 DEF Steps
  <2>6. CASE Steps(t, "tell")  BY <2>1, <2>3, <2>4, <2>6 DEF Steps
  <2>7. CASE Steps(t, "put")  BY <2>1, <2>3, <2>4, <2>7 DEF Steps
  <2>8. CASE Moves(t, "calc") /\ thr'[t].next = thr[t].next /\ thr'[t].seen = thr[t].seen
    BY <2>1, <2>3, <2>4, <2>8
  <2> QED  BY <2>2, <2>5, <2>6, <2>7, <2>8
<1>3. ASSUME NEW x \in Dir PROVE Notices(x)'
  <2>0. /\ Phase(t, x)' = Phase(t, x) /\ Phase(t, x) # "entry"
        /\ Phase(t, x) \in Late => thr'[t].seen = thr[t].seen
    BY <1>2 DEF Late
  <2>1. Minds(t, x)  BY <2>0, MindsSame
  <2>2. Holds(t, x) /\ thr[t].pc \notin Waits /\ Notices(x)
    BY HoldsPast DEF Updaters, Waits, Noticed
  <2>3. /\ cache'[x].entry = cache[x].entry /\ cache'[x].db = cache[x].db
        /\ cache'[x].here = cache[x].here
    <3>1. x = p \/ cache'[x] = cache[x]  BY DEF Only, Elsewhere
    <3> QED  BY <3>1 DEF Only
  <2> QED  BY <2>1, <2>2, <2>3, NoticesStep
<1> QED  BY <1>3 DEF Noticed

LEMMA CalcNotices ==
  ASSUME Typed, Inv, Noticed, NEW t \in Thread, Calc(t) \/ Compare(t)
  PROVE  Noticed'
<1>1. PICK d : d = thr[t].up  OBVIOUS
<1>2. PICK p : p = Parent[d]  OBVIOUS
<1>3. /\ thr[t].pc \in {"calc", "compare"} /\ cache' = cache /\ lost' = lost
      /\ Steps(t, "write") \/ Steps(t, "put") \/ Ends(t)
  BY <1>1, <1>2, CalcEffect, CompareEffect
<1>4. Turn(t)  BY TurnIs DEF Work
<1>5. Top \in Dir  BY CrawlerIs
<1>6. Only(Top)  BY <1>3, <1>5, OnlySame
<1> QED  BY <1>3, <1>4, <1>5, <1>6, UpdateNotices DEF Updaters

LEMMA WriteNotices ==
  ASSUME Typed, Inv, Noticed, NEW t \in Thread, Write(t)
  PROVE  Noticed'
<1>1. PICK d \in Dir : d = thr[t].up  BY ThreadIs
<1>2. /\ thr[t].pc = "write" /\ Only(d)
      /\ cache'[d].entry = cache[d].entry /\ cache'[d].db = cache[d].db
      /\ lost' = lost \/ lost' = lost \cup {d}
      /\ Ends(t) \/ Steps(t, "tell")
  BY <1>1, WriteEffect
<1>3. Turn(t)  BY TurnIs DEF Work
<1>4. \A x \in Dir : x \in lost => x \in lost'  BY <1>2
<1> QED  BY <1>2, <1>3, <1>4, UpdateNotices DEF Updaters

LEMMA PutNotices ==
  ASSUME Typed, Inv, Noticed, NEW t \in Thread, Put(t)
  PROVE  Noticed'
<1>1. PICK d : d = thr[t].up  OBVIOUS
<1>2. PICK p : p = Parent[d]  OBVIOUS
<1>3. /\ thr[t].pc = "put" /\ p \in Dir /\ Only(p)
      /\ cache'[p].entry = cache[p].entry /\ cache'[p].db = cache[p].db
      /\ Moves(t, "calc") /\ thr'[t].next = thr[t].next /\ thr'[t].seen = thr[t].seen
      /\ lost' = lost \/ lost' = lost \cup {p}
  BY <1>1, <1>2, PutEffect
<1>4. Turn(t)  BY TurnIs DEF Work
<1>5. \A x \in Dir : x \in lost => x \in lost'  BY <1>3
<1> QED  BY <1>3, <1>4, <1>5, UpdateNotices DEF Updaters

LEMMA TellNotices ==
  ASSUME Typed, Inv, Noticed, NEW t \in Thread, Tell(t)
  PROVE  Noticed'
<1>1. PICK o \in Dir : o = thr[t].this  BY ThreadIs
<1>2. /\ thr[t].pc = "tell" /\ Upgraded(t) /\ cache' = Made(t) /\ Steps(t, "compare")
      /\ lost' = lost \cup Dropped(New(t)) /\ Crawl(New(t))
  BY TellEffect
<1>3. Turn(t)  BY TurnIs DEF Work
<1>4. Phase(t, o)' = Phase(t, o) /\ Phase(t, o) \in {"none", "past"}
  BY <1>2, UpdIs, UpdNext DEF Updaters, Steps
<1>5. Minds(t, o)  BY <1>2, <1>4, MindsSame DEF Steps
<1> QED  BY <1>1, <1>2, <1>3, <1>4, <1>5, GrowNotices

LEMMA FetchedNotices ==
  ASSUME Typed, Inv, Noticed, NEW t \in Thread, Fetched(t)
  PROVE  Noticed'
<1>1. PICK d \in Dir : d = thr[t].this  BY ThreadIs
<1>2. /\ thr[t].pc = "fetched" /\ Only(d)
      /\ cache'[d].entry = cache[d].entry /\ cache'[d].db = thr[t].seen
      /\ Leaves(t) \/ (Moves(t, "miss") /\ thr'[t].next = "answer")
      /\ lost' = lost
  BY <1>1, FetchedEffect
<1>3. Turn(t)  BY TurnIs DEF Work
<1>4. Phase(t, d) = "past"  BY <1>1, <1>2 DEF Phase, Fetch, Fill, Unlisted
<1>5. Phase(t, d)' = "none"
  <2>1. CASE Leaves(t)  BY <2>1, LeavesTo
  <2>2. CASE Moves(t, "miss") /\ thr'[t].next = "answer"
    BY <2>2 DEF Moves, Phase, Fetch, Fill, Unlisted
  <2> QED  BY <1>2, <2>1, <2>2
<1>6. /\ disk' = disk /\ db' = db
      /\ EditDue(d) => EditDue(d)'
      /\ CommitSeen(d) => CommitSeen(d)'
      /\ \A u \in Thread : u # t => Phase(u, d)' = Phase(u, d) /\ thr'[u] = thr[u]
  BY <1>2, <1>3, PastKeeps
<1>7. Notices(d)  BY DEF Noticed
<1>8. /\ Cleared(d) => Cleared(d)'
      /\ Filling(d) => Filling(d)'
  BY <1>4, <1>6 DEF Cleared, Filling, In, Fill, Unlisted
<1>9. OldDb(d) => OldDb(d)'  BY <1>2, <1>4, <1>5, <1>6 DEF OldDb, Late
<1>10. StaleOld(d)'  BY <1>2, <1>6, <1>7, <1>8, <1>9 DEF Notices, StaleOld, Stale
<1>11. ASSUME NEW u \in Thread PROVE EntryOld(u, d)'
  <2>1. CASE u = t  BY <1>5, <2>1 DEF EntryOld
  <2>2. CASE u # t  BY <1>2, <1>6, <1>7, <1>8, <1>9, <2>2 DEF Notices, EntryOld
  <2> QED  BY <2>1, <2>2
<1>12. TimeOld(d)'  BY <1>2, <1>6, <1>7, <1>8 DEF Notices, TimeOld
<1>13. NewOld(d)'
  <2>1. thr[t].seen # 0  BY <1>2, ThreadIs DEF Doing, Timed
  <2> QED  BY <1>2, <2>1 DEF NewOld
<1>14. Notices(d)'  BY <1>10, <1>11, <1>12, <1>13 DEF Notices
<1> QED  BY <1>1, <1>2, <1>3, <1>14, NoticesHere

LEMMA MissNotices ==
  ASSUME Typed, Inv, Noticed, NEW t \in Thread, Miss(t)
  PROVE  Noticed'
<1>1. PICK d \in Dir : d = thr[t].this  BY ThreadIs
<1>2. /\ thr[t].pc = "miss" /\ Only(d)
      /\ cache'[d].entry.st = "none" /\ cache'[d].db = cache[d].db
      /\ lost' = lost \cup {d} /\ Leaves(t)
  BY <1>1, MissEffect
<1>3. Turn(t)  BY TurnIs DEF Work
<1>4. Phase(t, d) = "none"
  <2>1. thr[t].next = "answer"  BY <1>2, NextIs DEF Updaters
  <2> QED  BY <1>2, <2>1 DEF Phase, Fetch, Fill, Unlisted
<1>5. Phase(t, d)' = "none"  BY <1>2, LeavesTo
<1>6. Minds(t, d)  BY <1>4, <1>5, MindsNew
<1>7. Holds(t, d) /\ thr[t].pc \notin Waits /\ Notices(d)
  BY <1>2, HoldsPast DEF Waits, Noticed
<1>8. d \in lost'  BY <1>2
<1>9. Notices(d)'  BY <1>2, <1>3, <1>6, <1>7, <1>8, NoticesStep DEF Only
<1>10. \A x \in Dir : x # d /\ x \in lost => x \in lost'  BY <1>2
<1> QED  BY <1>1, <1>2, <1>3, <1>9, <1>10, NoticesHere

LEMMA WorkNotices ==
  ASSUME Typed, Inv, Noticed, NEW t \in Thread, Work(t)
  PROVE  Noticed'
<1>1. CASE Await(t) \/ Enter(t) \/ Decide(t) \/ Same(t) \/ FindEntry(t) \/ ChangedDb(t)
           \/ Drop(t) \/ Look(t) \/ SetNone(t) \/ Request(t)
  BY <1>1, AwaitNotices, EnterNotices, DecideNotices, SameNotices, FindEntryNotices,
     ChangedDbNotices, DropNotices, LookUpNotices, SetNoneNotices, RequestNotices
<1>2. CASE Clear(t) \/ Exchange(t) \/ List(t) \/ AskChild(t) \/ SetChild(t) \/ OwnChild(t)
           \/ StatFile(t) \/ AddEntry(t) \/ EndFetch(t) \/ Most(t) \/ Mark(t)
  BY <1>2, ClearNotices, ExchangeNotices, ListNotices, AskChildNotices, OwnChildNotices,
     StatFileNotices, AddEntryNotices, EndFetchNotices, MarkNotices
<1>3. CASE Calc(t) \/ Write(t) \/ Tell(t) \/ Compare(t) \/ Put(t) \/ Fetched(t) \/ Miss(t)
  BY <1>3, CalcNotices, WriteNotices, TellNotices, PutNotices, FetchedNotices, MissNotices
<1> QED  BY <1>1, <1>2, <1>3 DEF Work

-----------------------------------------------------------------------------
(* The crawler and the world *)

\* Nobody gives up what it is at or waits for.
Stands(d) == (\A u \in Thread : Minds(u, d)) /\ (Awaited(d) => Awaited(d)')

LEMMA NoticesStand ==
  ASSUME NEW d \in Dir, Notices(d), Unmarked(d), Stands(d),
         CommitSeen(d) => CommitSeen(d)' \/ d \in lost',
         EditDue(d) => EditDue(d)' \/ d \in lost',
         Due(d) => Due(d)' \/ d \in lost'
  PROVE  Notices(d)'
<1>1. Due(d) \/ Awaited(d) => NewSeen(d)' \/ d \in lost'  BY DEF Stands, NewSeen
<1> QED  BY <1>1, NoticesKept DEF Stands

LEMMA NoticesCalm ==
  ASSUME NEW d \in Dir, Notices(d), Unmarked(d), Stands(d),
         dbSeen \in {0, db} => dbSeen' \in {0, db},
         DbPend => DbPend' \/ d \in lost',
         EditDue(d) => EditDue(d)' \/ d \in lost',
         Due(d) => Due(d)' \/ d \in lost'
  PROVE  Notices(d)'
<1>1. CommitSeen(d) => CommitSeen(d)' \/ d \in lost'  BY DEF CommitSeen, Unmarked
<1> QED  BY <1>1, NoticesStand

\* A step of the crawler between two fetches.
LEMMA CrawlerStands ==
  ASSUME Typed, Others(Crawler),
         thr[Crawler].pc \in {"idle", "asleep", "folders", "answer", "done", "invalidate"},
         thr'[Crawler].pc \in {"idle", "asleep", "folders", "enter", "decide", "done"},
         thr[Crawler].pc = "invalidate" => thr'[Crawler].pc = "decide"
                                           /\ thr'[Crawler].this = thr[Crawler].this,
         thr'[Crawler].next = "answer", NEW d \in Dir
  PROVE  Stands(d)
<1>1. Nowhere(Crawler)  BY CrawlerIs, NowhereIs DEF Fetch, Fill, Unlisted, Updaters
<1>2. Phase(Crawler, d)' \in {"none", "clear"}  BY CrawlerIs, BeginsNext DEF Begins
<1>3. Minds(Crawler, d)  BY <1>1, <1>2, CrawlerIs, MindsNew DEF Nowhere
<1>4. \A u \in Thread : Minds(u, d)  BY <1>3, CrawlerIs, OthersMind
<1>5. Awaited(d) => Awaited(d)'
  <2>1. SUFFICES ASSUME Awaited(d) PROVE Awaited(d)'  OBVIOUS
  <2>2. PICK u \in Thread : thr[u].this = d /\ thr[u].pc \in Waits  BY <2>1 DEF Awaited
  <2>3. thr'[u].this = d /\ thr'[u].pc \in Waits  BY <2>2 DEF Others, Waits
  <2> QED  BY <2>3 DEF Awaited
<1> QED  BY <1>4, <1>5 DEF Stands

LEMMA SameStands == ASSUME thr' = thr, NEW d \in Dir PROVE Stands(d)
BY DEF Stands, Minds, Phase, Awaited

LEMMA EmptyHanded ==
  ASSUME Typed, NEW d \in Dir, thr[Crawler].pc \in {"idle", "asleep", "folders"}
  PROVE  /\ ~Taken(d)
         /\ EditDue(d) => d \in events \/ d \in Elements(paths)
<1>1. thr[Crawler].item = "ask"  BY CrawlerIs, ThreadIs DEF Doing
<1> QED  BY <1>1 DEF Taken, EditDue

LEMMA LoopNotices ==
  ASSUME Typed, Noticed, NEW pc \in {"idle", "asleep", "folders"}, Loop(pc),
         UNCHANGED <<world, cache, dbSeen>>,
         thr[Crawler].pc \in {"idle", "asleep", "folders", "answer", "done"},
         \A d \in Dir : /\ d \in lost => d \in lost'
                        /\ EditDue(d) => EditDue(d)' \/ d \in lost'
                        /\ Due(d) => Due(d)' \/ d \in lost',
         DbPend => DbPend' \/ \A d \in Dir : d \in lost'
  PROVE  Noticed'
<1>1. Loops(pc)  BY LoopEffect DEF world
<1>2. ASSUME NEW d \in Dir PROVE Notices(d)'
  <2>1. Stands(d)  BY <1>1, CrawlerStands DEF Loops
  <2>2. Unmarked(d)  BY DEF Unmarked, world
  <2>3. dbSeen \in {0, db} => dbSeen' \in {0, db}  OBVIOUS
  <2>4. DbPend => DbPend' \/ d \in lost'  OBVIOUS
  <2>5. /\ EditDue(d) => EditDue(d)' \/ d \in lost'
        /\ Due(d) => Due(d)' \/ d \in lost'
    OBVIOUS
  <2> QED  BY <2>1, <2>2, <2>3, <2>4, <2>5, NoticesCalm DEF Noticed
<1> QED  BY <1>2 DEF Noticed

LEMMA WakeNotices ==
  ASSUME Typed, Noticed, Wake \/ Sleep \/ NoFolder
  PROVE  Noticed'
<1>1. PICK pc \in {"idle", "asleep", "folders"} :
        /\ Loop(pc) /\ thr[Crawler].pc \in {"idle", "asleep", "folders"}
        /\ UNCHANGED <<world, cache, dbSeen, paths, folders, lost>>
  BY DEF Wake, Sleep, NoFolder, MayCrawl, At, queues
<1>2. ASSUME NEW d \in Dir PROVE /\ EditDue(d) => EditDue(d)'
                                 /\ Due(d) => Due(d)'
  <2>1. ~Taken(d) /\ (EditDue(d) => d \in events \/ d \in Elements(paths))
    BY <1>1, EmptyHanded
  <2> QED  BY <1>1, <2>1 DEF EditDue, Due, world
<1>3. DbPend => DbPend'  BY <1>1 DEF DbPend, world
<1> QED  BY <1>1, <1>2, <1>3, LoopNotices

LEMMA InvalidateNotices ==
  ASSUME Typed, Noticed, Invalidate
  PROVE  Noticed'
<1>1. /\ UNCHANGED <<world, blocked, dbSeen, queues, blank, lost>>  BY DEF Invalidate
<1>2. /\ Others(Crawler) /\ thr[Crawler].pc = "invalidate" /\ thr'[Crawler].pc = "decide"
      /\ thr'[Crawler].this = thr[Crawler].this /\ thr'[Crawler].item = thr[Crawler].item
      /\ thr'[Crawler].of = thr[Crawler].of /\ thr'[Crawler].path = thr[Crawler].path
      /\ thr'[Crawler].kids = thr[Crawler].kids /\ thr'[Crawler].next = thr[Crawler].next
      /\ Elsewhere(Top)
      /\ cache'[Top].here = cache[Top].here /\ cache'[Top].entry = cache[Top].entry
      /\ cache'[Top].db = cache[Top].db
  BY <1>1, InvalidateEffect DEF world
<1>3. thr[Crawler].next = "answer"  BY <1>2, CrawlerIs, NextIs DEF Updaters
<1>5. ASSUME NEW d \in Dir PROVE Notices(d)'
  <2>2. Stands(d)  BY <1>2, <1>3, CrawlerStands
  <2>3. d = Top \/ cache'[d] = cache[d]  BY <1>2 DEF Elsewhere
  <2>4. Unmarked(d)  BY <1>1, <1>2, <2>3 DEF Unmarked, world
  <2>5. Due(d) => Due(d)'  BY <1>1, <1>2 DEF Due, Taken, queues
  <2>6. EditDue(d) => EditDue(d)'  BY <1>1, <1>2 DEF EditDue, queues, world
  <2>7. DbPend => DbPend'  BY <1>1 DEF DbPend, queues, world
  <2>8. dbSeen \in {0, db} => dbSeen' \in {0, db}  BY <1>1
  <2> QED  BY <2>2, <2>4, <2>5, <2>6, <2>7, <2>8, NoticesCalm DEF Noticed
<1> QED  BY <1>5 DEF Noticed

LEMMA RefreshNotices ==
  ASSUME Typed, Noticed, Refresh
  PROVE  Noticed'
<1>1. PICK o \in Dir : o = thr[Crawler].of  BY CrawlerIs, ThreadIs
<1>2. UNCHANGED <<world, blocked, dbSeen, cache, queues, blank>>  BY DEF Refresh
<1>3. /\ Others(Crawler)
      /\ thr[Crawler].pc = "answer" /\ thr'[Crawler].pc \in {"decide", "done"}
      /\ thr[Crawler].item \in {"db", "folder"} /\ ~thr[Crawler].path.file
      /\ thr'[Crawler].item = thr[Crawler].item
      /\ thr'[Crawler].path.file
      /\ thr'[Crawler].kids = Known(o) /\ thr'[Crawler].next = "answer"
      /\ lost' = lost \cup UNION {Below[c] : c \in Children(o) \ Known(o)}
  BY <1>1, <1>2, RefreshEffect DEF world
<1>4. ASSUME NEW d \in Dir PROVE Notices(d)'
  <2>1. Stands(d)  BY <1>3, CrawlerStands
  <2>2. Unmarked(d)  BY <1>2, <1>3 DEF Unmarked, world
  <2>3. Taken(d) => Taken(d)' \/ d \in lost'
    <3>1. SUFFICES ASSUME Taken(d) PROVE Taken(d)' \/ d \in lost'  OBVIOUS
    <3>2. d \in Below[o] /\ d # o  BY <1>1, <1>3, <3>1 DEF Taken
    <3>3. PICK c \in Children(o) : d \in Below[c]  BY <3>2, BelowSplit
    <3>4. CASE c \in Known(o)  BY <1>3, <3>3, <3>4 DEF Taken
    <3>5. CASE c \notin Known(o)  BY <1>3, <3>3, <3>5
    <3> QED  BY <3>4, <3>5
  <2>4. Due(d) => Due(d)' \/ d \in lost'  BY <1>2, <2>3 DEF Due, queues
  <2>5. EditDue(d) => EditDue(d)'  BY <1>2, <1>3 DEF EditDue, queues, world
  <2>6. DbPend => DbPend'  BY <1>2 DEF DbPend, queues, world
  <2>7. dbSeen \in {0, db} => dbSeen' \in {0, db}  BY <1>2
  <2> QED  BY <2>1, <2>2, <2>4, <2>5, <2>6, <2>7, NoticesCalm DEF Noticed
<1> QED  BY <1>4 DEF Noticed

LEMMA RefreshedNotices ==
  ASSUME Typed, Noticed, Refreshed
  PROVE  Noticed'
<1>1. UNCHANGED <<world, blocked, dbSeen, cache, queues, blank, lost>>  BY DEF Refreshed
<1>2. /\ Others(Crawler) /\ thr[Crawler].pc = "answer" /\ thr'[Crawler].pc = "done"
      /\ thr[Crawler].path.file /\ Like(thr'[Crawler], thr[Crawler]) /\ thr'[Crawler].next = thr[Crawler].next
  BY <1>1, RefreshedEffect DEF world
<1>3. thr[Crawler].next = "answer"  BY <1>2, CrawlerIs, NextIs DEF Updaters
<1>4. ASSUME NEW d \in Dir PROVE Notices(d)'
  <2>1. Stands(d)  BY <1>2, <1>3, CrawlerStands
  <2>2. Unmarked(d)  BY <1>1 DEF Unmarked, world
  <2>3. Due(d) => Due(d)'  BY <1>1, <1>2 DEF Due, Taken, queues, Like
  <2>4. EditDue(d) => EditDue(d)'  BY <1>1, <1>2 DEF EditDue, queues, world
  <2>5. DbPend => DbPend'  BY <1>1 DEF DbPend, queues, world
  <2>6. dbSeen \in {0, db} => dbSeen' \in {0, db}  BY <1>1
  <2> QED  BY <2>1, <2>2, <2>3, <2>4, <2>5, <2>6, NoticesCalm DEF Noticed
<1> QED  BY <1>4 DEF Noticed

LEMMA TakeFolderNotices ==
  ASSUME Typed, Noticed, NEW o \in Dir, TakeFolder(o)
  PROVE  Noticed'
<1>1. /\ UNCHANGED <<world, blocked, dbSeen, cache, paths, woken, blank>>
      /\ folders # <<>> /\ o = Head(folders) /\ folders' = Tail(folders)
      /\ thr[Crawler].pc \in {"idle", "folders"}
      /\ \/ Loop("idle") /\ lost' = lost \cup Below[o]
         \/ Item("folder", o, Folder(o)) /\ lost' = lost
  BY DEF TakeFolder, MayCrawl, At
<1>2. \A a \in Elements(folders) : a = o \/ a \in Elements(folders')
  BY <1>1, TailHas DEF Typed, WorldType
<1>3. ASSUME NEW d \in Dir PROVE /\ ~Taken(d)
                                 /\ EditDue(d) => EditDue(d)'
  <2>1. ~Taken(d) /\ (EditDue(d) => d \in events \/ d \in Elements(paths))
    BY <1>1, EmptyHanded
  <2> QED  BY <1>1, <2>1 DEF EditDue, world
<1>4. DbPend => DbPend'  BY <1>1 DEF DbPend, world
<1>5. CASE Loop("idle") /\ lost' = lost \cup Below[o]
  <2>1. \A d \in Dir : Due(d) => Due(d)' \/ d \in lost'
    BY <1>2, <1>3, <1>5 DEF Due
  <2> QED  BY <1>1, <1>3, <1>4, <1>5, <2>1, LoopNotices
<1>6. CASE Item("folder", o, Folder(o)) /\ lost' = lost
  <2>1. Gets("folder", o, Folder(o))  BY <1>1, <1>6, ItemEffect DEF world
  <2>2. ASSUME NEW d \in Dir PROVE Notices(d)'
    <3>1. Stands(d)  BY <1>1, <2>1, CrawlerStands DEF Gets
    <3>2. Unmarked(d)  BY <1>1, <1>6 DEF Unmarked, world
    <3>3. d \in Below[o] => Taken(d)'  BY <2>1, PathIs DEF Taken, Gets
    <3>4. Due(d) => Due(d)'  BY <1>2, <1>3, <3>3 DEF Due
    <3>5. dbSeen \in {0, db} => dbSeen' \in {0, db}  BY <1>1
    <3>6. EditDue(d) => EditDue(d)'  BY <1>3
    <3> QED  BY <1>4, <3>1, <3>2, <3>4, <3>5, <3>6, NoticesCalm DEF Noticed
  <2> QED  BY <2>2 DEF Noticed
<1> QED  BY <1>1, <1>5, <1>6

LEMMA TakePathNotices ==
  ASSUME Typed, Noticed, NEW e \in Dir \cup {Database}, TakePath(e)
  PROVE  Noticed'
<1>1. /\ UNCHANGED <<world, blocked, cache, folders, added, woken, blank>>
      /\ paths # <<>> /\ e = Head(paths) /\ paths' = Tail(paths)
      /\ dbSeen' = (IF ~blocked /\ e = Database /\ dbSeen # 0 THEN db ELSE dbSeen)
      /\ thr[Crawler].pc = "idle" /\ \A t \in Thread : thr[t].pc = "idle"
  BY DEF TakePath, MayCrawl, At, Thread
<1>2. \A y \in Elements(paths) : y = e \/ y \in Elements(paths')
  BY <1>1, TailHas DEF Typed, WorldType
<1>3. ASSUME NEW d \in Dir
      PROVE  /\ ~Taken(d)
             /\ EditDue(d) => d \in events \/ d = e \/ d \in Elements(paths')
             /\ Due(d) => Due(d)'
  <2>1. ~Taken(d) /\ (EditDue(d) => d \in events \/ d \in Elements(paths))
    BY <1>1, EmptyHanded
  <2> QED  BY <1>1, <1>2, <2>1 DEF Due
<1>4. Database \notin Dir  BY CacheAssumption DEF CacheAssumption
<1>5. ASSUME NEW d \in Dir PROVE EditDue(d) => EditDue(d)' \/ d = e
  BY <1>1, <1>3 DEF EditDue, world
<1>6. DbPend => DbPend' \/ e = Database  BY <1>1, <1>2 DEF DbPend, world
<1>7. dbSeen \in {0, db} => dbSeen' \in {0, db}  BY <1>1
<1>8. ASSUME NEW d \in Dir, d \in lost => d \in lost' PROVE Unmarked(d)
  BY <1>1, <1>8 DEF Unmarked, world
<1>9. CASE blocked /\ lost' = lost \cup (IF e = Database THEN Dir ELSE {e}) /\ thr' = thr
  <2>1. ASSUME NEW d \in Dir PROVE Notices(d)'
    <3>1. Stands(d)  BY <1>9, SameStands
    <3>2. d \in lost => d \in lost'  BY <1>9
    <3>3. DbPend => DbPend' \/ d \in lost'  BY <1>6, <1>9
    <3>4. EditDue(d) => EditDue(d)' \/ d \in lost'  BY <1>4, <1>5, <1>9
    <3>5. Due(d) => Due(d)'  BY <1>3
    <3> QED  BY <1>7, <1>8, <3>1, <3>2, <3>3, <3>4, <3>5, NoticesCalm DEF Noticed
  <2> QED  BY <2>1 DEF Noticed
<1>10. CASE /\ ~blocked /\ e = Database /\ ~Changed
            /\ lost' = lost \cup {d \in Dir : cache[d].db \notin {0, db}} /\ thr' = thr
  <2>1. dbSeen' = db  BY <1>1, <1>10 DEF Changed
  <2>2. \A t \in Thread : \A d \in Dir : Phase(t, d) = "none"
    <3>1. \A t \in Thread : thr[t].next = "answer"  BY <1>1, NextIs DEF Updaters
    <3> QED  BY <1>1, <3>1 DEF Phase, Fetch, Fill, Unlisted
  <2>3. ASSUME NEW d \in Dir PROVE Notices(d)'
    <3>0. d \in lost => d \in lost'  BY <1>10
    <3>1. Stands(d)  BY <1>10, SameStands
    <3>2. EditDue(d) => EditDue(d)'  BY <1>4, <1>5, <1>10
    <3>3. Due(d) => Due(d)'  BY <1>3
    <3>4. CASE d \in lost' \/ Due(d)
      <4>1. Due(d) => CommitSeen(d)'  BY <1>3, <2>1, <1>1 DEF CommitSeen, world
      <4>2. CommitSeen(d) => CommitSeen(d)' \/ d \in lost'  BY <3>4, <4>1
      <4> QED  BY <1>8, <3>0, <3>1, <3>2, <3>3, <4>2, NoticesStand DEF Noticed
    <3>5. CASE d \notin lost' /\ ~Due(d)
      <4>0. ~Filling(d)  BY <2>2 DEF Filling, In, Fill, Unlisted
      <4>1. Notices(d)  BY DEF Noticed
      <4>2. ~NewSeen(d)
        BY <1>1, <2>2, <3>5 DEF NewSeen, Awaited, Waits, Fetching, In, Fetch, Fill, Unlisted
      <4>3. cache[d].here => cache[d].db = db
        BY <1>10, <3>5, <4>1, <4>2 DEF Notices, NewOld
      <4>4. ~Stale(d)
        <5>1. CASE cache[d].here
          BY <3>0, <3>5, <4>0, <4>1, <4>3, <5>1 DEF Notices, StaleOld, OldDb
        <5>2. CASE ~cache[d].here
          <6>1. cache[d] = Fresh  BY <5>2, CacheIs DEF Bounds
          <6>2. cache[d].entry.st = "none"  BY <6>1 DEF Fresh, NoEntry
          <6> QED  BY <6>2 DEF Stale
        <5> QED  BY <5>1, <5>2
      <4>5. StaleOld(d)'  BY <1>1, <4>4 DEF StaleOld, Stale, world
      <4>6. \A u \in Thread : Phase(u, d)' = "none"  BY <1>10, <2>2 DEF Phase
      <4>7. \A u \in Thread : EntryOld(u, d)'  BY <4>6 DEF EntryOld
      <4>9. TimeOld(d)'
        BY <1>1, <3>0, <3>2, <3>5, <4>0, <4>1 DEF Notices, TimeOld, world
      <4>10. NewOld(d)'
        BY <1>1, <3>0, <3>5, <4>1, <4>2 DEF Notices, NewOld
      <4> QED  BY <4>5, <4>7, <4>9, <4>10 DEF Notices
    <3> QED  BY <3>4, <3>5
  <2> QED  BY <2>3 DEF Noticed
<1>11. CASE ~blocked /\ e = Database /\ Item("db", Top, Folder(Top)) /\ lost' = lost
  <2>1. Gets("db", Top, Folder(Top))  BY <1>1, <1>11, ItemEffect, CrawlerIs DEF world
  <2>2. dbSeen' \in {0, db'}  BY <1>1, <1>11 DEF world
  <2>3. ASSUME NEW d \in Dir PROVE Notices(d)'
    <3>1. Stands(d)  BY <1>1, <2>1, CrawlerStands DEF Gets
    <3>2. Taken(d)'  BY <2>1, PathIs, CrawlerIs, BelowTop DEF Taken, Gets
    <3>3. Due(d)'  BY <3>2 DEF Due
    <3>4. CommitSeen(d)'  BY <2>2, <3>3 DEF CommitSeen
    <3>5. EditDue(d) => EditDue(d)'  BY <1>4, <1>5, <1>11
    <3> QED  BY <1>8, <1>11, <3>1, <3>3, <3>4, <3>5, NoticesStand DEF Noticed
  <2> QED  BY <2>3 DEF Noticed
<1>12. CASE ~blocked /\ e # Database /\ Item("file", e, File(e)) /\ lost' = lost
  <2>0. e \in Dir  BY <1>12
  <2>1. Gets("file", e, File(e))  BY <1>1, <1>12, <2>0, ItemEffect DEF world
  <2>2. ASSUME NEW d \in Dir PROVE Notices(d)'
    <3>1. Stands(d)  BY <1>1, <2>1, CrawlerStands DEF Gets
    <3>2. d = e => EditDue(d)'  BY <2>1 DEF EditDue, Gets
    <3>3. EditDue(d) => EditDue(d)'  BY <1>5, <3>2
    <3>4. DbPend => DbPend'  BY <1>6, <1>12
    <3>5. Due(d) => Due(d)'  BY <1>3
    <3> QED  BY <1>7, <1>8, <1>12, <3>1, <3>3, <3>4, <3>5, NoticesCalm DEF Noticed
  <2> QED  BY <2>2 DEF Noticed
<1> QED  BY <1>9, <1>10, <1>11, <1>12 DEF TakePath

LEMMA DoneFolderNotices ==
  ASSUME Typed, Noticed, DoneFolder
  PROVE  Noticed'
<1>1. PICK o \in Dir : o = thr[Crawler].of  BY CrawlerIs, ThreadIs
<1>2. PICK S \in SUBSET Dir : S = thr[Crawler].kids  BY CrawlerIs, ThreadIs
<1>3. PICK all : all = IF blocked THEN folders ELSE PushAll(folders, S)  OBVIOUS
<1>4. PICK add : add = (added \/ (S # {} /\ ~blocked))  OBVIOUS
<1>5. /\ UNCHANGED <<world, blocked, dbSeen, cache, paths, blank>>
      /\ folders' = IF add THEN Erase(all, o) ELSE all
      /\ lost' = (IF add /\ o \in Elements(all) THEN lost \cup Below[o] ELSE lost) \cup Dropped(S)
      /\ Loop("idle")
      /\ thr[Crawler].pc = "done" /\ thr[Crawler].item = "folder"
  BY <1>1, <1>2, <1>3, <1>4 DEF DoneFolder, At
<1>6. all \in Seq(Dir) /\ Elements(folders) \subseteq Elements(all)
      /\ (~blocked => S \subseteq Elements(all))
  BY <1>3, PushAllHas DEF Typed, WorldType
<1>7. \A a \in Elements(all) :
        a \in Elements(folders') \/ (a = o /\ add)
  BY <1>5, <1>6, EraseKeeps
<1>8. \A d \in Dir : \A a \in Elements(all) : d \in Below[a] => Due(d)' \/ d \in lost'
  BY <1>5, <1>7 DEF Due
<1>9. thr[Crawler].path.file  BY <1>5, CrawlerIs, ThreadIs DEF Doing
<1>10. ASSUME NEW d \in Dir PROVE /\ Due(d) => Due(d)' \/ d \in lost'
                                  /\ EditDue(d) => EditDue(d)'
                                  /\ d \in lost => d \in lost'
  <2>1. Taken(d) => Due(d)' \/ d \in lost'
    <3>1. SUFFICES ASSUME Taken(d) PROVE Due(d)' \/ d \in lost'  OBVIOUS
    <3>2. PICK k \in S : d \in Below[k]  BY <1>2, <1>9, <3>1 DEF Taken
    <3>3. CASE blocked  BY <1>5, <3>2, <3>3 DEF Dropped
    <3>4. CASE ~blocked  BY <1>6, <1>8, <3>2, <3>4
    <3> QED  BY <3>3, <3>4
  <2>2. Due(d) => Due(d)' \/ d \in lost'  BY <1>6, <1>8, <2>1 DEF Due
  <2>3. EditDue(d) => EditDue(d)'  BY <1>5 DEF EditDue, world
  <2> QED  BY <1>5, <2>2, <2>3
<1>11. DbPend => DbPend'  BY <1>5 DEF DbPend, world
<1> QED  BY <1>5, <1>10, <1>11, LoopNotices

LEMMA DoneDatabaseNotices ==
  ASSUME Typed, Noticed, DoneDatabase
  PROVE  Noticed'
<1>1. PICK S \in SUBSET Dir : S = thr[Crawler].kids  BY CrawlerIs, ThreadIs
<1>2. /\ UNCHANGED <<world, blocked, dbSeen, cache>>
      /\ Crawl(S) /\ lost' = lost \cup Dropped(S)
      /\ Loop("folders")
      /\ thr[Crawler].pc = "done" /\ thr[Crawler].item = "db"
  BY <1>1 DEF DoneDatabase, At
<1>3. QueuesGrow /\ (~blocked => S \subseteq Elements(folders'))  BY <1>2, CrawlEffect
<1>4. thr[Crawler].path.file  BY <1>2, CrawlerIs, ThreadIs DEF Doing
<1>5. ASSUME NEW d \in Dir PROVE /\ Due(d) => Due(d)' \/ d \in lost'
                                 /\ EditDue(d) => EditDue(d)'
                                 /\ d \in lost => d \in lost'
  <2>1. Taken(d) => Due(d)' \/ d \in lost'
    <3>1. SUFFICES ASSUME Taken(d) PROVE Due(d)' \/ d \in lost'  OBVIOUS
    <3>2. PICK k \in S : d \in Below[k]  BY <1>1, <1>4, <3>1 DEF Taken
    <3>3. CASE blocked  BY <1>2, <3>2, <3>3 DEF Dropped
    <3>4. CASE ~blocked  BY <1>3, <3>2, <3>4 DEF Due
    <3> QED  BY <3>3, <3>4
  <2>2. Due(d) => Due(d)' \/ d \in lost'  BY <1>3, <2>1 DEF Due, QueuesGrow
  <2>3. EditDue(d) => EditDue(d)'  BY <1>2, <1>3 DEF EditDue, world, QueuesGrow
  <2> QED  BY <1>2, <2>2, <2>3
<1>6. DbPend => DbPend'  BY <1>2, <1>3 DEF DbPend, world, QueuesGrow
<1> QED  BY <1>2, <1>5, <1>6, LoopNotices

LEMMA DoneFileNotices ==
  ASSUME Typed, Noticed, DoneFile
  PROVE  Noticed'
<1>1. PICK o \in Dir : o = thr[Crawler].of  BY CrawlerIs, ThreadIs
<1>2. /\ UNCHANGED <<world, blocked, dbSeen, cache, folders, added, woken>>
      /\ paths' = Erase(paths, o)
      /\ lost' = IF o \in Elements(paths) THEN lost \cup {o} ELSE lost
      /\ Loop("folders")
      /\ thr[Crawler].pc = "answer" /\ thr[Crawler].item = "file"
  BY <1>1 DEF DoneFile, At
<1>3. \A y \in Elements(paths) : y = o \/ y \in Elements(paths')
  BY <1>2, EraseKeeps DEF Typed, WorldType
<1>4. Database # o  BY CacheAssumption DEF CacheAssumption
<1>5. ASSUME NEW d \in Dir PROVE /\ Due(d) => Due(d)'
                                 /\ EditDue(d) => EditDue(d)' \/ d \in lost'
                                 /\ d \in lost => d \in lost'
  <2>1. ~Taken(d)  BY <1>2 DEF Taken
  <2>2. EditDue(d) => EditDue(d)' \/ d \in lost'  BY <1>2, <1>3 DEF EditDue, world
  <2> QED  BY <1>2, <2>1, <2>2 DEF Due
<1>6. DbPend => DbPend'  BY <1>2, <1>3, <1>4 DEF DbPend, world
<1> QED  BY <1>2, <1>5, <1>6, LoopNotices

LEMMA CrawlsNotices == ASSUME Typed, Inv, Noticed, Crawls PROVE Noticed'
BY WakeNotices, InvalidateNotices, RefreshNotices, RefreshedNotices, TakePathNotices,
   TakeFolderNotices, DoneFolderNotices, DoneDatabaseNotices, DoneFileNotices, WorkNotices,
   CrawlerIs DEF Crawls

-----------------------------------------------------------------------------
(* The world, and every step *)

\* A step that only adds requests.
LEMMA WorldNotices ==
  ASSUME Typed, Noticed, thr' = thr, cache' = cache, disk' = disk, db' = db, dbSeen' = dbSeen,
         \A d \in Dir : /\ d \in lost => d \in lost'
                        /\ d \in events \/ d \in Elements(paths) =>
                             d \in events' \/ d \in Elements(paths') \/ d \in lost',
         DbPend => DbPend' \/ \A d \in Dir : d \in lost',
         Elements(folders) \subseteq Elements(folders')
  PROVE  Noticed'
<1>1. ASSUME NEW d \in Dir PROVE Notices(d)'
  <2>1. Stands(d)  BY SameStands
  <2>2. Unmarked(d)  BY DEF Unmarked
  <2>3. Due(d) => Due(d)'  BY DEF Due, Taken
  <2>4. EditDue(d) => EditDue(d)' \/ d \in lost'  BY DEF EditDue
  <2>5. dbSeen \in {0, db} => dbSeen' \in {0, db}  OBVIOUS
  <2>6. DbPend => DbPend' \/ d \in lost'  OBVIOUS
  <2> QED  BY <2>1, <2>2, <2>3, <2>4, <2>5, <2>6, NoticesCalm DEF Noticed
<1> QED  BY <1>1 DEF Noticed

LEMMA EditNotices == ASSUME Typed, Noticed, NEW e \in Dir, Edit(e) PROVE Noticed'
<1>1. /\ events' = events \cup {e} /\ thr' = thr /\ cache' = cache /\ lost' = lost
      /\ UNCHANGED <<db, blocked, dbSeen, queues>>
  BY DEF Edit
<1>2. disk'[e].time = disk[e].time + 1 /\ \A x \in Dir : x # e => disk'[x] = disk[x]
  BY EditEffect
<1>3. ASSUME NEW d \in Dir, d # e PROVE Notices(d)'
  <2>1. Stands(d)  BY <1>1, SameStands
  <2>2. Unmarked(d)  BY <1>1, <1>2, <1>3 DEF Unmarked
  <2>3. Due(d) => Due(d)'  BY <1>1 DEF Due, Taken, queues
  <2>4. EditDue(d) => EditDue(d)'  BY <1>1 DEF EditDue, queues
  <2>5. DbPend => DbPend'  BY <1>1 DEF DbPend, queues
  <2>6. dbSeen \in {0, db} => dbSeen' \in {0, db}  BY <1>1
  <2> QED  BY <2>1, <2>2, <2>3, <2>4, <2>5, <2>6, NoticesCalm DEF Noticed
<1>4. Notices(e)'
  <2>1. PICK n \in Nat : n = disk[e].time /\ disk'[e].time = n + 1  BY <1>2, WorldIs
  <2>2. StaleOld(e)'
    <3>1. cache[e].entry.time \in Int /\ Bounds(e)  BY CacheIs
    <3>2. cache[e].entry.time <= n  BY <2>1, <3>1 DEF Bounds
    <3>3. cache'[e].entry.time # disk'[e].time  BY <1>1, <2>1, <3>1, <3>2
    <3> QED  BY <3>3 DEF StaleOld, Stale
  <2>3. ASSUME NEW t \in Thread PROVE EntryOld(t, e)'
    <3>1. CASE Phase(t, e)' = "entry"
      <4>1. thr[t].this = e /\ thr[t].pc = "entry"  BY <1>1, <3>1 DEF Phase
      <4>2. thr[t].time \in Int /\ thr[t].time <= n  BY <2>1, <4>1, ThreadIs DEF Doing
      <4>3. thr'[t].time # disk'[e].time  BY <1>1, <2>1, <4>2
      <4> QED  BY <4>3 DEF EntryOld
    <3> QED  BY <3>1 DEF EntryOld
  <2>4. TimeOld(e)'  BY <1>1 DEF TimeOld, EditDue
  <2>5. NewOld(e)'
    <3>1. NewSeen(e) => NewSeen(e)'
      <4>1. Due(e) => Due(e)'  BY <1>1 DEF Due, Taken, queues
      <4>2. \A t \in Thread : Phase(t, e)' = Phase(t, e)  BY <1>1 DEF Phase
      <4>3. Awaited(e) => Awaited(e)'  BY <1>1 DEF Awaited
      <4> QED  BY <4>1, <4>2, <4>3 DEF NewSeen, Fetching, In
    <3> QED  BY <1>1, <3>1 DEF Noticed, Notices, NewOld
  <2> QED  BY <2>2, <2>3, <2>4, <2>5 DEF Notices
<1> QED  BY <1>3, <1>4 DEF Noticed

LEMMA CommitNotices == ASSUME Typed, Noticed, NEW e \in Dir, Commit(e) PROVE Noticed'
<1>1. /\ events' = events \cup {Database} /\ thr' = thr /\ cache' = cache /\ lost' = lost
      /\ UNCHANGED <<blocked, dbSeen, queues>>
  BY DEF Commit
<1>2. db' = db + 1 /\ \A x \in Dir : disk'[x].time = disk[x].time
  BY CommitEffect
<1>3. PICK n \in Nat : n = db /\ db' = n + 1  BY <1>2, WorldIs
<1>4. ASSUME NEW d \in Dir PROVE Notices(d)'
  <2>1. CommitSeen(d)'  BY <1>1 DEF CommitSeen, DbPend
  <2>2. \A t \in Thread : thr'[t].seen # db'
    <3> TAKE t \in Thread
    <3>1. thr[t].seen \in Nat /\ thr[t].seen <= n  BY <1>3, ThreadIs DEF Doing
    <3> QED  BY <1>1, <1>3, <3>1
  <2>3. cache'[d].db # db'
    <3>1. cache[d].db \in Nat /\ Bounds(d)  BY CacheIs
    <3>2. cache[d].db <= n  BY <1>3, <3>1 DEF Bounds
    <3> QED  BY <1>1, <1>3, <3>1, <3>2
  <2>4. OldDb(d)'  BY <2>2, <2>3 DEF OldDb
  <2>5. \A t \in Thread : Phase(t, d)' = Phase(t, d)  BY <1>1 DEF Phase
  <2>6. EditDue(d) => EditDue(d)'  BY <1>1 DEF EditDue, queues
  <2>7. Due(d) => Due(d)'  BY <1>1 DEF Due, Taken, queues
  <2>8. Awaited(d) => Awaited(d)'  BY <1>1 DEF Awaited
  <2>9. TimeOld(d)'
    <3>1. Filling(d) => Filling(d)'  BY <2>5 DEF Filling, In
    <3> QED  BY <1>1, <1>2, <2>6, <3>1 DEF Noticed, Notices, TimeOld
  <2>10. NewOld(d)'
    <3>1. NewSeen(d) => NewSeen(d)'  BY <2>5, <2>7, <2>8 DEF NewSeen, Fetching, In
    <3> QED  BY <1>1, <3>1 DEF Noticed, Notices, NewOld
  <2>11. StaleOld(d)'  BY <2>1, <2>4 DEF StaleOld
  <2>12. \A t \in Thread : EntryOld(t, d)'  BY <2>1, <2>2, <2>4 DEF EntryOld
  <2> QED  BY <2>9, <2>10, <2>11, <2>12 DEF Notices
<1> QED  BY <1>4 DEF Noticed

LEMMA NotifyNotices == ASSUME Typed, Noticed, NEW e, Notify(e) PROVE Noticed'
<1>1. /\ UNCHANGED <<disk, db, dbSeen, cache, folders, thr>>
      /\ events' = events \ {e} /\ e \in events
      /\ \/ paths' = paths /\ lost' = lost \cup (IF e = Database THEN Dir ELSE {e})
         \/ paths' = Push(paths, e) /\ lost' = lost
  BY DEF Notify
<1>2. paths \in Seq(Dir \cup {Database}) /\ e \in Dir \cup {Database}
  BY <1>1 DEF Typed, WorldType
<1>3. PICK q : q = Push(paths, e)  OBVIOUS
<1>4. Elements(paths) \cup {e} \subseteq Elements(q)  BY <1>2, <1>3, PushHas
<1>5. \A d \in Dir : /\ d \in lost => d \in lost'
                     /\ d \in events \/ d \in Elements(paths) =>
                          d \in events' \/ d \in Elements(paths') \/ d \in lost'
  BY <1>1, <1>3, <1>4, CacheAssumption DEF CacheAssumption
<1>6. DbPend => DbPend' \/ \A d \in Dir : d \in lost'  BY <1>1, <1>3, <1>4 DEF DbPend
<1> QED  BY <1>1, <1>5, <1>6, WorldNotices

LEMMA UnBlockNotices ==
  ASSUME Typed, Noticed, NEW d \in Dir, UnBlockPath(d), UNCHANGED <<world, dbSeen, cache, thr, blank>>
  PROVE  Noticed'
<1>1. PICK q : q = Push(folders, d)  OBVIOUS
<1>2. Elements(folders) \subseteq Elements(q)  BY <1>1, PushHas DEF Typed, WorldType
<1>3. folders' = q /\ paths' = paths /\ lost' = lost  BY <1>1 DEF UnBlockPath
<1>4. /\ thr' = thr /\ cache' = cache /\ disk' = disk /\ db' = db /\ dbSeen' = dbSeen
      /\ events' = events
  BY DEF world
<1>5. DbPend => DbPend'  BY <1>3, <1>4 DEF DbPend
<1> QED  BY <1>2, <1>3, <1>4, <1>5, WorldNotices

LEMMA AskNotices ==
  ASSUME Typed, Noticed, NEW t \in Client, NEW p \in [file : BOOLEAN, dir : Dir], Ask(t, p),
         p.file \/ p.dir # Top
  PROVE  Noticed'
<1>1. Others(t) /\ thr[t].pc = "idle" /\ thr'[t].pc = "enter" /\ thr'[t].next = "answer"
  BY AskEffect
<1>2. t \in Thread /\ t # Crawler  BY CrawlerIs
<1>3. Nowhere(t)  BY <1>1, <1>2, NowhereIs DEF Fetch, Fill, Unlisted, Updaters
<1>4. UNCHANGED <<disk, db, events, blocked, dbSeen, cache, queues, blank, lost>>  BY DEF Ask
<1>5. thr'[Crawler] = thr[Crawler]  BY <1>1, <1>2, CrawlerIs DEF Others
<1>6. ASSUME NEW d \in Dir PROVE Notices(d)'
  <2>1. Minds(t, d)
    <3>1. Phase(t, d)' \in {"none", "clear"}  BY <1>1, <1>2, BeginsNext DEF Begins
    <3> QED  BY <1>2, <1>3, <3>1, MindsNew DEF Nowhere
  <2>2. Stands(d)
    <3>1. \A u \in Thread : Minds(u, d)  BY <1>1, <1>2, <2>1, OthersMind
    <3>2. \A u \in Thread : thr[u].pc \in Waits => thr'[u] = thr[u]
      BY <1>1 DEF Others, Waits
    <3>3. Awaited(d) => Awaited(d)'  BY <3>2 DEF Awaited
    <3> QED  BY <3>1, <3>3 DEF Stands
  <2>3. Unmarked(d)  BY <1>4 DEF Unmarked
  <2>4. Due(d) => Due(d)'  BY <1>4, <1>5 DEF Due, Taken, queues
  <2>5. EditDue(d) => EditDue(d)'  BY <1>4, <1>5 DEF EditDue, queues
  <2>6. DbPend => DbPend'  BY <1>4 DEF DbPend, queues
  <2>7. dbSeen \in {0, db} => dbSeen' \in {0, db}  BY <1>4
  <2> QED  BY <2>2, <2>3, <2>4, <2>5, <2>6, <2>7, NoticesCalm DEF Noticed
<1> QED  BY <1>6 DEF Noticed

LEMMA NextNotices == ASSUME Typed, Inv, Noticed, [Next]_vars PROVE Noticed'
<1>1. ASSUME NEW d \in Dir, Edit(d) PROVE Noticed'  BY <1>1, EditNotices
<1>2. ASSUME NEW d \in Dir, Commit(d) PROVE Noticed'  BY <1>2, CommitNotices
<1>3. ASSUME NEW d \in Dir, UnBlock(d) PROVE Noticed'  BY <1>3, UnBlockNotices DEF UnBlock
<1>4. CASE Block
  <2>1. UNCHANGED <<disk, db, events, dbSeen, cache, queues, thr, lost>>  BY <1>4 DEF Block
  <2> QED  BY <2>1, WorldNotices DEF queues, DbPend
<1>5. ASSUME NEW e, Notify(e) PROVE Noticed'  BY <1>5, NotifyNotices
<1>6. CASE TimedOut  BY <1>6, CrawlerIs, UnBlockNotices DEF TimedOut
<1>7. CASE Crawls  BY <1>7, CrawlsNotices
<1>8. ASSUME NEW t \in Client, Work(t) PROVE Noticed'  BY <1>8, CrawlerIs, WorkNotices
<1>9. CASE UNCHANGED vars  BY <1>9, WorldNotices DEF vars, queues, world, DbPend
<1>10. ASSUME NEW t \in Client, NEW d \in Dir, Ask(t, File(d)) PROVE Noticed'
  BY <1>10, AskNotices, PathIs
<1>11. ASSUME NEW t \in Client, NEW d \in Dir \ {Top}, Ask(t, Folder(d)) PROVE Noticed'
  BY <1>11, AskNotices, PathIs
<1> QED  BY <1>1, <1>2, <1>3, <1>4, <1>5, <1>6, <1>7, <1>8, <1>9, <1>10, <1>11
         DEF Next, Progress

LEMMA InitNotices == Init => Noticed
<1> SUFFICES ASSUME Init PROVE Noticed  OBVIOUS
<1>1. PICK f : f = Fresh  OBVIOUS
<1>2. f.entry.st = "none" /\ f.here = FALSE  BY <1>1, FreshType DEF Fresh
<1>3. \A d \in Dir : cache[d] = f  BY <1>1 DEF Init
<1>4. \A t \in Thread : thr[t].pc \in {"idle", "asleep"}
  <2>1. Idle.pc = "idle" /\ [Idle EXCEPT !.pc = "asleep"].pc = "asleep"  BY IdleType DEF Idle
  <2> QED  BY <2>1 DEF Init
<1>5. \A t \in Thread : \A d \in Dir : Phase(t, d) # "entry"  BY <1>4 DEF Phase, Fetch, Fill, Unlisted
<1> QED  BY <1>2, <1>3, <1>5 DEF Noticed, Notices, StaleOld, Stale, EntryOld, TimeOld, NewOld

-----------------------------------------------------------------------------
(* The crawler rests: all is as svn would have it *)

\* Nobody is at work, and nothing is queued.
Resting ==
  /\ paths = <<>> /\ folders = <<>> /\ events = {}
  /\ \A t \in Thread : thr[t].pc \in {"idle", "asleep"}
LEMMA RestingHas ==
  ASSUME Typed, Contents, Noticed, Resting, NEW d \in Dir
  PROVE  /\ ~CommitSeen(d) /\ ~EditDue(d) /\ ~NewSeen(d)
         /\ ~Fetching(d) /\ ~Filling(d) /\ ~In(Unlisted, d)
         /\ ~Updating(d) /\ ~Brought(d) /\ \A c \in Dir : ~Missing(d, c)
<1>1. Elements(<<>>) = {}  BY EmptySeq DEF Elements
<1>2. thr[Crawler].pc \in {"idle", "asleep", "folders"}  BY CrawlerIs DEF Resting
<1>3. ~Taken(d) /\ ~EditDue(d)  BY <1>1, <1>2, EmptyHanded DEF Resting
<1>4. ~Due(d) /\ ~DbPend  BY <1>1, <1>3 DEF Resting, Due, DbPend
<1>5. ASSUME NEW t \in Thread PROVE Nowhere(t)
  <2>1. thr[t].pc \in {"idle", "asleep"}  BY DEF Resting
  <2> QED  BY <2>1, NowhereIs DEF Fetch, Fill, Unlisted, Updaters
<1>6. ~Awaited(d)  BY DEF Resting, Awaited, Waits
<1>7. \A t \in Thread : Phase(t, d) = "none" /\ Upd(t, d) = "none"  BY <1>5 DEF Nowhere
<1>8. ~Fetching(d) /\ ~Filling(d) /\ ~In(Unlisted, d) /\ ~In({"past"}, d)
  BY <1>7 DEF Fetching, Filling, In, Fetch, Fill, Unlisted
<1>9. ~Updating(d) /\ ~Brought(d) /\ \A c \in Dir : ~Missing(d, c)
  BY <1>7 DEF Updating, Brought, Brings, Missing, Listers
<1> QED  BY <1>3, <1>4, <1>6, <1>8, <1>9 DEF CommitSeen, NewSeen

\* What is in the cache of a directory that has lost nothing.
LEMMA RestingRight ==
  ASSUME Typed, Contents, Noticed, Resting, NEW d \in Dir, d \notin lost, cache[d].here
  PROVE  /\ cache[d].eff = "normal" /\ cache[d].db # 0
         /\ cache[d].entry.st = disk[d].st
         /\ cache[d].most = Important("normal", disk[d].st)
         /\ cache[d].full = MostOf(Parts(d))
         /\ \A c \in Children(d) : cache[d].kids[c] # Unknown /\ cache[c].here
         /\ \A c \in Children(d) : c \notin lost /\ cache[c].db # 0 =>
              cache[d].kids[c] = cache[c].full
<1>1. Notices(d) /\ Right(d)  BY DEF Noticed, Contents
<1>2. cache[d].db # 0  BY <1>1, RestingHas DEF Notices, NewOld
<1>3. Listed(d) /\ Ended(d) /\ Loaded(d)  BY <1>2 DEF Listed, Ended, Loaded
<1>4. /\ cache[d].eff = "normal"
      /\ \A c \in Children(d) : cache[d].kids[c] # Unknown /\ cache[c].here
  BY <1>1, <1>3, RestingHas DEF Right, HasFolders
<1>5. cache[d].entry.st # "none"  BY <1>1, <1>3, RestingHas DEF Right, HasFile
<1>6. cache[d].entry.time = disk[d].time  BY <1>1, <1>5, RestingHas DEF Notices, TimeOld
<1>7. cache[d].entry.st = disk[d].st
  BY <1>1, <1>5, <1>6, RestingHas DEF Notices, StaleOld, Stale
<1>8. cache[d].most = Important("normal", disk[d].st)
  BY <1>1, <1>3, <1>4, <1>7, RestingHas DEF Right, MostRight
<1>9. cache[d].full = MostOf(Parts(d))
  BY <1>1, <1>3, RestingHas DEF Right, FullRight
<1>10. ASSUME NEW c \in Children(d), c \notin lost, cache[c].db # 0
       PROVE  cache[d].kids[c] = cache[c].full
  <2>1. c \in Dir  BY DEF Children
  <2>2. KidRight(d, c)  BY DEF Contents
  <2>3. Loaded(c)  BY <1>10 DEF Loaded
  <2> QED  BY <1>4, <1>10, <2>1, <2>2, <2>3, RestingHas DEF KidRight
<1> QED  BY <1>2, <1>4, <1>7, <1>8, <1>9, <1>10

\* From the folders to their parent.
LEMMA TruthUp ==
  ASSUME Typed, Contents, Noticed, Resting, NEW d \in Dir, cache[d].here,
         Below[d] \cap lost = {},
         \A c \in Children(d) : cache[c].here /\ Below[c] \cap lost = {} =>
           cache[c].full = Truth(c)
  PROVE  cache[d].full = Truth(d)
<1>1. d \in Below[d] /\ d \notin lost  BY BelowSelf
<1>2. ASSUME NEW c \in Children(d)
      PROVE  /\ c \in Dir /\ c \notin lost /\ Below[c] \subseteq Below[d]
             /\ cache[d].kids[c] # Unknown /\ cache[d].kids[c] = Truth(c)
  <2>1. c \in Dir  BY DEF Children
  <2>2. Below[c] \subseteq Below[d] /\ c \in Below[c]  BY <2>1, BelowUp, BelowSelf
  <2>3. c \notin lost /\ Below[c] \cap lost = {}  BY <2>2
  <2>4. cache[d].kids[c] # Unknown /\ cache[c].here  BY <1>1, RestingRight
  <2>5. cache[c].db # 0  BY <2>1, <2>3, <2>4, RestingRight
  <2>6. cache[d].kids[c] = cache[c].full  BY <1>1, <2>3, <2>5, RestingRight
  <2> QED  BY <2>1, <2>2, <2>3, <2>4, <2>6
<1>3. Known(d) = Children(d)
  <2>1. Bounds(d)  BY CacheIs
  <2> QED  BY <1>2, <2>1 DEF Known, Bounds
<1>4. PICK s : s = disk[d].st /\ s \in {"normal", "modified"}  BY DEF Typed, WorldType
<1>5. PICK m \in Status : /\ m = cache[d].most
                          /\ m = "modified" <=> s = "modified"
                          /\ m # "none"
  BY <1>1, <1>4, RestingRight, ImportantType DEF Status
<1> DEFINE K == {cache[d].kids[c] : c \in Children(d)}
<1>6. Parts(d) = {m, "normal"} \cup K
  BY <1>1, <1>3, <1>5, RestingRight DEF Parts
<1>7. K \subseteq {"normal", "modified"}  BY <1>2 DEF Truth
<1>8. "modified" \in Parts(d) <=> \E x \in Below[d] : disk[x].st = "modified"
  <2>1. ASSUME "modified" \in Parts(d) PROVE \E x \in Below[d] : disk[x].st = "modified"
    <3>1. CASE m = "modified"  BY <1>1, <1>4, <1>5, <3>1
    <3>2. CASE "modified" \in K
      <4>1. PICK c \in Children(d) : cache[d].kids[c] = "modified"  BY <3>2
      <4>2. \E x \in Below[c] : disk[x].st = "modified"  BY <1>2, <4>1 DEF Truth
      <4> QED  BY <1>2, <4>2
    <3> QED  BY <1>6, <2>1, <3>1, <3>2
  <2>2. ASSUME NEW x \in Below[d], disk[x].st = "modified" PROVE "modified" \in Parts(d)
    <3>1. CASE x = d  BY <1>4, <1>5, <1>6, <2>2, <3>1
    <3>2. CASE x # d
      <4>1. PICK c \in Children(d) : x \in Below[c]  BY <3>2, BelowSplit
      <4>2. cache[d].kids[c] = "modified"  BY <1>2, <2>2, <4>1 DEF Truth
      <4> QED  BY <1>6, <4>2
    <3> QED  BY <3>1, <3>2
  <2> QED  BY <2>1, <2>2
<1>9. Parts(d) \in SUBSET Status /\ "normal" \in Parts(d)  BY <1>6, <1>7 DEF Status
<1>10. PICK P \in SUBSET Status : P = Parts(d)  BY <1>9
<1>11. MostOf(P) = IF "modified" \in P THEN "modified" ELSE "normal"
  BY <1>9, <1>10, MostOfMost
<1>12. cache[d].full = MostOf(P)  BY <1>1, <1>10, RestingRight
<1> QED  BY <1>8, <1>10, <1>11, <1>12 DEF Truth

LEMMA RestingSettled ==
  ASSUME Typed, Contents, Noticed, NothingForgotten
  PROVE  Settled
<1> DEFINE Wrong == {d \in Dir : /\ cache[d].here /\ Below[d] \cap lost = {}
                                 /\ cache[d].full # Truth(d)}
<1>1. SUFFICES ASSUME Quiet PROVE Wrong = {}  BY DEF Settled
<1>2. Resting
  <2>1. \A t \in Thread : thr[t].pc \in {"idle", "asleep"}
    BY <1>1 DEF Quiet, At, Thread
  <2> QED  BY <1>1, <2>1 DEF Quiet, NothingForgotten, Resting
<1>3. SUFFICES ASSUME Wrong # {} PROVE FALSE  OBVIOUS
<1>4. PICK d \in Wrong : Children(d) \cap Wrong = {}
  <2>1. Wrong \in SUBSET Dir  OBVIOUS
  <2> HIDE DEF Wrong
  <2> QED  BY <1>3, <2>1, DeepestExists
<1>5. \A c \in Children(d) : cache[c].here /\ Below[c] \cap lost = {} => cache[c].full = Truth(c)
  <2>1. \A c \in Children(d) : c \in Dir  BY DEF Children
  <2> QED  BY <1>4, <2>1
<1> QED  BY <1>2, <1>4, <1>5, TruthUp

\* When the crawler rests, the recursive status of every cached directory is
\* the one svn would give for all below it, in every tree of folders, for every
\* number of pipe threads and in every order of edits, commits, notifications,
\* requests and blocks, unless something below it has been lost.
THEOREM StatusSettles == Spec => []Settled
<1> DEFINE All == Inv /\ Typed /\ Contents /\ Noticed
<1>1. Init => All  BY InitInv, InitTyped, InitContents, InitNotices
<1>2. All /\ [Next]_vars => All'
  BY NextInv, NextTyped, NextContents, NextNotices
<1>3. All /\ NothingForgotten => Settled  BY RestingSettled
<1> QED  BY CrawlerIsWoken, <1>1, <1>2, <1>3, PTL DEF Spec

=============================================================================
