------------------------------- MODULE LogCache ------------------------------
(***************************************************************************)
(* The log cache: CCacheLogQuery answers a log query from the cached       *)
(* revisions, and lets CLogFiller ask the server for the gaps.  What the   *)
(* server sends is cached, and what it does not send is remembered as a    *)
(* skip range (module SkipRevisions).                                      *)
(*                                                                         *)
(* The repository has no copies and no deletions: a path begins with the   *)
(* first revision that changes it, and its log ends there.                 *)
(***************************************************************************)
EXTENDS SkipRevisions, Sequences, SequencesExt

CONSTANTS
  Histories,    \* sets of functions from 1..MaxRev to changed paths
  Asked,        \* what callers ask for: [path, start, end, limit, props]; limit 0 is none
  Tradeoff,     \* RECEIVE_TO_ROUNTRIP_TRADEOFF_REVS
  MaxQueries    \* bound: queries made

VARIABLES
  changes,   \* the repository: changed paths per revision
  cache,     \* CCachedLogInfo
  offline,   \* CRepositoryInfo: the user works off-line
  query,     \* locals of CCacheLogQuery::InternalLog, and what it reported
  fills,     \* the CLogFillers at work, the innermost first
  queries    \* bound: queries made

vars == <<changes, cache, offline, query, fills, queries>>

\* A path is there before anything below it.
Sound(h) ==
  LET born(p) == {r \in 1 .. MaxRev : p \in h[r]}
  IN  \A p \in Path \ {Root} :
        /\ born(p) # {}
        /\ Parent[p] # Root => born(Parent[p]) # {} /\ Lowest(born(Parent[p])) <= Lowest(born(p))

ASSUME LogAssumption ==
  /\ \A h \in Histories :
       /\ h \in [1 .. MaxRev -> SUBSET (Path \ {Root})]
       /\ Sound(h)
  /\ Asked \subseteq [path : Path, start : Rev, end : Rev, limit : Nat, props : BOOLEAN]
  /\ \A q \in Asked : q.end <= q.start   \* Log has brought them into this order
  /\ Tradeoff \in Nat

-----------------------------------------------------------------------------
(* The repository *)

Ancestors[p \in Path] == IF p = Root THEN {Root} ELSE {p} \cup Ancestors[Parent[p]]
SameOrParent(p, q) == p \in Ancestors[q]

Touches(p, r) == p = Root \/ (r > 0 /\ \E q \in changes[r] : SameOrParent(p, q))
Birth(p) == IF p = Root THEN 0 ELSE Lowest({r \in 1 .. MaxRev : p \in changes[r]})
Adds(r) == {p \in Path \ {Root} : r > 0 /\ p \in changes[r] /\ r = Birth(p)}

\* what svn log sends; limit 0 is none
ServerLog(p, start, end, limit) ==
  LET step == IF start >= end THEN -1 ELSE 1
      n == (end - start) * step + 1
      upto[k \in 0 .. n] ==   \* of the first k revisions
        LET r == start + (k - 1) * step
        IN  IF k = 0 THEN <<>>
            ELSE IF Touches(p, r) /\ r >= Birth(p) THEN Append(upto[k - 1], r)
            ELSE upto[k - 1]
      all == upto[n]
  IN  IF limit = 0 \/ limit > Len(all) THEN all ELSE SubSeq(all, 1, limit)

-----------------------------------------------------------------------------
(* CCachedLogInfo: have is the set of revisions with changed paths, props  *)
(* of those that have the standard revision properties, too                *)

EmptyCache == [have |-> {}, props |-> {}, ranges |-> [p \in Path |-> <<>>]]

Missing(c, r) == r \notin c.have

\* the dictionary of paths, and CDictionaryBasedTempPath::GetBasePath
Known(c) == {Root} \cup {p \in Path : \E r \in c.have \ {0} :
                                        \E q \in changes[r] : SameOrParent(p, q)}
Base(c, p) == CHOOSE b \in Ancestors[p] \cap Known(c) :
                \A q \in Ancestors[p] \cap Known(c) : SameOrParent(q, b)
FullyCached(c, p) == Base(c, p) = p

AddSkipRange(c, p, s, n) == [c EXCEPT !.ranges[p] = Add(@, s, n, c.have)]

\* Update with data for revisions that the cache has already, and Compress
Update(c, revs, props) ==
  IF revs = {} THEN c
  ELSE [c EXCEPT !.props = IF props THEN @ \cup revs ELSE @,
                 !.ranges = [p \in Path |-> RemoveKnown(@[p], c.have)]]

-----------------------------------------------------------------------------
(* CLogIteratorBase *)

Valid == Position \ {NO_REVISION}

AdvanceOneStep(c, p, r) ==
  LET skip[x \in Position] ==
        LET next == GetPreviousRevision(c.ranges, Base(c, p), x)
        IN  IF ~Missing(c, x) \/ next = NO_REVISION THEN x ELSE skip[next]
  IN  skip[r - 1]

PathInRevision(c, p, r) ==
  \/ p = Root
  \/ FullyCached(c, p) /\ Touches(p, r)
  \/ \E q \in Adds(r) : SameOrParent(q, Base(c, p))

\* the next entry from r - 1 on that mentions the path or is missing
InternalAdvance(c, p, r) ==
  LET seek[x \in Valid] ==
        LET y == AdvanceOneStep(c, p, x)
        IN  IF y > 0 /\ ~Missing(c, y) /\ ~PathInRevision(c, p, y) THEN seek[y] ELSE y
  IN  seek[r]

Retry(c, p, r) == InternalAdvance(c, p, IF r = 0 THEN 0 ELSE r + 1)

Advance(c, p, r) ==
  IF r \in c.have /\ p \in Adds(r) THEN NO_REVISION ELSE InternalAdvance(c, p, r)

ToNextAvailableData(c, p, r) ==
  LET seek[x \in Valid] ==
        LET y == AdvanceOneStep(c, p, x)
        IN  IF y # NO_REVISION /\ Missing(c, y) THEN seek[y] ELSE y
  IN  seek[r]

-----------------------------------------------------------------------------
(* Where to stop a fetch: NextAvailableRevision, FindOldestGap, FillLog *)

Available(c, props, r) == IF props THEN r \in c.props ELSE r \in c.have

\* The position above the next data for the path, end - 1 if there is none.
NextAvailableRevision(c, p, start, end, props) ==
  LET data(it) == {y \in end .. it : Available(c, props, y)}
      search[it \in Position] ==
        IF Available(c, props, it) THEN it + 1
        ELSE IF data(it) = {} THEN end - 1
        ELSE search[Retry(c, p, Highest(data(it)))]
  IN  IF start < end THEN end - 1 ELSE search[Retry(c, p, start)]

\* Down the log until Tradeoff entries are known; gap is the lowest missing
\* revision so far.
FindOldestGap(c, p, start, end, props) ==
  LET scan[q \in Position \X (0 .. Tradeoff) \X Position] ==
        LET it == q[1]  known == q[2]  gap == q[3]
        IN  IF it = NO_REVISION \/ known = Tradeoff THEN gap
            ELSE IF Available(c, props, it)
              THEN IF it < end THEN gap ELSE scan[<<Advance(c, p, it), known + 1, gap>>]
              ELSE IF it < end THEN it ELSE scan[<<Retry(c, p, it - 1), known, it>>]
  IN  scan[<<Retry(c, p, start), 0, start>>]

FetchEnd(c, p, start, end, props) ==
  LET low[next \in Position] ==
        IF next < end THEN next + 1 ELSE FindOldestGap(c, p, next + 1, end, props)
  IN  Lowest({start, low[NextAvailableRevision(c, p, start, end, props)]})

-----------------------------------------------------------------------------
(* CLogFiller.  phase: in svnQuery->Log ("log"), before and after          *)
(* AutoAddSkipRange ("gap", "nested", "after").                            *)

Fill(p, start, end, limit, props, sends) ==
  [path |-> p, base |-> Base(cache, p), end |-> end, todo |-> ServerLog(p, start, end, limit),
   limit |-> limit, props |-> props, sends |-> sends, count |-> 0,
   firstNA |-> start, oldest |-> MaxRev + 2, update |-> {},
   following |-> TRUE, phase |-> "log", rev |-> 0, final |-> FALSE]

Running == query.state = "running"
fill == fills[1]
Filling(phase) == Running /\ fills # <<>> /\ fill.phase = phase
Now(f) == fills' = <<f>> \o Tail(fills)

\* MergeFromUpdateCache
Merged(c, f) == Update(c, f.update, f.props)

Init ==
  /\ changes \in Histories
  /\ cache = EmptyCache
  /\ offline = FALSE
  /\ query = [state |-> "none", path |-> Root, start |-> 0, end |-> 0, limit |-> 0,
              props |-> FALSE, left |-> 0, it |-> 0, lastReported |-> 0, sent |-> <<>>]
  /\ fills = <<>>
  /\ queries = 0

\* CCacheLogQuery::Log for a path that is there at its start revision
Log(q) ==
  /\ ~Running
  /\ queries < MaxQueries
  /\ Birth(q.path) <= q.start
  /\ query' = [state |-> "running", path |-> q.path, start |-> q.start, end |-> q.end,
                limit |-> q.limit, props |-> q.props, left |-> q.limit,
                it |-> Retry(cache, q.path, q.start), lastReported |-> q.start + 1,
                sent |-> <<>>]
  /\ queries' = queries + 1
  /\ UNCHANGED <<changes, cache, offline, fills>>

\* the user goes on-line again
ResetOffline ==
  /\ offline /\ ~Running
  /\ offline' = FALSE
  /\ query' = [query EXCEPT !.state = "none", !.sent = <<>>]
  /\ UNCHANGED <<changes, cache, fills, queries>>

(* The loop of InternalLog *)

Looping == Running /\ fills = <<>>
EndOfLog == query.it < query.end \/ query.it = NO_REVISION
HasData == Available(cache, query.props, query.it)

Done(reason) ==
  /\ query' = [query EXCEPT !.state = reason]
  /\ UNCHANGED <<changes, cache, offline, fills, queries>>

\* fault: the oldest entry that the filler has reported is reported again
Report_Again ==
  /\ Looping /\ ~EndOfLog /\ HasData
  /\ LET stop == query.left = 1
     IN  query' = [query EXCEPT
           !.sent = IF query.it <= query.lastReported THEN Append(@, query.it) ELSE @,
           !.left = IF query.limit = 0 THEN 0 ELSE @ - 1,
           !.state = IF stop THEN "done" ELSE "running",
           !.it = IF stop THEN @ ELSE Advance(cache, query.path, @)]
  /\ UNCHANGED <<changes, cache, offline, fills, queries>>

Report ==
  /\ Looping /\ ~EndOfLog /\ HasData
  /\ LET stop == query.left = 1
     IN  query' = [query EXCEPT
           !.sent = IF query.it < query.lastReported THEN Append(@, query.it) ELSE @,
           !.left = IF query.limit = 0 THEN 0 ELSE @ - 1,
           !.state = IF stop THEN "done" ELSE "running",
           !.it = IF stop THEN @ ELSE Advance(cache, query.path, @)]
  /\ UNCHANGED <<changes, cache, offline, fills, queries>>

Finish == Looping /\ EndOfLog /\ Done("done")

NothingBelow ==
  /\ Looping /\ ~EndOfLog /\ ~HasData
  /\ query.it = 0 /\ query.path # Root
  /\ Done("done")

RefusesRefetch ==
  /\ Looping /\ ~EndOfLog /\ ~HasData
  /\ query.it # 0 \/ query.path = Root
  /\ query.it >= query.lastReported
  /\ Done("refused")

MustFetch ==
  /\ Looping /\ ~EndOfLog /\ ~HasData
  /\ query.it # 0 \/ query.path = Root
  /\ query.it < query.lastReported

SkipUnknown ==
  /\ MustFetch /\ offline
  /\ LET next == ToNextAvailableData(cache, query.path, query.it)
     IN  query' = [query EXCEPT !.it = Retry(cache, query.path, next)]
  /\ UNCHANGED <<changes, cache, offline, fills, queries>>

Fetch ==
  /\ MustFetch /\ ~offline
  /\ \E low \in {FetchEnd(cache, query.path, query.it, query.end, query.props)} :
       fills' = <<Fill(query.path, query.it, low, query.left, query.props, TRUE)>>
  /\ UNCHANGED <<changes, cache, offline, query, queries>>

(* CLogFiller *)

\* ReceiveLog as far as WriteToCache writes: what is not yet cached at once
Receive ==
  /\ Filling("log") /\ fill.todo # <<>>
  /\ LET r == Head(fill.todo)
         new == r \notin cache.have
         known == [cache EXCEPT !.have = @ \cup {r},
                                !.props = IF new /\ fill.props THEN @ \cup {r} ELSE @]
         late == IF new THEN fill.update ELSE fill.update \cup {r}
         lookup == fill.following /\ fill.base # fill.path
         f == [fill EXCEPT !.todo = Tail(@), !.count = @ + 1, !.rev = r,
                           !.phase = "gap", !.update = late]
     IN  IF lookup
           THEN /\ cache' = Merged(known, f)
                /\ Now([f EXCEPT !.update = {}, !.base = Base(known, f.path)])
           ELSE cache' = known /\ Now(f)
  /\ UNCHANGED <<changes, offline, query, queries>>

\* MakeRangeIterable: where an iterator for the base path gets stuck
RangeGap(c, b, low, count) ==
  LET walk[x \in Position] ==
        IF x = NO_REVISION \/ Missing(c, x) THEN x
        ELSE IF x < low THEN NO_REVISION
        ELSE walk[Advance(c, b, x)]
  IN  walk[Retry(c, b, low + count - 1)]

\* AutoAddSkipRange
GapToMark == fill.following /\ fill.firstNA > fill.rev
GapLength == fill.firstNA - fill.rev

NoGap ==
  /\ Filling("gap") /\ ~GapToMark
  /\ Now([fill EXCEPT !.phase = "after"])
  /\ UNCHANGED <<changes, cache, offline, query, queries>>

\* fault: the range is one revision too short
MarkGap_Short ==
  /\ Filling("gap") /\ GapToMark /\ fill.base = fill.path
  /\ cache' = AddSkipRange(cache, fill.base, fill.rev + 1, GapLength - 1)
  /\ Now([fill EXCEPT !.phase = "after"])
  /\ UNCHANGED <<changes, offline, query, queries>>

MarkGap ==
  /\ Filling("gap") /\ GapToMark /\ fill.base = fill.path
  /\ cache' = AddSkipRange(cache, fill.base, fill.rev + 1, GapLength)
  /\ Now([fill EXCEPT !.phase = "after"])
  /\ UNCHANGED <<changes, offline, query, queries>>

\* fault: the range is marked for the nearest path that the cache knows
FillGap_MarkParent ==
  /\ Filling("gap") /\ GapToMark /\ fill.base # fill.path
  /\ cache' = AddSkipRange(cache, fill.base, fill.rev + 1, GapLength)
  /\ Now([fill EXCEPT !.phase = "after"])
  /\ UNCHANGED <<changes, offline, query, queries>>

\* fault: a path the cache does not know is left without a skip range
FillGap_Nothing ==
  /\ Filling("gap") /\ GapToMark /\ fill.base # fill.path
  /\ Now([fill EXCEPT !.phase = "after"])
  /\ UNCHANGED <<changes, cache, offline, query, queries>>

FillGap ==
  /\ Filling("gap") /\ GapToMark /\ fill.base # fill.path
  /\ cache' = Merged(cache, fill)
  /\ LET x == RangeGap(cache', fill.base, fill.rev + 1, GapLength)
     IN  IF x = NO_REVISION
           THEN Now([fill EXCEPT !.update = {}, !.phase = "after"])
           ELSE fills' = <<Fill(fill.base, x, fill.rev + 1, 0, TRUE, FALSE),
                           [fill EXCEPT !.update = {}, !.phase = "nested"]>> \o Tail(fills)
  /\ UNCHANGED <<changes, offline, query, queries>>

\* the rest of ReceiveLog
HandOn ==
  /\ Filling("after") /\ ~fill.final
  /\ LET r == fill.rev
         begins == fill.path \in Adds(r)
     IN  /\ Now([fill EXCEPT
              !.phase = "log",
              !.firstNA = Larger(r - 1, 0),
              !.oldest = IF fill.following /\ r < @ THEN r ELSE @,
              !.following = @ /\ ~begins,
              !.base = IF Adds(r) # {} THEN Base(cache, fill.path) ELSE @])
         /\ query' = IF fill.following /\ fill.sends
                       THEN [query EXCEPT !.sent = Append(@, r)] ELSE query
  /\ UNCHANGED <<changes, cache, offline, queries>>

\* FillLog returns: to the AutoAddSkipRange that called it, or to InternalLog
Return(c) ==
  IF Len(fills) > 1
    THEN /\ fills' = <<[fills[2] EXCEPT !.phase = "after"]>> \o SubSeq(fills, 3, Len(fills))
         /\ UNCHANGED query
    ELSE /\ fills' = <<>>
         /\ LET low == IF fill.oldest < fill.firstNA + 1 THEN fill.oldest
                       ELSE fill.firstNA + 1
            IN  query' = [query EXCEPT !.lastReported = low,
                                       !.it = Retry(c, query.path, @)]

\* fault: also when the server has stopped at the limit
LogEnds_Limit ==
  /\ Filling("log") /\ fill.todo = <<>>
  /\ cache' = Merged(cache, fill)
  /\ IF ~offline
       THEN /\ Now([fill EXCEPT !.update = {}, !.final = TRUE, !.phase = "gap",
                                !.rev = Larger(fill.end, 1) - 1])
            /\ UNCHANGED query
       ELSE Return(cache')
  /\ UNCHANGED <<changes, offline, queries>>

\* svnQuery->Log is over
LogEnds ==
  /\ Filling("log") /\ fill.todo = <<>>
  /\ cache' = Merged(cache, fill)
  /\ LET limitReached == fill.limit > 0 /\ fill.count >= fill.limit
     IN  IF ~offline /\ (fill.count = 0 \/ ~limitReached)
           THEN /\ Now([fill EXCEPT !.update = {}, !.final = TRUE, !.phase = "gap",
                                    !.rev = Larger(fill.end, 1) - 1])
                /\ UNCHANGED query
           ELSE Return(cache')
  /\ UNCHANGED <<changes, offline, queries>>

FillEnds ==
  /\ Filling("after") /\ fill.final
  /\ Return(cache)
  /\ UNCHANGED <<changes, cache, offline, queries>>

\* The connection breaks, and the user chooses to work off-line.
GoOffline ==
  /\ Filling("log")
  /\ offline' = TRUE
  /\ cache' = Merged(cache, fill)
  /\ Return(cache')
  /\ UNCHANGED <<changes, queries>>

\* Any other error, or the user cancels: all the fillers are left, and each
\* of them merges what it has.
Fail ==
  /\ Filling("log")
  /\ LET merged[k \in 0 .. Len(fills)] ==
           IF k = 0 THEN cache ELSE Merged(merged[k - 1], fills[k])
     IN  cache' = merged[Len(fills)]
  /\ fills' = <<>>
  /\ query' = [query EXCEPT !.state = "failed"]
  /\ UNCHANGED <<changes, offline, queries>>

Step == \/ Report \/ Finish \/ NothingBelow \/ RefusesRefetch \/ SkipUnknown \/ Fetch
        \/ Receive \/ NoGap \/ MarkGap \/ FillGap \/ HandOn \/ LogEnds \/ FillEnds

Next ==
  \/ \E q \in Asked : Log(q)
  \/ Step \/ GoOffline \/ Fail \/ ResetOffline

\* The thread of a query goes on, and the server answers or fails: weak fairness
\* of Step, which is enabled as long as the query runs, written out.
Fairness == []<>~Running \/ []<><<Running>>_<<query, fills>>

Spec == Init /\ [][Next]_vars /\ Fairness

-----------------------------------------------------------------------------
(* Properties *)

\* SkipSound: a revision within a skip range of a path does not change the path,
\* whatever order queries, failures and breaks of the connection come in (the
\* comment on CSkipRevisionInfo: ranges "that definitely contain no log information
\* for the respective path").  Otherwise the log would silently lack it for ever.
SkipSound ==
  \A p \in Path : \A r \in Covered(cache.ranges[p]) : ~Touches(p, r)

\* NoRefetch: the assertion of InternalLog, "we must not fetch revisions twice
\* (this may cause an indefinite loop)".
NoRefetch == query.state = "refused" => query.it = 0 /\ query.lastReported = 0

\* RefusedByOverlap: a query that gives up because it would have to fetch a
\* revision again (the early return behind that assertion) does so only when the
\* skip ranges of some path overlap; all else that fillers write makes the next
\* missing revision lie below what has been fetched.
RefusedByOverlap == query.state = "refused" => \E p \in Path : ~Apart(cache.ranges[p])

\* Faithful: while the server answers, the receiver of a query gets the server's
\* log, in its order, without a gap and without a repetition, and all of it by
\* the end; no matter what earlier queries have left in the cache, and which of
\* the entries InternalLog reports from the cache and which the filler reports.
\* A query for revision 0 alone is left out: Retry looks below 0, so that nothing
\* is reported.
Faithful ==
  LET whole == ServerLog(query.path, query.start, 0, query.limit)
      asked == ServerLog(query.path, query.start, query.end, query.limit)
  IN  ~offline /\ query.state # "none" /\ query.start > 0 =>
        /\ IsPrefix(query.sent, whole)
        /\ query.state = "done" => IsPrefix(asked, query.sent)

\* Descending: off-line, too, no revision is reported twice or out of order
\* (lastReported of InternalLog, once by the filler and once from the cache).
Descending == \A k \in 2 .. Len(query.sent) : query.sent[k] < query.sent[k - 1]

\* WithinRange: the end that FillLog computes lies "within the desired range".
WithinRange == \A k \in 1 .. Len(query.sent) : query.sent[k] >= query.end

\* QueryEnds: every query comes to its end: each round of InternalLog's loop moves
\* the iterator or fetches what makes it move.
QueryEnds == Running ~> ~Running

=============================================================================
