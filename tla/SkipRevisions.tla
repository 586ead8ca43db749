---------------------------- MODULE SkipRevisions ----------------------------
(***************************************************************************)
(* CSkipRevisionInfo: for every path the ranges of revisions that are      *)
(* known to say nothing about it.  A std::map from first revision to size  *)
(* is a function whose domain is the set of first revisions.               *)
(***************************************************************************)
EXTENDS Integers, FiniteSets

CONSTANTS
  Path, Root,   \* repository paths
  Parent,       \* [Path \ {Root} -> Path]
  MaxRev

ASSUME SkipAssumption ==
  /\ Root \in Path
  /\ MaxRev \in Nat
  /\ Parent \in [Path \ {Root} -> Path]
  \* paths are a tree below Root
  /\ IsFiniteSet(Path)
  /\ \E depth \in [Path -> 0 .. Cardinality(Path)] :
       \A p \in Path \ {Root} : depth[Parent[p]] < depth[p]

Rev == 0..MaxRev
NO_REVISION == -1
Position == NO_REVISION .. MaxRev + 2   \* of an iterator, beyond HEAD included

Covers(r, x) == \E s \in DOMAIN r : s <= x /\ x < s + r[s]
Covered(r) == {x \in Rev : Covers(r, x)}

Put(r, s, n) == [x \in DOMAIN r \cup {s} |-> IF x = s THEN n ELSE r[x]]
Drop(r, s) == [x \in DOMAIN r \ {s} |-> r[x]]

\* The entry in front of (behind) position s.
Before(r, s) == {x \in DOMAIN r : x < s}
After(r, s) == {x \in DOMAIN r : x > s}
Highest(S) == CHOOSE x \in S : \A y \in S : y <= x
Lowest(S) == CHOOSE x \in S : \A y \in S : x <= y
Larger(a, b) == IF a < b THEN b ELSE a

-----------------------------------------------------------------------------
(* SPerPathRanges *)

\* start - 1 of the last range that starts at or below x, if x is within it
FindPrevious(r, x) ==
  LET s == Highest(Before(r, x + 1))
  IN  IF Before(r, x + 1) # {} /\ x < s + r[s] THEN s - 1 ELSE NO_REVISION

\* insert the range, or enlarge the one that starts there
Emplace(r, s, n) == IF s \in DOMAIN r /\ r[s] >= n THEN r ELSE Put(r, s, n)

\* merge entry s, said to end at end, with the previous one
MergesBack(r, s) ==
  /\ Before(r, s) # {}
  /\ LET p == Highest(Before(r, s)) IN p + r[p] >= s

MergeBack(r, s, end) ==
  LET p == Highest(Before(r, s)) IN Put(Drop(r, s), p, Larger(end, p + r[p]) - p)

\* ... and with the next one, but with no further one
MergeNext(r, s, end) ==
  LET n == Lowest(After(r, s))
  IN  IF After(r, s) # {} /\ n <= end
        THEN Put(Drop(r, n), s, Larger(end, n + r[n]) - s)
        ELSE r

AddRange(r, s, n) ==
  LET in == Emplace(r, s, n)
      p == Highest(Before(in, s))
  IN  IF MergesBack(in, s)
        THEN MergeNext(MergeBack(in, s, s + n), p, Larger(s + n, p + in[p]))
        ELSE MergeNext(in, s, s + n)

-----------------------------------------------------------------------------
(* CSkipRevisionInfo; have is the set of revisions with data available *)

\* TryReduceRange, also used by CPacker: what is left of a range
Low(s, n, have) == Lowest({x \in s .. s + n : x \notin have \/ x = s + n})
High(s, n, have) ==
  Highest({x \in Low(s, n, have) .. s + n : x - 1 \notin have \/ x = Low(s, n, have)})

Add(r, s, n, have) ==
  LET low == Low(s, n, have)
      size == High(s, n, have) - low
  IN  IF size = 0 THEN r ELSE AddRange(r, low, size)

\* RemoveKnownRevisions: one pass over the map with an iterator.  An entry
\* whose start moves is entered anew, and the old entry stays.
RemoveKnown(r, have) ==
  LET sweep[x \in 0 .. MaxRev + 1] ==   \* before the entry that starts at x
        IF x = 0 THEN [map |-> r, iter |-> 0]
        ELSE LET done == sweep[x - 1]
                 m == done.map
                 low == Low(x - 1, m[x - 1], have)
                 size == High(x - 1, m[x - 1], have) - low
             IN  IF x - 1 \notin DOMAIN m \/ x - 1 < done.iter THEN done
                 ELSE IF size = 0 THEN [map |-> Drop(m, x - 1), iter |-> x]
                 ELSE IF low = x - 1 THEN [map |-> Put(m, low, size), iter |-> x]
                 ELSE [map |-> IF low \in DOMAIN m THEN m ELSE Put(m, low, size),
                       iter |-> low + 1]
  IN  sweep[MaxRev + 1].map

\* GetPreviousRevision: down through the ranges of the path and its parents
\* until none of them goes on.
GetPreviousRevision(ranges, path, rev) ==
  LET down[q \in Path \X Position] ==
        LET above == IF q[1] = Root THEN q[2] ELSE down[<<Parent[q[1]], q[2]>>]
            next == FindPrevious(ranges[q[1]], above)
        IN  IF next = NO_REVISION THEN above ELSE down[<<q[1], next>>]
  IN  IF rev = NO_REVISION \/ down[<<path, rev>>] = rev THEN NO_REVISION
      ELSE down[<<path, rev>>]

\* "Revision ranges must not overlap."
Apart(r) == \A s, t \in DOMAIN r : s < t => s + r[s] <= t

=============================================================================
