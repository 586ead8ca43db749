------------------------ MODULE SkipRevisions_proofs ------------------------
(***************************************************************************)
(* SPerPathRanges: what merging ranges keeps, what it needs for that, and  *)
(* what a lookup may claim.                                                *)
(***************************************************************************)
EXTENDS SkipRevisions, WellFoundedInduction, FiniteSetTheorems, TLAPS

\* std::map from the first revision of a range to its size.
Ranges == UNION {[S -> Nat \ {0}] : S \in SUBSET Nat}

\* No two ranges overlap or touch: what a map that merged them all looks like.
Separate(r) == \A s, t \in DOMAIN r : s < t => s + r[s] < t

Within(x, s, n) == s <= x /\ x < s + n

-----------------------------------------------------------------------------
(* The entries next to a position exist whenever there is any. *)

\* A set of integers that is bounded below has a lowest element, ...
LEMMA LowestExists ==
  ASSUME NEW S \in SUBSET Nat, S # {}
  PROVE  Lowest(S) \in S /\ \A y \in S : Lowest(S) <= y
<1>1. PICK x \in S : \A y \in S : ~ (<<y, x>> \in OpToRel(<, Nat))
  <2> HIDE DEF OpToRel
  <2> QED  BY NatLessThanWellFounded, WFMin
<1>2. \A y \in S : ~ (y < x)
  BY <1>1 DEF OpToRel
<1>3. \A y \in S : x <= y
  BY <1>2
<1> QED  BY <1>3 DEF Lowest

\* ... and one that is bounded above a highest one.
LEMMA HighestExists ==
  ASSUME NEW S \in SUBSET Int, S # {}, NEW b \in Int, \A y \in S : y <= b
  PROVE  Highest(S) \in S /\ \A y \in S : y <= Highest(S)
<1> DEFINE T == {b - x : x \in S}
<1>1. \A x \in S : x \in Int /\ b - x \in Nat
  OBVIOUS
<1>0. T \in SUBSET Nat /\ T # {}
  BY <1>1
<1>2. PICK t \in T : \A u \in T : t <= u
  <2> HIDE DEF T
  <2> QED  BY <1>0, LowestExists
<1>3. PICK x \in S : t = b - x
  BY <1>2
<1>4. ASSUME NEW y \in S  PROVE  y <= x
  <2>1. b - y \in T
    OBVIOUS
  <2>2. b - x <= b - y
    BY <1>2, <1>3, <2>1
  <2> QED  BY <1>1, <2>2
<1> QED  BY <1>4 DEF Highest

\* A map of ranges: its first revisions and their sizes.
LEMMA RangesType ==
  ASSUME NEW r \in Ranges
  PROVE  /\ DOMAIN r \subseteq Nat
         /\ \A s \in DOMAIN r : r[s] \in Nat /\ r[s] > 0
<1>1. PICK S \in SUBSET Nat : r \in [S -> Nat \ {0}]
  BY DEF Ranges
<1> QED  BY <1>1

\* The entry in front of a position.
LEMMA BeforeHighest ==
  ASSUME NEW r \in Ranges, NEW s \in Int, Before(r, s) # {}
  PROVE  /\ Highest(Before(r, s)) \in DOMAIN r
         /\ Highest(Before(r, s)) < s
         /\ \A y \in DOMAIN r : y < s => y <= Highest(Before(r, s))
<1>1. Before(r, s) \in SUBSET Int /\ \A y \in Before(r, s) : y <= s
  BY RangesType DEF Before
<1>2. /\ Highest(Before(r, s)) \in Before(r, s)
      /\ \A y \in Before(r, s) : y <= Highest(Before(r, s))
  BY <1>1, HighestExists
<1> QED  BY <1>2 DEF Before

\* The entry behind a position.
LEMMA AfterLowest ==
  ASSUME NEW r \in Ranges, NEW s \in Int, After(r, s) # {}
  PROVE  /\ Lowest(After(r, s)) \in DOMAIN r
         /\ Lowest(After(r, s)) > s
         /\ \A y \in DOMAIN r : y > s => Lowest(After(r, s)) <= y
<1>1. After(r, s) \in SUBSET Nat
  BY RangesType DEF After
<1>2. /\ Lowest(After(r, s)) \in After(r, s)
      /\ \A y \in After(r, s) : Lowest(After(r, s)) <= y
  BY <1>1, LowestExists
<1> QED  BY <1>2 DEF After

-----------------------------------------------------------------------------
(* Recursive functions: that there is one, and what all its values have in
   common.  Whatever is smaller has the smaller measure m. *)

\* What holds at x whenever it holds at all that is smaller, holds everywhere.
LEMMA FromBelow ==
  ASSUME NEW D, NEW m \in [D -> Nat], NEW T,
         \A x \in D : (\A y \in D : m[y] < m[x] => y \in T) => x \in T
  PROVE  \A x \in D : x \in T
<1> DEFINE S == {m[x] : x \in {y \in D : y \notin T}}
<1> SUFFICES ASSUME NEW x \in D, x \notin T  PROVE FALSE
  OBVIOUS
<1>1. S \in SUBSET Nat /\ S # {}
  OBVIOUS
<1>2. PICK n \in S : \A k \in S : n <= k
  <2> HIDE DEF S
  <2> QED  BY <1>1, LowestExists
<1>3. PICK z \in D : z \notin T /\ m[z] = n
  BY <1>2
<1>4. PICK y \in D : m[y] < m[z] /\ y \notin T
  BY <1>3
<1>5. m[y] \in S
  BY <1>4
<1>6. m[z] <= m[y]
  BY <1>2, <1>3, <1>5
<1>7. m[y] \in Nat /\ m[z] \in Nat
  OBVIOUS
<1> QED  BY <1>4, <1>6, <1>7

\* body takes x and the function itself, and looks at what is smaller only.
Recursion(D, V, M, m, body) ==
  /\ M \in Nat /\ m \in [D -> 0 .. M]
  /\ body \in [D \X [D -> V] -> V]
  /\ \A x \in D : \A g, h \in [D -> V] :
       (\A y \in D : m[y] < m[x] => g[y] = h[y]) => body[<<x, g>>] = body[<<x, h>>]

Solves(g, D, V, body) == g \in [D -> V] /\ \A x \in D : g[x] = body[<<x, g>>]

\* A function that is defined by recursion along a well-founded relation exists.
LEMMA RecursionExists ==
  ASSUME NEW D, NEW V, NEW v \in V, NEW M, NEW m, NEW body, Recursion(D, V, M, m, body)
  PROVE  \E g : Solves(g, D, V, body)
<1> SUFFICES \E g \in [D -> V] : \A x \in D : g[x] = body[<<x, g>>]
  BY DEF Solves
<1> USE DEF Recursion
<1> DEFINE Good(n, g) == \A x \in D : m[x] < n => g[x] = body[<<x, g>>]
           T == {n \in 0 .. M + 1 : ~ \E g \in [D -> V] : Good(n, g)}
<1>1. ASSUME T # {}  PROVE FALSE
  <2>1. T \in SUBSET Nat
    OBVIOUS
  <2>2. PICK n \in T : \A k \in T : n <= k
    <3> HIDE DEF T
    <3> QED  BY <1>1, <2>1, LowestExists
  <2>3. n \in 0 .. M + 1 /\ ~ \E g \in [D -> V] : Good(n, g)
    OBVIOUS
  <2>4. n # 0
    <3>1. [x \in D |-> v] \in [D -> V]
      OBVIOUS
    <3>2. ASSUME NEW g \in [D -> V]  PROVE Good(0, g)
      OBVIOUS
    <3> QED  BY <3>1, <3>2, <2>3
  <2>5. n - 1 \in 0 .. M + 1 /\ n - 1 \notin T
    <3>1. n - 1 \in 0 .. M + 1 /\ ~ (n <= n - 1)
      BY <2>3, <2>4
    <3> HIDE DEF T
    <3> QED  BY <2>2, <3>1
  <2>6. PICK g \in [D -> V] : Good(n - 1, g)
    BY <2>5
  <2>7. PICK h : h = [x \in D |-> IF m[x] = n - 1 THEN body[<<x, g>>] ELSE g[x]]
    OBVIOUS
  <2>8. h \in [D -> V]
    BY <2>7
  <2>9. ASSUME NEW x \in D, m[x] < n  PROVE h[x] = body[<<x, h>>]
    <3>1. m[x] \in Nat /\ m[x] <= n - 1 /\ n \in Nat
      BY <2>3, <2>9
    <3>2. \A y \in D : m[y] < m[x] => h[y] = g[y]
      BY <2>7, <3>1
    <3>3. body[<<x, h>>] = body[<<x, g>>]
      BY <2>8, <3>2
    <3>4. h[x] = body[<<x, g>>]
      <4>1. CASE m[x] = n - 1
        BY <2>7, <4>1
      <4>2. CASE m[x] < n - 1
        BY <2>6, <2>7, <4>2
      <4> QED  BY <3>1, <4>1, <4>2, <2>3
    <3> QED  BY <3>3, <3>4
  <2> QED  BY <2>3, <2>8, <2>9
<1>2. M + 1 \notin T /\ M + 1 \in 0 .. M + 1
  <2> HIDE DEF T
  <2> QED  BY <1>1
<1>3. PICK g \in [D -> V] : Good(M + 1, g)
  BY <1>2
<1>4. \A x \in D : m[x] < M + 1
  OBVIOUS
<1> QED  BY <1>3, <1>4
\* A loop that goes from x to next[x] until it stops, and then returns val[x].
Loops(f, D, stop, val, next) ==
  f = [x \in D |-> IF x \in stop THEN val[x] ELSE f[next[x]]]

Descends(D, M, m, stop, next) ==
  /\ M \in Nat /\ m \in [D -> 0 .. M]
  /\ \A x \in D : x \notin stop => next[x] \in D /\ m[next[x]] < m[x]

\* ... so does one that stands for a loop with a measure that decreases.
LEMMA LoopExists ==
  ASSUME NEW D, NEW M, NEW m, NEW stop, NEW val, NEW next, Descends(D, M, m, stop, next)
  PROVE  \E f : Loops(f, D, stop, val, next)
<1> DEFINE V == {val[x] : x \in D} \cup {0}
           body == [z \in D \X [D -> V] |->
                      IF z[1] \in stop THEN val[z[1]]
                      ELSE IF next[z[1]] \in D THEN z[2][next[z[1]]] ELSE 0]
<1>1. ASSUME NEW x \in D, NEW g \in [D -> V]
      PROVE  /\ body[<<x, g>>] \in V
             /\ x \in stop => body[<<x, g>>] = val[x]
             /\ x \notin stop => body[<<x, g>>] = g[next[x]]
  BY DEF Descends
<1>2. body \in [D \X [D -> V] -> V]
  OBVIOUS
<1>3. ASSUME NEW x \in D, NEW g \in [D -> V], NEW h \in [D -> V],
             \A y \in D : m[y] < m[x] => g[y] = h[y]
      PROVE  body[<<x, g>>] = body[<<x, h>>]
  <2>1. x \notin stop => g[next[x]] = h[next[x]]
    BY <1>3 DEF Descends
  <2> HIDE DEF body, V
  <2> QED  BY <1>1, <2>1
<1>4. Recursion(D, V, M, m, body)
  <2> HIDE DEF body, V
  <2> QED  BY <1>2, <1>3 DEF Recursion, Descends
<1>5. PICK g : Solves(g, D, V, body)
  <2>1. 0 \in V
    OBVIOUS
  <2> HIDE DEF body, V
  <2> QED  BY <1>4, <2>1, RecursionExists
<1>6. g = [x \in D |-> IF x \in stop THEN val[x] ELSE g[next[x]]]
  <2> HIDE DEF body, V
  <2> QED  BY <1>1, <1>5 DEF Solves
<1> QED  BY <1>6 DEF Loops

\* What relates the last x to its value, and x to a value whenever it relates
\* next[x] to it, relates every x to its value.
LEMMA LoopRelates ==
  ASSUME NEW D, NEW M, NEW m, NEW stop, NEW val, NEW next, Descends(D, M, m, stop, next),
         NEW f, Loops(f, D, stop, val, next), NEW Rel,
         \A x \in D : x \in stop => <<x, val[x]>> \in Rel,
         \A x \in D : x \notin stop /\ <<next[x], f[next[x]]>> \in Rel => <<x, f[next[x]]>> \in Rel
  PROVE  \A x \in D : <<x, f[x]>> \in Rel
<1> DEFINE T == {x \in D : <<x, f[x]>> \in Rel}
<1>1. ASSUME NEW x \in D, \A y \in D : m[y] < m[x] => y \in T
      PROVE  x \in T
  <2>1. CASE x \in stop
    <3>1. f[x] = val[x]
      BY <2>1 DEF Loops
    <3> QED  BY <2>1, <3>1
  <2>2. CASE x \notin stop
    <3>1. f[x] = f[next[x]]
      BY <2>2 DEF Loops
    <3>2. next[x] \in T
      BY <1>1, <2>2 DEF Descends
    <3> QED  BY <2>2, <3>1, <3>2
  <2> QED  BY <2>1, <2>2
<1>2. \A x \in D : x \in T
  <2>1. m \in [D -> Nat]
    BY DEF Descends
  <2> HIDE DEF T
  <2> QED  BY <1>1, <2>1, FromBelow
<1> QED  BY <1>2

-----------------------------------------------------------------------------
(* Lookups *)

\* FindPrevious never skips a revision that no range says to skip: whoever
\* goes from x to the result leaves only covered revisions behind.
THEOREM FindPreviousSound ==
  ASSUME NEW r \in Ranges, NEW x \in Int, FindPrevious(r, x) # NO_REVISION
  PROVE  /\ FindPrevious(r, x) \in Nat /\ FindPrevious(r, x) < x
         /\ \A y \in FindPrevious(r, x) + 1 .. x : Covers(r, y)
<1> DEFINE s == Highest(Before(r, x + 1))
<1>1. Before(r, x + 1) # {} /\ x < s + r[s] /\ FindPrevious(r, x) = s - 1
  BY DEF FindPrevious
<1>2. s \in DOMAIN r /\ s < x + 1
  BY <1>1, BeforeHighest
<1>3. s \in Nat /\ r[s] \in Nat
  BY <1>2, RangesType
<1> HIDE DEF s
<1> QED  BY <1>1, <1>2, <1>3 DEF Covers, NO_REVISION

\* ... and finds a range whenever there is one, if ranges do not overlap, as
\* the header demands ("Revision ranges must not overlap.").  No range
\* begins with revision 0.
THEOREM FindPreviousExact ==
  ASSUME NEW r \in Ranges, NEW x \in Nat, Apart(r), 0 \notin DOMAIN r
  PROVE  FindPrevious(r, x) # NO_REVISION <=> Covers(r, x)
<1> DEFINE s == Highest(Before(r, x + 1))
<1>1. ASSUME NEW t \in DOMAIN r, Within(x, t, r[t])
      PROVE  FindPrevious(r, x) # NO_REVISION
  <2>1. t \in Before(r, x + 1)
    BY <1>1, RangesType DEF Within, Before
  <2>2. s \in DOMAIN r /\ s < x + 1 /\ t <= s
    BY <2>1, BeforeHighest DEF Before
  <2>3. s \in Nat /\ t \in Nat /\ r[s] \in Nat /\ r[t] \in Nat /\ s # 0
    BY <2>2, RangesType
  <2> HIDE DEF s
  <2>4. ~ (t < s)
    BY <1>1, <2>2, <2>3 DEF Apart, Within
  <2>5. t = s
    BY <2>2, <2>3, <2>4
  <2>6. FindPrevious(r, x) = s - 1
    BY <1>1, <2>1, <2>5 DEF FindPrevious, Within, s
  <2> QED  BY <2>3, <2>6 DEF NO_REVISION
<1>2. ASSUME FindPrevious(r, x) # NO_REVISION
      PROVE  Covers(r, x)
  <2>1. /\ FindPrevious(r, x) < x
        /\ \A y \in FindPrevious(r, x) + 1 .. x : Covers(r, y)
    BY <1>2, FindPreviousSound
  <2>2. FindPrevious(r, x) \in Int
    <3>1. s \in DOMAIN r /\ FindPrevious(r, x) = s - 1
      BY <1>2, BeforeHighest DEF FindPrevious
    <3> HIDE DEF s
    <3> QED  BY <3>1, RangesType
  <2>3. x \in FindPrevious(r, x) + 1 .. x
    BY <2>1, <2>2
  <2> QED  BY <2>1, <2>3
<1> QED  BY <1>1, <1>2 DEF Covers, Within

-----------------------------------------------------------------------------
(* Changes of single entries.  Post-conditions have names of their own: the
   provers match those better than their parts. *)

\* m is r with [s, s + n) added to the entry at s.
Emplaced(m, r, s, n) ==
  /\ DOMAIN m = DOMAIN r \cup {s}
  /\ m[s] >= n
  /\ m[s] = n \/ (s \in DOMAIN r /\ m[s] = r[s])
  /\ \A t \in DOMAIN r \ {s} : m[t] = r[t]

\* m is r with entry b swallowed by entry a, which now ends at end.
Swallowed(m, r, a, b, end) ==
  /\ a \in DOMAIN m
  /\ a + m[a] = end
  /\ DOMAIN m = DOMAIN r \ {b}
  /\ \A t \in DOMAIN m \ {a} : m[t] = r[t]

\* m covers nothing r does not; m covers all r does.
NoMore(m, r) == \A x \in Int : Covers(m, x) => Covers(r, x)
NoLess(m, r) == \A x \in Int : Covers(r, x) => Covers(m, x)

\* m covers of r what is not known.
Keeps(m, r, have) == \A x \in Int : x \notin have /\ Covers(r, x) => Covers(m, x)

\* Emplace puts one entry, at least as long as asked for.
LEMMA EmplaceEntry ==
  ASSUME NEW r \in Ranges, NEW s \in Nat, NEW n \in Nat \ {0},
         NEW m, m = Emplace(r, s, n)
  PROVE  m \in Ranges /\ Emplaced(m, r, s, n)
<1>0. s \in Nat /\ \A t \in DOMAIN r : t \in Nat /\ r[t] \in Nat
  BY RangesType
<1>1. CASE s \in DOMAIN r /\ r[s] >= n
  <2>1. m = r
    BY <1>1 DEF Emplace
  <2>2. DOMAIN m = DOMAIN r \cup {s}
    BY <1>1, <2>1
  <2> QED  BY <1>1, <2>1, <2>2 DEF Emplaced
<1>2. CASE ~ (s \in DOMAIN r /\ r[s] >= n)
  <2>1. m = [x \in DOMAIN r \cup {s} |-> IF x = s THEN n ELSE r[x]]
    BY <1>2 DEF Emplace, Put
  <2>2. DOMAIN m = DOMAIN r \cup {s}
    BY <2>1
  <2>3. m[s] = n
    BY <2>1
  <2>4. \A t \in DOMAIN r \ {s} : m[t] = r[t]
    BY <2>1
  <2>5. m \in [DOMAIN r \cup {s} -> Nat \ {0}]
    BY <2>1, RangesType
  <2>6. DOMAIN r \cup {s} \in SUBSET Nat
    BY RangesType
  <2>7. m \in Ranges
    BY <2>5, <2>6 DEF Ranges
  <2>8. Emplaced(m, r, s, n)
    BY <2>2, <2>3, <2>4 DEF Emplaced
  <2> QED  BY <2>7, <2>8
<1> QED  BY <1>1, <1>2

\* Emplacing never shortens anything, nor lengthens more than asked for.
LEMMA EmplaceExact ==
  ASSUME NEW r \in Ranges, NEW s \in Nat, NEW n \in Nat \ {0},
         NEW m, m = Emplace(r, s, n), NEW x \in Int
  PROVE  Covers(m, x) <=> Covers(r, x) \/ Within(x, s, n)
<1>1. m \in Ranges /\ Emplaced(m, r, s, n)
  BY EmplaceEntry
<1>2. s \in Nat /\ s \in DOMAIN m /\ m[s] \in Nat
  BY <1>1, RangesType DEF Emplaced
<1>3. ASSUME NEW t \in DOMAIN m, t <= x, x < t + m[t]
      PROVE  Covers(r, x) \/ Within(x, s, n)
  BY <1>1, <1>3 DEF Emplaced, Covers, Within
<1>4. ASSUME NEW t \in DOMAIN r, t <= x, x < t + r[t]
      PROVE  Covers(m, x)
  <2>1. t \in Nat /\ r[t] \in Nat
    BY RangesType
  <2>2. t \in DOMAIN m /\ m[t] \in Nat
    BY <1>1, RangesType DEF Emplaced
  <2>3. CASE t = s
    <3>1. m[s] >= r[s]
      <4>1. CASE r[s] >= n
        BY <1>1, <1>2, <2>1, <2>3, <4>1 DEF Emplaced, Emplace
      <4>2. CASE ~ (r[s] >= n)
        BY <1>1, <1>2, <2>1, <2>3, <4>2 DEF Emplaced
      <4> QED  BY <4>1, <4>2
    <3> QED  BY <1>2, <1>4, <2>1, <2>3, <3>1 DEF Covers
  <2>4. CASE t # s
    BY <1>1, <1>4, <2>2, <2>4 DEF Emplaced, Covers
  <2> QED  BY <2>3, <2>4
<1>5. ASSUME Within(x, s, n)  PROVE  Covers(m, x)
  BY <1>1, <1>2, <1>5 DEF Emplaced, Covers, Within
<1> QED  BY <1>3, <1>4, <1>5 DEF Covers

\* An entry is merged into the one in front of it.
LEMMA SwallowEntry ==
  ASSUME NEW r \in Ranges, NEW a \in DOMAIN r, NEW b \in DOMAIN r, a < b,
         NEW end \in Int, a < end,
         NEW m, m = Put(Drop(r, b), a, end - a)
  PROVE  m \in Ranges /\ Swallowed(m, r, a, b, end)
<1>1. a \in Nat /\ b \in Nat /\ end - a \in Nat \ {0}
  BY RangesType
<1>2. m = [x \in DOMAIN r \ {b} |-> IF x = a THEN end - a ELSE r[x]]
  <2>1. (DOMAIN r \ {b}) \cup {a} = DOMAIN r \ {b}
    BY <1>1
  <2> QED  BY <1>1, <2>1 DEF Put, Drop
<1>3. DOMAIN m = DOMAIN r \ {b}
  BY <1>2
<1>4. a \in DOMAIN m /\ a + m[a] = end
  BY <1>1, <1>2
<1>5. \A t \in DOMAIN m \ {a} : m[t] = r[t]
  BY <1>2
<1>6. m \in Ranges
  <2>1. m \in [DOMAIN r \ {b} -> Nat \ {0}]
    BY <1>1, <1>2, RangesType
  <2>2. DOMAIN r \ {b} \in SUBSET Nat
    BY RangesType
  <2> QED  BY <2>1, <2>2 DEF Ranges
<1>7. Swallowed(m, r, a, b, end)
  BY <1>3, <1>4, <1>5 DEF Swallowed
<1> QED  BY <1>6, <1>7

-----------------------------------------------------------------------------
(* Merging *)

\* The merged entry says to skip nothing new ...
LEMMA SwallowSound ==
  ASSUME NEW r \in Ranges, NEW a \in DOMAIN r, NEW b \in DOMAIN r, a < b,
         NEW end \in Int, a < end, b <= a + r[a],
         end <= a + r[a] \/ end <= b + r[b],
         NEW m, Swallowed(m, r, a, b, end)
  PROVE  NoMore(m, r)
<1> SUFFICES ASSUME NEW x \in Int, Covers(m, x)
             PROVE  Covers(r, x)
  BY DEF NoMore
<1>1. /\ a \in Nat /\ b \in Nat /\ r[a] \in Nat /\ r[b] \in Nat
  BY RangesType
<1>2. PICK t \in DOMAIN m : t <= x /\ x < t + m[t]
  BY DEF Covers
<1>3. CASE t = a
  <2>1. a <= x /\ x < end
    BY <1>2, <1>3 DEF Swallowed
  <2> QED  BY <1>1, <2>1 DEF Covers
<1>4. CASE t # a
  BY <1>2, <1>4 DEF Swallowed, Covers
<1> QED  BY <1>3, <1>4

\* ... and nothing less, if its end is not before that of either.
LEMMA SwallowComplete ==
  ASSUME NEW r \in Ranges, NEW a \in DOMAIN r, NEW b \in DOMAIN r, a < b,
         NEW end \in Int, a < end,
         end >= a + r[a], end >= b + r[b],
         NEW m, Swallowed(m, r, a, b, end)
  PROVE  NoLess(m, r)
<1> SUFFICES ASSUME NEW x \in Int, Covers(r, x)
             PROVE  Covers(m, x)
  BY DEF NoLess
<1>1. /\ a \in Nat /\ b \in Nat /\ r[a] \in Nat /\ r[b] \in Nat
  BY RangesType
<1>2. PICK t \in DOMAIN r : t <= x /\ x < t + r[t]
  BY DEF Covers
<1>3. CASE t = a \/ t = b
  <2>1. a <= x /\ x < end
    BY <1>1, <1>2, <1>3
  <2> QED  BY <2>1 DEF Covers, Swallowed
<1>4. CASE t # a /\ t # b
  BY <1>2, <1>4 DEF Covers, Swallowed
<1> QED  BY <1>3, <1>4

\* Entry s is merged with the entry p in front of it ...
LEMMA MergeBackEntry ==
  ASSUME NEW r \in Ranges, NEW s \in DOMAIN r, NEW end \in Int,
         s < end, end <= s + r[s], MergesBack(r, s),
         NEW p, p = Highest(Before(r, s)),
         NEW m, m = MergeBack(r, s, end)
  PROVE  /\ m \in Ranges
         /\ Swallowed(m, r, p, s, Larger(end, p + r[p]))
         /\ NoMore(m, r)
         /\ end = s + r[s] => NoLess(m, r)
<1>1. s \in Nat /\ r[s] \in Nat
  BY RangesType
<1>2. p \in DOMAIN r /\ p < s /\ p + r[p] >= s
  BY <1>1, BeforeHighest DEF MergesBack
<1>3. p \in Nat /\ r[p] \in Nat
  BY <1>2, RangesType
<1>4. PICK e \in Int : e = Larger(end, p + r[p])
  BY <1>3 DEF Larger
<1>5. /\ p < e /\ e >= p + r[p] /\ e >= end
      /\ e <= p + r[p] \/ e <= s + r[s]
  BY <1>1, <1>2, <1>3, <1>4 DEF Larger
<1>6. m = Put(Drop(r, s), p, e - p)
  BY <1>4 DEF MergeBack
<1>7. m \in Ranges /\ Swallowed(m, r, p, s, e)
  BY <1>2, <1>5, <1>6, SwallowEntry
<1>8. NoMore(m, r)
  BY <1>2, <1>5, <1>7, SwallowSound
<1>9. ASSUME end = s + r[s]  PROVE  NoLess(m, r)
  BY <1>2, <1>5, <1>7, <1>9, SwallowComplete
<1> QED  BY <1>4, <1>7, <1>8, <1>9

\* ... and with the one behind it.
LEMMA MergeNextEntry ==
  ASSUME NEW r \in Ranges, NEW s \in DOMAIN r, NEW end \in Int,
         s < end, end <= s + r[s],
         NEW m, m = MergeNext(r, s, end)
  PROVE  /\ m \in Ranges
         /\ NoMore(m, r)
         /\ end = s + r[s] => NoLess(m, r)
<1>1. s \in Nat /\ r[s] \in Nat
  BY RangesType
<1>2. PICK n : n = Lowest(After(r, s))
  OBVIOUS
<1>3. CASE After(r, s) # {} /\ n <= end
  <2>1. n \in DOMAIN r /\ n > s
    BY <1>1, <1>2, <1>3, AfterLowest
  <2>2. n \in Nat /\ r[n] \in Nat
    BY <2>1, RangesType
  <2>3. PICK e \in Int : e = Larger(end, n + r[n])
    BY <2>2 DEF Larger
  <2>4. m = Put(Drop(r, n), s, e - s)
    BY <1>2, <1>3, <2>3 DEF MergeNext
  <2>5. /\ s < e /\ e >= n + r[n] /\ e >= end
        /\ e <= s + r[s] \/ e <= n + r[n]
        /\ s < n /\ n <= s + r[s]
    BY <1>1, <1>3, <2>1, <2>2, <2>3 DEF Larger
  <2>6. m \in Ranges /\ Swallowed(m, r, s, n, e)
    BY <2>1, <2>4, <2>5, SwallowEntry
  <2>7. NoMore(m, r)
    BY <2>1, <2>5, <2>6, SwallowSound
  <2>8. ASSUME end = s + r[s]  PROVE  NoLess(m, r)
    BY <2>1, <2>5, <2>6, <2>8, SwallowComplete
  <2> QED  BY <2>6, <2>7, <2>8
<1>4. CASE ~ (After(r, s) # {} /\ n <= end)
  <2>1. m = r
    BY <1>2, <1>4 DEF MergeNext
  <2> QED  BY <2>1 DEF NoMore, NoLess
<1> QED  BY <1>3, <1>4

-----------------------------------------------------------------------------
(* SPerPathRanges::Add *)

\* Both merges after the range has been emplaced.  Nothing gets lost if the
\* entry at s is as long as the new range, or if nothing is merged.
LEMMA Merges ==
  ASSUME NEW in \in Ranges, NEW s \in DOMAIN in, NEW e \in Int,
         s < e, e <= s + in[s],
         NEW p, p = Highest(Before(in, s)),
         NEW m, m = IF MergesBack(in, s)
                      THEN MergeNext(MergeBack(in, s, e), p, Larger(e, p + in[p]))
                      ELSE MergeNext(in, s, e)
  PROVE  /\ m \in Ranges
         /\ NoMore(m, in)
         /\ e = s + in[s] => NoLess(m, in)
<1>1. s \in Nat /\ in[s] \in Nat
  BY RangesType
<1>2. CASE MergesBack(in, s)
  <2>1. PICK b : b = MergeBack(in, s, e)
    OBVIOUS
  <2>2. PICK f : f = Larger(e, p + in[p])
    OBVIOUS
  <2>3. /\ b \in Ranges
        /\ Swallowed(b, in, p, s, f)
        /\ NoMore(b, in)
        /\ e = s + in[s] => NoLess(b, in)
    BY <1>2, <2>1, <2>2, MergeBackEntry
  <2>4. p \in DOMAIN b /\ p + b[p] = f
    BY <2>3 DEF Swallowed
  <2>5. p \in Nat /\ b[p] \in Nat /\ b[p] > 0
    BY <2>3, <2>4, RangesType
  <2>6. f \in Int /\ p < f /\ f <= p + b[p]
    BY <2>4, <2>5
  <2>7. m = MergeNext(b, p, f)
    BY <1>2, <2>1, <2>2
  <2>8. /\ m \in Ranges
        /\ NoMore(m, b)
        /\ NoLess(m, b)
    BY <2>3, <2>4, <2>6, <2>7, MergeNextEntry
  <2> QED  BY <2>3, <2>8 DEF NoMore, NoLess
<1>3. CASE ~ MergesBack(in, s)
  <2>1. m = MergeNext(in, s, e)
    BY <1>3
  <2> QED  BY <2>1, MergeNextEntry
<1> QED  BY <1>2, <1>3

\* Whatever ranges there are, overlapping ones included: adding one never
\* says to skip a revision that neither they nor the new one cover.
THEOREM AddRangeSound ==
  ASSUME NEW r \in Ranges, NEW s \in Nat, NEW n \in Nat \ {0},
         NEW m, m = AddRange(r, s, n)
  PROVE  /\ m \in Ranges
         /\ \A x \in Int : Covers(m, x) => Covers(r, x) \/ Within(x, s, n)
<1>1. PICK in : in = Emplace(r, s, n)
  OBVIOUS
<1>2. PICK p : p = Highest(Before(in, s))
  OBVIOUS
<1>3. in \in Ranges /\ Emplaced(in, r, s, n)
  BY <1>1, EmplaceEntry
<1>4. s \in DOMAIN in /\ s \in Nat /\ in[s] \in Nat /\ in[s] >= n
  BY <1>3, RangesType DEF Emplaced
<1>5. PICK e \in Int : e = s + n
  BY <1>4
<1>6. s < e /\ e <= s + in[s]
  BY <1>4, <1>5
<1>7. m = IF MergesBack(in, s)
            THEN MergeNext(MergeBack(in, s, e), p, Larger(e, p + in[p]))
            ELSE MergeNext(in, s, e)
  BY <1>1, <1>2, <1>5 DEF AddRange
<1>8. m \in Ranges /\ NoMore(m, in)
  BY <1>2, <1>3, <1>4, <1>6, <1>7, Merges
<1>9. \A x \in Int : Covers(in, x) <=> Covers(r, x) \/ Within(x, s, n)
  BY <1>1, EmplaceExact
<1> QED  BY <1>8, <1>9 DEF NoMore

\* Ranges that neither overlap nor touch: then nothing is forgotten either.
\* That the result is Separate again is not true: the new range is merged with
\* one following range only ("Revision ranges must not overlap." demands it).
THEOREM AddRangeComplete ==
  ASSUME NEW r \in Ranges, NEW s \in Nat, NEW n \in Nat \ {0}, Separate(r),
         NEW m, m = AddRange(r, s, n)
  PROVE  \A x \in Int : Covers(r, x) \/ Within(x, s, n) => Covers(m, x)
<1>1. PICK in : in = Emplace(r, s, n)
  OBVIOUS
<1>2. PICK p : p = Highest(Before(in, s))
  OBVIOUS
<1>3. in \in Ranges /\ Emplaced(in, r, s, n)
  BY <1>1, EmplaceEntry
<1>4. s \in DOMAIN in /\ s \in Nat /\ in[s] \in Nat /\ in[s] >= n
  BY <1>3, RangesType DEF Emplaced
<1>5. PICK e \in Int : e = s + n
  BY <1>4
<1>6. s < e /\ e <= s + in[s]
  BY <1>4, <1>5
<1>7. m = IF MergesBack(in, s)
            THEN MergeNext(MergeBack(in, s, e), p, Larger(e, p + in[p]))
            ELSE MergeNext(in, s, e)
  BY <1>1, <1>2, <1>5 DEF AddRange
<1>8. NoLess(m, in)
  <2>1. CASE in[s] = n
    BY <1>2, <1>3, <1>4, <1>5, <1>6, <1>7, <2>1, Merges
  <2>2. CASE in[s] # n
    <3>1. s \in DOMAIN r /\ DOMAIN in = DOMAIN r
      BY <1>3, <2>2 DEF Emplaced
    <3>2. \A t \in DOMAIN r : in[t] = r[t]
      BY <1>3, <2>2, <3>1 DEF Emplaced
    <3>3. ~ MergesBack(in, s)
      <4>1. SUFFICES ASSUME MergesBack(in, s)  PROVE  FALSE
        OBVIOUS
      <4>2. p \in DOMAIN in /\ p < s /\ p + in[p] >= s
        BY <1>2, <1>3, <1>4, <4>1, BeforeHighest DEF MergesBack
      <4>3. p \in Nat /\ in[p] \in Nat
        BY <1>3, <4>2, RangesType
      <4> QED  BY <1>4, <3>1, <3>2, <4>2, <4>3 DEF Separate
    <3>4. MergeNext(in, s, e) = in
      <4>1. PICK k : k = Lowest(After(in, s))
        OBVIOUS
      <4>2. ASSUME After(in, s) # {}  PROVE  ~ (k <= e)
        <5>1. k \in DOMAIN in /\ k > s
          BY <1>3, <1>4, <4>1, <4>2, AfterLowest
        <5>2. k \in Nat
          BY <1>3, <5>1, RangesType
        <5>3. s + in[s] < k
          BY <3>1, <3>2, <5>1, <5>2 DEF Separate
        <5> QED  BY <1>4, <1>6, <5>2, <5>3
      <4> QED  BY <4>1, <4>2 DEF MergeNext
    <3> QED  BY <1>7, <3>3, <3>4 DEF NoLess
  <2> QED  BY <2>1, <2>2
<1>9. \A x \in Int : Covers(in, x) <=> Covers(r, x) \/ Within(x, s, n)
  BY <1>1, EmplaceExact
<1> QED  BY <1>8, <1>9 DEF NoLess

\* In general, the new range is covered, and all that gets lost is behind its end,
\* within a range that begins in front of it: the one that begins where the new one does.
THEOREM AddRangeKeeps ==
  ASSUME NEW r \in Ranges, NEW s \in Nat, NEW n \in Nat \ {0},
         NEW m, m = AddRange(r, s, n), NEW x \in Int
  PROVE  /\ Within(x, s, n) => Covers(m, x)
         /\ Covers(r, x) /\ ~ Covers(m, x) => s + n <= x /\ s \in DOMAIN r /\ x < s + r[s]
<1>1. PICK in : in = Emplace(r, s, n)
  OBVIOUS
<1>2. PICK p : p = Highest(Before(in, s))
  OBVIOUS
<1>3. in \in Ranges /\ Emplaced(in, r, s, n)
  BY <1>1, EmplaceEntry
<1>4. s \in DOMAIN in /\ s \in Nat /\ in[s] \in Nat /\ in[s] >= n
  BY <1>3, RangesType DEF Emplaced
<1>5. PICK e \in Int : e = s + n
  BY <1>4
<1>7. m = IF MergesBack(in, s)
            THEN MergeNext(MergeBack(in, s, e), p, Larger(e, p + in[p]))
            ELSE MergeNext(in, s, e)
  BY <1>1, <1>2, <1>5 DEF AddRange
\* as if the entry at s were not longer than asked for
<1>8. PICK cut : cut = [y \in DOMAIN in |-> IF y = s THEN n ELSE in[y]]
  OBVIOUS
<1>9. /\ DOMAIN cut = DOMAIN in /\ cut[s] = n /\ \A y \in DOMAIN in \ {s} : cut[y] = in[y]
      /\ cut \in Ranges
  <2>1. cut \in [DOMAIN in -> Nat \ {0}] /\ DOMAIN in \in SUBSET Nat
    BY <1>3, <1>8, RangesType
  <2>2. cut \in Ranges  BY <2>1 DEF Ranges
  <2> QED  BY <1>4, <1>8, <2>2
<1>10. /\ Before(cut, s) = Before(in, s) /\ After(cut, s) = After(in, s)
       /\ Drop(cut, s) = Drop(in, s)
  BY <1>9 DEF Before, After, Drop
<1>11. Before(in, s) # {} => p \in DOMAIN in /\ p # s /\ p < s /\ p \in Nat /\ in[p] \in Nat
  BY <1>2, <1>3, <1>4, BeforeHighest, RangesType
<1>12. PICK m2 : m2 = IF MergesBack(cut, s)
                        THEN MergeNext(MergeBack(cut, s, e), p, Larger(e, p + cut[p]))
                        ELSE MergeNext(cut, s, e)
  OBVIOUS
<1>13. NoLess(m2, cut)
  <2>1. s < e /\ e <= s + cut[s] /\ e = s + cut[s] /\ s \in DOMAIN cut
    BY <1>4, <1>5, <1>9
  <2>2. p = Highest(Before(cut, s))
    BY <1>2, <1>10
  <2> QED  BY <1>9, <1>12, <2>1, <2>2, Merges
<1>14. NoLess(m, cut)
  <2>1. CASE MergesBack(in, s)
    <3>1. Before(in, s) # {}
      BY <2>1 DEF MergesBack
    <3>2. cut[p] = in[p]
      BY <1>9, <1>11, <3>1
    <3>3. MergesBack(cut, s)
      BY <1>2, <1>10, <2>1, <3>2 DEF MergesBack
    <3>4. MergeBack(cut, s, e) = MergeBack(in, s, e)
      BY <1>2, <1>10, <3>2 DEF MergeBack
    <3> QED  BY <1>7, <1>12, <1>13, <2>1, <3>2, <3>3, <3>4
  <2>2. CASE ~ MergesBack(in, s)
    <3>1. ~ MergesBack(cut, s)
      <4>1. Before(in, s) # {} => cut[p] = in[p]
        BY <1>9, <1>11
      <4> QED  BY <1>2, <1>10, <2>2, <4>1 DEF MergesBack
    <3>2. m = MergeNext(in, s, e) /\ m2 = MergeNext(cut, s, e)
      BY <1>7, <1>12, <2>2, <3>1
    <3>3. PICK k : k = Lowest(After(in, s))
      OBVIOUS
    <3>4. CASE After(in, s) # {} /\ k <= e
      <4>1. k \in DOMAIN in /\ k > s
        BY <1>3, <1>4, <3>3, <3>4, AfterLowest
      <4>2. k \in Nat
        BY <1>3, <4>1, RangesType
      <4>3. cut[k] = in[k]
        BY <1>4, <1>9, <4>1, <4>2
      <4>4. PICK f : f = Larger(e, k + in[k]) - s
        OBVIOUS
      <4>5. m = Put(Drop(in, k), s, f) /\ m2 = Put(Drop(cut, k), s, f)
        BY <1>10, <3>2, <3>3, <3>4, <4>3, <4>4 DEF MergeNext
      <4>6. Put(Drop(in, k), s, f) = Put(Drop(cut, k), s, f)
        BY <1>9 DEF Put, Drop
      <4> QED  BY <1>13, <4>5, <4>6
    <3>5. CASE ~ (After(in, s) # {} /\ k <= e)
      <4>1. m = in
        BY <3>2, <3>3, <3>5 DEF MergeNext
      <4>2. ASSUME NEW y \in Int, NEW t \in DOMAIN cut, t <= y, y < t + cut[t]
            PROVE  Covers(in, y)
        <5>1. t \in DOMAIN in /\ t \in Nat /\ cut[t] \in Nat /\ in[t] \in Nat /\ cut[t] <= in[t]
          BY <1>3, <1>4, <1>9, <4>2, RangesType
        <5> QED  BY <4>2, <5>1 DEF Covers
      <4> QED  BY <4>1, <4>2 DEF NoLess, Covers
    <3> QED  BY <3>4, <3>5
  <2> QED  BY <2>1, <2>2
<1>15. ASSUME Within(x, s, n)  PROVE Covers(m, x)
  <2>1. Covers(cut, x)
    BY <1>4, <1>9, <1>15 DEF Within, Covers
  <2> QED  BY <1>14, <2>1 DEF NoLess
<1>16. ASSUME Covers(r, x), ~ Covers(m, x)
       PROVE  s + n <= x /\ s \in DOMAIN r /\ x < s + r[s]
  <2>1. Covers(in, x)
    BY <1>1, <1>16, EmplaceExact
  <2>2. PICK t \in DOMAIN in : t <= x /\ x < t + in[t]
    BY <2>1 DEF Covers
  <2>3. t = s /\ ~ (x < s + n)
    <3>1. ~ Covers(cut, x)
      BY <1>14, <1>16 DEF NoLess
    <3> QED  BY <1>4, <1>9, <2>2, <3>1 DEF Covers
  <2>4. s \in DOMAIN r /\ in[s] = r[s]
    BY <1>3, <1>4, <2>2, <2>3 DEF Emplaced
  <2> QED  BY <1>4, <2>2, <2>3, <2>4
<1> QED  BY <1>15, <1>16

-----------------------------------------------------------------------------
(* CSkipRevisionInfo *)

\* TryReduceRange takes revisions away at both ends.
LEMMA ReducedWithin ==
  ASSUME NEW s \in Nat, NEW n \in Nat, NEW have
  PROVE  /\ Low(s, n, have) \in Nat /\ High(s, n, have) \in Nat
         /\ s <= Low(s, n, have) /\ Low(s, n, have) <= High(s, n, have)
         /\ High(s, n, have) <= s + n
<1> DEFINE L == {x \in s .. s + n : x \notin have \/ x = s + n}
           low == Low(s, n, have)
           H == {x \in low .. s + n : x - 1 \notin have \/ x = low}
<1>1. L \in SUBSET Nat /\ s + n \in L
  OBVIOUS
<1>2. low \in L
  <2>1. low = Lowest(L)
    BY DEF Low
  <2> HIDE DEF L, low
  <2> QED  BY <1>1, <2>1, LowestExists
<1>3. low \in Nat /\ s <= low /\ low <= s + n
  BY <1>2
<1> HIDE DEF low
<1>4. H \in SUBSET Int /\ low \in H /\ s + n \in Int /\ \A y \in H : y <= s + n
  BY <1>3
<1>5. High(s, n, have) \in H
  <2>1. High(s, n, have) = Highest(H)
    BY DEF High, low
  <2> HIDE DEF H
  <2> QED  BY <1>4, <2>1, HighestExists
<1>6. High(s, n, have) \in low .. s + n
  BY <1>5
<1> QED  BY <1>3, <1>6 DEF low

\* ... which are known.
LEMMA ReducedKeeps ==
  ASSUME NEW s \in Nat, NEW n \in Nat, NEW have, NEW x \in Int, x \notin have, Within(x, s, n)
  PROVE  Low(s, n, have) <= x /\ x < High(s, n, have)
<1> DEFINE L == {y \in s .. s + n : y \notin have \/ y = s + n}
           low == Low(s, n, have)
           H == {y \in low .. s + n : y - 1 \notin have \/ y = low}
<1>1. L \in SUBSET Nat /\ x \in L /\ x + 1 <= s + n
  BY DEF Within
<1>2. low <= x
  <2>1. low = Lowest(L)
    BY DEF Low
  <2> HIDE DEF L, low
  <2> QED  BY <1>1, <2>1, LowestExists
<1>3. low \in Nat
  BY ReducedWithin
<1> HIDE DEF low
<1>4. H \in SUBSET Int /\ s + n \in Int /\ \A y \in H : y <= s + n
  BY <1>3
<1>5. x + 1 \in H
  <2>1. x + 1 - 1 = x /\ x + 1 \in low .. s + n
    BY <1>1, <1>2, <1>3
  <2> QED  BY <2>1
<1>6. x + 1 <= High(s, n, have)
  <2>1. High(s, n, have) = Highest(H)
    BY DEF High, low
  <2> HIDE DEF H
  <2> QED  BY <1>4, <1>5, <2>1, HighestExists
<1>7. High(s, n, have) \in Nat
  BY ReducedWithin
<1> QED  BY <1>2, <1>6, <1>7 DEF low

\* CSkipRevisionInfo::Add: what is cached is taken away before the range is added.
LEMMA AddSound ==
  ASSUME NEW r \in Ranges, NEW s \in Nat, NEW n \in Nat, NEW have,
         NEW m, m = Add(r, s, n, have)
  PROVE  /\ m \in Ranges
         /\ \A x \in Int : Covers(m, x) => Covers(r, x) \/ Within(x, s, n)
<1>1. PICK low \in Nat : low = Low(s, n, have)
  BY ReducedWithin
<1>2. PICK high \in Nat : high = High(s, n, have)
  BY ReducedWithin
<1>3. s <= low /\ low <= high /\ high <= s + n
  BY <1>1, <1>2, ReducedWithin
<1>4. m = IF high - low = 0 THEN r ELSE AddRange(r, low, high - low)
  BY <1>1, <1>2 DEF Add
<1>5. CASE high = low
  BY <1>4, <1>5
<1>6. CASE high # low
  <2>1. high - low \in Nat \ {0}
    BY <1>3, <1>6
  <2>2. m = AddRange(r, low, high - low)
    BY <1>4, <2>1
  <2>3. /\ m \in Ranges
        /\ \A x \in Int : Covers(m, x) => Covers(r, x) \/ Within(x, low, high - low)
    BY <2>1, <2>2, AddRangeSound
  <2>4. \A x \in Int : Within(x, low, high - low) => Within(x, s, n)
    BY <1>3 DEF Within
  <2> QED  BY <2>3, <2>4
<1> QED  BY <1>5, <1>6

\* What is unknown of the range is covered afterwards, and of what was covered nothing
\* unknown gets lost but behind its end.
LEMMA AddKeeps ==
  ASSUME NEW r \in Ranges, NEW s \in Nat, NEW n \in Nat, NEW have,
         NEW m, m = Add(r, s, n, have), NEW x \in Int, x \notin have
  PROVE  /\ Within(x, s, n) => Covers(m, x)
         /\ Covers(r, x) /\ ~ Covers(m, x) => s + n <= x /\ Covers(r, s + n)
<1>1. PICK low \in Nat : low = Low(s, n, have)
  BY ReducedWithin
<1>2. PICK high \in Nat : high = High(s, n, have)
  BY ReducedWithin
<1>3. s <= low /\ low <= high /\ high <= s + n
  BY <1>1, <1>2, ReducedWithin
<1>4. m = IF high - low = 0 THEN r ELSE AddRange(r, low, high - low)
  BY <1>1, <1>2 DEF Add
<1>5. Within(x, s, n) => low <= x /\ x < high
  BY <1>1, <1>2, ReducedKeeps
<1>6. CASE high = low
  BY <1>3, <1>4, <1>5, <1>6
<1>7. CASE high # low
  <2>1. high - low \in Nat \ {0} /\ low + (high - low) = high
    BY <1>3, <1>7
  <2>2. m = AddRange(r, low, high - low)
    BY <1>4, <2>1
  <2>3. /\ Within(x, low, high - low) => Covers(m, x)
        /\ Covers(r, x) /\ ~ Covers(m, x) => high <= x /\ low \in DOMAIN r /\ x < low + r[low]
    <3>1. PICK k \in Nat \ {0} : k = high - low
      BY <2>1
    <3>2. /\ Within(x, low, k) => Covers(m, x)
          /\ Covers(r, x) /\ ~ Covers(m, x) => low + k <= x /\ low \in DOMAIN r /\ x < low + r[low]
      BY <2>2, <3>1, AddRangeKeeps
    <3> QED  BY <2>1, <3>1, <3>2
  <2>4. ASSUME Covers(r, x), ~ Covers(m, x)
        PROVE  s + n <= x /\ Covers(r, s + n)
    <3>1. high <= x /\ low \in DOMAIN r /\ x < low + r[low]
      BY <2>3, <2>4
    <3>2. ~ (x < s + n)
      BY <1>3, <1>5, <3>1 DEF Within
    <3>3. low \in Nat /\ r[low] \in Nat
      BY <3>1, RangesType
    <3> QED  BY <1>3, <3>1, <3>2, <3>3 DEF Covers
  <2>5. Within(x, s, n) => Within(x, low, high - low)
    BY <1>3, <1>5, <2>1 DEF Within
  <2> QED  BY <2>3, <2>4, <2>5
<1> QED  BY <1>6, <1>7

\* What RemoveKnownRevisions does to the entry at s.
LEMMA ReplacedSound ==
  ASSUME NEW r \in Ranges, NEW s \in DOMAIN r, NEW have,
         NEW low, low = Low(s, r[s], have),
         NEW size, size = High(s, r[s], have) - low
  PROVE  /\ Drop(r, s) \in Ranges /\ NoMore(Drop(r, s), r)
         /\ low \in Nat
         /\ size # 0 => Put(r, low, size) \in Ranges /\ NoMore(Put(r, low, size), r)
         /\ size = 0 => Keeps(Drop(r, s), r, have)
         /\ size # 0 /\ (low = s \/ low \notin DOMAIN r) => Keeps(Put(r, low, size), r, have)
<1>1. s \in Nat /\ r[s] \in Nat
  BY RangesType
<1>2. PICK high \in Nat : high = High(s, r[s], have)
  BY <1>1, ReducedWithin
<1>3. low \in Nat /\ s <= low /\ low <= high /\ high <= s + r[s] /\ size = high - low
  BY <1>1, <1>2, ReducedWithin
<1>4. Drop(r, s) \in Ranges
  <2>1. DOMAIN r \ {s} \in SUBSET Nat
    BY RangesType
  <2>2. Drop(r, s) \in [DOMAIN r \ {s} -> Nat \ {0}]
    BY RangesType DEF Drop
  <2> QED  BY <2>1, <2>2 DEF Ranges
<1>5. NoMore(Drop(r, s), r)
  BY DEF NoMore, Covers, Drop
<1>6. ASSUME size # 0
      PROVE  Put(r, low, size) \in Ranges /\ NoMore(Put(r, low, size), r)
  <2>1. size \in Nat \ {0} /\ low + size = high
    BY <1>3, <1>6
  <2>2. PICK m : m = [x \in DOMAIN r \cup {low} |-> IF x = low THEN size ELSE r[x]]
    OBVIOUS
  <2>3. m \in [DOMAIN r \cup {low} -> Nat \ {0}]
    BY <2>1, <2>2, RangesType
  <2>4. DOMAIN r \cup {low} \in SUBSET Nat
    BY <1>3, RangesType
  <2>5. m \in Ranges
    BY <2>3, <2>4 DEF Ranges
  <2>6. ASSUME NEW x \in Int, NEW t \in DOMAIN m, t <= x, x < t + m[t]
        PROVE  Covers(r, x)
    <3>1. CASE t = low
      <4>1. s <= x /\ x < s + r[s]
        BY <1>1, <1>3, <2>1, <2>2, <2>6, <3>1
      <4> QED  BY <4>1 DEF Covers
    <3>2. CASE t # low
      BY <2>2, <2>6, <3>2 DEF Covers
    <3> QED  BY <3>1, <3>2
  <2>7. NoMore(m, r)
    BY <2>6 DEF NoMore, Covers
  <2> QED  BY <2>2, <2>5, <2>7 DEF Put
<1>7. ASSUME NEW x \in Int, x \notin have, s <= x, x < s + r[s]
      PROVE  low <= x /\ x < low + size /\ size # 0
  <2>1. low <= x /\ x < high
    BY <1>1, <1>2, <1>7, ReducedKeeps DEF Within
  <2> QED  BY <1>3, <2>1
<1>8. ASSUME size = 0  PROVE Keeps(Drop(r, s), r, have)
  <2> SUFFICES ASSUME NEW x \in Int, x \notin have, Covers(r, x)
               PROVE  Covers(Drop(r, s), x)
    BY DEF Keeps
  <2>1. PICK t \in DOMAIN r : t <= x /\ x < t + r[t]
    BY DEF Covers
  <2>2. t # s
    BY <1>7, <1>8, <2>1
  <2> QED  BY <2>1, <2>2 DEF Covers, Drop
<1>9. ASSUME size # 0, low = s \/ low \notin DOMAIN r
      PROVE  Keeps(Put(r, low, size), r, have)
  <2> SUFFICES ASSUME NEW x \in Int, x \notin have, Covers(r, x)
               PROVE  Covers(Put(r, low, size), x)
    BY DEF Keeps
  <2>1. PICK t \in DOMAIN r : t <= x /\ x < t + r[t]
    BY DEF Covers
  <2>2. PICK m : m = Put(r, low, size)
    OBVIOUS
  <2>3. /\ DOMAIN m = DOMAIN r \cup {low} /\ m[low] = size
        /\ \A y \in DOMAIN r \ {low} : m[y] = r[y]
    BY <2>2 DEF Put
  <2>4. CASE t = low
    <3>1. t = s
      BY <1>9, <2>4
    <3>2. low <= x /\ x < low + size
      BY <1>7, <2>1, <3>1
    <3> QED  BY <2>2, <2>3, <3>2 DEF Covers
  <2>5. CASE t # low
    <3>1. t \in DOMAIN m /\ m[t] = r[t]
      BY <2>3, <2>5
    <3> QED  BY <2>1, <2>2, <3>1 DEF Covers
  <2> QED  BY <2>4, <2>5
<1> QED  BY <1>3, <1>4, <1>5, <1>6, <1>8, <1>9

\* RemoveKnownRevisions: the pass with the iterator only ever makes ranges
\* smaller, whatever new entries it meets on its way, and takes away only what
\* is known.
THEOREM RemoveKnownSound ==
  ASSUME NEW r \in Ranges, NEW have
  PROVE  /\ RemoveKnown(r, have) \in Ranges
         /\ NoMore(RemoveKnown(r, have), r) /\ Keeps(RemoveKnown(r, have), r, have)
<1> DEFINE D == 0 .. MaxRev + 1
           Less == {m \in Ranges : NoMore(m, r) /\ Keeps(m, r, have)}
           V == [map : Less, iter : Nat]
           Start == [map |-> r, iter |-> 0]
           Step(x, done) ==
             LET m == done.map
                 low == Low(x - 1, m[x - 1], have)
                 size == High(x - 1, m[x - 1], have) - low
             IN  IF x - 1 \notin DOMAIN m \/ x - 1 < done.iter THEN done
                 ELSE IF size = 0 THEN [map |-> Drop(m, x - 1), iter |-> x]
                 ELSE IF low = x - 1 THEN [map |-> Put(m, low, size), iter |-> x]
                 ELSE [map |-> IF low \in DOMAIN m THEN m ELSE Put(m, low, size),
                       iter |-> low + 1]
           Sweep(f) == f = [x \in D |-> IF x = 0 THEN Start ELSE Step(x, f[x - 1])]
           id == [x \in D |-> x]
<1>1. MaxRev \in Nat /\ MaxRev + 1 \in Nat
  BY SkipAssumption DEF SkipAssumption
<1>2. Start \in V
  BY DEF NoMore, Keeps
<1>3. ASSUME NEW x \in D \ {0}, NEW done \in V  PROVE Step(x, done) \in V
  <2>1. PICK m : m = done.map
    OBVIOUS
  <2>2. m \in Ranges /\ NoMore(m, r) /\ Keeps(m, r, have) /\ x - 1 \in Nat /\ x \in Nat
    BY <1>1, <2>1
  <2>3. PICK low : low = Low(x - 1, m[x - 1], have)
    OBVIOUS
  <2>4. PICK size : size = High(x - 1, m[x - 1], have) - low
    OBVIOUS
  <2>5. CASE x - 1 \notin DOMAIN m \/ x - 1 < done.iter
    BY <2>1, <2>5
  <2>6. CASE x - 1 \in DOMAIN m /\ ~ (x - 1 < done.iter)
    <3>1. /\ Drop(m, x - 1) \in Ranges /\ NoMore(Drop(m, x - 1), m)
          /\ low \in Nat
          /\ size # 0 => Put(m, low, size) \in Ranges /\ NoMore(Put(m, low, size), m)
          /\ size = 0 => Keeps(Drop(m, x - 1), m, have)
          /\ size # 0 /\ (low = x - 1 \/ low \notin DOMAIN m) =>
               Keeps(Put(m, low, size), m, have)
      BY <2>2, <2>3, <2>4, <2>6, ReplacedSound
    <3>2. /\ size = 0 => Drop(m, x - 1) \in Less
          /\ size # 0 /\ (low = x - 1 \/ low \notin DOMAIN m) => Put(m, low, size) \in Less
      <4>1. \A k : NoMore(k, m) => NoMore(k, r)
        BY <2>2 DEF NoMore
      <4>2. \A k : Keeps(k, m, have) => Keeps(k, r, have)
        BY <2>2 DEF Keeps
      <4> QED  BY <3>1, <4>1, <4>2
    <3>3. Step(x, done) =
            IF size = 0 THEN [map |-> Drop(m, x - 1), iter |-> x]
            ELSE IF low = x - 1 THEN [map |-> Put(m, low, size), iter |-> x]
            ELSE [map |-> IF low \in DOMAIN m THEN m ELSE Put(m, low, size),
                  iter |-> low + 1]
      BY <2>1, <2>3, <2>4, <2>6
    <3> HIDE DEF Step, Less
    <3>4. m \in Less
      BY <2>1
    <3> QED  BY <2>2, <3>1, <3>2, <3>3, <3>4
  <2> QED  BY <2>5, <2>6
<1>4. \E f : Sweep(f)
  <2> DEFINE body == [q \in D \X [D -> V] |->
                        IF q[1] = 0 THEN Start ELSE Step(q[1], q[2][q[1] - 1])]
  <2>1. id \in [D -> 0 .. MaxRev + 1]
    OBVIOUS
  <2>2. \A x \in D \ {0} : x - 1 \in D
    BY <1>1
  <2>3. ASSUME NEW x \in D, NEW g \in [D -> V]
        PROVE  /\ body[<<x, g>>] = IF x = 0 THEN Start ELSE Step(x, g[x - 1])
               /\ body[<<x, g>>] \in V
    <3> HIDE DEF Step, V, D, Start
    <3> QED  BY <1>2, <1>3, <2>2
  <2>4. body \in [D \X [D -> V] -> V]
    <3> HIDE DEF Step, V, D, Start
    <3> QED  BY <1>2, <1>3, <2>2
  <2>5. ASSUME NEW x \in D, NEW g \in [D -> V], NEW h \in [D -> V],
               \A y \in D : id[y] < id[x] => g[y] = h[y]
        PROVE  body[<<x, g>>] = body[<<x, h>>]
    <3>1. x # 0 => g[x - 1] = h[x - 1]
      BY <2>2, <2>5
    <3> HIDE DEF body, Step, V, D
    <3> QED  BY <2>3, <3>1
  <2> HIDE DEF body, V, D, id, Step, Start
  <2>6. PICK g : Solves(g, D, V, body)
    <3>1. Recursion(D, V, MaxRev + 1, id, body)
      BY <1>1, <2>1, <2>4, <2>5 DEF Recursion
    <3> QED  BY <1>2, <3>1, RecursionExists
  <2>7. g = [x \in D |-> IF x = 0 THEN Start ELSE Step(x, g[x - 1])]
    BY <2>3, <2>6 DEF Solves
  <2> QED  BY <2>7
<1>5. ASSUME NEW f, Sweep(f)  PROVE f[MaxRev + 1] \in V
  <2> DEFINE T == {x \in D : f[x] \in V}
  <2>1. id \in [D -> Nat]
    OBVIOUS
  <2>2. ASSUME NEW x \in D, \A y \in D : id[y] < id[x] => y \in T
        PROVE  x \in T
    <3>1. x # 0 => x - 1 \in D /\ id[x - 1] < id[x]
      BY <1>1
    <3>2. x # 0 => f[x - 1] \in V
      BY <2>2, <3>1
    <3>3. f[x] = IF x = 0 THEN Start ELSE Step(x, f[x - 1])
      BY <1>5
    <3> HIDE DEF Step, V, D, Start
    <3> QED  BY <1>2, <1>3, <3>2, <3>3
  <2>3. \A x \in D : x \in T
    <3> HIDE DEF T, D, id
    <3> QED  BY <2>1, <2>2, FromBelow
  <2> QED  BY <1>1, <2>3
<1>6. RemoveKnown(r, have) = (CHOOSE f : Sweep(f))[MaxRev + 1].map
  BY DEF RemoveKnown
<1>7. Sweep(CHOOSE f : Sweep(f))
  <2> HIDE DEF Sweep
  <2> QED  BY <1>4
<1>8. (CHOOSE f : Sweep(f))[MaxRev + 1] \in V
  <2> HIDE DEF Sweep, V
  <2> QED  BY <1>5, <1>7
<1>9. PICK v \in V : v = (CHOOSE f : Sweep(f))[MaxRev + 1]
  BY <1>8
<1> QED  BY <1>6, <1>9

-----------------------------------------------------------------------------
(* GetPreviousRevision *)

\* A lookup answers with a revision or with none.
LEMMA FindPreviousType ==
  ASSUME NEW r \in Ranges, NEW x \in Int
  PROVE  \/ FindPrevious(r, x) = NO_REVISION
         \/ FindPrevious(r, x) \in Nat /\ FindPrevious(r, x) < x
BY FindPreviousSound

\* Pairs numbered in their lexicographic order.
LEMMA Lexicographic ==
  ASSUME NEW K \in Nat, NEW a \in Nat, NEW b \in Nat, NEW d \in 0 .. K, NEW e \in 0 .. K
  PROVE  /\ a * (K + 1) + d \in Nat
         /\ a < b => a * (K + 1) + d < b * (K + 1) + e
<1>1. a * (K + 1) \in Nat /\ b * (K + 1) \in Nat
  OBVIOUS
<1>2. ASSUME a < b  PROVE a * (K + 1) + (K + 1) <= b * (K + 1)
  <2>1. PICK c \in Nat : b = a + 1 + c
    <3>1. b - a - 1 \in Nat /\ b = a + 1 + (b - a - 1)
      BY <1>2
    <3> QED  BY <3>1
  <2>2. b * (K + 1) = a * (K + 1) + (K + 1) + c * (K + 1)
    BY <2>1
  <2>3. c * (K + 1) \in Nat
    OBVIOUS
  <2> QED  BY <1>1, <2>2, <2>3
<1> QED  BY <1>1, <1>2

\* GetPreviousRevision: whatever it passes is covered by a range of the path or of
\* one of its parents.  Silent is any relation of paths and revisions that holds
\* there, as "does not change the path" does if the ranges are right.  And it moves
\* on from a revision in a range of the path, if the ranges of the path are apart.
THEOREM GetPreviousSound ==
  ASSUME NEW ranges \in [Path -> Ranges], NEW path \in Path, NEW rev \in Position,
         NEW Silent,
         \A p \in Path, y \in Int : Covers(ranges[p], y) => <<p, y>> \in Silent,
         \A p \in Path \ {Root}, y \in Int : <<Parent[p], y>> \in Silent => <<p, y>> \in Silent,
         NEW next, next = GetPreviousRevision(ranges, path, rev)
  PROVE  /\ \/ next = NO_REVISION
            \/ /\ next \in Position \cap Nat /\ next < rev
               /\ \A y \in next + 1 .. rev : <<path, y>> \in Silent
         /\ Apart(ranges[path]) /\ 0 \notin DOMAIN ranges[path]
            /\ rev \in Nat /\ Covers(ranges[path], rev) => next # NO_REVISION
<1> DEFINE D == Path \X Position
           above(q, f) == IF q[1] = Root THEN q[2] ELSE f[<<Parent[q[1]], q[2]>>]
           find(q, f) == FindPrevious(ranges[q[1]], above(q, f))
           Step(q, f) == IF find(q, f) = NO_REVISION THEN above(q, f)
                         ELSE f[<<q[1], find(q, f)>>]
           Down(f) == f = [q \in D |-> Step(q, f)]
<1>1. PICK K \in Nat : K = Cardinality(Path)
  BY SkipAssumption, FS_CardinalityType DEF SkipAssumption
<1>2. PICK depth \in [Path -> 0 .. K] : \A p \in Path \ {Root} : depth[Parent[p]] < depth[p]
  BY <1>1, SkipAssumption DEF SkipAssumption
<1>3. PICK R \in Nat : R = MaxRev + 3
  BY SkipAssumption DEF SkipAssumption
<1>4. \A x : x \in Position <=> x \in Int /\ -1 <= x /\ x < R
  BY <1>3, SkipAssumption DEF Position, NO_REVISION, SkipAssumption
<1> DEFINE m == [q \in D |-> (q[2] + 1) * (K + 1) + depth[q[1]]]
           M == (R + 1) * (K + 1)
<1>5. /\ \A p \in Path \ {Root} : Parent[p] \in Path
      /\ Root \in Path
  BY SkipAssumption DEF SkipAssumption
<1>6. m \in [D -> Nat] /\ M \in Nat
  <2>1. ASSUME NEW p \in Path, NEW x \in Position
        PROVE  (x + 1) * (K + 1) + depth[p] \in Nat
    <3>1. x + 1 \in Nat /\ depth[p] \in 0 .. K
      BY <1>4
    <3> QED  BY <3>1, Lexicographic
  <2>2. R + 1 \in Nat
    OBVIOUS
  <2>3. M \in Nat
    BY <2>2
  <2> QED  BY <2>1, <2>3
<1>7. \A q \in D : m[q] \in 0 .. M
  <2> SUFFICES ASSUME NEW p \in Path, NEW x \in Position
               PROVE  m[<<p, x>>] < M
    <3>1. ASSUME NEW q \in D  PROVE m[q] < M
      OBVIOUS
    <3> HIDE DEF m, M, D
    <3> QED  BY <1>6, <3>1
  <2>1. x + 1 \in Nat /\ R + 1 \in Nat /\ x + 1 < R + 1 /\ depth[p] \in 0 .. K /\ 0 \in 0 .. K
    BY <1>4
  <2>2. (x + 1) * (K + 1) + depth[p] < (R + 1) * (K + 1) + 0
    BY <2>1, Lexicographic
  <2>3. m[<<p, x>>] = (x + 1) * (K + 1) + depth[p]
    OBVIOUS
  <2> QED  BY <1>6, <2>2, <2>3
<1>8. ASSUME NEW p \in Path \ {Root}, NEW x \in Position
      PROVE  <<Parent[p], x>> \in D /\ m[<<Parent[p], x>>] < m[<<p, x>>]
  <2>1. <<Parent[p], x>> \in D /\ <<p, x>> \in D
    BY <1>5
  <2>2. /\ m[<<Parent[p], x>>] = (x + 1) * (K + 1) + depth[Parent[p]]
        /\ m[<<p, x>>] = (x + 1) * (K + 1) + depth[p]
    BY <2>1
  <2>3. (x + 1) * (K + 1) \in Nat
    <3>1. x + 1 \in Nat
      BY <1>4
    <3> QED  BY <3>1
  <2>4. depth[Parent[p]] \in Nat /\ depth[p] \in Nat /\ depth[Parent[p]] < depth[p]
    BY <1>2, <1>5
  <2> QED  BY <2>1, <2>2, <2>3, <2>4
<1>9. ASSUME NEW p \in Path, NEW x \in Position, NEW y \in Position, y < x
      PROVE  m[<<p, y>>] < m[<<p, x>>]
  <2>1. /\ x + 1 \in Nat /\ y + 1 \in Nat /\ y + 1 < x + 1
        /\ depth[p] \in 0 .. K
    BY <1>4, <1>9
  <2>2. (y + 1) * (K + 1) + depth[p] < (x + 1) * (K + 1) + depth[p]
    BY <2>1, Lexicographic
  <2> QED  BY <2>2
\* one step, if the function stays below its argument for what is smaller
<1>10. ASSUME NEW p \in Path, NEW x \in Position, NEW f,
              \A q \in D : m[q] < m[<<p, x>>] => f[q] \in Position /\ f[q] <= q[2]
       PROVE  /\ above(<<p, x>>, f) \in Position /\ above(<<p, x>>, f) <= x
              /\ find(<<p, x>>, f) # NO_REVISION =>
                   /\ find(<<p, x>>, f) \in Position /\ find(<<p, x>>, f) < x
                   /\ find(<<p, x>>, f) \in Nat /\ find(<<p, x>>, f) < above(<<p, x>>, f)
              /\ Step(<<p, x>>, f) \in Position /\ Step(<<p, x>>, f) <= x
  <2>1. above(<<p, x>>, f) \in Position /\ above(<<p, x>>, f) <= x
    <3>1. CASE p = Root
      BY <1>4, <3>1
    <3>2. CASE p # Root
      <4>1. f[<<Parent[p], x>>] \in Position /\ f[<<Parent[p], x>>] <= x
        <5> HIDE DEF m
        <5> QED  BY <1>8, <1>10, <3>2
      <4> QED  BY <3>2, <4>1
    <3> QED  BY <3>1, <3>2
  <2>2. PICK a : a = above(<<p, x>>, f)
    OBVIOUS
  <2>3. PICK n : n = find(<<p, x>>, f)
    OBVIOUS
  <2>4. n = FindPrevious(ranges[p], a) /\ ranges[p] \in Ranges /\ a \in Int
    BY <1>4, <2>1, <2>2, <2>3
  <2>5. n = NO_REVISION \/ (n \in Nat /\ n < a)
    BY <2>4, FindPreviousType
  <2>6. n # NO_REVISION => n \in Nat /\ n \in Position /\ n < x /\ n < a
    BY <1>4, <2>1, <2>2, <2>5
  <2>7. n # NO_REVISION => f[<<p, n>>] \in Position /\ f[<<p, n>>] <= n
    <3> SUFFICES ASSUME n # NO_REVISION
                 PROVE  f[<<p, n>>] \in Position /\ f[<<p, n>>] <= n
      OBVIOUS
    <3>1. <<p, n>> \in D /\ m[<<p, n>>] < m[<<p, x>>]
      <4> HIDE DEF m
      <4> QED  BY <1>9, <2>6
    <3> HIDE DEF m
    <3> QED  BY <1>10, <3>1
  <2>8. Step(<<p, x>>, f) = IF n = NO_REVISION THEN a ELSE f[<<p, n>>]
    BY <2>2, <2>3
  <2>9. Step(<<p, x>>, f) \in Position /\ Step(<<p, x>>, f) <= x
    BY <1>4, <2>1, <2>2, <2>6, <2>7, <2>8
  <2> QED  BY <2>1, <2>2, <2>3, <2>6, <2>9
<1>11. \E f : Down(f)
  <2> DEFINE Guarded(q, f) ==
               IF find(q, f) = NO_REVISION \/ ~ (find(q, f) < q[2]) THEN above(q, f)
               ELSE f[<<q[1], find(q, f)>>]
             body == [z \in D \X [D -> Position] |-> Guarded(z[1], z[2])]
  <2>1. ASSUME NEW p \in Path, NEW x \in Position, NEW f \in [D -> Position]
        PROVE  /\ above(<<p, x>>, f) \in Position
               /\ find(<<p, x>>, f) = NO_REVISION \/ find(<<p, x>>, f) \in Position
               /\ Guarded(<<p, x>>, f) \in Position
    <3>1. above(<<p, x>>, f) \in Position
      BY <1>5
    <3>2. PICK a \in Position : a = above(<<p, x>>, f)
      BY <3>1
    <3>3. PICK n : n = find(<<p, x>>, f)
      OBVIOUS
    <3>4. n = FindPrevious(ranges[p], a) /\ ranges[p] \in Ranges /\ a \in Int
      BY <1>4, <3>2, <3>3
    <3>5. n = NO_REVISION \/ (n \in Nat /\ n < a)
      BY <3>4, FindPreviousType
    <3>6. n = NO_REVISION \/ n \in Position
      BY <1>4, <3>5
    <3>7. n \in Position => f[<<p, n>>] \in Position
      OBVIOUS
    <3>8. Guarded(<<p, x>>, f) =
            IF n = NO_REVISION \/ ~ (n < x) THEN a ELSE f[<<p, n>>]
      BY <3>2, <3>3
    <3> QED  BY <3>2, <3>3, <3>6, <3>7, <3>8
  <2>2. ASSUME NEW p \in Path, NEW x \in Position,
               NEW g \in [D -> Position], NEW h \in [D -> Position],
               \A z \in D : m[z] < m[<<p, x>>] => g[z] = h[z]
        PROVE  Guarded(<<p, x>>, g) = Guarded(<<p, x>>, h)
    <3>1. above(<<p, x>>, g) = above(<<p, x>>, h)
      <4>1. p # Root => g[<<Parent[p], x>>] = h[<<Parent[p], x>>]
        <5> HIDE DEF m
        <5> QED  BY <1>8, <2>2
      <4> QED  BY <4>1
    <3>2. PICK a : a = above(<<p, x>>, g)
      OBVIOUS
    <3>3. PICK n : n = FindPrevious(ranges[p], a)
      OBVIOUS
    <3>4. /\ above(<<p, x>>, g) = a /\ above(<<p, x>>, h) = a
          /\ find(<<p, x>>, g) = n /\ find(<<p, x>>, h) = n
      BY <3>1, <3>2, <3>3
    <3>5. n # NO_REVISION /\ n < x => g[<<p, n>>] = h[<<p, n>>]
      <4>1. n = NO_REVISION \/ n \in Position
        <5> HIDE DEF find, above
        <5> QED  BY <2>1, <3>4
      <4> HIDE DEF m
      <4> QED  BY <1>9, <2>2, <4>1
    <3>6. /\ Guarded(<<p, x>>, g) =
               IF n = NO_REVISION \/ ~ (n < x) THEN a ELSE g[<<p, n>>]
          /\ Guarded(<<p, x>>, h) =
               IF n = NO_REVISION \/ ~ (n < x) THEN a ELSE h[<<p, n>>]
      <4> HIDE DEF above, find
      <4> QED  BY <3>4
    <3> QED  BY <3>5, <3>6
  <2>3. \A q \in D : \E p \in Path, x \in Position : q = <<p, x>>
    OBVIOUS
  <2>4. ASSUME NEW q \in D, NEW g \in [D -> Position]
        PROVE  body[<<q, g>>] = Guarded(q, g) /\ Guarded(q, g) \in Position
    <3>1. Guarded(q, g) \in Position
      <4>1. PICK p \in Path, x \in Position : q = <<p, x>>
        BY <2>3
      <4>2. Guarded(<<p, x>>, g) \in Position
        <5> HIDE DEF Guarded, D
        <5> QED  BY <2>1
      <4> HIDE DEF Guarded
      <4> QED  BY <4>1, <4>2
    <3> HIDE DEF Guarded, D
    <3> QED  BY <3>1
  <2>5. Recursion(D, Position, M, m, body)
    <3>1. m \in [D -> 0 .. M]
      <4> HIDE DEF M
      <4> QED  BY <1>6, <1>7
    <3>2. body \in [D \X [D -> Position] -> Position]
      <4> HIDE DEF Guarded, D
      <4> QED  BY <2>4
    <3>3. ASSUME NEW q \in D, NEW g \in [D -> Position], NEW h \in [D -> Position],
                 \A z \in D : m[z] < m[q] => g[z] = h[z]
          PROVE  body[<<q, g>>] = body[<<q, h>>]
      <4>1. PICK p \in Path, x \in Position : q = <<p, x>>
        BY <2>3
      <4>2. \A z \in D : m[z] < m[<<p, x>>] => g[z] = h[z]
        <5> HIDE DEF m, D
        <5> QED  BY <3>3, <4>1
      <4>3. Guarded(<<p, x>>, g) = Guarded(<<p, x>>, h)
        <5> HIDE DEF Guarded, m, D
        <5> QED  BY <2>2, <4>2
      <4> HIDE DEF Guarded, body, D
      <4> QED  BY <2>4, <4>1, <4>3
    <3> HIDE DEF body, D, m, M
    <3> QED  BY <1>6, <3>1, <3>2, <3>3 DEF Recursion
  <2>6. -1 \in Position
    BY <1>3, <1>4
  <2>7. PICK g : Solves(g, D, Position, body)
    <3> HIDE DEF body, D, m, M
    <3> QED  BY <2>5, <2>6, RecursionExists
  <2>8. g \in [D -> Position] /\ \A q \in D : g[q] = Guarded(q, g)
    <3> HIDE DEF body, D, Guarded
    <3> QED  BY <2>4, <2>7 DEF Solves
  <2> DEFINE T == {q \in D : g[q] <= q[2] /\ g[q] = Step(q, g)}
  <2>9. ASSUME NEW q \in D, \A z \in D : m[z] < m[q] => z \in T
        PROVE  q \in T
    <3>1. PICK p \in Path, x \in Position : q = <<p, x>>
      BY <2>3
    <3>2. \A z \in D : m[z] < m[<<p, x>>] => g[z] \in Position /\ g[z] <= z[2]
      <4> HIDE DEF m, Step
      <4> QED  BY <2>8, <2>9, <3>1
    <3>3. /\ find(<<p, x>>, g) # NO_REVISION => find(<<p, x>>, g) < x
          /\ Step(<<p, x>>, g) <= x
      <4> HIDE DEF find, Step, m, above
      <4> QED  BY <1>10, <3>2
    <3>4. Guarded(<<p, x>>, g) = Step(<<p, x>>, g)
      <4> HIDE DEF find, above
      <4> QED  BY <3>3
    <3> HIDE DEF Guarded, Step
    <3> QED  BY <2>8, <3>1, <3>3, <3>4
  <2>10. \A q \in D : q \in T
    <3> HIDE DEF D, T, m
    <3> QED  BY <1>6, <2>9, FromBelow
  <2>11. g = [q \in D |-> Step(q, g)]
    <3> HIDE DEF Step
    <3> QED  BY <2>8, <2>10
  <2> QED  BY <2>11
<1>12. ASSUME NEW f, Down(f), NEW x0 \in Position
       PROVE  /\ f[<<path, x0>>] \in Position /\ f[<<path, x0>>] <= x0
              /\ \A y \in f[<<path, x0>>] + 1 .. x0 : <<path, y>> \in Silent
              /\ x0 \in Nat => f[<<path, x0>>] \in Nat
              /\ Apart(ranges[path]) /\ 0 \notin DOMAIN ranges[path]
                 /\ x0 \in Nat /\ Covers(ranges[path], x0) => f[<<path, x0>>] < x0
  <2> DEFINE Exact(p, x) == /\ Apart(ranges[p]) /\ 0 \notin DOMAIN ranges[p]
                            /\ x \in Nat /\ Covers(ranges[p], x)
  <2> DEFINE T == {q \in D : /\ f[q] \in Position /\ f[q] <= q[2]
                             /\ q[2] \in Nat => f[q] \in Nat
                             /\ Exact(q[1], q[2]) => f[q] < q[2]
                             /\ \A y \in f[q] + 1 .. q[2] : <<q[1], y>> \in Silent}
  <2>1. ASSUME NEW q \in D, \A z \in D : m[z] < m[q] => z \in T
        PROVE  q \in T
    <3>1. PICK p \in Path, x \in Position : q = <<p, x>>
      OBVIOUS
    <3>2. \A z \in D : m[z] < m[<<p, x>>] => f[z] \in Position /\ f[z] <= z[2]
      <4> HIDE DEF m
      <4> QED  BY <2>1, <3>1
    <3>3. PICK a : a = above(<<p, x>>, f)
      OBVIOUS
    <3>4. PICK n : n = find(<<p, x>>, f)
      OBVIOUS
    <3>5. PICK e : e = Step(<<p, x>>, f)
      OBVIOUS
    <3>6. /\ a \in Position /\ a <= x
          /\ n # NO_REVISION => n \in Position /\ n \in Nat /\ n < x /\ n < a
          /\ e \in Position /\ e <= x
      <4> HIDE DEF find, Step, m, above
      <4> QED  BY <1>10, <3>2, <3>3, <3>4, <3>5
    <3>7. ASSUME NEW y \in Int, a < y, y <= x  PROVE <<p, y>> \in Silent
      <4>1. CASE p = Root
        BY <1>4, <3>3, <3>6, <3>7, <4>1
      <4>2. CASE p # Root
        <5>1. a = f[<<Parent[p], x>>]
          BY <3>3, <4>2
        <5>2. <<Parent[p], x>> \in T
          <6> HIDE DEF m, T
          <6> QED  BY <1>8, <2>1, <3>1, <4>2
        <5>3. a \in Int /\ x \in Int
          BY <1>4, <3>6
        <5>4. <<Parent[p], y>> \in Silent
          BY <5>1, <5>2, <5>3, <3>7
        <5> QED  BY <4>2, <5>4
      <4> QED  BY <4>1, <4>2
    <3>10. x \in Nat => a \in Nat
      <4>1. CASE p = Root
        BY <3>3, <4>1
      <4>2. CASE p # Root
        <5>1. a = f[<<Parent[p], x>>]
          BY <3>3, <4>2
        <5>2. <<Parent[p], x>> \in T
          <6> HIDE DEF m, T
          <6> QED  BY <1>8, <2>1, <3>1, <4>2
        <5> HIDE DEF Exact
        <5> QED  BY <5>1, <5>2
      <4> QED  BY <4>1, <4>2
    <3>8. CASE n = NO_REVISION
      <4>1. e = a
        BY <3>3, <3>4, <3>5, <3>8
      <4>2. f[q] = e
        BY <1>12, <3>1, <3>5
      <4>3. Exact(p, x) => e < x
        <5> SUFFICES ASSUME Exact(p, x), a = x  PROVE FALSE
          BY <1>4, <3>6, <4>1
        <5>1. n = FindPrevious(ranges[p], x) /\ ranges[p] \in Ranges
          BY <3>3, <3>4
        <5> QED  BY <3>8, <5>1, FindPreviousExact
      <4> HIDE DEF Exact
      <4> QED  BY <1>4, <3>1, <3>6, <3>7, <3>10, <4>1, <4>2, <4>3
    <3>9. CASE n # NO_REVISION
      <4>1. e = f[<<p, n>>] /\ f[q] = e
        BY <1>12, <3>1, <3>4, <3>5, <3>9
      <4>2. <<p, n>> \in T
        <5> HIDE DEF m, T
        <5> QED  BY <1>9, <2>1, <3>1, <3>6, <3>9
      <4>3. \A y \in Int : e < y /\ y <= n => <<p, y>> \in Silent
        BY <1>4, <3>6, <4>1, <4>2
      <4>4. \A y \in Int : n < y /\ y <= a => <<p, y>> \in Silent
        <5>1. n = FindPrevious(ranges[p], a) /\ ranges[p] \in Ranges /\ a \in Int
          BY <1>4, <3>3, <3>4, <3>6
        <5>2. \A y \in n + 1 .. a : Covers(ranges[p], y)
          BY <3>9, <5>1, FindPreviousSound
        <5> QED  BY <3>6, <3>9, <5>1, <5>2
      <4>5. e \in Nat /\ e < x
        <5> HIDE DEF Exact
        <5> QED  BY <1>4, <3>6, <3>9, <4>1, <4>2
      <4> HIDE DEF Exact
      <4> QED  BY <1>4, <3>1, <3>6, <3>7, <3>9, <4>1, <4>3, <4>4, <4>5
    <3> QED  BY <3>8, <3>9
  <2>2. \A q \in D : q \in T
    <3> HIDE DEF D, T, m
    <3> QED  BY <1>6, <2>1, FromBelow
  <2>3. <<path, x0>> \in T
    BY <2>2
  <2> QED  BY <2>3
<1>13. PICK f : f = CHOOSE h : Down(h)
  OBVIOUS
<1>14. Down(f)
  <2> HIDE DEF Down
  <2> QED  BY <1>11, <1>13
<1>15. next = IF rev = NO_REVISION \/ f[<<path, rev>>] = rev THEN NO_REVISION
              ELSE f[<<path, rev>>]
  BY <1>13 DEF GetPreviousRevision
<1>16. /\ f[<<path, rev>>] \in Position /\ f[<<path, rev>>] <= rev
       /\ \A y \in f[<<path, rev>>] + 1 .. rev : <<path, y>> \in Silent
       /\ rev \in Nat => f[<<path, rev>>] \in Nat
       /\ Apart(ranges[path]) /\ 0 \notin DOMAIN ranges[path]
          /\ rev \in Nat /\ Covers(ranges[path], rev) => f[<<path, rev>>] < rev
  <2> HIDE DEF Down
  <2> QED  BY <1>12, <1>14
<1> QED  BY <1>4, <1>15, <1>16 DEF NO_REVISION

=============================================================================
