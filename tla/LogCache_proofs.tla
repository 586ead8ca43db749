--------------------------- MODULE LogCache_proofs --------------------------
(***************************************************************************)
(* What holds of the log cache for every history of the repository, every  *)
(* set of questions and any number of them: the skip ranges cover only     *)
(* revisions that do not change their path, queries report downwards, what *)
(* they report is the server's log, and only overlapping skip ranges make  *)
(* them give up.                                                           *)
(*                                                                         *)
(* The operators of LogCache that descend by a recursive function are      *)
(* reasoned about with LowestExists, FromBelow and LoopRelates of          *)
(* SkipRevisions_proofs.                                                   *)
(***************************************************************************)
EXTENDS LogCache, SkipRevisions_proofs, SequenceTheorems

-----------------------------------------------------------------------------
(* The repository: paths, when they begin, and what the server sends *)

\* The repository's paths are a tree, so that Ancestors is what it says.
LEMMA PathTree ==
  /\ Root \in Path /\ \A p \in Path \ {Root} : Parent[p] \in Path
  /\ \E depth \in [Path -> Nat] : \A p \in Path \ {Root} : depth[Parent[p]] < depth[p]
<1>1. Cardinality(Path) \in Nat
  BY SkipAssumption, FS_CardinalityType DEF SkipAssumption
<1> QED  BY <1>1, SkipAssumption DEF SkipAssumption

\* The recursive definition of Ancestors holds: parents are nearer to the root.
LEMMA AncestorsDef ==
  ASSUME NEW p \in Path
  PROVE  /\ Ancestors[p] = IF p = Root THEN {Root} ELSE {p} \cup Ancestors[Parent[p]]
         /\ Ancestors[p] \in SUBSET Path
<1> DEFINE Value(q, f) == IF q = Root THEN {Root} ELSE {q} \cup f[Parent[q]]
           Anc(f) == f = [q \in Path |-> Value(q, f)]
<1>1. PICK K \in Nat : K = Cardinality(Path)
  BY SkipAssumption, FS_CardinalityType DEF SkipAssumption
<1>2. PICK m \in [Path -> 0 .. K] : \A q \in Path \ {Root} : m[Parent[q]] < m[q]
  BY <1>1, SkipAssumption DEF SkipAssumption
<1>3. \E f : Anc(f)
  <2> DEFINE body == [z \in Path \X [Path -> SUBSET Path] |-> Value(z[1], z[2])]
  <2>1. ASSUME NEW q \in Path, NEW g \in [Path -> SUBSET Path]
        PROVE  body[<<q, g>>] = Value(q, g) /\ Value(q, g) \in SUBSET Path
    BY PathTree
  <2>2. body \in [Path \X [Path -> SUBSET Path] -> SUBSET Path]
    <3> HIDE DEF Value
    <3> QED  BY <2>1
  <2>3. ASSUME NEW q \in Path, NEW g \in [Path -> SUBSET Path], NEW h \in [Path -> SUBSET Path],
               \A y \in Path : m[y] < m[q] => g[y] = h[y]
        PROVE  body[<<q, g>>] = body[<<q, h>>]
    <3>1. q # Root => g[Parent[q]] = h[Parent[q]]
      BY <1>2, <2>3, PathTree
    <3>2. Value(q, g) = Value(q, h)
      BY <3>1
    <3> HIDE DEF Value, body
    <3> QED  BY <2>1, <3>2
  <2>4. Recursion(Path, SUBSET Path, K, m, body)
    <3> HIDE DEF body
    <3> QED  BY <2>2, <2>3 DEF Recursion
  <2>5. PICK g : Solves(g, Path, SUBSET Path, body)
    <3>1. Path \in SUBSET Path
      OBVIOUS
    <3> HIDE DEF body
    <3> QED  BY <2>4, <3>1, RecursionExists
  <2>6. g = [q \in Path |-> Value(q, g)]
    <3> HIDE DEF body, Value
    <3> QED  BY <2>1, <2>5 DEF Solves
  <2> QED  BY <2>6
<1>4. PICK f : f = CHOOSE g : Anc(g)
  OBVIOUS
<1>5. Anc(f)
  <2> HIDE DEF Anc
  <2> QED  BY <1>3, <1>4
<1>6. Ancestors = f
  BY <1>4 DEF Ancestors
<1>7. \A q \in Path : f[q] = Value(q, f)
  BY <1>5
<1> DEFINE T == {q \in Path : f[q] \in SUBSET Path}
<1>8. ASSUME NEW q \in Path, \A y \in Path : m[y] < m[q] => y \in T
      PROVE  q \in T
  BY <1>2, <1>7, <1>8, PathTree
<1>9. \A q \in Path : q \in T
  <2>1. m \in [Path -> Nat]
    OBVIOUS
  <2> HIDE DEF T
  <2> QED  BY <1>8, <2>1, FromBelow
<1> QED  BY <1>6, <1>7, <1>9

\* The root has no parent.
LEMMA AncestorsRoot == Ancestors[Root] = {Root}
BY AncestorsDef, PathTree

\* Ancestors is a path with all its parents, up to the root.
LEMMA AncestorsOrder ==
  ASSUME NEW p \in Path
  PROVE  /\ p \in Ancestors[p] /\ Root \in Ancestors[p]
         /\ \A q \in Ancestors[p] : Ancestors[q] \subseteq Ancestors[p]
<1>1. PICK m \in [Path -> Nat] : \A q \in Path \ {Root} : m[Parent[q]] < m[q]
  BY PathTree
<1> DEFINE T == {x \in Path : /\ Root \in Ancestors[x]
                              /\ \A q \in Ancestors[x] : Ancestors[q] \subseteq Ancestors[x]}
<1>2. ASSUME NEW x \in Path, \A y \in Path : m[y] < m[x] => y \in T
      PROVE  x \in T
  <2>1. CASE x = Root
    <3>1. Ancestors[x] = {Root}
      BY <2>1, AncestorsDef
    <3> QED  BY <2>1, <3>1
  <2>2. CASE x # Root
    <3>1. Parent[x] \in T /\ Ancestors[x] = {x} \cup Ancestors[Parent[x]]
      BY <1>1, <1>2, <2>2, AncestorsDef, PathTree
    <3> QED  BY <3>1
  <2> QED  BY <2>1, <2>2
<1>3. \A x \in Path : x \in T
  <2> HIDE DEF T
  <2> QED  BY <1>2, FromBelow
<1>4. p \in Ancestors[p]
  BY AncestorsDef
<1> QED  BY <1>3, <1>4

\* GetBasePath: the nearest of a path and its parents that the dictionary knows.
LEMMA BaseNearest ==
  ASSUME NEW c, NEW p \in Path
  PROVE  /\ Base(c, p) \in Path /\ Base(c, p) \in Ancestors[p] /\ Base(c, p) \in Known(c)
         /\ \A q \in Ancestors[p] : q \in Known(c) => q \in Ancestors[Base(c, p)]
<1>1. PICK m \in [Path -> Nat] : \A q \in Path \ {Root} : m[Parent[q]] < m[q]
  BY PathTree
<1> DEFINE Near(x, b) == /\ b \in Ancestors[x] \cap Known(c)
                         /\ \A q \in Ancestors[x] \cap Known(c) : q \in Ancestors[b]
           T == {x \in Path : \E b : Near(x, b)}
<1>2. ASSUME NEW x \in Path, \A y \in Path : m[y] < m[x] => y \in T
      PROVE  x \in T
  <2>1. CASE x \in Known(c)
    <3>1. Near(x, x)
      BY <2>1, AncestorsOrder
    <3> QED  BY <3>1
  <2>2. CASE x \notin Known(c)
    <3>1. x # Root
      BY <2>2 DEF Known
    <3>2. Parent[x] \in T /\ Ancestors[x] = {x} \cup Ancestors[Parent[x]]
      BY <1>1, <1>2, <3>1, AncestorsDef, PathTree
    <3>3. PICK b : Near(Parent[x], b)
      BY <3>2
    <3>4. Near(x, b)
      BY <2>2, <3>2, <3>3
    <3> QED  BY <3>4
  <2> QED  BY <2>1, <2>2
<1>3. \A x \in Path : x \in T
  <2> HIDE DEF T
  <2> QED  BY <1>2, FromBelow
<1>4. \E b : Near(p, b)
  BY <1>3
<1>5. Near(p, Base(c, p))
  <2>1. Base(c, p) = CHOOSE b : Near(p, b)
    BY DEF Base, SameOrParent
  <2> HIDE DEF Near
  <2> QED  BY <1>4, <2>1
<1> QED  BY <1>5, AncestorsDef

\* The set of revisions that mention a path itself is not empty: Sound.
LEMMA BirthIs ==
  ASSUME changes \in Histories, NEW p \in Path \ {Root}
  PROVE  /\ Birth(p) \in 1 .. MaxRev /\ p \in changes[Birth(p)]
         /\ \A r \in 1 .. MaxRev : p \in changes[r] => Birth(p) <= r
         /\ Parent[p] # Root => Birth(Parent[p]) <= Birth(p)
<1> DEFINE born(q) == {r \in 1 .. MaxRev : q \in changes[r]}
<1>1. Sound(changes)
  BY LogAssumption DEF LogAssumption
<1>2. /\ born(p) # {}
      /\ Parent[p] # Root => Lowest(born(Parent[p])) <= Lowest(born(p))
  BY <1>1 DEF Sound
<1>3. Birth(p) = Lowest(born(p))
  BY DEF Birth
<1>4. Parent[p] # Root => Birth(Parent[p]) = Lowest(born(Parent[p]))
  BY DEF Birth
<1>5. born(p) \in SUBSET Nat
  OBVIOUS
<1>6. Lowest(born(p)) \in born(p) /\ \A y \in born(p) : Lowest(born(p)) <= y
  <2> HIDE DEF born
  <2> QED  BY <1>2, <1>5, LowestExists
<1> QED  BY <1>2, <1>3, <1>4, <1>6

\* Nothing changes a path before it is there.
LEMMA BornFirst ==
  ASSUME changes \in Histories, NEW p \in Path, NEW r \in Rev, Touches(p, r)
  PROVE  Birth(p) <= r
<1>1. CASE p = Root
  BY <1>1 DEF Birth, Rev
<1>2. CASE p # Root
  <2>1. r \in 1 .. MaxRev
    BY <1>2 DEF Touches, Rev
  <2>2. PICK q \in changes[r] : p \in Ancestors[q]
    BY <1>2 DEF Touches, SameOrParent
  <2>3. q \in Path \ {Root}
    BY <2>1, LogAssumption DEF LogAssumption
  <2>4. PICK m \in [Path -> Nat] : \A x \in Path \ {Root} : m[Parent[x]] < m[x]
    BY PathTree
  <2> DEFINE T == {x \in Path : p \in Ancestors[x] => Birth(p) <= Birth(x)}
  <2>5. ASSUME NEW x \in Path, \A y \in Path : m[y] < m[x] => y \in T
        PROVE  x \in T
    <3>1. SUFFICES ASSUME p \in Ancestors[x], p # x  PROVE Birth(p) <= Birth(x)
      <4>1. Birth(p) <= Birth(p)
        BY <1>2, BirthIs
      <4> QED  BY <4>1
    <3>2. x # Root
      BY <1>2, <3>1, AncestorsDef
    <3>3. p \in Ancestors[Parent[x]] /\ Parent[x] \in Path /\ m[Parent[x]] < m[x]
      BY <2>4, <3>1, <3>2, AncestorsDef, PathTree
    <3>4. Parent[x] # Root
      BY <1>2, <3>3, AncestorsRoot
    <3>5. Birth(p) <= Birth(Parent[x])
      BY <2>5, <3>3
    <3>6. Birth(Parent[x]) <= Birth(x)
      BY <3>2, <3>4, BirthIs
    <3>7. Birth(p) \in Nat /\ Birth(Parent[x]) \in Nat /\ Birth(x) \in Nat
      BY <1>2, <3>2, <3>3, <3>4, BirthIs
    <3> QED  BY <3>5, <3>6, <3>7
  <2>6. \A x \in Path : x \in T
    <3> HIDE DEF T
    <3> QED  BY <2>4, <2>5, FromBelow
  <2>7. Birth(p) <= Birth(q) /\ Birth(q) <= r
    BY <2>1, <2>2, <2>3, <2>6, BirthIs
  <2>8. Birth(p) \in Nat /\ Birth(q) \in Nat /\ r \in Nat
    BY <1>2, <2>1, <2>3, BirthIs
  <2> QED  BY <2>7, <2>8
<1> QED  BY <1>1, <1>2

\* A change below a path changes it, too.
LEMMA TouchesParent ==
  ASSUME changes \in Histories, NEW p \in Path, NEW q \in Ancestors[p], NEW r \in Rev,
         Touches(p, r)
  PROVE  Touches(q, r)
<1>1. CASE q = Root
  BY <1>1 DEF Touches
<1>2. CASE q # Root
  <2>1. p # Root
    BY <1>2, AncestorsDef
  <2>2. PICK x \in changes[r] : r > 0 /\ p \in Ancestors[x]
    BY <2>1 DEF Touches, SameOrParent
  <2>3. x \in Path
    <3>1. r \in 1 .. MaxRev
      BY <2>2 DEF Rev
    <3> QED  BY <3>1, LogAssumption DEF LogAssumption
  <2>4. q \in Ancestors[x]
    BY <2>2, <2>3, AncestorsOrder
  <2> QED  BY <2>2, <2>4 DEF Touches, SameOrParent
<1> QED  BY <1>1, <1>2

\* Nothing in (lo, hi] changes p.  Revision 0 changes nothing but the root, and
\* no gap reaches down to it.
Silent(p, lo, hi) == \A x \in Rev : 0 < x /\ lo < x /\ x <= hi => ~ Touches(p, x)

\* Nothing changes p between u and the entries of s, nor between those.
GapFree(p, u, s) ==
  \A k \in 1 .. Len(s) : Silent(p, s[k], IF k = 1 THEN u ELSE s[k - 1] - 1)

\* ... nor between the last of them (u if there is none) and lo.
Beyond(u, s) == IF s = <<>> THEN u ELSE s[Len(s)] - 1

\* s has all the revisions from start down to lo that change p, and maybe more.
Listed(p, start, lo, s) ==
  s \in Seq(Rev) /\ GapFree(p, start, s) /\ Silent(p, lo, Beyond(start, s))

\* One more revision down, whether it changes the path or not.
LEMMA ListedMore ==
  ASSUME NEW p, NEW start \in Rev, NEW lo \in Int, NEW s, Listed(p, start, lo, s)
  PROVE  /\ lo \in Rev => Listed(p, start, lo - 1, Append(s, lo))
         /\ (lo \in Rev => ~ Touches(p, lo)) => Listed(p, start, lo - 1, s)
<1>1. s \in Seq(Rev) /\ GapFree(p, start, s) /\ Silent(p, lo, Beyond(start, s))
  BY DEF Listed
<1>2. ASSUME lo \in Rev  PROVE Listed(p, start, lo - 1, Append(s, lo))
  <2>1. PICK t : t = Append(s, lo)
    OBVIOUS
  <2>2. /\ t \in Seq(Rev) /\ Len(t) = Len(s) + 1 /\ t[Len(t)] = lo
        /\ \A k \in 1 .. Len(s) : t[k] = s[k]
        /\ Len(s) \in Nat
    BY <1>1, <1>2, <2>1
  <2>3. t # <<>>
    BY <2>2
  <2>4. Beyond(start, t) = lo - 1
    BY <2>2, <2>3 DEF Beyond
  <2>5. Silent(p, lo - 1, lo - 1)
    BY <1>2 DEF Silent, Rev
  <2>6. GapFree(p, start, t)
    <3> SUFFICES ASSUME NEW k \in 1 .. Len(t)
                 PROVE  Silent(p, t[k], IF k = 1 THEN start ELSE t[k - 1] - 1)
      BY DEF GapFree
    <3>1. CASE k <= Len(s)
      <4>1. t[k] = s[k] /\ (k # 1 => t[k - 1] = s[k - 1])
        BY <2>2, <3>1
      <4> QED  BY <1>1, <2>2, <3>1, <4>1 DEF GapFree
    <3>2. CASE k = Len(s) + 1
      <4>1. t[k] = lo
        BY <2>2, <3>2
      <4>2. CASE s = <<>>
        <5>1. k = 1 /\ Beyond(start, s) = start
          BY <3>2, <4>2 DEF Beyond
        <5> QED  BY <1>1, <4>1, <5>1
      <4>3. CASE s # <<>>
        <5>1. k # 1 /\ t[k - 1] = s[Len(s)]
          BY <1>1, <2>2, <3>2, <4>3
        <5>2. Beyond(start, s) = s[Len(s)] - 1
          BY <4>3 DEF Beyond
        <5> QED  BY <1>1, <4>1, <5>1, <5>2
      <4> QED  BY <4>2, <4>3
    <3> QED  BY <2>2, <3>1, <3>2
  <2> QED  BY <2>1, <2>2, <2>4, <2>5, <2>6 DEF Listed
<1>3. ASSUME lo \in Rev => ~ Touches(p, lo)  PROVE Listed(p, start, lo - 1, s)
  <2>1. PICK u : u = Beyond(start, s)
    OBVIOUS
  <2>2. Silent(p, lo, u)
    BY <1>1, <2>1
  <2>3. Silent(p, lo - 1, u)
    BY <1>3, <2>2 DEF Silent, Rev
  <2> QED  BY <1>1, <2>1, <2>3 DEF Listed
<1> QED  BY <1>2, <1>3

\* How ServerLog finds the revisions that it sends: the k-th of them, and what has
\* been found among the first k.
Stride(start, end) == IF start >= end THEN -1 ELSE 1
Count(start, end) == (end - start) * Stride(start, end) + 1
At(start, end, k) == start + (k - 1) * Stride(start, end)

\* f is the sequence of lists that ServerLog builds.
Built(f, p, start, end) ==
  \A k \in 0 .. Count(start, end) :
    f[k] = LET r == At(start, end, k)
           IN  IF k = 0 THEN <<>>
               ELSE IF Touches(p, r) /\ r >= Birth(p) THEN Append(f[k - 1], r)
               ELSE f[k - 1]

\* ... cut off at the limit.
Cut(all, limit) == IF limit = 0 \/ limit > Len(all) THEN all ELSE SubSeq(all, 1, limit)

\* The recursion in ServerLog builds the list one revision at a time.
LEMMA ServerLogBuilt ==
  ASSUME changes \in Histories, NEW p \in Path, NEW start \in Rev, NEW end \in Rev,
         NEW limit \in Nat, NEW s, s = ServerLog(p, start, end, limit)
  PROVE  /\ Count(start, end) \in Nat
         /\ \A k \in 0 .. Count(start, end) :
              k # 0 => k - 1 \in 0 .. Count(start, end) /\ At(start, end, k) \in Rev
         /\ \E f : /\ Built(f, p, start, end)
                   /\ s = Cut(f[Count(start, end)], limit)
<1> DEFINE step == IF start >= end THEN -1 ELSE 1
           n == (end - start) * step + 1
           r(k) == start + (k - 1) * step
           Sends(k) == Touches(p, r(k)) /\ r(k) >= Birth(p)
           Value(k, f) == IF k = 0 THEN <<>>
                         ELSE IF Sends(k) THEN Append(f[k - 1], r(k)) ELSE f[k - 1]
           D == 0 .. n
           V == Seq(Rev)
           Upto(f) == f = [k \in D |-> Value(k, f)]
           id == [k \in D |-> k]
<1>1. start \in Nat /\ end \in Nat /\ MaxRev \in Nat /\ start <= MaxRev /\ end <= MaxRev
  BY SkipAssumption DEF SkipAssumption, Rev
<1>2. /\ n \in Nat
      /\ \A k \in D \ {0} : k - 1 \in D /\ r(k) \in Rev
  <2>1. CASE start >= end
    <3>1. step = -1
      BY <2>1
    <3>2. n = start - end + 1 /\ \A k \in D : r(k) = start + 1 - k
      BY <1>1, <3>1
    <3> QED  BY <1>1, <2>1, <3>2 DEF Rev
  <2>2. CASE ~ (start >= end)
    <3>1. step = 1
      BY <2>2
    <3>2. n = end - start + 1 /\ \A k \in D : r(k) = start + k - 1
      BY <1>1, <3>1
    <3> QED  BY <1>1, <2>2, <3>2 DEF Rev
  <2> QED  BY <2>1, <2>2
<1>3. \A k \in D : \A f : (k # 0 => f[k - 1] \in V) => Value(k, f) \in V
  <2> SUFFICES ASSUME NEW k \in D, NEW f, k # 0 => f[k - 1] \in V
               PROVE  Value(k, f) \in V
    OBVIOUS
  <2>1. k # 0 => r(k) \in Rev
    BY <1>2
  <2> HIDE DEF r, Sends
  <2>2. k # 0 => Append(f[k - 1], r(k)) \in V
    BY <2>1
  <2> QED  BY <2>2
<1>4. \E f : Upto(f)
  <2> DEFINE body == [z \in D \X [D -> V] |-> Value(z[1], z[2])]
  <2>1. ASSUME NEW k \in D, NEW g \in [D -> V]
        PROVE  body[<<k, g>>] = Value(k, g) /\ Value(k, g) \in V
    <3>1. k # 0 => g[k - 1] \in V
      <4> HIDE DEF V, D
      <4> QED  BY <1>2
    <3> HIDE DEF Value, V, D
    <3> QED  BY <1>3, <3>1
  <2>2. body \in [D \X [D -> V] -> V]
    <3> HIDE DEF Value, V, D
    <3> QED  BY <2>1
  <2>3. ASSUME NEW k \in D, NEW g \in [D -> V], NEW h \in [D -> V],
               \A y \in D : id[y] < id[k] => g[y] = h[y]
        PROVE  body[<<k, g>>] = body[<<k, h>>]
    <3>1. k # 0 => g[k - 1] = h[k - 1]
      BY <1>2, <2>3
    <3>2. Value(k, g) = Value(k, h)
      <4> HIDE DEF Sends, r
      <4> QED  BY <3>1
    <3> HIDE DEF Value, body, V, D
    <3> QED  BY <2>1, <3>2
  <2>4. Recursion(D, V, n, id, body)
    <3>1. id \in [D -> 0 .. n]
      OBVIOUS
    <3> HIDE DEF body, V, D, n, id
    <3> QED  BY <1>2, <2>2, <2>3, <3>1 DEF Recursion
  <2>5. PICK g : Solves(g, D, V, body)
    <3>1. <<>> \in V
      OBVIOUS
    <3> HIDE DEF body, V, D, n, id
    <3> QED  BY <2>4, <3>1, RecursionExists
  <2>6. g = [k \in D |-> Value(k, g)]
    <3> HIDE DEF body, Value, V, D
    <3> QED  BY <2>1, <2>5 DEF Solves
  <2> QED  BY <2>6
<1>5. PICK f : f = CHOOSE g : Upto(g)
  OBVIOUS
<1>6. Upto(f)
  <2> HIDE DEF Upto
  <2> QED  BY <1>4, <1>5
<1>7. s = IF limit = 0 \/ limit > Len(f[n]) THEN f[n] ELSE SubSeq(f[n], 1, limit)
  BY <1>5 DEF ServerLog
<1>8. \A k \in D : f[k] = Value(k, f)
  BY <1>6
<1>9. Count(start, end) = n /\ \A k : At(start, end, k) = r(k)
  BY DEF Count, At, Stride
<1>10. Built(f, p, start, end)
  <2> HIDE DEF n
  <2>1. \A k \in 0 .. n : f[k] = Value(k, f)
    BY <1>8
  <2> QED  BY <1>9, <2>1 DEF Built
<1>11. s = Cut(f[n], limit)
  BY <1>7 DEF Cut
<1> HIDE DEF n, r
<1> QED  BY <1>2, <1>9, <1>10, <1>11

\* What the server sends is in Rev and leaves nothing out, down to end, unless it
\* stops at the limit.
LEMMA ServerLogListed ==
  ASSUME changes \in Histories, NEW p \in Path, NEW start \in Rev, NEW end \in Rev,
         NEW limit \in Nat, NEW s, s = ServerLog(p, start, end, limit)
  PROVE  /\ s \in Seq(Rev) /\ GapFree(p, start, s)
         /\ \/ limit # 0 /\ Len(s) = limit
            \/ Silent(p, Larger(end, 1) - 1, Beyond(start, s))
<1> DEFINE step == IF start >= end THEN -1 ELSE 1
           n == (end - start) * step + 1
           r(k) == start + (k - 1) * step
           Sends(k) == Touches(p, r(k)) /\ r(k) >= Birth(p)
           Value(k, f) == IF k = 0 THEN <<>>
                         ELSE IF Sends(k) THEN Append(f[k - 1], r(k)) ELSE f[k - 1]
           D == 0 .. n
           id == [k \in D |-> k]
<1>1. start \in Nat /\ end \in Nat /\ MaxRev \in Nat /\ start <= MaxRev /\ end <= MaxRev
  BY SkipAssumption DEF SkipAssumption, Rev
<1>0. Count(start, end) = n /\ \A k : At(start, end, k) = r(k)
  BY DEF Count, At, Stride
<1>2. /\ n \in Nat
      /\ \A k \in D \ {0} : k - 1 \in D /\ r(k) \in Rev
  BY <1>0, ServerLogBuilt
<1>5. PICK f : Built(f, p, start, end) /\ s = Cut(f[Count(start, end)], limit)
  BY ServerLogBuilt
<1>7. s = IF limit = 0 \/ limit > Len(f[n]) THEN f[n] ELSE SubSeq(f[n], 1, limit)
  <2> HIDE DEF n
  <2> QED  BY <1>0, <1>5 DEF Cut
<1>8. \A k \in D : f[k] = Value(k, f)
  <2> HIDE DEF n, r
  <2> QED  BY <1>0, <1>5 DEF Built
<1>9. /\ f[n] \in Seq(Rev) /\ GapFree(p, start, f[n])
      /\ Silent(p, Larger(end, 1) - 1, Beyond(start, f[n]))
  <2>1. CASE start >= end
    <3>1. step = -1 /\ n = start - end + 1
      BY <1>1, <2>1
    <3>2. \A k \in D : r(k) = start + 1 - k
      BY <1>1, <3>1
    <3> DEFINE T == {k \in D : Listed(p, start, start - k, f[k])}
    <3>3. ASSUME NEW k \in D, \A y \in D : id[y] < id[k] => y \in T
          PROVE  k \in T
      <4>1. CASE k = 0
        <5>1. f[k] = <<>>
          BY <1>8, <4>1
        <5>2. Listed(p, start, start, <<>>)
          BY <1>1 DEF Listed, GapFree, Silent, Beyond
        <5>3. start - k = start
          BY <1>1, <4>1
        <5> QED  BY <5>1, <5>2, <5>3
      <4>2. CASE k # 0
        <5>1. k - 1 \in T
          BY <1>2, <3>3, <4>2
        <5>2. PICK lo : lo = r(k)
          OBVIOUS
        <5>3. lo \in Rev /\ lo = start - (k - 1) /\ start - k = lo - 1 /\ lo \in Int
          BY <1>1, <1>2, <3>2, <4>2, <5>2 DEF Rev
        <5>4. PICK t : t = f[k - 1]
          OBVIOUS
        <5>5. Listed(p, start, lo, t)
          BY <5>1, <5>3, <5>4
        <5>6. f[k] = IF Touches(p, lo) /\ lo >= Birth(p) THEN Append(t, lo) ELSE t
          BY <1>8, <4>2, <5>2, <5>4
        <5>7. Touches(p, lo) => lo >= Birth(p)
          <6>1. Birth(p) \in Int
            <7>1. CASE p = Root
              BY <7>1 DEF Birth
            <7>2. CASE p # Root
              BY <7>2, BirthIs
            <7> QED  BY <7>1, <7>2
          <6> QED  BY <5>3, <6>1, BornFirst
        <5> HIDE DEF Value, r, Sends
        <5>8. Listed(p, start, lo - 1, f[k])
          BY <5>3, <5>5, <5>6, <5>7, ListedMore
        <5> QED  BY <5>3, <5>8
      <4> QED  BY <4>1, <4>2
    <3>4. \A k \in D : k \in T
      <4>1. id \in [D -> Nat]
        BY <1>2
      <4> HIDE DEF D, T, id
      <4> QED  BY <3>3, <4>1, FromBelow
    <3>5. n \in T
      BY <1>2, <3>4
    <3>6. Listed(p, start, end - 1, f[n])
      <4>1. start - n = end - 1
        BY <1>1, <3>1
      <4> HIDE DEF n
      <4> QED  BY <3>5, <4>1
    <3> HIDE DEF n
    <3>7. PICK u : u = Beyond(start, f[n])
      OBVIOUS
    <3>8. Silent(p, end - 1, u)
      BY <3>6, <3>7 DEF Listed
    <3>9. Silent(p, Larger(end, 1) - 1, u)
      BY <1>1, <3>8 DEF Silent, Larger, Rev
    <3> QED  BY <3>6, <3>7, <3>9 DEF Listed
  <2>2. CASE ~ (start >= end)
    <3>1. step = 1 /\ n = end - start + 1
      BY <1>1, <2>2
    <3>2. \A k \in D : r(k) = start + k - 1
      BY <1>1, <3>1
    <3> DEFINE Upwards(k, t) ==
                 /\ t \in Seq(Rev)
                 /\ \A j \in 1 .. Len(t) : /\ start <= t[j] /\ t[j] <= start + k - 1
                                           /\ j # 1 => t[j - 1] <= t[j]
               T == {k \in D : Upwards(k, f[k])}
    <3>3. ASSUME NEW k \in D, \A y \in D : id[y] < id[k] => y \in T
          PROVE  k \in T
      <4>1. CASE k = 0
        <5>1. f[k] = <<>>
          BY <1>8, <4>1
        <5>2. Upwards(k, <<>>)
          OBVIOUS
        <5> QED  BY <5>1, <5>2
      <4>2. CASE k # 0
        <5>1. k - 1 \in T /\ k \in Nat
          BY <1>2, <3>3, <4>2
        <5>2. PICK hi : hi = r(k)
          OBVIOUS
        <5>3. hi \in Rev /\ hi = start + k - 1 /\ hi \in Nat /\ start <= hi
          <6>1. hi \in Rev /\ hi = start + k - 1
            <7> HIDE DEF D, r
            <7> QED  BY <1>2, <3>2, <4>2, <5>2
          <6> QED  BY <1>1, <4>2, <5>1, <6>1 DEF Rev
        <5>4. PICK t : t = f[k - 1]
          OBVIOUS
        <5>5. Upwards(k - 1, t)
          BY <5>1, <5>4
        <5>6. f[k] = Append(t, hi) \/ f[k] = t
          BY <1>8, <4>2, <5>2, <5>4
        <5> HIDE DEF Value, r, Sends
        <5>7. Upwards(k, t)
          BY <1>1, <5>1, <5>5 DEF Rev
        <5>8. Upwards(k, Append(t, hi))
          <6>1. PICK a : a = Append(t, hi)
            OBVIOUS
          <6>2. /\ a \in Seq(Rev) /\ Len(a) = Len(t) + 1 /\ a[Len(a)] = hi
                /\ \A j \in 1 .. Len(t) : a[j] = t[j]
                /\ Len(t) \in Nat
            BY <5>3, <5>5, <6>1
          <6>3. ASSUME NEW j \in 1 .. Len(a)
                PROVE  /\ start <= a[j] /\ a[j] <= start + k - 1
                       /\ j # 1 => a[j - 1] <= a[j]
            <7>1. CASE j <= Len(t)
              <8>1. a[j] = t[j] /\ (j # 1 => a[j - 1] = t[j - 1])
                BY <6>2, <7>1
              <8>2. j \in 1 .. Len(t)
                BY <6>2, <7>1
              <8> QED  BY <5>7, <8>1, <8>2
            <7>2. CASE j = Len(t) + 1
              <8>1. a[j] = hi
                BY <6>2, <7>2
              <8>2. j # 1 => a[j - 1] = t[Len(t)] /\ Len(t) \in 1 .. Len(t)
                BY <6>2, <7>2
              <8>3. j # 1 => t[Len(t)] <= start + k - 1
                BY <5>7, <8>2
              <8> QED  BY <1>1, <5>1, <5>3, <8>1, <8>2, <8>3
            <7> QED  BY <6>2, <7>1, <7>2
          <6> QED  BY <6>1, <6>2, <6>3
        <5> QED  BY <5>6, <5>7, <5>8
      <4> QED  BY <4>1, <4>2
    <3>4. \A k \in D : k \in T
      <4>1. id \in [D -> Nat]
        BY <1>2
      <4> HIDE DEF D, T, id
      <4> QED  BY <3>3, <4>1, FromBelow
    <3>5. PICK t : t = f[n]
      OBVIOUS
    <3>6. Upwards(n, t) /\ start + n - 1 = end
      BY <1>1, <1>2, <3>1, <3>4, <3>5
    <3> HIDE DEF n
    <3>7. /\ t \in Seq(Rev)
          /\ \A j \in 1 .. Len(t) : /\ start <= t[j] /\ t[j] <= end
                                    /\ j # 1 => t[j - 1] <= t[j]
      BY <3>6
    <3>8. \A j \in 1 .. Len(t) : t[j] \in Nat /\ (j # 1 => t[j - 1] \in Nat)
      <4>1. \A j \in 1 .. Len(t) : t[j] \in Rev /\ (j # 1 => j - 1 \in 1 .. Len(t))
        BY <3>7
      <4> QED  BY <4>1 DEF Rev
    <3>9. GapFree(p, start, t)
      BY <1>1, <3>7, <3>8 DEF GapFree, Silent, Rev
    <3>10. Beyond(start, t) \in Int /\ Beyond(start, t) <= end - 1
      <4>1. CASE t = <<>>
        BY <1>1, <2>2, <4>1 DEF Beyond
      <4>2. CASE t # <<>>
        <5>1. Len(t) \in 1 .. Len(t)
          BY <3>7, <4>2
        <5> QED  BY <1>1, <3>7, <3>8, <4>2, <5>1 DEF Beyond
      <4> QED  BY <4>1, <4>2
    <3>11. Silent(p, Larger(end, 1) - 1, Beyond(start, t))
      BY <1>1, <3>10 DEF Silent, Larger, Rev
    <3> QED  BY <3>5, <3>7, <3>9, <3>11
  <2> QED  BY <2>1, <2>2
<1>10. PICK all : all = f[n]
  OBVIOUS
<1> HIDE DEF n
<1>11. CASE limit = 0 \/ limit > Len(all)
  BY <1>7, <1>9, <1>10, <1>11
<1>12. CASE ~ (limit = 0 \/ limit > Len(all))
  <2>1. s = SubSeq(all, 1, limit)
    BY <1>7, <1>10, <1>12
  <2>2. Len(all) \in Nat /\ limit <= Len(all) /\ limit > 0
    BY <1>9, <1>10, <1>12
  <2>3. /\ s \in Seq(Rev) /\ Len(s) = limit
        /\ \A k \in 1 .. limit : s[k] = all[k]
    BY <1>9, <1>10, <2>1, <2>2
  <2>4. GapFree(p, start, s)
    <3> SUFFICES ASSUME NEW k \in 1 .. limit
                 PROVE  Silent(p, s[k], IF k = 1 THEN start ELSE s[k - 1] - 1)
      BY <2>3 DEF GapFree
    <3>1. s[k] = all[k] /\ (k # 1 => s[k - 1] = all[k - 1])
      BY <2>3
    <3>2. k \in 1 .. Len(all)
      BY <2>2
    <3> QED  BY <1>9, <1>10, <3>1, <3>2 DEF GapFree
  <2> QED  BY <2>2, <2>3, <2>4
<1> QED  BY <1>11, <1>12

-----------------------------------------------------------------------------
(* The iterators of CLogIteratorBase *)

\* The cache holds data of the repository, and skip ranges that are right.  None of
\* them begins with revision 0.
CacheOK(c) ==
  /\ c \in [have : SUBSET Rev, props : SUBSET Rev, ranges : [Path -> Ranges]]
  /\ c.props \subseteq c.have
  /\ \A p \in Path : \A x \in Rev : Covers(c.ranges[p], x) => ~ Touches(p, x)
  /\ \A p \in Path : ~ Covers(c.ranges[p], 0)

\* What iterators and revisions range over, for the solvers.
LEMMA Positions ==
  /\ MaxRev \in Nat /\ -1 \in Position /\ NO_REVISION = -1
  /\ \A x : x \in Position <=> x \in Int /\ -1 <= x /\ x <= MaxRev + 2
  /\ \A x : x \in Valid <=> x \in Nat /\ x <= MaxRev + 2
  /\ \A x : x \in Rev <=> x \in Nat /\ x <= MaxRev
  /\ [x \in Position |-> x + 1] \in [Position -> 0 .. MaxRev + 3]
  /\ [x \in Valid |-> x] \in [Valid -> 0 .. MaxRev + 2]
BY SkipAssumption DEF SkipAssumption, Position, Valid, Rev, NO_REVISION

\* AdvanceOneStep passes only revisions that do not change the path: those in its
\* skip ranges, some of which may have been cached since.  It stops at data, or where
\* no skip range leads on.
LEMMA StepPasses ==
  ASSUME changes \in Histories, NEW c, CacheOK(c), NEW p \in Path, NEW r \in Valid,
         NEW y, y = AdvanceOneStep(c, p, r)
  PROVE  /\ y \in Position /\ y < r
         /\ \A z \in Rev : y < z /\ z < r => ~ Touches(p, z)
         /\ Missing(c, y) => GetPreviousRevision(c.ranges, Base(c, p), y) = NO_REVISION
<1> DEFINE b == Base(c, p)
           Next1(x) == GetPreviousRevision(c.ranges, b, x)
           stop == {x \in Position : ~ Missing(c, x) \/ Next1(x) = NO_REVISION}
           val == [x \in Position |-> x]
           next == [x \in Position |-> Next1(x)]
           m == [x \in Position |-> x + 1]
           Skip(f) == f = [x \in Position |->
                             IF ~ Missing(c, x) \/ Next1(x) = NO_REVISION THEN x ELSE f[Next1(x)]]
           Quiet == {q \in Path \X Int : q[2] \in Rev => ~ Touches(q[1], q[2])}
<1>1. b \in Path /\ b \in Ancestors[p]
  BY BaseNearest
<1>2. ASSUME NEW x \in Position, Next1(x) # NO_REVISION
      PROVE  /\ Next1(x) \in Position /\ Next1(x) < x
             /\ \A z \in Rev : Next1(x) < z /\ z <= x => ~ Touches(p, z)
  <2>1. \A q \in Path, y1 \in Int : Covers(c.ranges[q], y1) => <<q, y1>> \in Quiet
    BY DEF CacheOK
  <2>2. \A q \in Path \ {Root}, y1 \in Int : <<Parent[q], y1>> \in Quiet => <<q, y1>> \in Quiet
    <3> SUFFICES ASSUME NEW q \in Path \ {Root}, NEW y1 \in Rev, Touches(q, y1)
                 PROVE  Touches(Parent[q], y1)
      BY PathTree, Positions
    <3>1. Parent[q] \in Ancestors[q]
      BY AncestorsDef, AncestorsOrder, PathTree
    <3> QED  BY <3>1, TouchesParent
  <2>3. PICK n : n = Next1(x)
    OBVIOUS
  <2>4. \/ n = NO_REVISION
        \/ /\ n \in Position \cap Nat /\ n < x
           /\ \A z \in n + 1 .. x : <<b, z>> \in Quiet
    <3>1. c.ranges \in [Path -> Ranges]
      BY DEF CacheOK
    <3> HIDE DEF Quiet, b
    <3> QED  BY <1>1, <2>1, <2>2, <2>3, <3>1, GetPreviousSound
  <2>5. ASSUME NEW z \in Rev, n < z, z <= x  PROVE ~ Touches(p, z)
    <3>1. <<b, z>> \in Quiet
      BY <1>2, <2>3, <2>4, <2>5, Positions
    <3>2. ~ Touches(b, z)
      BY <3>1
    <3> QED  BY <1>1, <3>2, TouchesParent
  <2> HIDE DEF Next1
  <2> QED  BY <1>2, <2>3, <2>4, <2>5
<1>3. Descends(Position, MaxRev + 3, m, stop, next)
  <2>1. ASSUME NEW x \in Position, x \notin stop
        PROVE  next[x] \in Position /\ m[next[x]] < m[x]
    <3>1. Next1(x) \in Position /\ Next1(x) < x
      BY <1>2, <2>1
    <3> HIDE DEF Next1
    <3> QED  BY <3>1, Positions
  <2> HIDE DEF stop, next
  <2> QED  BY <2>1, Positions DEF Descends
<1>4. ASSUME NEW f  PROVE Loops(f, Position, stop, val, next) <=> Skip(f)
  <2> HIDE DEF Next1
  <2>1. \A x \in Position : x \in stop <=> ~ Missing(c, x) \/ Next1(x) = NO_REVISION
    OBVIOUS
  <2> HIDE DEF stop
  <2>2. [x \in Position |-> IF x \in stop THEN val[x] ELSE f[next[x]]]
          = [x \in Position |->
               IF ~ Missing(c, x) \/ Next1(x) = NO_REVISION THEN x ELSE f[Next1(x)]]
    BY <2>1
  <2> QED  BY <2>2 DEF Loops
<1>5. PICK f : f = CHOOSE g : Skip(g)
  OBVIOUS
<1>6. Loops(f, Position, stop, val, next)
  <2> HIDE DEF Skip, stop, val, next, m
  <2>1. \E g : Skip(g)
    BY <1>3, <1>4, LoopExists
  <2> QED  BY <1>4, <1>5, <2>1
<1> DEFINE Rel == {q \in Position \X Position :
                     /\ q[2] <= q[1] /\ q[2] \in stop
                     /\ \A z \in Rev : q[2] < z /\ z <= q[1] => ~ Touches(p, z)}
<1>7. \A x \in Position : <<x, f[x]>> \in Rel
  <2>1. \A x \in Position : x \in stop => <<x, val[x]>> \in Rel
    <3> HIDE DEF stop
    <3> QED  BY Positions
  <2>2. ASSUME NEW x \in Position, x \notin stop, <<next[x], f[next[x]]>> \in Rel
        PROVE  <<x, f[next[x]]>> \in Rel
    <3>1. PICK n : n = Next1(x)
      OBVIOUS
    <3>2. PICK v : v = f[n]
      OBVIOUS
    <3>3. next[x] = n
      BY <3>1
    <3>4. /\ n \in Position /\ n < x
          /\ \A z \in Rev : n < z /\ z <= x => ~ Touches(p, z)
      BY <1>2, <2>2, <3>1
    <3>6. <<n, v>> \in Rel
      BY <2>2, <3>2, <3>3
    <3> HIDE DEF stop
    <3> QED  BY <3>1, <3>2, <3>3, <3>4, <3>6, Positions
  <2> HIDE DEF Rel, stop, val, next, m
  <2> QED  BY <1>3, <1>6, <2>1, <2>2, LoopRelates
<1>8. y = f[r - 1] /\ r - 1 \in Position /\ r \in Nat
  BY <1>5, Positions DEF AdvanceOneStep
<1>9. <<r - 1, y>> \in Rel
  BY <1>7, <1>8
<1>10. y \in stop
  BY <1>9
<1>11. Missing(c, y) => GetPreviousRevision(c.ranges, Base(c, p), y) = NO_REVISION
  BY <1>10
<1> HIDE DEF stop
<1> QED  BY <1>8, <1>9, <1>11, Positions

\* Two paths that are above each other are the same.
LEMMA AncestorsEqual ==
  ASSUME NEW p \in Path, NEW q \in Ancestors[p], p \in Ancestors[q]
  PROVE  q = p
<1>1. PICK m \in [Path -> Nat] : \A x \in Path \ {Root} : m[Parent[x]] < m[x]
  BY PathTree
<1> DEFINE T == {x \in Path : \A a \in Ancestors[x] : a # x => m[a] < m[x]}
<1>2. ASSUME NEW x \in Path, \A y \in Path : m[y] < m[x] => y \in T
      PROVE  x \in T
  <2>1. CASE x = Root
    BY <2>1, AncestorsRoot
  <2>2. CASE x # Root
    <3>1. /\ Parent[x] \in T /\ Ancestors[x] = {x} \cup Ancestors[Parent[x]]
          /\ m[Parent[x]] < m[x] /\ Ancestors[Parent[x]] \subseteq Path
      BY <1>1, <1>2, <2>2, AncestorsDef, PathTree
    <3>2. ASSUME NEW a \in Ancestors[Parent[x]]  PROVE m[a] < m[x]
      <4>1. m[a] \in Nat /\ m[x] \in Nat /\ m[Parent[x]] \in Nat
        BY <2>2, <3>1, PathTree
      <4> QED  BY <3>1, <4>1
    <3> QED  BY <3>1, <3>2
  <2> QED  BY <2>1, <2>2
<1>3. \A x \in Path : x \in T
  <2> HIDE DEF T
  <2> QED  BY <1>1, <1>2, FromBelow
<1>4. q \in Path
  BY AncestorsDef
<1>5. ASSUME q # p  PROVE FALSE
  <2>1. m[p] < m[q] /\ m[q] < m[p]
    BY <1>3, <1>4, <1>5
  <2>2. m[p] \in Nat /\ m[q] \in Nat
    BY <1>4
  <2> QED  BY <2>1, <2>2
<1> QED  BY <1>5

\* The base path of a path that the dictionary knows is the path itself, and a path is
\* known as soon as the cache has a revision that changes it.
LEMMA KnownPath ==
  ASSUME changes \in Histories, NEW c, NEW p \in Path
  PROVE  /\ p \in Known(c) => Base(c, p) = p
         /\ \A r \in c.have \cap Rev : r > 0 \/ p = Root =>
              (Touches(p, r) => p \in Known(c))
<1>1. ASSUME p \in Known(c)  PROVE Base(c, p) = p
  <2>1. p \in Ancestors[Base(c, p)] /\ Base(c, p) \in Ancestors[p] /\ Base(c, p) \in Path
    BY <1>1, BaseNearest, AncestorsOrder
  <2> QED  BY <2>1, AncestorsEqual
<1>2. ASSUME NEW r \in c.have \cap Rev, r > 0 \/ p = Root, Touches(p, r)
      PROVE  p \in Known(c)
  BY <1>2, Positions DEF Touches, Known
<1> QED  BY <1>1, <1>2

\* PathInRevision says so of every cached revision that changes the path.
LEMMA InRevision ==
  ASSUME changes \in Histories, NEW c, CacheOK(c), NEW p \in Path, NEW r \in c.have,
         r > 0, Touches(p, r)
  PROVE  PathInRevision(c, p, r)
<1>1. r \in c.have \cap Rev
  BY DEF CacheOK
<1>2. p \in Known(c)
  BY <1>1, KnownPath
<1>3. Base(c, p) = p
  BY <1>2, KnownPath
<1> QED  BY <1>3 DEF PathInRevision, FullyCached

\* From r down, y is the next that counts: nothing in between changes the path.
Passes(p, r, y) == \A z \in Rev : y < z /\ z <= r => ~ Touches(p, z)

\* Where an iterator comes to rest.
Stops(c, p, y) ==
  \/ y <= 0
  \/ Missing(c, y) /\ GetPreviousRevision(c.ranges, Base(c, p), y) = NO_REVISION
  \/ ~ Missing(c, y) /\ PathInRevision(c, p, y)

\* CLogIteratorBase::InternalAdvance never passes a revision that changes the path,
\* cached or not, whatever the skip ranges and the dictionary of paths hold.
THEOREM AdvanceSound ==
  ASSUME changes \in Histories, NEW c, CacheOK(c), NEW p \in Path, NEW r \in Valid,
         NEW y, y = InternalAdvance(c, p, r)
  PROVE  y \in Position /\ y < r /\ Passes(p, r - 1, y) /\ Stops(c, p, y)
<1> DEFINE One(x) == AdvanceOneStep(c, p, x)
           Goes(x) == One(x) > 0 /\ ~ Missing(c, One(x)) /\ ~ PathInRevision(c, p, One(x))
           stop == {x \in Valid : ~ Goes(x)}
           val == [x \in Valid |-> One(x)]
           m == [x \in Valid |-> x]
           Seek(f) == f = [x \in Valid |-> IF Goes(x) THEN f[One(x)] ELSE One(x)]
<1>1. ASSUME NEW x \in Valid
      PROVE  /\ One(x) \in Position /\ One(x) < x /\ Passes(p, x - 1, One(x))
             /\ Missing(c, One(x)) =>
                  GetPreviousRevision(c.ranges, Base(c, p), One(x)) = NO_REVISION
  <2>1. /\ One(x) \in Position /\ One(x) < x
        /\ \A z \in Rev : One(x) < z /\ z < x => ~ Touches(p, z)
        /\ Missing(c, One(x)) =>
             GetPreviousRevision(c.ranges, Base(c, p), One(x)) = NO_REVISION
    BY StepPasses
  <2> HIDE DEF One
  <2> QED  BY <2>1, Positions DEF Passes
<1>2. Descends(Valid, MaxRev + 2, m, stop, val)
  <2>1. ASSUME NEW x \in Valid, x \notin stop
        PROVE  val[x] \in Valid /\ m[val[x]] < m[x]
    <3>1. One(x) > 0
      BY <2>1
    <3> HIDE DEF One
    <3> QED  BY <1>1, <3>1, Positions
  <2> HIDE DEF stop, val
  <2> QED  BY <2>1, Positions DEF Descends
<1>3. ASSUME NEW f  PROVE Loops(f, Valid, stop, val, val) <=> Seek(f)
  <2>1. \A x \in Valid : x \in stop <=> ~ Goes(x)
    OBVIOUS
  <2> HIDE DEF stop, Goes, One
  <2>2. [x \in Valid |-> IF x \in stop THEN val[x] ELSE f[val[x]]]
          = [x \in Valid |-> IF Goes(x) THEN f[One(x)] ELSE One(x)]
    BY <2>1
  <2> QED  BY <2>2 DEF Loops
<1>4. PICK f : f = CHOOSE g : Seek(g)
  OBVIOUS
<1>5. Loops(f, Valid, stop, val, val)
  <2> HIDE DEF Seek, stop, val, m
  <2>1. \E g : Seek(g)
    BY <1>2, <1>3, LoopExists
  <2> QED  BY <1>3, <1>4, <2>1
<1> DEFINE Rel == {q \in Valid \X Position :
                     q[2] < q[1] /\ Passes(p, q[1] - 1, q[2]) /\ Stops(c, p, q[2])}
<1>6. \A x \in Valid : <<x, f[x]>> \in Rel
  <2>1. ASSUME NEW x \in Valid, x \in stop  PROVE <<x, val[x]>> \in Rel
    <3>1. Stops(c, p, One(x))
      <4>1. ~ Goes(x) /\ One(x) \in Int
        BY <1>1, <2>1, Positions
      <4> HIDE DEF One
      <4> QED  BY <1>1, <4>1 DEF Stops
    <3> HIDE DEF One
    <3> QED  BY <1>1, <3>1
  <2>2. ASSUME NEW x \in Valid, x \notin stop, <<val[x], f[val[x]]>> \in Rel
        PROVE  <<x, f[val[x]]>> \in Rel
    <3>1. PICK n : n = One(x)
      OBVIOUS
    <3>2. PICK v : v = f[n]
      OBVIOUS
    <3>3. val[x] = n
      BY <3>1
    <3>4. n \in Position /\ n < x /\ Passes(p, x - 1, n)
      BY <1>1, <3>1
    <3>5. n > 0 /\ n \in c.have /\ ~ PathInRevision(c, p, n)
      BY <2>2, <3>1 DEF Missing
    <3>6. ~ Touches(p, n)
      BY <3>5, InRevision
    <3>7. v \in Position /\ v < n /\ Passes(p, n - 1, v) /\ Stops(c, p, v)
      BY <2>2, <3>2, <3>3
    <3>8. Passes(p, x - 1, v)
      BY <3>4, <3>5, <3>6, <3>7, Positions DEF Passes
    <3> HIDE DEF val, stop
    <3> QED  BY <3>2, <3>3, <3>4, <3>7, <3>8, Positions
  <2> HIDE DEF Rel, stop, val, m
  <2> QED  BY <1>2, <1>5, <2>1, <2>2, LoopRelates
<1>7. y = f[r]
  BY <1>4 DEF InternalAdvance
<1>8. <<r, y>> \in Rel
  BY <1>6, <1>7
<1> QED  BY <1>8

\* So does CLogIteratorBase::Retry, from the revision that it is at.
LEMMA RetrySound ==
  ASSUME changes \in Histories, NEW c, CacheOK(c), NEW p \in Path,
         NEW r \in Position, r <= MaxRev + 1,
         NEW y, y = Retry(c, p, r)
  PROVE  /\ y \in Position /\ y <= r
         /\ IF r = 0 THEN y < 0 ELSE Passes(p, r, y)
         /\ Stops(c, p, y)
<1>1. PICK x : x = IF r = 0 THEN 0 ELSE r + 1
  OBVIOUS
<1>2. x \in Valid /\ y = InternalAdvance(c, p, x)
  BY <1>1, Positions DEF Retry
<1>3. y \in Position /\ y < x /\ Passes(p, x - 1, y) /\ Stops(c, p, y)
  BY <1>2, AdvanceSound
<1> QED  BY <1>1, <1>3, Positions DEF Passes

\* CLogIteratorBase::Advance ends the log where the path begins: nothing below
\* changes it either.
LEMMA AdvancePasses ==
  ASSUME changes \in Histories, NEW c, CacheOK(c), NEW p \in Path, NEW r \in Valid,
         NEW y, y = Advance(c, p, r)
  PROVE  /\ y \in Position /\ y < r
         /\ Passes(p, r - 1, y) /\ Stops(c, p, y)
<1>1. CASE r \in c.have /\ p \in Adds(r)
  <2>1. y = NO_REVISION
    BY <1>1 DEF Advance
  <2>2. ASSUME NEW z \in Rev, z < r  PROVE ~ Touches(p, z)
    <3>1. r = Birth(p)
      BY <1>1 DEF Adds
    <3>2. Touches(p, z) => r <= z
      BY <3>1, BornFirst
    <3> QED  BY <2>2, <3>2, Positions
  <2> QED  BY <2>1, <2>2, Positions DEF Passes, Stops
<1>2. CASE ~ (r \in c.have /\ p \in Adds(r))
  <2>1. y = InternalAdvance(c, p, r)
    BY <1>2 DEF Advance
  <2> QED  BY <2>1, AdvanceSound
<1> QED  BY <1>1, <1>2

-----------------------------------------------------------------------------
(* Where to stop a fetch *)

\* ToNextAvailableData moves down.
LEMMA ToAvailable ==
  ASSUME changes \in Histories, NEW c, CacheOK(c), NEW p \in Path, NEW r \in Valid,
         NEW y, y = ToNextAvailableData(c, p, r)
  PROVE  y \in Position /\ y < r
<1> DEFINE One(x) == AdvanceOneStep(c, p, x)
           Goes(x) == One(x) # NO_REVISION /\ Missing(c, One(x))
           stop == {x \in Valid : ~ Goes(x)}
           val == [x \in Valid |-> One(x)]
           m == [x \in Valid |-> x]
           Seek(f) == f = [x \in Valid |-> IF Goes(x) THEN f[One(x)] ELSE One(x)]
<1>1. ASSUME NEW x \in Valid
      PROVE  One(x) \in Position /\ One(x) < x
  BY StepPasses
<1>2. Descends(Valid, MaxRev + 2, m, stop, val)
  <2>1. ASSUME NEW x \in Valid, x \notin stop
        PROVE  val[x] \in Valid /\ m[val[x]] < m[x]
    <3>1. One(x) # NO_REVISION
      BY <2>1
    <3> HIDE DEF One
    <3> QED  BY <1>1, <3>1, Positions
  <2> HIDE DEF stop, val
  <2> QED  BY <2>1, Positions DEF Descends
<1>3. ASSUME NEW f  PROVE Loops(f, Valid, stop, val, val) <=> Seek(f)
  <2>1. \A x \in Valid : x \in stop <=> ~ Goes(x)
    OBVIOUS
  <2> HIDE DEF stop, Goes, One
  <2>2. [x \in Valid |-> IF x \in stop THEN val[x] ELSE f[val[x]]]
          = [x \in Valid |-> IF Goes(x) THEN f[One(x)] ELSE One(x)]
    BY <2>1
  <2> QED  BY <2>2 DEF Loops
<1>4. PICK f : f = CHOOSE g : Seek(g)
  OBVIOUS
<1>5. Loops(f, Valid, stop, val, val)
  <2> HIDE DEF Seek, stop, val, m
  <2>1. \E g : Seek(g)
    BY <1>2, <1>3, LoopExists
  <2> QED  BY <1>3, <1>4, <2>1
<1> DEFINE Rel == {q \in Valid \X Position : q[2] < q[1]}
<1>6. \A x \in Valid : <<x, f[x]>> \in Rel
  <2>1. ASSUME NEW x \in Valid, x \in stop  PROVE <<x, val[x]>> \in Rel
    <3> HIDE DEF One
    <3> QED  BY <1>1
  <2>2. ASSUME NEW x \in Valid, x \notin stop, <<val[x], f[val[x]]>> \in Rel
        PROVE  <<x, f[val[x]]>> \in Rel
    <3>1. PICK v : v = f[val[x]]
      OBVIOUS
    <3>2. PICK n : n = val[x]
      OBVIOUS
    <3>3. n \in Valid /\ n < x
      <4> HIDE DEF stop, val
      <4> QED  BY <1>2, <2>2, <3>2 DEF Descends
    <3>4. v \in Position /\ v < n
      BY <2>2, <3>1, <3>2
    <3> HIDE DEF val, stop
    <3> QED  BY <3>1, <3>3, <3>4, Positions
  <2> HIDE DEF Rel, stop, val, m
  <2> QED  BY <1>2, <1>5, <2>1, <2>2, LoopRelates
<1>7. y = f[r]
  BY <1>4 DEF ToNextAvailableData
<1>8. <<r, y>> \in Rel
  BY <1>6, <1>7
<1> QED  BY <1>8

\* Data are there for a revision that the cache holds.
LEMMA AvailableIn ==
  ASSUME NEW c, CacheOK(c), NEW props, NEW r, Available(c, props, r)
  PROVE  r \in Rev
BY DEF Available, CacheOK

\* NextAvailableRevision ends in front of data below start, or at end.
LEMMA NextAvailableType ==
  ASSUME changes \in Histories, NEW c, CacheOK(c), NEW p \in Path, NEW start \in Rev,
         NEW end \in Rev, NEW props, end <= start, ~ Available(c, props, start),
         NEW y, y = NextAvailableRevision(c, p, start, end, props)
  PROVE  y \in -1 .. start /\ (y < end => y + 1 \in 0 .. start)
<1> DEFINE data(x) == {z \in end .. x : Available(c, props, z)}
           next == [x \in Position |-> Retry(c, p, Highest(data(x)))]
           stop == {x \in Position : Available(c, props, x) \/ data(x) = {}}
           val == [x \in Position |-> IF Available(c, props, x) THEN x + 1 ELSE end - 1]
           m == [x \in Position |-> x + 1]
           Search(f) == f = [x \in Position |->
                               IF Available(c, props, x) THEN x + 1
                               ELSE IF data(x) = {} THEN end - 1
                               ELSE f[Retry(c, p, Highest(data(x)))]]
<1>1. ASSUME NEW x \in Position, x \notin stop
      PROVE  next[x] \in Position /\ next[x] < x
  <2>1. data(x) \in SUBSET Int /\ data(x) # {} /\ x \in Int /\ \A z \in data(x) : z <= x
    BY <1>1, Positions
  <2>2. PICK h : h = Highest(data(x))
    OBVIOUS
  <2>3. h \in data(x)
    <3> HIDE DEF data
    <3> QED  BY <2>1, <2>2, HighestExists
  <2>4. h \in Rev /\ h < x
    <3>1. h # x /\ h <= x /\ h \in Rev
      BY <1>1, <2>3, AvailableIn, Positions
    <3> QED  BY <2>1, <3>1, Positions
  <2>5. Retry(c, p, h) \in Position /\ Retry(c, p, h) <= h
    BY <2>4, RetrySound, Positions
  <2>6. next[x] = Retry(c, p, h)
    BY <2>2
  <2> HIDE DEF next, data
  <2> QED  BY <2>4, <2>5, <2>6, Positions
<1>2. Descends(Position, MaxRev + 3, m, stop, next)
  <2> HIDE DEF stop, next
  <2> QED  BY <1>1, Positions DEF Descends
<1>3. ASSUME NEW f  PROVE Loops(f, Position, stop, val, next) <=> Search(f)
  <2>1. \A x \in Position : x \in stop <=> Available(c, props, x) \/ data(x) = {}
    OBVIOUS
  <2> HIDE DEF stop, data
  <2>2. [x \in Position |-> IF x \in stop THEN val[x] ELSE f[next[x]]]
          = [x \in Position |-> IF Available(c, props, x) THEN x + 1
                               ELSE IF data(x) = {} THEN end - 1
                               ELSE f[Retry(c, p, Highest(data(x)))]]
    BY <2>1
  <2> QED  BY <2>2 DEF Loops
<1>4. PICK f : f = CHOOSE g : Search(g)
  OBVIOUS
<1>5. Loops(f, Position, stop, val, next)
  <2> HIDE DEF Search, stop, val, m, next
  <2>1. \E g : Search(g)
    BY <1>2, <1>3, LoopExists
  <2> QED  BY <1>3, <1>4, <2>1
<1> DEFINE Rel == {q \in Position \X Int :
                     q[1] < start => /\ q[2] \in -1 .. start
                                     /\ q[2] < end => q[2] + 1 \in 0 .. start}
<1>6. \A x \in Position : <<x, f[x]>> \in Rel
  <2>1. ASSUME NEW x \in Position, x \in stop  PROVE <<x, val[x]>> \in Rel
    <3>1. CASE Available(c, props, x)
      <4>1. x \in Rev /\ val[x] = x + 1
        BY <3>1, AvailableIn
      <4> HIDE DEF val, stop
      <4> QED  BY <4>1, Positions
    <3>2. CASE ~ Available(c, props, x)
      <4>1. val[x] = end - 1
        BY <3>2
      <4> HIDE DEF val, stop
      <4> QED  BY <4>1, Positions
    <3> QED  BY <3>1, <3>2
  <2>2. ASSUME NEW x \in Position, x \notin stop, <<next[x], f[next[x]]>> \in Rel
        PROVE  <<x, f[next[x]]>> \in Rel
    <3> HIDE DEF next, stop
    <3> QED  BY <1>1, <2>2, Positions
  <2> HIDE DEF Rel, stop, val, m, next
  <2> QED  BY <1>2, <1>5, <2>1, <2>2, LoopRelates
<1>7. y = f[Retry(c, p, start)]
  <2>1. ~ (start < end)
    BY Positions
  <2> QED  BY <1>4, <2>1 DEF NextAvailableRevision
<1>8. Retry(c, p, start) \in Position /\ Retry(c, p, start) <= start
  BY RetrySound, Positions
<1>9. CASE Retry(c, p, start) < start
  <2>1. <<Retry(c, p, start), y>> \in Rel
    BY <1>6, <1>7, <1>8
  <2> QED  BY <1>9, <2>1
<1>10. CASE Retry(c, p, start) = start
  <2>1. start \in Position /\ y = f[start]
    BY <1>7, <1>8, <1>10
  <2>2. CASE start \in stop
    <3>1. y = end - 1
      <4>1. y = val[start]
        <5> HIDE DEF stop, val, next
        <5> QED  BY <1>5, <2>1, <2>2 DEF Loops
      <4> QED  BY <2>1, <4>1
    <3> QED  BY <3>1, Positions
  <2>3. CASE start \notin stop
    <3>1. y = f[next[start]]
      <4> HIDE DEF stop, val, next
      <4> QED  BY <1>5, <2>1, <2>3 DEF Loops
    <3>2. next[start] \in Position /\ next[start] < start
      BY <1>1, <2>1, <2>3
    <3>3. <<next[start], y>> \in Rel
      <4> HIDE DEF Rel, next
      <4> QED  BY <1>6, <3>1, <3>2
    <3> HIDE DEF next
    <3> QED  BY <3>2, <3>3
  <2> QED  BY <2>2, <2>3
<1> QED  BY <1>8, <1>9, <1>10, Positions

\* FindOldestGap ends at or above revision 0.
LEMMA OldestGapType ==
  ASSUME changes \in Histories, NEW c, CacheOK(c), NEW p \in Path,
         NEW start \in Nat, start <= MaxRev + 1, NEW end \in Rev, NEW props,
         NEW y, y = FindOldestGap(c, p, start, end, props)
  PROVE  y \in Nat
<1> DEFINE D == Position \X (0 .. Tradeoff) \X Position
           Has(x) == Available(c, props, x)
           Ends(q) == \/ q[1] = NO_REVISION \/ q[2] = Tradeoff \/ q[1] < end
           On(q) == IF Has(q[1]) THEN <<Advance(c, p, q[1]), q[2] + 1, q[3]>>
                    ELSE <<Retry(c, p, q[1] - 1), q[2], q[1]>>
           stop == {q \in D : Ends(q)}
           val == [q \in D |-> IF q[1] = NO_REVISION \/ q[2] = Tradeoff \/ Has(q[1])
                               THEN q[3] ELSE q[1]]
           next == [q \in D |-> On(q)]
           m == [q \in D |-> q[1] + 1]
           Scan(f) == f = [q \in D |->
              LET it == q[1]  known == q[2]  gap == q[3]
              IN  IF it = NO_REVISION \/ known = Tradeoff THEN gap
                  ELSE IF Has(it)
                    THEN IF it < end THEN gap ELSE f[<<Advance(c, p, it), known + 1, gap>>]
                    ELSE IF it < end THEN it ELSE f[<<Retry(c, p, it - 1), known, it>>]]
<1>0. Tradeoff \in Nat
  BY LogAssumption DEF LogAssumption
<1>1. ASSUME NEW q \in D, q \notin stop
      PROVE  next[q] \in D /\ next[q][1] < q[1] /\ q[1] \in Nat /\ next[q][3] \in {q[1], q[3]}
  <2>1. PICK it \in Position, known \in 0 .. Tradeoff, gap \in Position : q = <<it, known, gap>>
    OBVIOUS
  <2>2. it # NO_REVISION /\ known # Tradeoff
    BY <1>1, <2>1
  <2>3. it \in Valid /\ it \in Nat /\ it - 1 \in Position /\ it - 1 <= MaxRev + 1
    BY <2>2, Positions
  <2>4. CASE Has(it)
    <3>1. PICK z : z = Advance(c, p, it)
      OBVIOUS
    <3>2. z \in Position /\ z < it
      BY <2>3, <3>1, AdvancePasses
    <3>3. next[q] = <<z, known + 1, gap>>
      BY <2>1, <2>4, <3>1
    <3>4. known + 1 \in 0 .. Tradeoff
      BY <1>0, <2>2
    <3> HIDE DEF next, stop, Has
    <3> QED  BY <2>1, <2>3, <3>2, <3>3, <3>4
  <2>5. CASE ~ Has(it)
    <3>1. PICK z : z = Retry(c, p, it - 1)
      OBVIOUS
    <3>2. z \in Position /\ z <= it - 1
      BY <2>3, <3>1, RetrySound
    <3>3. next[q] = <<z, known, it>>
      BY <2>1, <2>5, <3>1
    <3>4. z < it
      BY <2>3, <3>2, Positions
    <3> HIDE DEF next, stop, Has
    <3> QED  BY <2>1, <2>3, <3>2, <3>3, <3>4
  <2> QED  BY <2>4, <2>5
<1>2. Descends(D, MaxRev + 3, m, stop, next)
  <2>1. \A q \in D : q[1] + 1 \in 0 .. MaxRev + 3
    BY Positions
  <2>2. m \in [D -> 0 .. MaxRev + 3] /\ MaxRev + 3 \in Nat
    BY <2>1, Positions
  <2>3. ASSUME NEW q \in D, q \notin stop  PROVE next[q] \in D /\ m[next[q]] < m[q]
    <3>1. PICK n : n = next[q]
      OBVIOUS
    <3>2. n \in D /\ n[1] < q[1]
      BY <1>1, <2>3, <3>1
    <3>3. n[1] \in Int /\ q[1] \in Int
      BY <3>2, Positions
    <3> HIDE DEF next, stop
    <3> QED  BY <3>1, <3>2, <3>3
  <2> HIDE DEF D, m, next, stop
  <2> QED  BY <2>2, <2>3 DEF Descends
<1>3. ASSUME NEW f  PROVE Loops(f, D, stop, val, next) <=> Scan(f)
  <2> HIDE DEF Has
  <2>1. ASSUME NEW q \in D
        PROVE  (IF q \in stop THEN val[q] ELSE f[next[q]])
               = LET it == q[1]  known == q[2]  gap == q[3]
                 IN  IF it = NO_REVISION \/ known = Tradeoff THEN gap
                     ELSE IF Has(it)
                       THEN IF it < end THEN gap ELSE f[<<Advance(c, p, it), known + 1, gap>>]
                       ELSE IF it < end THEN it ELSE f[<<Retry(c, p, it - 1), known, it>>]
    OBVIOUS
  <2> HIDE DEF D, stop, val, next
  <2>2. [q \in D |-> IF q \in stop THEN val[q] ELSE f[next[q]]]
          = [q \in D |->
              LET it == q[1]  known == q[2]  gap == q[3]
              IN  IF it = NO_REVISION \/ known = Tradeoff THEN gap
                  ELSE IF Has(it)
                    THEN IF it < end THEN gap ELSE f[<<Advance(c, p, it), known + 1, gap>>]
                    ELSE IF it < end THEN it ELSE f[<<Retry(c, p, it - 1), known, it>>]]
    BY <2>1
  <2> QED  BY <2>2 DEF Loops
<1>4. PICK f : f = CHOOSE g : Scan(g)
  OBVIOUS
<1>5. Loops(f, D, stop, val, next)
  <2> HIDE DEF Scan, stop, val, m, next, D
  <2>1. \E g : Scan(g)
    BY <1>2, <1>3, LoopExists
  <2> QED  BY <1>3, <1>4, <2>1
<1> DEFINE Rel == {z \in D \X Int : z[1][3] \in Nat => z[2] \in Nat}
<1>6. \A q \in D : <<q, f[q]>> \in Rel
  <2>1. ASSUME NEW q \in D, q \in stop  PROVE <<q, val[q]>> \in Rel
    <3>1. PICK it \in Position, known \in 0 .. Tradeoff, gap \in Position : q = <<it, known, gap>>
      OBVIOUS
    <3>2. val[q] = IF it = NO_REVISION \/ known = Tradeoff \/ Has(it) THEN gap ELSE it
      BY <3>1
    <3> HIDE DEF val, stop, Has
    <3> QED  BY <3>1, <3>2, Positions
  <2>2. ASSUME NEW q \in D, q \notin stop, <<next[q], f[next[q]]>> \in Rel
        PROVE  <<q, f[next[q]]>> \in Rel
    <3>1. next[q][3] \in {q[1], q[3]} /\ q[1] \in Nat
      BY <1>1, <2>2
    <3> HIDE DEF next, stop
    <3> QED  BY <2>2, <3>1
  <2> HIDE DEF Rel, stop, val, m, next, D
  <2> QED  BY <1>2, <1>5, <2>1, <2>2, LoopRelates
<1>7. PICK x : x = Retry(c, p, start)
  OBVIOUS
<1>8. start \in Position /\ x \in Position
  <2>1. start \in Position
    BY Positions
  <2> QED  BY <1>7, <2>1, RetrySound
<1>9. <<x, 0, start>> \in D
  BY <1>0, <1>8
<1>10. y = f[<<x, 0, start>>]
  BY <1>4, <1>7 DEF FindOldestGap
<1>11. <<<<x, 0, start>>, y>> \in Rel
  BY <1>6, <1>9, <1>10
<1> QED  BY <1>11

\* FillLog asks for revisions between 0 and the one that is missing.
LEMMA FetchEndType ==
  ASSUME changes \in Histories, NEW c, CacheOK(c), NEW p \in Path, NEW start \in Rev,
         NEW end \in Rev, NEW props, end <= start, ~ Available(c, props, start),
         NEW y, y = FetchEnd(c, p, start, end, props)
  PROVE  y \in Rev /\ y <= start
<1>1. PICK n : n = NextAvailableRevision(c, p, start, end, props)
  OBVIOUS
<1>2. n \in -1 .. start /\ (n < end => n + 1 \in 0 .. start)
  BY <1>1, NextAvailableType
<1>3. PICK low : low = IF n < end THEN n + 1 ELSE FindOldestGap(c, p, n + 1, end, props)
  OBVIOUS
<1>4. y = Lowest({start, low})
  <2>1. n \in Position
    BY <1>2, Positions
  <2> QED  BY <1>1, <1>3, <2>1 DEF FetchEnd
<1>5. low \in Nat
  <2>1. CASE n < end
    BY <1>2, <1>3, <2>1
  <2>2. CASE ~ (n < end)
    <3>1. n + 1 \in Nat /\ n + 1 <= MaxRev + 1
      BY <1>2, <2>2, Positions
    <3> QED  BY <1>3, <2>2, <3>1, OldestGapType
  <2> QED  BY <2>1, <2>2
<1>6. {start, low} \in SUBSET Nat /\ {start, low} # {}
  BY <1>5, Positions
<1>7. y \in {start, low} /\ y <= start
  BY <1>4, <1>6, LowestExists
<1> QED  BY <1>5, <1>7, Positions

\* MakeRangeIterable asks for revisions of the range, and below.
LEMMA RangeGapType ==
  ASSUME changes \in Histories, NEW c, CacheOK(c), NEW b \in Path,
         NEW low \in Rev, NEW count \in Nat, low + count - 1 \in Rev,
         NEW y, y = RangeGap(c, b, low, count)
  PROVE  y # NO_REVISION => y \in Rev
<1> DEFINE stop == {x \in Position : x = NO_REVISION \/ Missing(c, x) \/ x < low}
           val == [x \in Position |-> IF x = NO_REVISION \/ Missing(c, x) THEN x ELSE NO_REVISION]
           next == [x \in Position |-> Advance(c, b, x)]
           m == [x \in Position |-> x + 1]
           Walk(f) == f = [x \in Position |->
                             IF x = NO_REVISION \/ Missing(c, x) THEN x
                             ELSE IF x < low THEN NO_REVISION
                             ELSE f[Advance(c, b, x)]]
<1>1. ASSUME NEW x \in Position, x \notin stop
      PROVE  next[x] \in Position /\ next[x] < x
  <2>1. x \in Valid /\ next[x] = Advance(c, b, x)
    BY <1>1, Positions
  <2> HIDE DEF next, stop
  <2> QED  BY <2>1, AdvancePasses
<1>2. Descends(Position, MaxRev + 3, m, stop, next)
  <2> HIDE DEF stop, next
  <2> QED  BY <1>1, Positions DEF Descends
<1>3. ASSUME NEW f  PROVE Loops(f, Position, stop, val, next) <=> Walk(f)
  <2>1. ASSUME NEW x \in Position
        PROVE  (IF x \in stop THEN val[x] ELSE f[next[x]])
               = IF x = NO_REVISION \/ Missing(c, x) THEN x
                 ELSE IF x < low THEN NO_REVISION
                 ELSE f[Advance(c, b, x)]
    OBVIOUS
  <2> HIDE DEF stop, val, next
  <2>2. [x \in Position |-> IF x \in stop THEN val[x] ELSE f[next[x]]]
          = [x \in Position |-> IF x = NO_REVISION \/ Missing(c, x) THEN x
                                ELSE IF x < low THEN NO_REVISION
                                ELSE f[Advance(c, b, x)]]
    BY <2>1
  <2> QED  BY <2>2 DEF Loops
<1>4. PICK f : f = CHOOSE g : Walk(g)
  OBVIOUS
<1>5. Loops(f, Position, stop, val, next)
  <2> HIDE DEF Walk, stop, val, m, next
  <2>1. \E g : Walk(g)
    BY <1>2, <1>3, LoopExists
  <2> QED  BY <1>3, <1>4, <2>1
<1> DEFINE Rel == {z \in Position \X Int : z[2] # NO_REVISION => z[2] \in Nat /\ z[2] <= z[1]}
<1>6. \A x \in Position : <<x, f[x]>> \in Rel
  <2>1. ASSUME NEW x \in Position, x \in stop  PROVE <<x, val[x]>> \in Rel
    <3> USE Positions
    <3>1. val[x] \in {x, NO_REVISION}
      OBVIOUS
    <3> HIDE DEF stop, val
    <3> QED  BY <3>1
  <2>2. ASSUME NEW x \in Position, x \notin stop, <<next[x], f[next[x]]>> \in Rel
        PROVE  <<x, f[next[x]]>> \in Rel
    <3> HIDE DEF next, stop
    <3> QED  BY <1>1, <2>2, Positions
  <2> HIDE DEF Rel, stop, val, m, next
  <2> QED  BY <1>2, <1>5, <2>1, <2>2, LoopRelates
<1>7. PICK top : top = low + count - 1
  OBVIOUS
<1>8. PICK x : x = Retry(c, b, top)
  OBVIOUS
<1>9. top \in Rev /\ top \in Position /\ top <= MaxRev + 1
  BY <1>7, Positions
<1>10. x \in Position /\ x <= top
  BY <1>8, <1>9, RetrySound
<1>11. y = f[x]
  BY <1>4, <1>7, <1>8 DEF RangeGap
<1>12. <<x, y>> \in Rel
  BY <1>6, <1>10, <1>11
<1> QED  BY <1>9, <1>10, <1>12, Positions

-----------------------------------------------------------------------------
(* The invariant behind SkipSound *)

\* The types of the variables.
QueryType ==
  [state : {"none", "running", "done", "refused", "failed"}, path : Path, start : Rev,
   end : Rev, limit : Nat, props : BOOLEAN, left : Nat, it : -1 .. MaxRev,
   lastReported : Int, sent : Seq(Rev)]

FillType ==
  [path : Path, base : Path, end : Rev, todo : Seq(Rev), limit : Nat, props : BOOLEAN,
   sends : BOOLEAN, count : Nat, firstNA : Rev, oldest : Int, update : SUBSET Rev,
   following : BOOLEAN, phase : {"log", "gap", "nested", "after"}, rev : Rev,
   final : BOOLEAN]

\* what the fetch has not yet heard of begins here
Unheard(f) == IF f.phase = "log" THEN f.firstNA ELSE Larger(f.rev - 1, 0)

\* The server leaves nothing out that is above the end of the fetch, unless it
\* stops at the limit.
FillRest(f) ==
  /\ GapFree(f.path, Unheard(f), f.todo)
  /\ \/ f.limit # 0 /\ f.count + Len(f.todo) >= f.limit
     \/ Silent(f.path, Larger(f.end, 1) - 1, Beyond(Unheard(f), f.todo))

\* The gap that is about to be marked is one.
FillOK(f) ==
  /\ f.phase = "log" => ~ f.final
  /\ f.final => f.todo = <<>>
  /\ f.following => /\ ~ f.final => FillRest(f)
                    /\ f.phase = "gap" => Silent(f.path, f.rev, f.firstNA)

\* The three parts of the invariant.
QueryInv == /\ query \in QueryType
            /\ Running /\ query.limit # 0 => query.left > 0
FillsInv == /\ fills \in Seq(FillType)
            /\ \A k \in 1 .. Len(fills) : /\ FillOK(fills[k])
                                          /\ fills[k].update \subseteq cache.have
                                          /\ k # 1 => fills[k].phase = "nested"
CacheInv == changes \in Histories /\ CacheOK(cache)

LogInv == CacheInv /\ QueryInv /\ FillsInv

-----------------------------------------------------------------------------

\* An empty list of skip ranges covers nothing.
LEMMA EmptyRanges == <<>> \in Ranges /\ \A x : ~ Covers(<<>>, x)
<1>1. DOMAIN <<>> = {}
  OBVIOUS
<1>2. <<>> \in [{} -> Nat \ {0}]
  OBVIOUS
<1> QED  BY <1>1, <1>2 DEF Ranges, Covers

\* WriteToCache for a revision
Written(c, r, new) ==
  [c EXCEPT !.have = @ \cup {r}, !.props = IF new THEN @ \cup {r} ELSE @]

\* A revision that is cached leaves the cache in order.
LEMMA WrittenOK ==
  ASSUME NEW c, CacheOK(c), NEW r \in Rev, NEW new \in BOOLEAN,
         NEW d, d = Written(c, r, new)
  PROVE  CacheOK(d) /\ d.have = c.have \cup {r}
BY DEF CacheOK, Written

\* Only the repository matters to these.
LEMMA HistoryStays ==
  ASSUME changes' = changes
  PROVE  /\ \A f : FillOK(f)' <=> FillOK(f)
         /\ \A c : CacheOK(c)' <=> CacheOK(c)
BY DEF FillOK, FillRest, GapFree, Beyond, Unheard, Silent, Touches, CacheOK

\* Update adds properties of revisions that are there, and takes skip ranges away.
LEMMA UpdateOK ==
  ASSUME NEW c, CacheOK(c), NEW revs, revs \subseteq c.have, NEW g \in BOOLEAN,
         NEW d, d = Update(c, revs, g)
  PROVE  CacheOK(d) /\ d.have = c.have
<1>1. CASE revs = {}
  BY <1>1 DEF Update
<1>2. CASE revs # {}
  <2>1. PICK rs : rs = [p \in Path |-> RemoveKnown(c.ranges[p], c.have)]
    OBVIOUS
  <2>2. d = [c EXCEPT !.props = IF g THEN @ \cup revs ELSE @, !.ranges = rs]
    BY <1>2, <2>1 DEF Update
  <2>3. ASSUME NEW p \in Path  PROVE rs[p] \in Ranges /\ NoMore(rs[p], c.ranges[p])
    <3>1. c.ranges[p] \in Ranges
      BY DEF CacheOK
    <3> QED  BY <2>1, <3>1, RemoveKnownSound
  <2>4. rs \in [Path -> Ranges]
    BY <2>1, <2>3
  <2>5. /\ \A p \in Path : \A x \in Rev : Covers(rs[p], x) => ~ Touches(p, x)
        /\ \A p \in Path : ~ Covers(rs[p], 0)
    BY <2>3, Positions DEF NoMore, CacheOK
  <2>6. d.ranges = rs /\ d.have = c.have
    BY <2>2 DEF CacheOK
  <2>7. /\ d \in [have : SUBSET Rev, props : SUBSET Rev, ranges : [Path -> Ranges]]
        /\ d.props \subseteq d.have
    BY <2>2, <2>4 DEF CacheOK
  <2> QED  BY <2>5, <2>6, <2>7 DEF CacheOK
<1> QED  BY <1>1, <1>2

\* A skip range is kept for revisions that do not change its path.
LEMMA SkipRangeOK ==
  ASSUME NEW c, CacheOK(c), NEW p \in Path, NEW s \in Nat \ {0}, NEW n \in Nat,
         \A x \in Rev : Within(x, s, n) => ~ Touches(p, x),
         NEW d, d = AddSkipRange(c, p, s, n)
  PROVE  CacheOK(d) /\ d.have = c.have
<1>1. PICK m : m = Add(c.ranges[p], s, n, c.have)
  OBVIOUS
<1>2. c.ranges[p] \in Ranges
  BY DEF CacheOK
<1>3. m \in Ranges /\ \A x \in Int : Covers(m, x) => Covers(c.ranges[p], x) \/ Within(x, s, n)
  BY <1>1, <1>2, AddSound
<1>4. PICK rs : rs = [c.ranges EXCEPT ![p] = m]
  OBVIOUS
<1>5. d = [c EXCEPT !.ranges = rs]
  BY <1>1, <1>4 DEF AddSkipRange, CacheOK
<1>6. rs \in [Path -> Ranges] /\ \A q \in Path : rs[q] = IF q = p THEN m ELSE c.ranges[q]
  BY <1>3, <1>4 DEF CacheOK
<1>7. /\ \A q \in Path : \A x \in Rev : Covers(rs[q], x) => ~ Touches(q, x)
      /\ \A q \in Path : ~ Covers(rs[q], 0)
  <2>1. ~ Within(0, s, n)
    BY DEF Within
  <2> QED  BY <1>3, <1>6, <2>1, Positions DEF CacheOK
<1>8. d.ranges = rs /\ d.have = c.have /\ d.props = c.props
  BY <1>5 DEF CacheOK
<1>9. d \in [have : SUBSET Rev, props : SUBSET Rev, ranges : [Path -> Ranges]]
  BY <1>5, <1>6 DEF CacheOK
<1> QED  BY <1>7, <1>8, <1>9 DEF CacheOK

\* A new filler knows all that the server will not send.
LEMMA FillNew ==
  ASSUME changes \in Histories, NEW p \in Path, NEW start \in Rev, NEW end \in Rev,
         NEW limit \in Nat, NEW g \in BOOLEAN, NEW h \in BOOLEAN,
         NEW f, f = Fill(p, start, end, limit, g, h)
  PROVE  f \in FillType /\ FillOK(f) /\ f.update = {}
<1>1. PICK s : s = ServerLog(p, start, end, limit)
  OBVIOUS
<1>2. /\ s \in Seq(Rev) /\ GapFree(p, start, s)
      /\ \/ limit # 0 /\ Len(s) = limit
         \/ Silent(p, Larger(end, 1) - 1, Beyond(start, s))
  BY <1>1, ServerLogListed
<1>3. Base(cache, p) \in Path
  BY BaseNearest
<1>4. f \in FillType /\ f.update = {}
  BY <1>1, <1>2, <1>3, Positions DEF Fill, FillType
<1>5. /\ f.path = p /\ f.end = end /\ f.todo = s /\ f.limit = limit /\ f.count = 0
      /\ f.phase = "log" /\ f.firstNA = start /\ f.final = FALSE
  BY <1>1 DEF Fill
<1>6. Unheard(f) = start
  BY <1>5 DEF Unheard
<1>7. FillRest(f)
  BY <1>2, <1>5, <1>6 DEF FillRest
<1> QED  BY <1>4, <1>5, <1>7 DEF FillOK

-----------------------------------------------------------------------------
(* The fillers, one inside the other *)

\* The innermost filler changes its fields.
LEMMA NowOK ==
  ASSUME changes' = changes, FillsInv, fills # <<>>, cache.have \subseteq cache'.have,
         NEW g \in FillType, FillOK(g), g.update \subseteq cache'.have,
         fills' = <<g>> \o Tail(fills)
  PROVE  FillsInv'
<1>1. fills \in Seq(FillType) /\ Len(fills) \in Nat /\ Len(fills) > 0
  BY DEF FillsInv
<1>2. PICK t : t = Tail(fills)
  OBVIOUS
<1>3. t \in Seq(FillType) /\ Len(t) = Len(fills) - 1 /\ \A k \in 1 .. Len(t) : t[k] = fills[k + 1]
  BY <1>1, <1>2
<1>4. PICK s : s = <<g>> \o t
  OBVIOUS
<1>5. /\ s \in Seq(FillType) /\ Len(s) = Len(fills) /\ s[1] = g
      /\ \A k \in 2 .. Len(s) : s[k] = fills[k]
  BY <1>1, <1>3, <1>4
<1>6. ASSUME NEW k \in 1 .. Len(s)
      PROVE  /\ FillOK(s[k]) /\ s[k].update \subseteq cache'.have
             /\ k # 1 => s[k].phase = "nested"
  <2>1. CASE k = 1
    BY <1>5, <2>1
  <2>2. CASE k # 1
    <3>1. k \in 1 .. Len(fills) /\ s[k] = fills[k]
      BY <1>5, <2>2
    <3>2. FillOK(fills[k]) /\ fills[k].update \subseteq cache.have /\ fills[k].phase = "nested"
      BY <2>2, <3>1 DEF FillsInv
    <3> QED  BY <3>1, <3>2
  <2> QED  BY <2>1, <2>2
<1>7. \A k \in 1 .. Len(s) : FillOK(s[k])'
  <2>1. \A f : FillOK(f)' <=> FillOK(f)
    BY HistoryStays
  <2> QED  BY <1>6, <2>1
<1>8. fills' = s
  BY <1>2, <1>4
<1> QED  BY <1>5, <1>6, <1>7, <1>8 DEF FillsInv

\* While a filler is at work, it is one of the right type.
LEMMA InnermostOK ==
  ASSUME FillsInv, fills # <<>>
  PROVE  fill \in FillType /\ FillOK(fill) /\ fill.update \subseteq cache.have
<1>1. 1 \in 1 .. Len(fills) /\ fills[1] \in FillType
  BY DEF FillsInv
<1> QED  BY <1>1 DEF FillsInv, fill

\* An iterator that is at a position, or at none, goes on at one.
LEMMA RetryOn ==
  ASSUME changes \in Histories, QueryInv, NEW c, CacheOK(c), NEW p \in Path,
         NEW x \in -1 .. MaxRev
  PROVE  Retry(c, p, x) \in -1 .. MaxRev
<1>1. x \in Position /\ x <= MaxRev + 1
  BY Positions
<1>2. Retry(c, p, x) \in Position /\ Retry(c, p, x) <= x
  BY <1>1, RetrySound
<1> QED  BY <1>2, Positions

\* FillLog returns to the filler that waits for it, or to InternalLog.
LEMMA ReturnOK ==
  ASSUME changes \in Histories, changes' = changes, QueryInv, FillsInv, fills # <<>>,
         NEW c, CacheOK(c), cache.have \subseteq cache'.have, Return(c)
  PROVE  QueryInv' /\ FillsInv'
<1>0. fills \in Seq(FillType) /\ Len(fills) \in Nat /\ Len(fills) > 0
  BY DEF FillsInv
<1>1. CASE Len(fills) > 1
  <2>1. PICK g : g = [fills[2] EXCEPT !.phase = "after"]
    OBVIOUS
  <2>2. PICK t : t = SubSeq(fills, 3, Len(fills))
    OBVIOUS
  <2>3. fills' = <<g>> \o t /\ query' = query
    BY <1>1, <2>1, <2>2 DEF Return
  <2>4. 2 \in 1 .. Len(fills) /\ fills[2] \in FillType
    BY <1>0, <1>1
  <2>5. FillOK(fills[2]) /\ fills[2].update \subseteq cache.have /\ fills[2].phase = "nested"
    BY <2>4 DEF FillsInv
  <2>6. g \in FillType /\ g.update = fills[2].update
    BY <2>1, <2>4 DEF FillType
  <2>7. FillOK(g)
    <3>1. /\ g.path = fills[2].path /\ g.end = fills[2].end /\ g.todo = fills[2].todo
          /\ g.limit = fills[2].limit /\ g.count = fills[2].count /\ g.rev = fills[2].rev
          /\ g.final = fills[2].final /\ g.following = fills[2].following
          /\ g.phase = "after"
      BY <2>1, <2>4 DEF FillType
    <3>2. Unheard(g) = Unheard(fills[2])
      BY <2>5, <3>1 DEF Unheard
    <3>3. FillRest(fills[2]) => FillRest(g)
      BY <3>1, <3>2 DEF FillRest
    <3> QED  BY <2>5, <3>1, <3>3 DEF FillOK
  <2>8. /\ t \in Seq(FillType) /\ Len(t) = Len(fills) - 2
        /\ \A k \in 1 .. Len(t) : t[k] = fills[k + 2]
    <3>1. \A k \in 3 .. Len(fills) : fills[k] \in FillType
      BY <1>0
    <3>2. PICK n : n = Len(fills)
      OBVIOUS
    <3>3. n \in Int /\ n > 1
      BY <1>0, <1>1, <3>2
    <3>4. \A k \in 3 .. n : fills[k] \in FillType
      BY <3>1, <3>2
    <3>5. t = SubSeq(fills, 3, n)
      BY <2>2, <3>2
    <3>6. /\ t \in Seq(FillType)
          /\ Len(t) = IF 3 <= n THEN n - 3 + 1 ELSE 0
          /\ \A k \in 1 .. n - 3 + 1 : t[k] = fills[3 + k - 1]
      BY <3>3, <3>4, <3>5, SubSeqProperties
    <3>7. Len(t) = n - 2
      BY <3>3, <3>6
    <3>8. ASSUME NEW k \in 1 .. Len(t)  PROVE t[k] = fills[k + 2]
      <4>1. k \in 1 .. n - 3 + 1 /\ 3 + k - 1 = k + 2
        BY <3>3, <3>7, <3>8
      <4> QED  BY <3>6, <4>1
    <3> QED  BY <3>2, <3>6, <3>7, <3>8
  <2>9. PICK s : s = <<g>> \o t
    OBVIOUS
  <2>10. /\ s \in Seq(FillType) /\ Len(s) = Len(fills) - 1 /\ s[1] = g
         /\ \A k \in 2 .. Len(s) : s[k] = fills[k + 1]
    BY <1>0, <2>6, <2>8, <2>9
  <2>11. ASSUME NEW k \in 1 .. Len(s)
         PROVE  /\ FillOK(s[k]) /\ s[k].update \subseteq cache'.have
                /\ k # 1 => s[k].phase = "nested"
    <3>1. CASE k = 1
      BY <2>5, <2>6, <2>7, <2>10, <3>1
    <3>2. CASE k # 1
      <4>1. k + 1 \in 1 .. Len(fills) /\ s[k] = fills[k + 1] /\ k + 1 # 1
        BY <1>0, <2>10, <3>2
      <4>2. /\ FillOK(fills[k + 1]) /\ fills[k + 1].update \subseteq cache.have
            /\ fills[k + 1].phase = "nested"
        BY <4>1 DEF FillsInv
      <4> QED  BY <4>1, <4>2
    <3> QED  BY <3>1, <3>2
  <2>12. \A k \in 1 .. Len(s) : FillOK(s[k])'
    <3>1. \A f : FillOK(f)' <=> FillOK(f)
      BY HistoryStays
    <3> QED  BY <2>11, <3>1
  <2>13. fills' = s
    BY <2>3, <2>9
  <2>14. FillsInv'
    BY <2>10, <2>11, <2>12, <2>13 DEF FillsInv
  <2>15. QueryInv'
    BY <2>3 DEF QueryInv, Running
  <2> QED  BY <2>14, <2>15
<1>2. CASE ~ (Len(fills) > 1)
  <2>1. PICK low : low = IF fill.oldest < fill.firstNA + 1 THEN fill.oldest
                         ELSE fill.firstNA + 1
    OBVIOUS
  <2>2. PICK x : x = Retry(c, query.path, query.it)
    OBVIOUS
  <2>3. fills' = <<>> /\ query' = [query EXCEPT !.lastReported = low, !.it = x]
    BY <1>2, <2>1, <2>2 DEF Return, QueryInv, QueryType
  <2>4. fill \in FillType
    BY InnermostOK
  <2>5. low \in Int
    BY <2>1, <2>4, Positions DEF FillType
  <2>6. query.path \in Path /\ query.it \in -1 .. MaxRev
    BY DEF QueryInv, QueryType
  <2>7. x \in -1 .. MaxRev
    BY <2>2, <2>6, RetryOn
  <2>8. QueryInv'
    BY <2>3, <2>5, <2>7 DEF QueryInv, QueryType, Running
  <2>9. FillsInv'
    BY <2>3 DEF FillsInv
  <2> QED  BY <2>8, <2>9
<1> QED  BY <1>1, <1>2

-----------------------------------------------------------------------------
(* The steps, one by one *)

\* The cache and the repository stay as they are.
LEMMA CacheStays ==
  ASSUME CacheInv, changes' = changes, NEW c, CacheOK(c), cache' = c
  PROVE  CacheInv'
<1>1. \A d : CacheOK(d)' <=> CacheOK(d)
  BY HistoryStays
<1>2. CacheOK(c)'
  BY <1>1
<1> QED  BY <1>2 DEF CacheInv

\* A step that leaves cache and fillers alone keeps what is known of them.
LEMMA RestStays ==
  ASSUME LogInv, UNCHANGED <<changes, cache, fills>>
  PROVE  CacheInv' /\ FillsInv'
<1>1. CacheInv'
  BY CacheStays DEF LogInv, CacheInv
<1>2. \A f : FillOK(f)' <=> FillOK(f)
  BY HistoryStays
<1>3. \A k \in 1 .. Len(fills) : FillOK(fills[k])
  BY DEF LogInv, FillsInv
<1>4. PICK s : s = fills
  OBVIOUS
<1>5. \A k \in 1 .. Len(s) : FillOK(s[k])'
  BY <1>2, <1>3, <1>4
<1>6. fills' = s
  BY <1>4
<1>7. FillsInv'
  BY <1>4, <1>5, <1>6 DEF LogInv, FillsInv
<1> QED  BY <1>1, <1>7

\* At first nothing is cached, and nothing runs.
LEMMA InitInv == Init => LogInv
<1> SUFFICES ASSUME Init  PROVE LogInv
  OBVIOUS
<1>1. CacheOK(cache)
  <2>1. cache = [have |-> {}, props |-> {}, ranges |-> [p \in Path |-> <<>>]]
    BY DEF Init, EmptyCache
  <2>2. [p \in Path |-> <<>>] \in [Path -> Ranges]
    BY EmptyRanges
  <2> QED  BY <2>1, <2>2, EmptyRanges DEF CacheOK
<1>2. QueryInv
  BY SkipAssumption, Positions DEF SkipAssumption, Init, QueryInv, QueryType, Running
<1>3. FillsInv
  BY DEF Init, FillsInv
<1> QED  BY <1>1, <1>2, <1>3 DEF LogInv, CacheInv, Init

\* A query begins.
LEMMA LogStarts ==
  ASSUME LogInv, NEW q \in Asked, Log(q)
  PROVE  LogInv'
<1>1. /\ q.path \in Path /\ q.start \in Rev /\ q.end \in Rev /\ q.limit \in Nat
      /\ q.props \in BOOLEAN
  BY LogAssumption DEF LogAssumption
<1>2. PICK x : x = Retry(cache, q.path, q.start)
  OBVIOUS
<1>3. x \in -1 .. MaxRev
  BY <1>1, <1>2, RetryOn, Positions DEF LogInv, CacheInv
<1>4. query' = [state |-> "running", path |-> q.path, start |-> q.start, end |-> q.end,
                limit |-> q.limit, props |-> q.props, left |-> q.limit,
                it |-> x, lastReported |-> q.start + 1, sent |-> <<>>]
  BY <1>2 DEF Log
<1>5. QueryInv'
  BY <1>1, <1>3, <1>4, Positions DEF QueryInv, QueryType, Running
<1>6. CacheInv' /\ FillsInv'
  BY RestStays DEF Log
<1> QED  BY <1>5, <1>6 DEF LogInv

\* An iterator above the end of the log is at a revision.
LEMMA Inside ==
  ASSUME LogInv, ~ EndOfLog
  PROVE  query.it \in Rev /\ query.it >= query.end /\ query.end \in Rev
BY Positions DEF LogInv, QueryInv, QueryType, EndOfLog

\* The loop reports from the cache.
LEMMA Reports ==
  ASSUME LogInv, Report
  PROVE  LogInv'
<1>1. query \in QueryType /\ query.it \in Rev /\ Running
  BY Inside DEF LogInv, QueryInv, Report, Looping
<1>2. PICK x : x = Advance(cache, query.path, query.it)
  OBVIOUS
<1>3. x \in -1 .. MaxRev
  <2>1. query.path \in Path /\ query.it \in Valid
    BY <1>1, Positions DEF QueryType
  <2>2. x \in Position /\ x < query.it
    BY <1>2, <2>1, AdvancePasses DEF LogInv, CacheInv
  <2> QED  BY <1>1, <2>2, Positions
<1>4. PICK s : s = IF query.it < query.lastReported THEN Append(query.sent, query.it)
                   ELSE query.sent
  OBVIOUS
<1>5. s \in Seq(Rev)
  BY <1>1, <1>4 DEF QueryType
<1>6. PICK n : n = IF query.limit = 0 THEN 0 ELSE query.left - 1
  OBVIOUS
<1>7. query.limit # 0 => query.left \in Nat /\ query.left > 0
  BY <1>1 DEF LogInv, QueryInv, QueryType
<1>8. n \in Nat /\ (query.limit # 0 /\ query.left # 1 => n > 0)
  BY <1>6, <1>7
<1>9. query' = [query EXCEPT !.sent = s, !.left = n,
                             !.state = IF query.left = 1 THEN "done" ELSE "running",
                             !.it = IF query.left = 1 THEN @ ELSE x]
  BY <1>1, <1>2, <1>4, <1>6 DEF Report, QueryType
<1>10. QueryInv'
  BY <1>1, <1>3, <1>5, <1>8, <1>9 DEF QueryInv, QueryType, Running
<1>11. CacheInv' /\ FillsInv'
  BY RestStays DEF Report
<1> QED  BY <1>10, <1>11 DEF LogInv

\* A query ends.
LEMMA Dones ==
  ASSUME LogInv, NEW reason \in {"done", "refused"}, Done(reason)
  PROVE  LogInv'
<1>1. QueryInv'
  BY DEF LogInv, QueryInv, QueryType, Running, Done
<1>2. CacheInv' /\ FillsInv'
  BY RestStays DEF Done
<1> QED  BY <1>1, <1>2 DEF LogInv

\* Off-line, the loop skips what the cache does not know.
LEMMA Skips ==
  ASSUME LogInv, SkipUnknown
  PROVE  LogInv'
<1>1. query.it \in Rev /\ query.path \in Path /\ query \in QueryType
  BY Inside DEF LogInv, QueryInv, QueryType, SkipUnknown, MustFetch
<1>2. PICK y : y = ToNextAvailableData(cache, query.path, query.it)
  OBVIOUS
<1>3. y \in -1 .. MaxRev
  <2>1. y \in Position /\ y < query.it
    BY <1>1, <1>2, ToAvailable, Positions DEF LogInv, CacheInv
  <2> QED  BY <1>1, <2>1, Positions
<1>4. PICK x : x = Retry(cache, query.path, y)
  OBVIOUS
<1>5. x \in -1 .. MaxRev
  BY <1>1, <1>3, <1>4, RetryOn DEF LogInv, CacheInv
<1>6. query' = [query EXCEPT !.it = x]
  BY <1>2, <1>4 DEF SkipUnknown
<1>7. QueryInv'
  BY <1>1, <1>5, <1>6 DEF LogInv, QueryInv, QueryType, Running
<1>8. CacheInv' /\ FillsInv'
  BY RestStays DEF SkipUnknown
<1> QED  BY <1>7, <1>8 DEF LogInv

\* The loop fetches what is missing.
LEMMA Fetches ==
  ASSUME LogInv, Fetch
  PROVE  LogInv'
<1>1. /\ query.it \in Rev /\ query.end \in Rev /\ query.end <= query.it
      /\ query.path \in Path /\ query.left \in Nat /\ query.props \in BOOLEAN
      /\ ~ Available(cache, query.props, query.it)
  BY Inside DEF LogInv, QueryInv, QueryType, Fetch, MustFetch, HasData
<1>2. PICK low : /\ low = FetchEnd(cache, query.path, query.it, query.end, query.props)
                 /\ fills' = <<Fill(query.path, query.it, low, query.left, query.props, TRUE)>>
  BY DEF Fetch
<1>3. low \in Rev
  BY <1>1, <1>2, FetchEndType DEF LogInv, CacheInv
<1>4. PICK f : f = Fill(query.path, query.it, low, query.left, query.props, TRUE)
  OBVIOUS
<1>5. f \in FillType /\ FillOK(f) /\ f.update = {}
  BY <1>1, <1>3, <1>4, FillNew DEF LogInv, CacheInv
<1>6. fills' = <<f>>
  BY <1>2, <1>4
<1>7. FillOK(f)'
  <2>1. \A g : FillOK(g)' <=> FillOK(g)
    BY HistoryStays DEF Fetch
  <2> QED  BY <1>5, <2>1
<1>8. FillsInv'
  <2>1. Len(<<f>>) = 1 /\ <<f>>[1] = f /\ <<f>> \in Seq(FillType)
    BY <1>5
  <2> QED  BY <1>5, <1>6, <1>7, <2>1 DEF FillsInv
<1>9. QueryInv'
  BY DEF LogInv, QueryInv, QueryType, Running, Fetch
<1>10. CacheInv'
  BY CacheStays DEF LogInv, CacheInv, Fetch
<1> QED  BY <1>8, <1>9, <1>10 DEF LogInv

\* When the first of the entries is there, the rest leaves nothing out behind it.
LEMMA ListTail ==
  ASSUME NEW p, NEW u, NEW s \in Seq(Rev), s # <<>>, GapFree(p, u, s),
         NEW r, r = s[1], NEW v, v = Larger(r - 1, 0),
         NEW t \in Seq(Rev), Len(t) = Len(s) - 1, \A k \in 1 .. Len(t) : t[k] = s[k + 1]
  PROVE  /\ Silent(p, r, u)
         /\ GapFree(p, v, t)
         /\ \A lo : Silent(p, lo, Beyond(u, s)) => Silent(p, lo, Beyond(v, t))
<1>1. r \in Rev /\ Len(s) \in Nat /\ Len(s) > 0
  OBVIOUS
<1>2. v = IF r = 0 THEN 0 ELSE r - 1
  <2>1. r \in Nat
    BY <1>1, Positions
  <2> QED  BY <2>1 DEF Larger
<1>3. \A lo : Silent(p, lo, r - 1) => Silent(p, lo, v)
  BY <1>1, <1>2, Positions DEF Silent
<1>4. Silent(p, r, u)
  BY <1>1 DEF GapFree
<1>5. GapFree(p, v, t)
  <2> SUFFICES ASSUME NEW k \in 1 .. Len(t)
               PROVE  Silent(p, t[k], IF k = 1 THEN v ELSE t[k - 1] - 1)
    BY DEF GapFree
  <2>0. PICK j : j = k + 1
    OBVIOUS
  <2>1. j \in 1 .. Len(s) /\ j # 1 /\ t[k] = s[j] /\ j - 1 = k
    BY <1>1, <2>0
  <2>2. Silent(p, t[k], s[k] - 1)
    <3>1. Silent(p, s[j], s[j - 1] - 1)
      BY <2>1 DEF GapFree
    <3> QED  BY <2>1, <3>1
  <2>3. CASE k = 1
    BY <1>1, <1>3, <2>2, <2>3
  <2>4. CASE k # 1
    <3>1. t[k - 1] = s[k]
      BY <1>1, <2>4
    <3> QED  BY <2>2, <2>4, <3>1
  <2> QED  BY <2>3, <2>4
<1>6. ASSUME NEW lo, Silent(p, lo, Beyond(u, s))  PROVE Silent(p, lo, Beyond(v, t))
  <2>1. Beyond(u, s) = s[Len(s)] - 1
    BY DEF Beyond
  <2>2. CASE t = <<>>
    <3>1. Beyond(v, t) = v
      BY <2>2 DEF Beyond
    <3>0. Len(t) = 0
      <4>1. Len(<<>>) = 0
        OBVIOUS
      <4> QED  BY <2>2, <4>1
    <3>2. Len(s) = 1
      BY <1>1, <3>0
    <3> QED  BY <1>1, <1>3, <1>6, <2>1, <3>1, <3>2
  <2>3. CASE t # <<>>
    <3>1. Len(t) > 0 /\ Len(t) \in Nat
      BY <1>1, <2>3
    <3>2. t[Len(t)] = s[Len(s)]
      BY <1>1, <3>1
    <3>3. Beyond(v, t) = t[Len(t)] - 1
      BY <2>3 DEF Beyond
    <3> QED  BY <1>6, <2>1, <3>2, <3>3
  <2> QED  BY <2>2, <2>3
<1> QED  BY <1>1, <1>2, <1>4, <1>5, <1>6

\* Only the fields that FillOK looks at matter to it.
LEMMA FillLike ==
  ASSUME NEW f, NEW g, FillOK(f),
         g.path = f.path, g.end = f.end, g.todo = f.todo, g.limit = f.limit,
         g.count = f.count, g.rev = f.rev, g.final = f.final, g.following = f.following,
         f.phase # "log", g.phase \in {"after", "nested"}
  PROVE  FillOK(g)
<1>1. Unheard(g) = Unheard(f)
  BY DEF Unheard
<1>2. FillRest(f) => FillRest(g)
  BY <1>1 DEF FillRest
<1> QED  BY <1>2 DEF FillOK

\* The server sends a revision: no gap is overlooked.
LEMMA Receives ==
  ASSUME LogInv, Receive
  PROVE  LogInv'
<1>0. fills # <<>> /\ fill.phase = "log" /\ fill.todo # <<>> /\ changes' = changes /\ query' = query
  BY DEF Receive, Filling
<1>1. fill \in FillType /\ FillOK(fill) /\ fill.update \subseteq cache.have
  BY <1>0, InnermostOK DEF LogInv
<1>2. PICK r : r = Head(fill.todo)
  OBVIOUS
<1>3. PICK t : t = Tail(fill.todo)
  OBVIOUS
<1>4. fill.todo \in Seq(Rev) /\ r \in Rev /\ t \in Seq(Rev) /\ Len(fill.todo) = Len(t) + 1
  <2>1. fill.todo \in Seq(Rev)
    BY <1>1 DEF FillType
  <2>2. r \in Rev /\ t \in Seq(Rev) /\ Len(fill.todo) = Len(t) + 1
    BY <1>0, <1>2, <1>3, <2>1
  <2> QED  BY <2>1, <2>2
<1>5. PICK known : known = [cache EXCEPT !.have = @ \cup {r},
                      !.props = IF r \notin cache.have /\ fill.props THEN @ \cup {r} ELSE @]
  OBVIOUS
<1>6. CacheOK(known) /\ known.have = cache.have \cup {r}
  <2>1. PICK new \in BOOLEAN : new <=> r \notin cache.have /\ fill.props
    OBVIOUS
  <2>2. CacheOK(cache)
    BY DEF LogInv, CacheInv
  <2>3. known = Written(cache, r, new)
    BY <1>5, <2>1 DEF Written
  <2> QED  BY <1>4, <2>1, <2>2, <2>3, WrittenOK
<1>7. PICK late : late = IF r \notin cache.have THEN fill.update ELSE fill.update \cup {r}
  OBVIOUS
<1>8. late \in SUBSET Rev /\ late \subseteq known.have
  BY <1>1, <1>4, <1>6, <1>7 DEF FillType
<1>9. PICK f : f = [fill EXCEPT !.todo = t, !.count = @ + 1, !.rev = r,
                                !.phase = "gap", !.update = late]
  OBVIOUS
<1>10. f \in FillType
  <2>1. fill.count + 1 \in Nat
    BY <1>1 DEF FillType
  <2> HIDE DEF fill
  <2> QED  BY <1>1, <1>4, <1>8, <1>9, <2>1 DEF FillType
<1>11. /\ f.path = fill.path /\ f.end = fill.end /\ f.todo = t /\ f.limit = fill.limit
       /\ f.count = fill.count + 1 /\ f.rev = r /\ f.final = fill.final
       /\ f.following = fill.following /\ f.phase = "gap" /\ f.firstNA = fill.firstNA
       /\ f.update = late /\ f.props = fill.props
  BY <1>1, <1>9 DEF FillType
<1>12. \A g : /\ g.path = f.path /\ g.end = f.end /\ g.todo = f.todo /\ g.limit = f.limit
              /\ g.count = f.count /\ g.rev = f.rev /\ g.final = f.final
              /\ g.following = f.following /\ g.phase = f.phase /\ g.firstNA = f.firstNA
              => FillOK(g)
  <2> SUFFICES ASSUME NEW g, g.path = f.path, g.end = f.end, g.todo = f.todo,
                      g.limit = f.limit, g.count = f.count, g.rev = f.rev,
                      g.final = f.final, g.following = f.following, g.phase = f.phase,
                      g.firstNA = f.firstNA, g.following
               PROVE  (~ g.final => FillRest(g)) /\ Silent(g.path, g.rev, g.firstNA)
    <3>1. ~ f.final
      BY <1>0, <1>1, <1>11 DEF FillOK
    <3> QED  BY <1>11, <3>1 DEF FillOK
  <2>1. ~ fill.final
    BY <1>0, <1>1 DEF FillOK
  <2>2. FillRest(fill)
    BY <1>1, <1>11, <2>1 DEF FillOK
  <2>3. Unheard(fill) = fill.firstNA /\ Unheard(g) = Larger(r - 1, 0)
    BY <1>0, <1>11 DEF Unheard
  <2>4. GapFree(fill.path, fill.firstNA, fill.todo)
    BY <2>2, <2>3 DEF FillRest
  <2>5. /\ Silent(fill.path, r, fill.firstNA)
        /\ GapFree(fill.path, Unheard(g), t)
        /\ \A lo : Silent(fill.path, lo, Beyond(fill.firstNA, fill.todo))
                   => Silent(fill.path, lo, Beyond(Unheard(g), t))
    <3>1. PICK v : v = Larger(r - 1, 0)
      OBVIOUS
    <3>2. PICK s : s = fill.todo
      OBVIOUS
    <3>3. PICK u : u = fill.firstNA
      OBVIOUS
    <3>4. /\ s \in Seq(Rev) /\ s # <<>> /\ GapFree(fill.path, u, s) /\ r = s[1]
          /\ t \in Seq(Rev) /\ Len(t) = Len(s) - 1 /\ \A k \in 1 .. Len(t) : t[k] = s[k + 1]
      BY <1>0, <1>2, <1>3, <1>4, <2>4, <3>2, <3>3
    <3>5. /\ Silent(fill.path, r, u) /\ GapFree(fill.path, v, t)
          /\ \A lo : Silent(fill.path, lo, Beyond(u, s)) => Silent(fill.path, lo, Beyond(v, t))
      <4>1. PICK p : p = fill.path
        OBVIOUS
      <4>2. GapFree(p, u, s)
        BY <3>4, <4>1
      <4>3. /\ Silent(p, r, u) /\ GapFree(p, v, t)
            /\ \A lo : Silent(p, lo, Beyond(u, s)) => Silent(p, lo, Beyond(v, t))
        <5> HIDE DEF fill
        <5> QED  BY <3>1, <3>4, <4>2, ListTail
      <4> QED  BY <4>1, <4>3
    <3> QED  BY <2>3, <3>1, <3>2, <3>3, <3>5
  <2>6. fill.count + Len(fill.todo) = g.count + Len(t)
    BY <1>1, <1>4, <1>11 DEF FillType
  <2>7. FillRest(g)
    BY <1>11, <2>2, <2>3, <2>5, <2>6 DEF FillRest
  <2> QED  BY <1>11, <2>5, <2>7
<1>13. CASE ~ (fill.following /\ fill.base # fill.path)
  <2>1. cache' = known /\ fills' = <<f>> \o Tail(fills)
    BY <1>2, <1>3, <1>5, <1>7, <1>9, <1>13 DEF Receive, Now
  <2>2. CacheInv'
    BY <1>0, <1>6, <2>1, CacheStays DEF LogInv
  <2>3. FillsInv'
    BY <1>0, <1>6, <1>8, <1>10, <1>11, <1>12, <2>1, NowOK DEF LogInv
  <2> QED  BY <1>0, <2>2, <2>3 DEF LogInv, QueryInv, Running
<1>14. CASE fill.following /\ fill.base # fill.path
  <2>1. PICK b : b = Base(known, f.path)
    OBVIOUS
  <2>2. PICK g : g = [f EXCEPT !.update = {}, !.base = b]
    OBVIOUS
  <2>3. cache' = Merged(known, f) /\ fills' = <<g>> \o Tail(fills)
    BY <1>2, <1>3, <1>5, <1>7, <1>9, <1>14, <2>1, <2>2 DEF Receive, Now
  <2>4. CacheOK(cache') /\ cache'.have = known.have
    BY <1>1, <1>6, <1>8, <1>11, <2>3, UpdateOK DEF Merged, FillType
  <2>5. b \in Path
    BY <1>1, <1>11, <2>1, BaseNearest DEF FillType
  <2>6. g \in FillType /\ g.update = {} /\ FillOK(g)
    BY <1>10, <1>12, <2>2, <2>5 DEF FillType
  <2>7. CacheInv'
    BY <1>0, <2>4, CacheStays DEF LogInv
  <2>8. FillsInv'
    BY <1>0, <1>6, <2>3, <2>4, <2>6, NowOK DEF LogInv
  <2> QED  BY <1>0, <2>7, <2>8 DEF LogInv, QueryInv, Running
<1> QED  BY <1>13, <1>14

\* The innermost filler starts another one, and waits for it.
LEMMA NestOK ==
  ASSUME changes' = changes, FillsInv, fills # <<>>, cache.have \subseteq cache'.have,
         NEW f \in FillType, FillOK(f), f.update = {},
         NEW g \in FillType, FillOK(g), g.update = {}, g.phase = "nested",
         fills' = <<f, g>> \o Tail(fills)
  PROVE  FillsInv'
<1>1. fills \in Seq(FillType) /\ Len(fills) \in Nat /\ Len(fills) > 0
  BY DEF FillsInv
<1>2. PICK t : t = Tail(fills)
  OBVIOUS
<1>3. t \in Seq(FillType) /\ Len(t) = Len(fills) - 1 /\ \A k \in 1 .. Len(t) : t[k] = fills[k + 1]
  BY <1>1, <1>2
<1>4. PICK s : s = <<f, g>> \o t
  OBVIOUS
<1>5. /\ s \in Seq(FillType) /\ Len(s) = Len(fills) + 1 /\ s[1] = f /\ s[2] = g
      /\ \A k \in 3 .. Len(s) : s[k] = fills[k - 1]
  <2>1. PICK two : two = <<f, g>>
    OBVIOUS
  <2>2. two \in Seq(FillType) /\ Len(two) = 2 /\ two[1] = f /\ two[2] = g
    BY <2>1
  <2>3. s = two \o t
    BY <1>4, <2>1
  <2>4. /\ s \in Seq(FillType) /\ Len(s) = Len(t) + 2 /\ s[1] = two[1] /\ s[2] = two[2]
        /\ \A k \in 3 .. Len(s) : s[k] = t[k - 2]
    <3>1. /\ s \in Seq(FillType) /\ Len(s) = Len(two) + Len(t)
          /\ \A i \in 1 .. Len(two) + Len(t) :
               s[i] = IF i <= Len(two) THEN two[i] ELSE t[i - Len(two)]
      BY <1>3, <2>2, <2>3, ConcatProperties
    <3>2. Len(t) \in Nat
      BY <1>3
    <3> QED  BY <2>2, <3>1, <3>2
  <2>5. ASSUME NEW k \in 3 .. Len(s)  PROVE s[k] = fills[k - 1]
    <3>1. PICK j : j = k - 2
      OBVIOUS
    <3>2. j \in 1 .. Len(t) /\ j + 1 = k - 1
      BY <1>1, <1>3, <2>4, <3>1
    <3>3. s[k] = t[j] /\ t[j] = fills[j + 1]
      BY <1>3, <2>4, <3>1, <3>2
    <3> QED  BY <3>2, <3>3
  <2> QED  BY <1>1, <1>3, <2>2, <2>4, <2>5
<1>6. ASSUME NEW k \in 1 .. Len(s)
      PROVE  /\ FillOK(s[k]) /\ s[k].update \subseteq cache'.have
             /\ k # 1 => s[k].phase = "nested"
  <2>1. CASE k \in {1, 2}
    BY <1>5, <2>1
  <2>2. CASE k \notin {1, 2}
    <3>1. PICK j : j = k - 1
      OBVIOUS
    <3>2. j \in 1 .. Len(fills) /\ s[k] = fills[j] /\ j # 1
      BY <1>1, <1>5, <2>2, <3>1
    <3>3. FillOK(fills[j]) /\ fills[j].update \subseteq cache.have /\ fills[j].phase = "nested"
      BY <3>2 DEF FillsInv
    <3> QED  BY <3>2, <3>3
  <2> QED  BY <2>1, <2>2
<1>7. \A k \in 1 .. Len(s) : FillOK(s[k])'
  <2>1. \A h : FillOK(h)' <=> FillOK(h)
    BY HistoryStays
  <2> QED  BY <1>6, <2>1
<1>8. fills' = s
  BY <1>2, <1>4
<1> QED  BY <1>5, <1>6, <1>7, <1>8 DEF FillsInv

\* There is no gap to mark.
LEMMA NoGaps ==
  ASSUME LogInv, NoGap
  PROVE  LogInv'
<1>0. fills # <<>> /\ fill.phase = "gap" /\ changes' = changes /\ query' = query /\ cache' = cache
  BY DEF NoGap, Filling
<1>1. fill \in FillType /\ FillOK(fill) /\ fill.update \subseteq cache.have
  BY <1>0, InnermostOK DEF LogInv
<1>2. PICK g : g = [fill EXCEPT !.phase = "after"]
  OBVIOUS
<1>3. fills' = <<g>> \o Tail(fills)
  BY <1>2 DEF NoGap, Now
<1>4. /\ g \in FillType /\ g.update = fill.update
      /\ g.path = fill.path /\ g.end = fill.end /\ g.todo = fill.todo /\ g.limit = fill.limit
      /\ g.count = fill.count /\ g.rev = fill.rev /\ g.final = fill.final
      /\ g.following = fill.following /\ g.phase = "after"
  BY <1>1, <1>2 DEF FillType
<1>5. FillOK(g)
  BY <1>0, <1>1, <1>4, FillLike
<1>6. FillsInv'
  BY <1>0, <1>1, <1>3, <1>4, <1>5, NowOK DEF LogInv
<1>7. CacheInv'
  BY <1>0, CacheStays DEF LogInv, CacheInv
<1> QED  BY <1>0, <1>6, <1>7 DEF LogInv, QueryInv, Running

\* The gap between two revisions received becomes a skip range: nothing in it
\* changes the path.
LEMMA MarksGap ==
  ASSUME LogInv, MarkGap
  PROVE  LogInv'
<1>0. /\ fills # <<>> /\ fill.phase = "gap" /\ changes' = changes /\ query' = query
      /\ fill.following /\ fill.firstNA > fill.rev /\ fill.base = fill.path
  BY DEF MarkGap, Filling, GapToMark
<1>1. fill \in FillType /\ FillOK(fill) /\ fill.update \subseteq cache.have
  BY <1>0, InnermostOK DEF LogInv
<1>2. PICK g : g = [fill EXCEPT !.phase = "after"]
  OBVIOUS
<1>3. fills' = <<g>> \o Tail(fills)
  BY <1>2 DEF MarkGap, Now
<1>4. /\ g \in FillType /\ g.update = fill.update
      /\ g.path = fill.path /\ g.end = fill.end /\ g.todo = fill.todo /\ g.limit = fill.limit
      /\ g.count = fill.count /\ g.rev = fill.rev /\ g.final = fill.final
      /\ g.following = fill.following /\ g.phase = "after"
  BY <1>1, <1>2 DEF FillType
<1>5. FillOK(g)
  BY <1>0, <1>1, <1>4, FillLike
<1>6. PICK p, s, n : p = fill.path /\ s = fill.rev + 1 /\ n = fill.firstNA - fill.rev
  OBVIOUS
<1>7. p \in Path /\ s \in Nat \ {0} /\ n \in Nat /\ fill.rev \in Nat /\ fill.firstNA \in Nat
  BY <1>0, <1>1, <1>6, Positions DEF FillType
<1>8. Silent(p, fill.rev, fill.firstNA)
  BY <1>0, <1>1, <1>6 DEF FillOK
<1>9. \A x \in Rev : Within(x, s, n) => ~ Touches(p, x)
  <2> SUFFICES ASSUME NEW x \in Rev, Within(x, s, n)  PROVE ~ Touches(p, x)
    OBVIOUS
  <2>1. 0 < x /\ fill.rev < x /\ x <= fill.firstNA
    BY <1>6, <1>7, Positions DEF Within
  <2> QED  BY <1>8, <2>1 DEF Silent
<1>10. cache' = AddSkipRange(cache, p, s, n)
  BY <1>0, <1>6 DEF MarkGap, GapLength
<1>11. CacheOK(cache)
  BY DEF LogInv, CacheInv
<1>12. CacheOK(cache') /\ cache'.have = cache.have
  BY <1>7, <1>9, <1>10, <1>11, SkipRangeOK
<1>13. FillsInv'
  BY <1>0, <1>1, <1>3, <1>4, <1>5, <1>12, NowOK DEF LogInv
<1>14. CacheInv'
  BY <1>0, <1>12, CacheStays DEF LogInv
<1> QED  BY <1>0, <1>13, <1>14 DEF LogInv, QueryInv, Running

\* A path that the cache does not know gets its gap filled by another filler.
LEMMA FillsGap ==
  ASSUME LogInv, FillGap
  PROVE  LogInv'
<1>0. /\ fills # <<>> /\ fill.phase = "gap" /\ changes' = changes /\ query' = query
      /\ fill.following /\ fill.firstNA > fill.rev /\ cache' = Merged(cache, fill)
  BY DEF FillGap, Filling, GapToMark
<1>1. fill \in FillType /\ FillOK(fill) /\ fill.update \subseteq cache.have
  BY <1>0, InnermostOK DEF LogInv
<1>2. CacheOK(cache') /\ cache'.have = cache.have
  BY <1>0, <1>1, UpdateOK DEF Merged, FillType, LogInv, CacheInv
<1>3. CacheInv'
  BY <1>0, <1>2, CacheStays DEF LogInv
<1>4. PICK low, n : low = fill.rev + 1 /\ n = fill.firstNA - fill.rev
  OBVIOUS
<1>5. low \in Rev /\ n \in Nat /\ low + n - 1 \in Rev
  <2>1. PICK a, b : a = fill.rev /\ b = fill.firstNA
    OBVIOUS
  <2>2. a \in Nat /\ b \in Nat /\ a < b /\ b <= MaxRev
    BY <1>0, <1>1, <2>1, Positions DEF FillType
  <2>3. low = a + 1 /\ n = b - a
    BY <1>4, <2>1
  <2> QED  BY <2>2, <2>3, Positions
<1>6. PICK x : x = RangeGap(cache', fill.base, low, n)
  OBVIOUS
<1>7. fill.base \in Path /\ changes \in Histories
  BY <1>1 DEF FillType, LogInv, CacheInv
<1>8. x # NO_REVISION => x \in Rev
  BY <1>2, <1>5, <1>6, <1>7, RangeGapType
<1>9. CASE x = NO_REVISION
  <2>1. PICK g : g = [fill EXCEPT !.update = {}, !.phase = "after"]
    OBVIOUS
  <2>2. fills' = <<g>> \o Tail(fills)
    BY <1>4, <1>6, <1>9, <2>1 DEF FillGap, Now, GapLength
  <2>3. /\ g \in FillType /\ g.update = {}
        /\ g.path = fill.path /\ g.end = fill.end /\ g.todo = fill.todo /\ g.limit = fill.limit
        /\ g.count = fill.count /\ g.rev = fill.rev /\ g.final = fill.final
        /\ g.following = fill.following /\ g.phase = "after"
    BY <1>1, <2>1 DEF FillType
  <2>4. FillOK(g)
    BY <1>0, <1>1, <2>3, FillLike
  <2>5. FillsInv'
    BY <1>0, <1>2, <2>2, <2>3, <2>4, NowOK DEF LogInv
  <2> QED  BY <1>0, <1>3, <2>5 DEF LogInv, QueryInv, Running
<1>10. CASE x # NO_REVISION
  <2>1. PICK f : f = Fill(fill.base, x, low, 0, TRUE, FALSE)
    OBVIOUS
  <2>2. PICK g : g = [fill EXCEPT !.update = {}, !.phase = "nested"]
    OBVIOUS
  <2>3. fills' = <<f, g>> \o Tail(fills)
    BY <1>4, <1>6, <1>10, <2>1, <2>2 DEF FillGap, GapLength
  <2>4. f \in FillType /\ FillOK(f) /\ f.update = {}
    <3>1. 0 \in Nat /\ TRUE \in BOOLEAN /\ FALSE \in BOOLEAN /\ x \in Rev
      BY <1>8, <1>10
    <3> QED  BY <1>5, <1>7, <2>1, <3>1, FillNew
  <2>5. /\ g \in FillType /\ g.update = {}
        /\ g.path = fill.path /\ g.end = fill.end /\ g.todo = fill.todo /\ g.limit = fill.limit
        /\ g.count = fill.count /\ g.rev = fill.rev /\ g.final = fill.final
        /\ g.following = fill.following /\ g.phase = "nested"
    BY <1>1, <2>2 DEF FillType
  <2>6. FillOK(g)
    BY <1>0, <1>1, <2>5, FillLike
  <2>7. FillsInv'
    BY <1>0, <1>2, <2>3, <2>4, <2>5, <2>6, NestOK DEF LogInv
  <2> QED  BY <1>0, <1>3, <2>7 DEF LogInv, QueryInv, Running
<1> QED  BY <1>9, <1>10

\* The filler goes on with the next revision.
LEMMA HandsOn ==
  ASSUME LogInv, HandOn
  PROVE  LogInv'
<1>0. fills # <<>> /\ fill.phase = "after" /\ ~ fill.final /\ changes' = changes /\ cache' = cache
  BY DEF HandOn, Filling
<1>1. fill \in FillType /\ FillOK(fill) /\ fill.update \subseteq cache.have
  BY <1>0, InnermostOK DEF LogInv
<1>2. PICK v : v = Larger(fill.rev - 1, 0)
  OBVIOUS
<1>3. v \in Rev /\ fill.rev \in Rev
  <2>1. fill.rev \in Rev
    BY <1>1 DEF FillType
  <2> QED  BY <1>2, <2>1, Positions DEF Larger
<1>4. PICK o : o = IF fill.following /\ fill.rev < fill.oldest THEN fill.rev ELSE fill.oldest
  OBVIOUS
<1>5. PICK h \in BOOLEAN : h <=> fill.following /\ ~ (fill.path \in Adds(fill.rev))
  OBVIOUS
<1>6. PICK b : b = IF Adds(fill.rev) # {} THEN Base(cache, fill.path) ELSE fill.base
  OBVIOUS
<1>7. o \in Int /\ b \in Path
  BY <1>1, <1>3, <1>4, <1>6, BaseNearest, Positions DEF FillType
<1>8. PICK g : g = [fill EXCEPT !.phase = "log", !.firstNA = v, !.oldest = o,
                                !.following = h, !.base = b]
  OBVIOUS
<1>9. fills' = <<g>> \o Tail(fills)
  <2>1. g = [fill EXCEPT !.phase = "log",
              !.firstNA = Larger(fill.rev - 1, 0),
              !.oldest = IF fill.following /\ fill.rev < @ THEN fill.rev ELSE @,
              !.following = @ /\ ~ (fill.path \in Adds(fill.rev)),
              !.base = IF Adds(fill.rev) # {} THEN Base(cache, fill.path) ELSE @]
    BY <1>1, <1>2, <1>4, <1>5, <1>6, <1>8 DEF FillType
  <2> QED  BY <2>1 DEF HandOn, Now
<1>10. /\ g \in FillType /\ g.update = fill.update
       /\ g.path = fill.path /\ g.end = fill.end /\ g.todo = fill.todo /\ g.limit = fill.limit
       /\ g.count = fill.count /\ g.rev = fill.rev /\ g.final = fill.final
       /\ g.following = h /\ g.phase = "log" /\ g.firstNA = v
  BY <1>1, <1>3, <1>7, <1>8 DEF FillType
<1>11. FillOK(g)
  <2>1. Unheard(fill) = v /\ Unheard(g) = v
    BY <1>0, <1>2, <1>10 DEF Unheard
  <2>2. fill.following => FillRest(fill)
    BY <1>0, <1>1 DEF FillOK
  <2>3. fill.following => FillRest(g)
    BY <1>10, <2>1, <2>2 DEF FillRest
  <2> QED  BY <1>0, <1>5, <1>10, <2>3 DEF FillOK
<1>12. FillsInv'
  BY <1>0, <1>1, <1>9, <1>10, <1>11, NowOK DEF LogInv
<1>13. CacheInv'
  BY <1>0, CacheStays DEF LogInv, CacheInv
<1>14. QueryInv'
  <2>1. query' = query \/ query' = [query EXCEPT !.sent = Append(@, fill.rev)]
    BY DEF HandOn
  <2>2. query \in QueryType /\ Append(query.sent, fill.rev) \in Seq(Rev)
    BY <1>3 DEF LogInv, QueryInv, QueryType
  <2> HIDE DEF fill
  <2> QED  BY <2>1, <2>2 DEF LogInv, QueryInv, QueryType, Running
<1> QED  BY <1>12, <1>13, <1>14 DEF LogInv

\* What all the fillers have, merged, is still a sound cache.
LEMMA AllMerged ==
  ASSUME LogInv, NEW c,
         c = LET merged[k \in 0 .. Len(fills)] ==
                   IF k = 0 THEN cache ELSE Merged(merged[k - 1], fills[k])
             IN  merged[Len(fills)]
  PROVE  CacheOK(c) /\ c.have = cache.have
<1> DEFINE n == Len(fills)
           D == 0 .. n
           Caches == [have : SUBSET Rev, props : SUBSET Rev, ranges : [Path -> Ranges]]
           V == {d \in Caches : CacheOK(d) /\ d.have = cache.have}
           Value(k, f) == IF k = 0 THEN cache ELSE Merged(f[k - 1], fills[k])
           All(f) == f = [k \in D |-> Value(k, f)]
           id == [k \in D |-> k]
<1>1. n \in Nat /\ \A k \in 1 .. n : /\ fills[k] \in FillType
                                     /\ fills[k].update \subseteq cache.have
  BY DEF LogInv, FillsInv
<1>2. CacheOK(cache) /\ cache \in V
  BY DEF LogInv, CacheInv, CacheOK
<1>3. \A k \in D : \A f : (k # 0 => f[k - 1] \in V) => Value(k, f) \in V
  <2> SUFFICES ASSUME NEW k \in D, k # 0, NEW f, f[k - 1] \in V
               PROVE  Value(k, f) \in V
    <3> HIDE DEF V, D
    <3> QED  BY <1>2
  <2>1. PICK d : d = f[k - 1]
    OBVIOUS
  <2>2. CacheOK(d) /\ d.have = cache.have
    BY <2>1
  <2>3. fills[k].update \subseteq d.have /\ fills[k].props \in BOOLEAN
    BY <1>1, <2>2 DEF FillType
  <2>4. PICK e : e = Merged(d, fills[k])
    OBVIOUS
  <2>5. CacheOK(e) /\ e.have = d.have
    BY <2>2, <2>3, <2>4, UpdateOK DEF Merged
  <2>6. e \in V
    BY <2>2, <2>5 DEF CacheOK
  <2> QED  BY <2>1, <2>4, <2>6
<1>4. \E f : All(f)
  <2> DEFINE body == [z \in D \X [D -> V] |-> Value(z[1], z[2])]
  <2>0. \A k \in D \ {0} : k - 1 \in D
    BY <1>1
  <2>1. ASSUME NEW k \in D, NEW g \in [D -> V]
        PROVE  body[<<k, g>>] = Value(k, g) /\ Value(k, g) \in V
    <3>1. k # 0 => g[k - 1] \in V
      <4> HIDE DEF V, D
      <4> QED  BY <2>0
    <3> HIDE DEF Value, V, D
    <3> QED  BY <1>3, <3>1
  <2>2. body \in [D \X [D -> V] -> V]
    <3> HIDE DEF Value, V, D
    <3> QED  BY <2>1
  <2>3. ASSUME NEW k \in D, NEW g \in [D -> V], NEW h \in [D -> V],
               \A y \in D : id[y] < id[k] => g[y] = h[y]
        PROVE  body[<<k, g>>] = body[<<k, h>>]
    <3>1. k # 0 => g[k - 1] = h[k - 1]
      <4> HIDE DEF V
      <4> QED  BY <1>1, <2>0, <2>3
    <3>2. Value(k, g) = Value(k, h)
      BY <3>1
    <3> HIDE DEF Value, body, V, D
    <3> QED  BY <2>1, <3>2
  <2>4. Recursion(D, V, n, id, body)
    <3>1. id \in [D -> 0 .. n]
      OBVIOUS
    <3> HIDE DEF body, V, D, n, id
    <3> QED  BY <1>1, <2>2, <2>3, <3>1 DEF Recursion
  <2>5. PICK g : Solves(g, D, V, body)
    <3> HIDE DEF body, V, D, n, id
    <3> QED  BY <1>2, <2>4, RecursionExists
  <2>6. g = [k \in D |-> Value(k, g)]
    <3> HIDE DEF body, Value, V, D
    <3> QED  BY <2>1, <2>5 DEF Solves
  <2> QED  BY <2>6
<1>5. PICK f : f = CHOOSE g : All(g)
  OBVIOUS
<1>6. All(f)
  <2> HIDE DEF All
  <2> QED  BY <1>4, <1>5
<1>7. c = f[n]
  BY <1>5
<1>8. \A k \in D : f[k] = Value(k, f)
  BY <1>6
<1> DEFINE T == {k \in D : f[k] \in V}
<1>9. ASSUME NEW k \in D, \A y \in D : id[y] < id[k] => y \in T
      PROVE  k \in T
  <2>1. k # 0 => f[k - 1] \in V
    <3>1. k # 0 => k - 1 \in D /\ id[k - 1] < id[k]
      BY <1>1
    <3> HIDE DEF V, D
    <3> QED  BY <1>9, <3>1
  <2> HIDE DEF Value, V, D
  <2> QED  BY <1>3, <1>8, <2>1
<1>10. \A k \in D : k \in T
  <2>1. id \in [D -> Nat]
    BY <1>1
  <2> HIDE DEF T, id, D
  <2> QED  BY <1>9, <2>1, FromBelow
<1>11. f[n] \in V
  <2>1. n \in D
    BY <1>1
  <2> HIDE DEF V, D
  <2> QED  BY <1>10, <2>1
<1> QED  BY <1>7, <1>11

\* The server is done: what it has not sent is a gap, unless it stopped at the limit.
LEMMA LogEnded ==
  ASSUME LogInv, LogEnds
  PROVE  LogInv'
<1>0. /\ fills # <<>> /\ fill.phase = "log" /\ fill.todo = <<>> /\ changes' = changes
      /\ cache' = Merged(cache, fill)
  BY DEF LogEnds, Filling
<1>1. fill \in FillType /\ FillOK(fill) /\ fill.update \subseteq cache.have
  BY <1>0, InnermostOK DEF LogInv
<1>2. CacheOK(cache') /\ cache'.have = cache.have
  BY <1>0, <1>1, UpdateOK DEF Merged, FillType, LogInv, CacheInv
<1>3. CacheInv'
  BY <1>0, <1>2, CacheStays DEF LogInv
<1> DEFINE limitReached == fill.limit > 0 /\ fill.count >= fill.limit
<1>4. CASE ~ offline /\ (fill.count = 0 \/ ~ limitReached)
  <2>1. PICK v : v = Larger(fill.end, 1) - 1
    OBVIOUS
  <2>2. PICK g : g = [fill EXCEPT !.update = {}, !.final = TRUE, !.phase = "gap", !.rev = v]
    OBVIOUS
  <2>3. fills' = <<g>> \o Tail(fills) /\ query' = query
    BY <1>4, <2>1, <2>2 DEF LogEnds, Now
  <2>4. v \in Rev
    <3>1. fill.end \in Rev
      BY <1>1 DEF FillType
    <3> QED  BY <2>1, <3>1, Positions DEF Larger
  <2>5. /\ g \in FillType /\ g.update = {} /\ g.path = fill.path /\ g.rev = v /\ g.final
        /\ g.following = fill.following /\ g.phase = "gap" /\ g.firstNA = fill.firstNA
        /\ g.todo = fill.todo
    BY <1>1, <2>2, <2>4 DEF FillType
  <2>6. fill.following => Silent(fill.path, v, fill.firstNA)
    <3> SUFFICES ASSUME fill.following  PROVE Silent(fill.path, v, fill.firstNA)
      OBVIOUS
    <3>1. FillRest(fill)
      BY <1>0, <1>1 DEF FillOK
    <3>2. ~ (fill.limit # 0 /\ fill.count + Len(fill.todo) >= fill.limit)
      <4>1. fill.limit \in Nat /\ fill.count \in Nat
        BY <1>1 DEF FillType
      <4>2. Len(<<>>) = 0
        OBVIOUS
      <4>3. Len(fill.todo) = 0
        BY <1>0, <4>2
      <4> QED  BY <1>4, <4>1, <4>3
    <3>3. Beyond(Unheard(fill), fill.todo) = fill.firstNA
      BY <1>0 DEF Beyond, Unheard
    <3> QED  BY <2>1, <3>1, <3>2, <3>3 DEF FillRest
  <2>7. FillOK(g)
    BY <1>0, <2>5, <2>6 DEF FillOK
  <2>8. FillsInv'
    BY <1>0, <1>2, <2>3, <2>5, <2>7, NowOK DEF LogInv
  <2> QED  BY <1>3, <2>3, <2>8 DEF LogInv, QueryInv, Running
<1>5. CASE ~ (~ offline /\ (fill.count = 0 \/ ~ limitReached))
  <2>1. Return(cache')
    BY <1>5 DEF LogEnds
  <2>2. PICK c : c = cache'
    OBVIOUS
  <2>3. CacheOK(c) /\ Return(c)
    BY <1>2, <2>1, <2>2
  <2>4. QueryInv' /\ FillsInv'
    BY <1>0, <1>2, <2>3, ReturnOK DEF LogInv, CacheInv
  <2> QED  BY <1>3, <2>4 DEF LogInv
<1> QED  BY <1>4, <1>5

\* FillLog returns when the last gap has been marked.
LEMMA FillEnded ==
  ASSUME LogInv, FillEnds
  PROVE  LogInv'
<1>0. fills # <<>> /\ changes' = changes /\ cache' = cache /\ Return(cache)
  BY DEF FillEnds, Filling
<1>1. CacheInv'
  BY <1>0, CacheStays DEF LogInv, CacheInv
<1>2. PICK c : c = cache
  OBVIOUS
<1>3. CacheOK(c) /\ Return(c)
  BY <1>0, <1>2 DEF LogInv, CacheInv
<1>4. QueryInv' /\ FillsInv'
  BY <1>0, <1>3, ReturnOK DEF LogInv, CacheInv
<1> QED  BY <1>1, <1>4 DEF LogInv

\* The connection breaks, and the user works off-line.
LEMMA Broken ==
  ASSUME LogInv, GoOffline
  PROVE  LogInv'
<1>0. fills # <<>> /\ changes' = changes /\ cache' = Merged(cache, fill) /\ Return(cache')
  BY DEF GoOffline, Filling
<1>1. fill \in FillType /\ FillOK(fill) /\ fill.update \subseteq cache.have
  BY <1>0, InnermostOK DEF LogInv
<1>2. CacheOK(cache') /\ cache'.have = cache.have
  BY <1>0, <1>1, UpdateOK DEF Merged, FillType, LogInv, CacheInv
<1>3. CacheInv'
  BY <1>0, <1>2, CacheStays DEF LogInv
<1>4. PICK c : c = cache'
  OBVIOUS
<1>5. CacheOK(c) /\ Return(c)
  BY <1>0, <1>2, <1>4
<1>6. QueryInv' /\ FillsInv'
  BY <1>0, <1>2, <1>5, ReturnOK DEF LogInv, CacheInv
<1> QED  BY <1>3, <1>6 DEF LogInv

\* An error ends the query and all its fillers.
LEMMA Failed ==
  ASSUME LogInv, Fail
  PROVE  LogInv'
<1>1. PICK c : c = LET merged[k \in 0 .. Len(fills)] ==
                         IF k = 0 THEN cache ELSE Merged(merged[k - 1], fills[k])
                   IN  merged[Len(fills)]
  OBVIOUS
<1>2. cache' = c /\ changes' = changes
  BY <1>1 DEF Fail
<1>3. CacheOK(c)
  BY <1>1, AllMerged
<1>4. CacheInv'
  BY <1>2, <1>3, CacheStays DEF LogInv
<1>5. fills' = <<>> /\ query' = [query EXCEPT !.state = "failed"]
  BY DEF Fail
<1>6. FillsInv'
  BY <1>5 DEF FillsInv
<1>7. QueryInv'
  BY <1>5 DEF LogInv, QueryInv, QueryType, Running
<1> QED  BY <1>4, <1>6, <1>7 DEF LogInv

\* The user goes on-line again.
LEMMA Resets ==
  ASSUME LogInv, ResetOffline
  PROVE  LogInv'
<1>1. CacheInv' /\ FillsInv'
  BY RestStays DEF ResetOffline
<1>2. query' = [query EXCEPT !.state = "none", !.sent = <<>>]
  BY DEF ResetOffline
<1>3. PICK t : t = <<>>
  OBVIOUS
<1>4. t \in Seq(Rev) /\ query' = [query EXCEPT !.state = "none", !.sent = t]
  BY <1>2, <1>3
<1>5. QueryInv'
  BY <1>4 DEF LogInv, QueryInv, QueryType, Running
<1> QED  BY <1>1, <1>5 DEF LogInv

\* Nothing happens.
LEMMA Stutters ==
  ASSUME LogInv, UNCHANGED vars
  PROVE  LogInv'
<1>1. CacheInv' /\ FillsInv'
  BY RestStays DEF vars
<1>2. QueryInv'
  BY DEF LogInv, QueryInv, Running, vars
<1> QED  BY <1>1, <1>2 DEF LogInv

\* LogInvariant: cache, query and fillers are as LogInv says at every moment.  The
\* heart of it is FillOK: the server has sent every revision that changes the path of a
\* filler down to where the filler has come, so that a gap that it is about to mark is one.
THEOREM LogInvariant == Spec => []LogInv
<1>1. Init => LogInv
  BY InitInv
<1>2. LogInv /\ [Next]_vars => LogInv'
  <2> SUFFICES ASSUME LogInv, [Next]_vars  PROVE LogInv'
    OBVIOUS
  <2>1. ASSUME NEW q \in Asked, Log(q)  PROVE LogInv'
    BY <2>1, LogStarts
  <2>2. CASE Report
    BY <2>2, Reports
  <2>3. CASE Finish \/ NothingBelow \/ RefusesRefetch
    BY <2>3, Dones DEF Finish, NothingBelow, RefusesRefetch
  <2>4. CASE SkipUnknown
    BY <2>4, Skips
  <2>5. CASE Fetch
    BY <2>5, Fetches
  <2>6. CASE Receive
    BY <2>6, Receives
  <2>7. CASE NoGap
    BY <2>7, NoGaps
  <2>8. CASE MarkGap
    BY <2>8, MarksGap
  <2>9. CASE FillGap
    BY <2>9, FillsGap
  <2>10. CASE HandOn
    BY <2>10, HandsOn
  <2>11. CASE LogEnds
    BY <2>11, LogEnded
  <2>12. CASE FillEnds
    BY <2>12, FillEnded
  <2>13. CASE GoOffline
    BY <2>13, Broken
  <2>14. CASE Fail
    BY <2>14, Failed
  <2>15. CASE ResetOffline
    BY <2>15, Resets
  <2>16. CASE UNCHANGED vars
    BY <2>16, Stutters
  <2> QED
    BY <2>1, <2>2, <2>3, <2>4, <2>5, <2>6, <2>7, <2>8, <2>9, <2>10, <2>11, <2>12,
       <2>13, <2>14, <2>15, <2>16 DEF Next, Step
<1> QED  BY <1>1, <1>2, PTL DEF Spec

\* SkipRangesSound: SkipSound holds of the specification; no skip range ever covers a
\* revision that changes its path, whatever order queries, nested fillers, failures and
\* breaks of the connection come in.
THEOREM SkipRangesSound == Spec => []SkipSound
<1>1. LogInv => SkipSound
  BY DEF LogInv, CacheInv, CacheOK, SkipSound, Covered
<1> QED  BY <1>1, LogInvariant, PTL

-----------------------------------------------------------------------------
(* The log of the server as a list *)

\* The sequence goes down.
Downward(s) == \A j, k \in 1 .. Len(s) : j < k => s[k] < s[j]

\* the revisions from hi down to lo that change p
Lists(s, p, hi, lo) ==
  /\ s \in Seq(Rev) /\ Downward(s)
  /\ \A x \in Rev : (\E k \in 1 .. Len(s) : s[k] = x) <=> lo <= x /\ x <= hi /\ Touches(p, x)

\* A path begins with a revision that changes it.
LEMMA BirthType ==
  ASSUME changes \in Histories, NEW p \in Path
  PROVE  Birth(p) \in Rev /\ Touches(p, Birth(p))
<1>1. CASE p = Root
  BY <1>1, Positions DEF Birth, Touches
<1>2. CASE p # Root
  <2>1. Birth(p) \in 1 .. MaxRev /\ p \in changes[Birth(p)] /\ p \in Ancestors[p]
    BY <1>2, BirthIs, AncestorsOrder
  <2> QED  BY <2>1, Positions DEF Touches, SameOrParent
<1> QED  BY <1>1, <1>2

\* One more revision down, whether it changes the path or not.
LEMMA ListsMore ==
  ASSUME NEW p, NEW hi \in Rev, NEW lo \in Rev, lo <= hi, NEW s, Lists(s, p, hi, lo + 1)
  PROVE  Lists(IF Touches(p, lo) THEN Append(s, lo) ELSE s, p, hi, lo)
<1>1. s \in Seq(Rev) /\ Downward(s) /\ Len(s) \in Nat /\ lo \in Nat /\ hi \in Nat
  BY Positions DEF Lists
<1>2. \A k \in 1 .. Len(s) : s[k] \in Rev /\ s[k] \in Nat /\ lo < s[k]
  <2> SUFFICES ASSUME NEW k \in 1 .. Len(s)  PROVE s[k] \in Rev /\ s[k] \in Nat /\ lo < s[k]
    OBVIOUS
  <2>1. PICK x : x = s[k]
    OBVIOUS
  <2>2. x \in Rev
    BY <1>1, <2>1
  <2>3. lo + 1 <= x
    BY <2>1, <2>2 DEF Lists
  <2> QED  BY <1>1, <2>1, <2>2, <2>3, Positions
<1>3. CASE ~ Touches(p, lo)
  <2>1. \A x \in Rev : lo + 1 <= x /\ Touches(p, x) <=> lo <= x /\ Touches(p, x)
    BY <1>1, <1>3, Positions
  <2> QED  BY <1>3, <2>1 DEF Lists
<1>4. CASE Touches(p, lo)
  <2>1. PICK a : a = Append(s, lo)
    OBVIOUS
  <2>2. /\ a \in Seq(Rev) /\ Len(a) = Len(s) + 1 /\ a[Len(a)] = lo
        /\ \A j \in 1 .. Len(s) : a[j] = s[j]
    BY <1>1, <2>1
  <2>3. Downward(a)
    <3> SUFFICES ASSUME NEW j \in 1 .. Len(a), NEW k \in 1 .. Len(a), j < k
                 PROVE  a[k] < a[j]
      BY DEF Downward
    <3>1. j \in 1 .. Len(s) /\ a[j] = s[j]
      BY <1>1, <2>2
    <3>2. CASE k = Len(a)
      BY <1>2, <2>2, <3>1, <3>2
    <3>3. CASE k # Len(a)
      <4>1. k \in 1 .. Len(s) /\ a[k] = s[k]
        BY <1>1, <2>2, <3>3
      <4> QED  BY <1>1, <3>1, <4>1 DEF Downward
    <3> QED  BY <3>2, <3>3
  <2>4. ASSUME NEW x \in Rev
        PROVE  (\E k \in 1 .. Len(a) : a[k] = x) <=> lo <= x /\ x <= hi /\ Touches(p, x)
    <3>1. (\E k \in 1 .. Len(a) : a[k] = x) <=> x = lo \/ \E k \in 1 .. Len(s) : s[k] = x
      BY <1>1, <2>2
    <3>2. (\E k \in 1 .. Len(s) : s[k] = x) <=> lo + 1 <= x /\ x <= hi /\ Touches(p, x)
      BY DEF Lists
    <3>3. x \in Nat
      BY Positions
    <3> QED  BY <1>1, <1>4, <3>1, <3>2, <3>3
  <2> QED  BY <1>4, <2>1, <2>2, <2>3, <2>4 DEF Lists
<1> QED  BY <1>3, <1>4

\* A log that goes down is the list of revisions that change the path, cut off at
\* the limit.
LEMMA ServerLogLists ==
  ASSUME changes \in Histories, NEW p \in Path, NEW start \in Rev, NEW end \in Rev,
         end <= start, NEW limit \in Nat, NEW s, s = ServerLog(p, start, end, limit)
  PROVE  \E all : /\ Lists(all, p, start, end)
                  /\ s \in Seq(Rev) /\ Len(s) <= Len(all)
                  /\ \A k \in 1 .. Len(s) : s[k] = all[k]
                  /\ IF limit = 0 THEN s = all
                     ELSE Len(s) <= limit /\ (Len(s) = limit \/ Len(s) = Len(all))
<1> DEFINE n == Count(start, end)
           D == 0 .. n
           id == [k \in D |-> k]
<1>1. start \in Nat /\ end \in Nat /\ MaxRev \in Nat /\ start <= MaxRev
  BY Positions
<1>2. n \in Nat /\ \A k \in D : k # 0 => k - 1 \in D /\ At(start, end, k) \in Rev
  BY ServerLogBuilt
<1>3. n = start - end + 1 /\ \A k \in D : At(start, end, k) = start + 1 - k
  <2>1. Stride(start, end) = -1
    BY <1>1 DEF Stride
  <2> QED  BY <1>1, <2>1 DEF Count, At
<1>4. PICK f : Built(f, p, start, end) /\ s = Cut(f[n], limit)
  BY ServerLogBuilt
<1> DEFINE T == {k \in D : Lists(f[k], p, start, start - k + 1)}
<1>5. ASSUME NEW k \in D, \A y \in D : id[y] < id[k] => y \in T
      PROVE  k \in T
  <2>1. CASE k = 0
    <3>1. f[k] = <<>>
      <4> HIDE DEF D
      <4> QED  BY <1>4, <2>1, <1>2 DEF Built, D
    <3>2. Lists(<<>>, p, start, start + 1)
      BY <1>1, Positions DEF Lists, Downward
    <3>3. start - k + 1 = start + 1
      BY <1>1, <2>1
    <3> QED  BY <3>1, <3>2, <3>3
  <2>2. CASE k # 0
    <3>1. k - 1 \in T /\ k \in Nat
      BY <1>2, <1>5, <2>2
    <3>2. PICK lo : lo = At(start, end, k)
      OBVIOUS
    <3>3. lo \in Rev /\ lo = start + 1 - k /\ lo <= start /\ lo \in Nat
      <4>1. lo \in Rev /\ lo = start + 1 - k
        <5> HIDE DEF n
        <5> QED  BY <1>2, <1>3, <2>2, <3>2
      <4> HIDE DEF D
      <4> QED  BY <1>1, <2>2, <3>1, <4>1, Positions
    <3>4. start - (k - 1) + 1 = lo + 1 /\ start - k + 1 = lo
      <4> HIDE DEF D
      <4> QED  BY <1>1, <3>1, <3>3
    <3>5. PICK t : t = f[k - 1]
      OBVIOUS
    <3>6. Lists(t, p, start, lo + 1)
      BY <3>1, <3>4, <3>5
    <3>7. f[k] = IF Touches(p, lo) /\ lo >= Birth(p) THEN Append(t, lo) ELSE t
      <4> HIDE DEF Cut
      <4> QED  BY <1>4, <2>2, <3>2, <3>5 DEF Built
    <3>8. Touches(p, lo) => lo >= Birth(p)
      BY <3>3, BornFirst, BirthType, Positions
    <3>9. Lists(f[k], p, start, lo)
      BY <3>3, <3>6, <3>7, <3>8, ListsMore
    <3> QED  BY <3>4, <3>9
  <2> QED  BY <2>1, <2>2
<1>6. \A k \in D : k \in T
  <2>1. id \in [D -> Nat]
    BY <1>2
  <2> HIDE DEF D, T, id
  <2> QED  BY <1>5, <2>1, FromBelow
<1>7. PICK all : all = f[n]
  OBVIOUS
<1>8. Lists(all, p, start, end)
  <2>1. n \in T
    BY <1>2, <1>6
  <2>2. start - n + 1 = end
    <3> HIDE DEF n
    <3> QED  BY <1>1, <1>3
  <2> HIDE DEF n
  <2> QED  BY <1>7, <2>1, <2>2
<1>9. s = Cut(all, limit) /\ all \in Seq(Rev) /\ Len(all) \in Nat
  BY <1>4, <1>7, <1>8 DEF Lists
<1> HIDE DEF n
<1>10. CASE limit = 0 \/ limit > Len(all)
  <2>1. s = all
    BY <1>9, <1>10 DEF Cut
  <2> QED  BY <1>8, <1>9, <1>10, <2>1
<1>11. CASE ~ (limit = 0 \/ limit > Len(all))
  <2>1. s = SubSeq(all, 1, limit)
    BY <1>9, <1>11 DEF Cut
  <2>2. limit <= Len(all) /\ limit > 0
    BY <1>9, <1>11
  <2>3. s \in Seq(Rev) /\ Len(s) = limit /\ \A k \in 1 .. limit : s[k] = all[k]
    BY <1>9, <2>1, <2>2
  <2> QED  BY <1>8, <1>9, <1>11, <2>2, <2>3
<1> QED  BY <1>10, <1>11

-----------------------------------------------------------------------------
(* What the steps of the fillers are to the query *)

\* A CLogFiller that waits for another one is behind it: the last one is the query's.
Outer == fills[Len(fills)]

\* received, and not yet handed on
Pending(f) == IF f.phase = "log" \/ f.final THEN 0 ELSE 1

\* The query's filler hands on what it receives, and those that it waits for do not.
OuterOnly ==
  /\ ~ Running => fills = <<>>
  /\ fills # <<>> => Outer.sends /\ Outer.path = query.path
  /\ \A k \in 1 .. Len(fills) - 1 : ~ fills[k].sends

\* What matters to the query is the same in two states of a filler.
Alike(f, g) ==
  /\ g.todo = f.todo /\ g.oldest = f.oldest /\ g.firstNA = f.firstNA
  /\ g.following = f.following
  /\ Pending(g) = Pending(f) /\ (Pending(f) = 1 => g.rev = f.rev)

\* What a step is for the query: nothing, or its filler receives a revision, hands
\* it on, or returns; or the query fails.
OuterStays == fills' # <<>> /\ query' = query /\ Alike(Outer, Outer')

OuterReceives ==
  /\ fills' # <<>> /\ query' = query
  /\ Pending(Outer) = 0 /\ Outer.todo # <<>> /\ Outer.todo \in Seq(Rev)
  /\ Outer'.todo = Tail(Outer.todo) /\ Outer'.rev = Head(Outer.todo) /\ Pending(Outer') = 1
  /\ Outer'.oldest = Outer.oldest /\ Outer'.following = Outer.following

OuterHandsOn ==
  /\ fills' # <<>>
  /\ Pending(Outer) = 1 /\ Outer.rev \in Rev
  /\ query' = IF Outer.following THEN [query EXCEPT !.sent = Append(@, Outer.rev)] ELSE query
  /\ Outer'.todo = Outer.todo /\ Pending(Outer') = 0
  /\ Outer'.firstNA = Larger(Outer.rev - 1, 0)
  /\ Outer'.oldest = IF Outer.following /\ Outer.rev < Outer.oldest THEN Outer.rev
                     ELSE Outer.oldest
  /\ Outer.path \notin Adds(Outer.rev) => Outer'.following = Outer.following

OuterReturns ==
  /\ fills' = <<>> /\ CacheOK(cache')
  /\ Pending(Outer) = 0
  /\ ~ offline' => Outer.todo = <<>>
  /\ query' = [query EXCEPT !.lastReported = IF Outer.oldest < Outer.firstNA + 1 THEN Outer.oldest
                                             ELSE Outer.firstNA + 1,
                            !.it = Retry(cache', query.path, @)]

OuterFails == fills' = <<>> /\ query' = [query EXCEPT !.state = "failed"]

\* ... and nothing else.
OuterStep ==
  /\ changes' = changes /\ OuterOnly'
  /\ OuterStays \/ OuterReceives \/ OuterHandsOn \/ OuterReturns \/ OuterFails

-----------------------------------------------------------------------------

\* While a filler is at work, there is the one that the query has started.
LEMMA LastFill ==
  ASSUME FillsInv, fills # <<>>
  PROVE  /\ fills \in Seq(FillType) /\ Len(fills) \in Nat /\ Len(fills) > 0
         /\ Outer \in FillType /\ fill \in FillType
         /\ Len(fills) = 1 => Outer = fill
BY DEF FillsInv, Outer, fill

\* The innermost filler changes, and is the query's own only if it is the only one.
LEMMA OuterNow ==
  ASSUME FillsInv, fills # <<>>, NEW g \in FillType, fills' = <<g>> \o Tail(fills)
  PROVE  /\ fills' # <<>> /\ Len(fills') = Len(fills) /\ fills'[1] = g
         /\ \A k \in 2 .. Len(fills) : fills'[k] = fills[k]
         /\ Outer' = IF Len(fills) = 1 THEN g ELSE Outer
<1>1. fills \in Seq(FillType) /\ Len(fills) \in Nat /\ Len(fills) > 0
  BY DEF FillsInv
<1>2. PICK t : t = Tail(fills)
  OBVIOUS
<1>3. t \in Seq(FillType) /\ Len(t) = Len(fills) - 1 /\ \A k \in 1 .. Len(t) : t[k] = fills[k + 1]
  BY <1>1, <1>2
<1>4. PICK s : s = <<g>> \o t
  OBVIOUS
<1>5. /\ s \in Seq(FillType) /\ Len(s) = Len(fills) /\ s[1] = g
      /\ \A k \in 2 .. Len(s) : s[k] = fills[k]
  BY <1>1, <1>3, <1>4
<1>6. fills' = s
  BY <1>2, <1>4
<1>7. s # <<>>
  <2>1. Len(<<>>) = 0
    OBVIOUS
  <2> QED  BY <1>1, <1>5, <2>1
<1> QED  BY <1>1, <1>5, <1>6, <1>7 DEF Outer

\* Whatever the innermost filler does keeps the order of the fillers.
LEMMA OuterNowOnly ==
  ASSUME FillsInv, OuterOnly, fills # <<>>, NEW g \in FillType, fills' = <<g>> \o Tail(fills),
         g.path = fill.path, g.sends = fill.sends,
         query'.path = query.path, query'.state = query.state
  PROVE  OuterOnly'
<1>1. /\ fills' # <<>> /\ Len(fills') = Len(fills) /\ fills'[1] = g
      /\ \A k \in 2 .. Len(fills) : fills'[k] = fills[k]
      /\ Outer' = IF Len(fills) = 1 THEN g ELSE Outer
  BY OuterNow
<1>2. Len(fills) \in Nat /\ Len(fills) > 0 /\ (Len(fills) = 1 => Outer = fill)
  BY LastFill
<1>3. Running'
  BY DEF OuterOnly, Running
<1>4. Outer'.sends /\ Outer'.path = query'.path
  BY <1>1, <1>2 DEF OuterOnly
<1>5. ASSUME NEW k \in 1 .. Len(fills') - 1  PROVE ~ fills'[k].sends
  <2>1. k \in 1 .. Len(fills) - 1
    BY <1>1
  <2>2. CASE k = 1
    BY <1>1, <2>1, <2>2 DEF OuterOnly, fill
  <2>3. CASE k # 1
    <3>1. k \in 2 .. Len(fills)
      BY <1>2, <2>1, <2>3
    <3> QED  BY <1>1, <2>1, <3>1 DEF OuterOnly
  <2> QED  BY <2>2, <2>3
<1> QED  BY <1>3, <1>4, <1>5 DEF OuterOnly

\* Whatever a filler does that does not matter to the query.
LEMMA OuterLike ==
  ASSUME FillsInv, OuterOnly, fills # <<>>, changes' = changes, query' = query,
         NEW g \in FillType, fills' = <<g>> \o Tail(fills),
         g.path = fill.path, g.sends = fill.sends,
         Len(fills) = 1 => Alike(fill, g)
  PROVE  OuterStep
<1>1. OuterOnly'
  BY OuterNowOnly
<1>2. fills' # <<>> /\ Outer' = IF Len(fills) = 1 THEN g ELSE Outer
  BY OuterNow
<1>3. Alike(Outer, Outer')
  <2>1. CASE Len(fills) = 1
    BY <1>2, <2>1, LastFill
  <2>2. CASE Len(fills) # 1
    BY <1>2, <2>2 DEF Alike
  <2> QED  BY <2>1, <2>2
<1> QED  BY <1>1, <1>2, <1>3 DEF OuterStep, OuterStays

\* The fillers behind the first two.
LEMMA LaterFills ==
  ASSUME NEW S, NEW s \in Seq(S), Len(s) > 1, NEW t, t = SubSeq(s, 3, Len(s))
  PROVE  /\ t \in Seq(S) /\ Len(t) = Len(s) - 2
         /\ \A k \in 1 .. Len(t) : t[k] = s[k + 2]
<1>1. PICK n : n = Len(s)
  OBVIOUS
<1>2. n \in Int /\ n > 1
  BY <1>1
<1>3. \A k \in 3 .. n : s[k] \in S
  BY <1>1
<1>4. t = SubSeq(s, 3, n)
  BY <1>1
<1>5. /\ t \in Seq(S)
      /\ Len(t) = IF 3 <= n THEN n - 3 + 1 ELSE 0
      /\ \A k \in 1 .. n - 3 + 1 : t[k] = s[3 + k - 1]
  BY <1>2, <1>3, <1>4, SubSeqProperties
<1>6. Len(t) = n - 2
  BY <1>2, <1>5
<1>7. ASSUME NEW k \in 1 .. Len(t)  PROVE t[k] = s[k + 2]
  <2>1. k \in 1 .. n - 3 + 1 /\ 3 + k - 1 = k + 2
    BY <1>2, <1>6, <1>7
  <2> QED  BY <1>5, <2>1
<1> QED  BY <1>1, <1>5, <1>6, <1>7

\* FillLog returns.
LEMMA OuterReturn ==
  ASSUME LogInv, OuterOnly, fills # <<>>, changes' = changes,
         Return(cache'), CacheOK(cache'),
         fill.phase = "log" \/ fill.final,
         ~ offline' => fill.todo = <<>>
  PROVE  OuterStep
<1>1. /\ fills \in Seq(FillType) /\ Len(fills) \in Nat /\ Len(fills) > 0
      /\ Len(fills) = 1 => Outer = fill
  BY LastFill DEF LogInv
<1>2. CASE Len(fills) > 1
  <2>1. PICK g : g = [fills[2] EXCEPT !.phase = "after"]
    OBVIOUS
  <2>2. PICK t : t = SubSeq(fills, 3, Len(fills))
    OBVIOUS
  <2>3. fills' = <<g>> \o t /\ query' = query
    BY <1>2, <2>1, <2>2 DEF Return
  <2>4. 2 \in 1 .. Len(fills) /\ fills[2] \in FillType
    BY <1>1, <1>2
  <2>5. fills[2].phase = "nested"
    BY <2>4 DEF LogInv, FillsInv
  <2>6. /\ g \in FillType /\ g.path = fills[2].path /\ g.sends = fills[2].sends
        /\ Alike(fills[2], g)
    BY <2>1, <2>4, <2>5 DEF FillType, Alike, Pending
  <2>7. /\ t \in Seq(FillType) /\ Len(t) = Len(fills) - 2
        /\ \A k \in 1 .. Len(t) : t[k] = fills[k + 2]
    BY <1>1, <1>2, <2>2, LaterFills
  <2>8. PICK s : s = <<g>> \o t
    OBVIOUS
  <2>9. /\ s \in Seq(FillType) /\ Len(s) = Len(fills) - 1 /\ s[1] = g
        /\ \A k \in 2 .. Len(s) : s[k] = fills[k + 1]
    BY <1>1, <1>2, <2>6, <2>7, <2>8
  <2>10. fills' = s /\ s # <<>>
    <3>1. Len(<<>>) = 0
      OBVIOUS
    <3> QED  BY <1>1, <1>2, <2>3, <2>8, <2>9, <3>1
  <2>11. Outer' = IF Len(fills) = 2 THEN g ELSE Outer
    BY <1>1, <1>2, <2>9, <2>10 DEF Outer
  <2>12. Alike(Outer, Outer') /\ Outer'.sends /\ Outer'.path = query'.path
    <3>1. CASE Len(fills) = 2
      <4>1. Outer = fills[2]
        BY <3>1 DEF Outer
      <4> QED  BY <2>3, <2>6, <2>11, <3>1, <4>1 DEF OuterOnly
    <3>2. CASE Len(fills) # 2
      BY <2>3, <2>11, <3>2 DEF OuterOnly, Alike
    <3> QED  BY <3>1, <3>2
  <2>13. ASSUME NEW k \in 1 .. Len(fills') - 1  PROVE ~ fills'[k].sends
    <3>1. k + 1 \in 1 .. Len(fills) - 1
      BY <1>1, <2>9, <2>10
    <3>2. ~ fills[k + 1].sends
      BY <3>1 DEF OuterOnly
    <3>3. CASE k = 1
      BY <2>6, <2>9, <2>10, <3>2, <3>3
    <3>4. CASE k # 1
      BY <1>1, <2>9, <2>10, <3>1, <3>2, <3>4
    <3> QED  BY <3>3, <3>4
  <2>14. Running'
    BY <2>3 DEF OuterOnly, Running
  <2> QED  BY <2>3, <2>10, <2>12, <2>13, <2>14 DEF OuterStep, OuterStays, OuterOnly
<1>3. CASE ~ (Len(fills) > 1)
  <2>1. Outer = fill
    <3>1. PICK n : n = Len(fills)
      OBVIOUS
    <3>2. n \in Nat /\ n > 0 /\ ~ (n > 1)
      BY <1>1, <1>3, <3>1
    <3>3. Len(fills) = 1
      BY <3>1, <3>2
    <3> QED  BY <1>1, <3>3
  <2>2. PICK low : low = IF fill.oldest < fill.firstNA + 1 THEN fill.oldest
                         ELSE fill.firstNA + 1
    OBVIOUS
  <2>3. fills' = <<>> /\ query' = [query EXCEPT !.lastReported = low,
                                               !.it = Retry(cache', query.path, @)]
    BY <1>3, <2>2 DEF Return
  <2>4. Pending(Outer) = 0
    BY <2>1 DEF Pending
  <2>5. OuterReturns
    BY <2>1, <2>2, <2>3, <2>4 DEF OuterReturns
  <2>6. OuterOnly'
    <3>1. Len(<<>>) = 0
      OBVIOUS
    <3> QED  BY <2>3, <3>1 DEF OuterOnly
  <2> QED  BY <2>5, <2>6 DEF OuterStep
<1> QED  BY <1>2, <1>3

\* The innermost filler receives a revision.
LEMMA OuterReceived ==
  ASSUME LogInv, OuterOnly, Receive
  PROVE  OuterStep
<1>0. fills # <<>> /\ fill.phase = "log" /\ fill.todo # <<>> /\ changes' = changes /\ query' = query
  BY DEF Receive, Filling
<1>1. fill \in FillType /\ FillOK(fill) /\ FillsInv /\ fills \in Seq(FillType)
  BY <1>0, InnermostOK DEF LogInv, FillsInv
<1>2. PICK r, t : r = Head(fill.todo) /\ t = Tail(fill.todo)
  OBVIOUS
<1>3. r \in Rev /\ t \in Seq(Rev) /\ fill.todo \in Seq(Rev)
  <2>1. fill.todo \in Seq(Rev)
    BY <1>1 DEF FillType
  <2> QED  BY <1>0, <1>2, <2>1
<1>4. PICK g : /\ g \in FillType /\ fills' = <<g>> \o Tail(fills)
               /\ g.path = fill.path /\ g.sends = fill.sends
               /\ g.todo = t /\ g.rev = r /\ g.phase = "gap"
               /\ g.oldest = fill.oldest /\ g.following = fill.following
               /\ g.final = fill.final
  <2>1. PICK known : known = [cache EXCEPT !.have = @ \cup {r},
                        !.props = IF r \notin cache.have /\ fill.props THEN @ \cup {r} ELSE @]
    OBVIOUS
  <2>2. PICK late : late = IF r \notin cache.have THEN fill.update ELSE fill.update \cup {r}
    OBVIOUS
  <2>3. PICK f : f = [fill EXCEPT !.todo = t, !.count = @ + 1, !.rev = r,
                                  !.phase = "gap", !.update = late]
    OBVIOUS
  <2>4. late \in SUBSET Rev
    BY <1>1, <1>3, <2>2 DEF FillType
  <2>5. fill.count + 1 \in Nat
    BY <1>1 DEF FillType
  <2>6. /\ f \in FillType /\ f.path = fill.path /\ f.sends = fill.sends
        /\ f.todo = t /\ f.rev = r /\ f.phase = "gap"
        /\ f.oldest = fill.oldest /\ f.following = fill.following
        /\ f.final = fill.final
    <3> HIDE DEF fill
    <3> QED  BY <1>1, <1>3, <2>3, <2>4, <2>5 DEF FillType
  <2>7. CASE ~ (fill.following /\ fill.base # fill.path)
    <3>1. fills' = <<f>> \o Tail(fills)
      BY <1>2, <2>1, <2>2, <2>3, <2>7 DEF Receive, Now
    <3> QED  BY <2>6, <3>1
  <2>8. CASE fill.following /\ fill.base # fill.path
    <3>1. PICK b : b = Base(known, f.path)
      OBVIOUS
    <3>2. PICK g : g = [f EXCEPT !.update = {}, !.base = b]
      OBVIOUS
    <3>3. fills' = <<g>> \o Tail(fills)
      BY <1>2, <2>1, <2>2, <2>3, <2>8, <3>1, <3>2 DEF Receive, Now
    <3>4. b \in Path
      BY <2>6, <3>1, BaseNearest DEF FillType, LogInv, CacheInv
    <3>5. /\ g \in FillType /\ g.path = fill.path /\ g.sends = fill.sends
          /\ g.todo = t /\ g.rev = r /\ g.phase = "gap"
          /\ g.oldest = fill.oldest /\ g.following = fill.following
          /\ g.final = fill.final
      <4> HIDE DEF fill
      <4> QED  BY <2>6, <3>2, <3>4 DEF FillType
    <3> QED  BY <3>3, <3>5
  <2> QED  BY <2>7, <2>8
<1>5. CASE Len(fills) = 1
  <2>1. OuterOnly'
    BY <1>0, <1>1, <1>4, OuterNowOnly
  <2>2. Outer' = g /\ Outer = fill /\ fills' # <<>>
    BY <1>0, <1>1, <1>4, <1>5, OuterNow, LastFill
  <2>3. Pending(fill) = 0 /\ Pending(g) = 1
    BY <1>0, <1>1, <1>4 DEF Pending, FillOK
  <2>4. OuterReceives
    BY <1>0, <1>2, <1>3, <1>4, <2>2, <2>3 DEF OuterReceives
  <2> QED  BY <1>0, <2>1, <2>4 DEF OuterStep
<1>6. CASE Len(fills) # 1
  BY <1>0, <1>1, <1>4, <1>6, OuterLike
<1> QED  BY <1>5, <1>6

\* AutoAddSkipRange changes nothing that the query depends on.
LEMMA OuterGaps ==
  ASSUME LogInv, OuterOnly, NoGap \/ MarkGap
  PROVE  OuterStep
<1>0. fills # <<>> /\ fill.phase = "gap" /\ changes' = changes /\ query' = query
  BY DEF NoGap, MarkGap, Filling
<1>1. fill \in FillType /\ FillsInv
  BY <1>0, InnermostOK DEF LogInv
<1>2. PICK g : g = [fill EXCEPT !.phase = "after"]
  OBVIOUS
<1>3. fills' = <<g>> \o Tail(fills)
  BY <1>2 DEF NoGap, MarkGap, Now
<1>4. g \in FillType /\ g.path = fill.path /\ g.sends = fill.sends /\ Alike(fill, g)
  BY <1>0, <1>1, <1>2 DEF FillType, Alike, Pending
<1> QED  BY <1>0, <1>1, <1>3, <1>4, OuterLike

\* A filler that is put in front of the others.
LEMMA TwoInFront ==
  ASSUME NEW s, NEW S, NEW t \in Seq(S), NEW u \in Seq(S), u # <<>>, Len(t) = Len(u) - 1,
         \A k \in 1 .. Len(t) : t[k] = u[k + 1], NEW a, NEW b, s = <<a, b>> \o t
  PROVE  /\ Len(s) = Len(u) + 1 /\ s[1] = a /\ s[2] = b
         /\ \A k \in 3 .. Len(s) : s[k] = u[k - 1]
<1>1. Len(t) \in Nat /\ Len(u) \in Nat
  OBVIOUS
<1>2. PICK two : two = <<a, b>>
  OBVIOUS
<1>3. two \in Seq({a, b}) /\ Len(two) = 2 /\ two[1] = a /\ two[2] = b
  BY <1>2
<1>4. s = two \o t
  BY <1>2
<1>5. /\ Len(s) = Len(two) + Len(t)
      /\ \A i \in 1 .. Len(two) + Len(t) :
           s[i] = IF i <= Len(two) THEN two[i] ELSE t[i - Len(two)]
  <2>1. two \in Seq({a, b} \cup S) /\ t \in Seq({a, b} \cup S)
    BY <1>3
  <2> QED  BY <1>4, <2>1, ConcatProperties
<1>6. ASSUME NEW k \in 3 .. Len(s)  PROVE s[k] = u[k - 1]
  <2>1. PICK j : j = k - 2
    OBVIOUS
  <2>2. j \in 1 .. Len(t) /\ j + 1 = k - 1
    BY <1>1, <1>3, <1>5, <2>1
  <2>3. s[k] = t[j] /\ t[j] = u[j + 1]
    BY <1>1, <1>3, <1>5, <2>1, <2>2
  <2> QED  BY <2>2, <2>3
<1> QED  BY <1>1, <1>3, <1>5, <1>6

\* FillGap starts another filler, or marks nothing; the query does not notice.
LEMMA OuterFillsGap ==
  ASSUME LogInv, OuterOnly, FillGap
  PROVE  OuterStep
<1>0. fills # <<>> /\ fill.phase = "gap" /\ changes' = changes /\ query' = query
  BY DEF FillGap, Filling
<1>1. /\ fill \in FillType /\ FillsInv /\ fills \in Seq(FillType)
      /\ Len(fills) \in Nat /\ Len(fills) > 0
  BY <1>0, InnermostOK, LastFill DEF LogInv
<1>2. PICK x : x = RangeGap(cache', fill.base, fill.rev + 1, GapLength)
  OBVIOUS
<1>3. CASE x = NO_REVISION
  <2>1. PICK g : g = [fill EXCEPT !.update = {}, !.phase = "after"]
    OBVIOUS
  <2>2. fills' = <<g>> \o Tail(fills)
    BY <1>2, <1>3, <2>1 DEF FillGap, Now
  <2>3. g \in FillType /\ g.path = fill.path /\ g.sends = fill.sends /\ Alike(fill, g)
    BY <1>0, <1>1, <2>1 DEF FillType, Alike, Pending
  <2> QED  BY <1>0, <1>1, <2>2, <2>3, OuterLike
<1>4. CASE x # NO_REVISION
  <2>1. PICK f : f = Fill(fill.base, x, fill.rev + 1, 0, TRUE, FALSE)
    OBVIOUS
  <2>2. PICK g : g = [fill EXCEPT !.update = {}, !.phase = "nested"]
    OBVIOUS
  <2>3. fills' = <<f, g>> \o Tail(fills)
    BY <1>2, <1>4, <2>1, <2>2 DEF FillGap
  <2>4. g \in FillType /\ g.path = fill.path /\ g.sends = fill.sends /\ Alike(fill, g)
    BY <1>0, <1>1, <2>2 DEF FillType, Alike, Pending
  <2>5. f.sends = FALSE
    BY <2>1 DEF Fill
  <2>6. PICK t : t = Tail(fills)
    OBVIOUS
  <2>7. t \in Seq(FillType) /\ Len(t) = Len(fills) - 1 /\ \A k \in 1 .. Len(t) : t[k] = fills[k + 1]
    BY <1>1, <2>6
  <2>8. PICK s : s = <<f, g>> \o t
    OBVIOUS
  <2>9. /\ Len(s) = Len(fills) + 1 /\ s[1] = f /\ s[2] = g
        /\ \A k \in 3 .. Len(s) : s[k] = fills[k - 1]
    <3>1. PICK u : u = fills
      OBVIOUS
    <3>2. u \in Seq(FillType) /\ u # <<>> /\ Len(t) = Len(u) - 1
      BY <1>0, <1>1, <2>7, <3>1
    <3>3. \A k \in 1 .. Len(t) : t[k] = u[k + 1]
      BY <2>7, <3>1
    <3>4. /\ Len(s) = Len(u) + 1 /\ s[1] = f /\ s[2] = g
          /\ \A k \in 3 .. Len(s) : s[k] = u[k - 1]
      BY <2>7, <2>8, <3>2, <3>3, TwoInFront
    <3> QED  BY <3>1, <3>4
  <2>10. fills' = s /\ s # <<>>
    <3>1. Len(<<>>) = 0
      OBVIOUS
    <3> QED  BY <1>1, <2>3, <2>6, <2>8, <2>9, <3>1
  <2>11. Outer' = IF Len(fills) = 1 THEN g ELSE Outer
    <3>1. Outer' = s[Len(s)]
      BY <2>10 DEF Outer
    <3>2. PICK n : n = Len(fills)
      OBVIOUS
    <3>3. n \in Nat /\ n > 0 /\ Len(s) = n + 1
      BY <1>1, <2>9, <3>2
    <3>4. CASE n = 1
      BY <2>9, <3>1, <3>2, <3>3, <3>4
    <3>5. CASE n # 1
      <4>1. n + 1 \in 3 .. Len(s) /\ n + 1 - 1 = n
        BY <3>3, <3>5
      <4> QED  BY <2>9, <3>1, <3>2, <3>3, <3>5, <4>1 DEF Outer
    <3> QED  BY <3>2, <3>4, <3>5
  <2>12. Alike(Outer, Outer') /\ Outer'.sends /\ Outer'.path = query'.path
    <3>1. CASE Len(fills) = 1
      <4>1. Outer = fill
        BY <3>1 DEF Outer, fill
      <4> QED  BY <1>0, <2>4, <2>11, <3>1, <4>1 DEF OuterOnly
    <3>2. CASE Len(fills) # 1
      BY <1>0, <2>11, <3>2 DEF OuterOnly, Alike
    <3> QED  BY <3>1, <3>2
  <2>13. ASSUME NEW k \in 1 .. Len(fills') - 1  PROVE ~ fills'[k].sends
    <3>1. CASE k = 1
      BY <2>5, <2>9, <2>10, <3>1
    <3>2. CASE k # 1
      <4>1. k - 1 \in 1 .. Len(fills) - 1
        BY <1>1, <2>9, <2>10, <3>2
      <4>2. ~ fills[k - 1].sends
        BY <4>1 DEF OuterOnly
      <4>3. fills'[k].sends = fills[k - 1].sends
        <5>1. CASE k = 2
          BY <2>4, <2>9, <2>10, <5>1 DEF fill
        <5>2. CASE k # 2
          <6>1. k \in 3 .. Len(s)
            BY <1>1, <2>9, <2>10, <3>2, <5>2
          <6> QED  BY <2>9, <2>10, <6>1
        <5> QED  BY <5>1, <5>2
      <4> QED  BY <4>2, <4>3
    <3> QED  BY <3>1, <3>2
  <2>14. Running'
    BY <1>0 DEF OuterOnly, Running
  <2> QED  BY <1>0, <2>10, <2>12, <2>13, <2>14 DEF OuterStep, OuterStays, OuterOnly
<1> QED  BY <1>3, <1>4

\* HandOn, of the filler of the query or of one that it waits for.
LEMMA OuterHands ==
  ASSUME LogInv, OuterOnly, HandOn
  PROVE  OuterStep
<1>0. fills # <<>> /\ fill.phase = "after" /\ ~ fill.final /\ changes' = changes /\ cache' = cache
  BY DEF HandOn, Filling
<1>1. fill \in FillType /\ FillsInv /\ fills \in Seq(FillType)
  BY <1>0, InnermostOK, LastFill DEF LogInv
<1>2. PICK v : v = Larger(fill.rev - 1, 0)
  OBVIOUS
<1>3. v \in Rev /\ fill.rev \in Rev
  <2>1. fill.rev \in Rev
    BY <1>1 DEF FillType
  <2> QED  BY <1>2, <2>1, Positions DEF Larger
<1>4. PICK o : o = IF fill.following /\ fill.rev < fill.oldest THEN fill.rev ELSE fill.oldest
  OBVIOUS
<1>5. PICK h \in BOOLEAN : h <=> fill.following /\ ~ (fill.path \in Adds(fill.rev))
  OBVIOUS
<1>6. PICK b : b = IF Adds(fill.rev) # {} THEN Base(cache, fill.path) ELSE fill.base
  OBVIOUS
<1>7. o \in Int /\ b \in Path
  BY <1>1, <1>3, <1>4, <1>6, BaseNearest, Positions DEF FillType, LogInv, CacheInv
<1>8. PICK g : g = [fill EXCEPT !.phase = "log", !.firstNA = v, !.oldest = o,
                                !.following = h, !.base = b]
  OBVIOUS
<1>9. fills' = <<g>> \o Tail(fills)
  <2>1. g = [fill EXCEPT !.phase = "log",
              !.firstNA = Larger(fill.rev - 1, 0),
              !.oldest = IF fill.following /\ fill.rev < @ THEN fill.rev ELSE @,
              !.following = @ /\ ~ (fill.path \in Adds(fill.rev)),
              !.base = IF Adds(fill.rev) # {} THEN Base(cache, fill.path) ELSE @]
    BY <1>1, <1>2, <1>4, <1>5, <1>6, <1>8 DEF FillType
  <2> QED  BY <2>1 DEF HandOn, Now
<1>10. /\ g \in FillType /\ g.path = fill.path /\ g.sends = fill.sends
       /\ g.todo = fill.todo /\ g.phase = "log" /\ g.firstNA = v /\ g.oldest = o
       /\ g.following = h
  BY <1>1, <1>3, <1>7, <1>8 DEF FillType
<1>11. query' = IF fill.following /\ fill.sends
                  THEN [query EXCEPT !.sent = Append(@, fill.rev)] ELSE query
  BY DEF HandOn
<1>12. query'.path = query.path /\ query'.state = query.state
  <2>1. query \in QueryType
    BY DEF LogInv, QueryInv
  <2>2. PICK s : s = Append(query.sent, fill.rev)
    OBVIOUS
  <2>3. query' = query \/ query' = [query EXCEPT !.sent = s]
    BY <1>11, <2>1, <2>2 DEF QueryType
  <2> QED  BY <2>1, <2>3 DEF QueryType
<1>13. OuterOnly'
  BY <1>0, <1>1, <1>9, <1>10, <1>12, OuterNowOnly
<1>14. fills' # <<>> /\ Outer' = IF Len(fills) = 1 THEN g ELSE Outer
  BY <1>0, <1>1, <1>9, <1>10, OuterNow
<1>15. CASE Len(fills) = 1
  <2>1. Outer' = g /\ Outer = fill /\ fill.sends
    BY <1>0, <1>1, <1>14, <1>15, LastFill DEF OuterOnly
  <2>2. Pending(fill) = 1 /\ Pending(g) = 0
    BY <1>0, <1>10 DEF Pending
  <2>3. fill.path \notin Adds(fill.rev) => h = fill.following
    <3>1. fill.following \in BOOLEAN
      BY <1>1 DEF FillType
    <3> QED  BY <1>5, <3>1
  <2>4. OuterHandsOn
    BY <1>2, <1>3, <1>4, <1>10, <1>11, <1>14, <2>1, <2>2, <2>3 DEF OuterHandsOn
  <2> QED  BY <1>0, <1>13, <2>4 DEF OuterStep
<1>16. CASE Len(fills) # 1
  <2>1. ~ fill.sends
    <3>1. PICK n : n = Len(fills)
      OBVIOUS
    <3>2. n \in Nat /\ n > 0 /\ n # 1
      BY <1>0, <1>1, <1>16, <3>1, LastFill
    <3>3. 1 \in 1 .. n - 1
      BY <3>2
    <3> QED  BY <3>1, <3>3 DEF OuterOnly, fill
  <2>2. query' = query
    BY <1>11, <2>1
  <2> QED  BY <1>0, <1>1, <1>9, <1>10, <1>16, <2>2, OuterLike
<1> QED  BY <1>15, <1>16

\* The same for LogEnds.
LEMMA OuterLogEnds ==
  ASSUME LogInv, OuterOnly, LogEnds
  PROVE  OuterStep
<1>0. /\ fills # <<>> /\ fill.phase = "log" /\ fill.todo = <<>> /\ changes' = changes
      /\ cache' = Merged(cache, fill)
  BY DEF LogEnds, Filling
<1>1. fill \in FillType /\ FillOK(fill) /\ fill.update \subseteq cache.have /\ FillsInv
  BY <1>0, InnermostOK DEF LogInv
<1> DEFINE limitReached == fill.limit > 0 /\ fill.count >= fill.limit
<1>2. CASE ~ offline /\ (fill.count = 0 \/ ~ limitReached)
  <2>1. PICK v : v = Larger(fill.end, 1) - 1
    OBVIOUS
  <2>2. PICK g : g = [fill EXCEPT !.update = {}, !.final = TRUE, !.phase = "gap", !.rev = v]
    OBVIOUS
  <2>3. fills' = <<g>> \o Tail(fills) /\ query' = query
    BY <1>2, <2>1, <2>2 DEF LogEnds, Now
  <2>4. v \in Rev
    <3>1. fill.end \in Rev
      BY <1>1 DEF FillType
    <3> QED  BY <2>1, <3>1, Positions DEF Larger
  <2>5. g \in FillType /\ g.path = fill.path /\ g.sends = fill.sends /\ Alike(fill, g)
    <3>1. /\ g \in FillType /\ g.path = fill.path /\ g.sends = fill.sends
          /\ g.todo = fill.todo /\ g.oldest = fill.oldest /\ g.firstNA = fill.firstNA
          /\ g.following = fill.following /\ g.final
      BY <1>1, <2>2, <2>4 DEF FillType
    <3> QED  BY <1>0, <3>1 DEF Alike, Pending
  <2> QED  BY <1>0, <1>1, <2>3, <2>5, OuterLike
<1>3. CASE ~ (~ offline /\ (fill.count = 0 \/ ~ limitReached))
  <2>1. Return(cache')
    BY <1>3 DEF LogEnds
  <2>2. CacheOK(cache')
    BY <1>0, <1>1, UpdateOK DEF Merged, FillType, LogInv, CacheInv
  <2> QED  BY <1>0, <2>1, <2>2, OuterReturn
<1> QED  BY <1>2, <1>3

\* The same for FillEnds.
LEMMA OuterFillEnds ==
  ASSUME LogInv, OuterOnly, FillEnds
  PROVE  OuterStep
<1>0. /\ fills # <<>> /\ fill.final /\ changes' = changes /\ cache' = cache
      /\ Return(cache)
  BY DEF FillEnds, Filling
<1>1. fill.todo = <<>>
  BY <1>0, InnermostOK DEF LogInv, FillOK
<1>2. CacheOK(cache') /\ Return(cache')
  BY <1>0 DEF LogInv, CacheInv
<1> QED  BY <1>0, <1>1, <1>2, OuterReturn

\* The same for GoOffline.
LEMMA OuterBroken ==
  ASSUME LogInv, OuterOnly, GoOffline
  PROVE  OuterStep
<1>0. /\ fills # <<>> /\ fill.phase = "log" /\ changes' = changes /\ offline' = TRUE
      /\ cache' = Merged(cache, fill) /\ Return(cache')
  BY DEF GoOffline, Filling
<1>1. fill \in FillType /\ fill.update \subseteq cache.have
  BY <1>0, InnermostOK DEF LogInv
<1>2. CacheOK(cache')
  BY <1>0, <1>1, UpdateOK DEF Merged, FillType, LogInv, CacheInv
<1> QED  BY <1>0, <1>2, OuterReturn

\* While fillers are at work, a step means one of five things to the query.
LEMMA OuterSteps ==
  ASSUME LogInv, OuterOnly, fills # <<>>, [Next]_vars
  PROVE  OuterStep
<1>1. Running
  BY DEF OuterOnly
<1>2. ASSUME NEW q \in Asked, Log(q)  PROVE OuterStep
  BY <1>1, <1>2 DEF Log
<1>3. CASE Report \/ Finish \/ NothingBelow \/ RefusesRefetch \/ SkipUnknown \/ Fetch
  BY <1>3 DEF Report, Finish, NothingBelow, RefusesRefetch, SkipUnknown, Fetch, MustFetch,
              Looping
<1>4. CASE Receive
  BY <1>4, OuterReceived
<1>5. CASE NoGap \/ MarkGap
  BY <1>5, OuterGaps
<1>6. CASE FillGap
  BY <1>6, OuterFillsGap
<1>7. CASE HandOn
  BY <1>7, OuterHands
<1>8. CASE LogEnds
  BY <1>8, OuterLogEnds
<1>9. CASE FillEnds
  BY <1>9, OuterFillEnds
<1>10. CASE GoOffline
  BY <1>10, OuterBroken
<1>11. CASE Fail
  <2>1. /\ fills' = <<>> /\ query' = [query EXCEPT !.state = "failed"] /\ changes' = changes
    BY <1>11 DEF Fail
  <2>2. OuterOnly'
    <3>1. Len(<<>>) = 0
      OBVIOUS
    <3> QED  BY <2>1, <3>1 DEF OuterOnly
  <2> QED  BY <2>1, <2>2 DEF OuterStep, OuterFails
<1>12. CASE ResetOffline
  BY <1>1, <1>12 DEF ResetOffline
<1>13. CASE UNCHANGED vars
  <2>1. changes' = changes /\ query' = query /\ fills' = fills
    BY <1>13 DEF vars
  <2>2. OuterOnly' /\ Alike(Outer, Outer')
    BY <2>1 DEF OuterOnly, Running, Outer, Alike
  <2> QED  BY <2>1, <2>2 DEF OuterStep, OuterStays
<1> QED
  BY <1>2, <1>3, <1>4, <1>5, <1>6, <1>7, <1>8, <1>9, <1>10, <1>11, <1>12, <1>13
     DEF Next, Step

-----------------------------------------------------------------------------
(* Descending *)

\* What is still to be reported, at x and below low, lies below what has been.
SentAbove(s, x, low) == \A k \in 1 .. Len(s) : s[k] > x \/ s[k] >= low

\* What a filler will report, too.
FillBelow(s, x, f) ==
  /\ SentAbove(s, x, f.oldest)
  /\ Downward(f.todo)
  /\ \A k \in 1 .. Len(s) : \A j \in 1 .. Len(f.todo) : f.todo[j] < s[k]
  /\ Pending(f) = 1 => /\ \A k \in 1 .. Len(s) : f.rev < s[k]
                       /\ \A j \in 1 .. Len(f.todo) : f.todo[j] < f.rev

\* The reports go down, and all that comes lies below them.
DownwardInv ==
  /\ Downward(query.sent)
  /\ Running /\ fills = <<>> => SentAbove(query.sent, query.it, query.lastReported)
  /\ fills # <<>> => FillBelow(query.sent, query.it, Outer)

\* What is left when the first entry is taken.
LEMMA TailOf ==
  ASSUME NEW s \in Seq(Rev), s # <<>>, NEW t, t = Tail(s)
  PROVE  /\ t \in Seq(Rev) /\ Len(t) = Len(s) - 1 /\ Len(s) \in Nat /\ Len(s) > 0
         /\ Head(s) = s[1] /\ s[1] \in Rev
         /\ \A j \in 1 .. Len(t) : t[j] = s[j + 1] /\ j + 1 \in 1 .. Len(s)
BY SMT

\* A list that goes down goes on with something lower.
LEMMA AppendDown ==
  ASSUME NEW s \in Seq(Rev), Downward(s), NEW r \in Rev, \A k \in 1 .. Len(s) : r < s[k],
         NEW a, Len(a) = Len(s) + 1, a[Len(a)] = r, \A k \in 1 .. Len(s) : a[k] = s[k]
  PROVE  Downward(a)
<1>1. Len(s) \in Nat /\ \A k \in 1 .. Len(s) : s[k] \in Int
  BY Positions
<1>2. /\ Len(a) = Len(s) + 1 /\ a[Len(a)] = r
      /\ \A k \in 1 .. Len(s) : a[k] = s[k]
  OBVIOUS
<1>3. ASSUME NEW j \in 1 .. Len(a), NEW k \in 1 .. Len(a), j < k
      PROVE  a[k] < a[j]
  <2>1. j \in 1 .. Len(s) /\ a[j] = s[j]
    BY <1>1, <1>2, <1>3
  <2>2. CASE k = Len(a)
    BY <1>2, <2>1, <2>2
  <2>3. CASE k # Len(a)
    <3>1. k \in 1 .. Len(s) /\ a[k] = s[k]
      BY <1>1, <1>2, <2>3
    <3> QED  BY <1>3, <2>1, <3>1 DEF Downward
  <2> QED  BY <2>2, <2>3
<1> QED  BY <1>2, <1>3 DEF Downward

\* FillBelow depends on what matters to the query only.
LEMMA BelowLike ==
  ASSUME NEW s, NEW x, NEW f, NEW g, FillBelow(s, x, f), Alike(f, g)
  PROVE  FillBelow(s, x, g)
BY DEF FillBelow, Alike

\* The next revision received is below all that has been reported.
LEMMA BelowReceived ==
  ASSUME NEW s \in Seq(Rev), NEW x, NEW f, NEW g, FillBelow(s, x, f),
         f.todo \in Seq(Rev), f.todo # <<>>, NEW t, t = Tail(f.todo), g.todo = t,
         g.rev = Head(f.todo), g.oldest = f.oldest
  PROVE  FillBelow(s, x, g)
<1>1. PICK u : u = f.todo
  OBVIOUS
<1>2. /\ t \in Seq(Rev) /\ Len(t) = Len(u) - 1 /\ Len(u) \in Nat /\ Len(u) > 0
      /\ Head(u) = u[1] /\ u[1] \in Rev
      /\ \A j \in 1 .. Len(t) : t[j] = u[j + 1] /\ j + 1 \in 1 .. Len(u)
  BY <1>1, TailOf
<1>3. SentAbove(s, x, g.oldest)
  BY DEF FillBelow
<1>4. Downward(t)
  <2> SUFFICES ASSUME NEW j \in 1 .. Len(t), NEW k \in 1 .. Len(t), j < k  PROVE t[k] < t[j]
    BY DEF Downward
  <2>1. j + 1 \in 1 .. Len(u) /\ k + 1 \in 1 .. Len(u) /\ j + 1 < k + 1
    BY <1>2
  <2> QED  BY <1>1, <1>2, <2>1 DEF FillBelow, Downward
<1>5. ASSUME NEW k \in 1 .. Len(s)
      PROVE  g.rev < s[k] /\ \A j \in 1 .. Len(t) : t[j] < s[k]
  BY <1>1, <1>2 DEF FillBelow
<1>6. ASSUME NEW j \in 1 .. Len(t)  PROVE t[j] < g.rev
  <2>1. 1 \in 1 .. Len(u) /\ j + 1 \in 1 .. Len(u) /\ 1 < j + 1
    BY <1>2
  <2> QED  BY <1>1, <1>2, <2>1 DEF FillBelow, Downward
<1> QED  BY <1>3, <1>4, <1>5, <1>6 DEF FillBelow

\* When it is reported, the rest is below it, too.
LEMMA BelowHanded ==
  ASSUME NEW s \in Seq(Rev), Downward(s), NEW x \in Int, NEW f, NEW g, FillBelow(s, x, f),
         f.oldest \in Int, f.todo \in Seq(Rev),
         Pending(f) = 1, f.rev \in Rev, NEW a,
         a = IF f.following THEN Append(s, f.rev) ELSE s,
         g.todo = f.todo, Pending(g) = 0,
         g.oldest = IF f.following /\ f.rev < f.oldest THEN f.rev ELSE f.oldest
  PROVE  a \in Seq(Rev) /\ Downward(a) /\ FillBelow(a, x, g)
<1>1. CASE f.following
  <2>1. \A k \in 1 .. Len(s) : f.rev < s[k]
    BY DEF FillBelow
  <2>2. a = Append(s, f.rev)
    BY <1>1
  <2>3. PICK r : r = f.rev
    OBVIOUS
  <2>4. /\ a \in Seq(Rev) /\ Downward(a) /\ Len(a) = Len(s) + 1 /\ a[Len(a)] = r
        /\ \A k \in 1 .. Len(s) : a[k] = s[k]
    <3>1. r \in Rev /\ a = Append(s, r)
      BY <2>2, <2>3
    <3>2. \A k \in 1 .. Len(s) : r < s[k]
      BY <2>1, <2>3
    <3>3. /\ a \in Seq(Rev) /\ Len(a) = Len(s) + 1 /\ a[Len(a)] = r
          /\ \A k \in 1 .. Len(s) : a[k] = s[k]
      BY <3>1
    <3>4. Downward(a)
      BY <3>1, <3>2, <3>3, AppendDown
    <3> QED  BY <3>3, <3>4
  <2>5. Len(s) \in Nat /\ r \in Int /\ \A k \in 1 .. Len(s) : s[k] \in Int
    BY <2>3, Positions
  <2>6. ASSUME NEW k \in 1 .. Len(a)
        PROVE  /\ a[k] > x \/ a[k] >= g.oldest
               /\ \A j \in 1 .. Len(f.todo) : f.todo[j] < a[k]
    <3>1. CASE k = Len(a)
      BY <1>1, <2>3, <2>4, <2>5, <3>1 DEF FillBelow
    <3>2. CASE k # Len(a)
      <4>1. k \in 1 .. Len(s) /\ a[k] = s[k]
        BY <2>4, <2>5, <3>2
      <4>2. s[k] > x \/ s[k] >= f.oldest
        BY <4>1 DEF FillBelow, SentAbove
      <4>3. g.oldest <= f.oldest /\ g.oldest \in Int
        BY <1>1, <2>3, <2>5
      <4> QED  BY <2>5, <4>1, <4>2, <4>3 DEF FillBelow
    <3> QED  BY <3>1, <3>2
  <2> QED  BY <2>4, <2>6 DEF FillBelow, SentAbove
<1>2. CASE ~ f.following
  BY <1>2 DEF FillBelow
<1> QED  BY <1>1, <1>2

-----------------------------------------------------------------------------

\* The loop of InternalLog, between two fetches.
LoopStep ==
  /\ changes' = changes /\ OuterOnly'
  /\ \/ \E q \in Asked : Log(q)
     \/ Report \/ SkipUnknown \/ Fetch \/ ResetOffline
     \/ \E reason \in {"done", "refused"} : Looping /\ Done(reason)
     \/ UNCHANGED vars

\* Without a filler, the loop of InternalLog makes the steps.
LEMMA LoopSteps ==
  ASSUME LogInv, OuterOnly, fills = <<>>, [Next]_vars
  PROVE  LoopStep
<1>1. PICK e : e = <<>>
  OBVIOUS
<1>2. Len(e) = 0
  BY <1>1
<1>3. ASSUME fills' = e  PROVE OuterOnly'
  BY <1>1, <1>2, <1>3 DEF OuterOnly
<1>4. ASSUME NEW q \in Asked, Log(q)  PROVE LoopStep
  BY <1>1, <1>3, <1>4 DEF Log, LoopStep
<1>5. CASE Report
  BY <1>1, <1>3, <1>5 DEF Report, LoopStep
<1>6. CASE Finish
  BY <1>1, <1>3, <1>6 DEF Finish, Done, LoopStep
<1>7. CASE NothingBelow
  BY <1>1, <1>3, <1>7 DEF NothingBelow, Done, LoopStep
<1>8. CASE RefusesRefetch
  BY <1>1, <1>3, <1>8 DEF RefusesRefetch, Done, LoopStep
<1>9. CASE SkipUnknown
  BY <1>1, <1>3, <1>9 DEF SkipUnknown, LoopStep
<1>10. CASE Fetch
  <2>1. PICK low, f : /\ f = Fill(query.path, query.it, low, query.left, query.props, TRUE)
                      /\ fills' = <<f>>
    BY <1>10 DEF Fetch
  <2>2. f.sends = TRUE /\ f.path = query.path
    BY <2>1 DEF Fill
  <2>3. PICK s : s = <<f>>
    OBVIOUS
  <2>9. Len(s) = 1 /\ s[1] = f
    BY <2>3
  <2>10. s # <<>>
    BY <1>1, <1>2, <2>9
  <2>4. query' = query /\ changes' = changes /\ Running
    BY <1>10 DEF Fetch, MustFetch, Looping
  <2>5. OuterOnly'
    <3>1. fills' = s /\ Running'
      BY <2>1, <2>3, <2>4 DEF Running
    <3>2. Outer' = f
      BY <2>9, <3>1 DEF Outer
    <3>3. \A k \in 1 .. Len(fills') - 1 : FALSE
      <4>1. PICK n : n = Len(fills')
        OBVIOUS
      <4>2. n = 1
        BY <2>9, <3>1, <4>1
      <4>3. \A k \in 1 .. n - 1 : FALSE
        BY <4>2
      <4> QED  BY <4>1, <4>3
    <3> QED  BY <2>2, <2>4, <3>1, <3>2, <3>3 DEF OuterOnly
  <2> QED  BY <1>10, <2>4, <2>5 DEF LoopStep
<1>11. CASE ResetOffline
  BY <1>1, <1>3, <1>11 DEF ResetOffline, LoopStep
<1>12. CASE UNCHANGED vars
  BY <1>1, <1>3, <1>12 DEF vars, LoopStep
<1>13. ~ (Receive \/ NoGap \/ MarkGap \/ FillGap \/ HandOn \/ LogEnds \/ FillEnds \/ GoOffline \/ Fail)
  BY DEF Receive, NoGap, MarkGap, FillGap, HandOn, LogEnds, FillEnds, GoOffline, Fail, Filling
<1> QED
  BY <1>4, <1>5, <1>6, <1>7, <1>8, <1>9, <1>10, <1>11, <1>12, <1>13 DEF Next, Step

\* The invariant behind Descending: LogInv, too, and who reports.
QueryOK == LogInv /\ OuterOnly /\ DownwardInv

\* At first nothing is reported.
LEMMA QueryInit == Init => OuterOnly /\ DownwardInv
<1> SUFFICES ASSUME Init  PROVE OuterOnly /\ DownwardInv
  OBVIOUS
<1>1. PICK e : e = <<>> /\ Len(e) = 0
  OBVIOUS
<1>2. fills = e /\ query.sent = e /\ ~ Running
  BY <1>1 DEF Init, Running
<1> QED  BY <1>1, <1>2 DEF OuterOnly, DownwardInv, Downward

\* The loop reports the revision that its iterator is at, if that is below the last one.
LEMMA DownReports ==
  ASSUME QueryOK, Report
  PROVE  DownwardInv'
<1>1. /\ query \in QueryType /\ query.it \in Rev /\ query.it \in Nat /\ Running /\ fills = <<>>
      /\ fills' = fills
  BY Inside, Positions DEF QueryOK, LogInv, QueryInv, Report, Looping
<1>2. PICK x : x = Advance(cache, query.path, query.it)
  OBVIOUS
<1>3. x \in Int /\ x < query.it
  <2>1. query.path \in Path /\ query.it \in Valid
    BY <1>1, Positions DEF QueryType
  <2> QED  BY <1>2, <2>1, AdvancePasses, Positions DEF QueryOK, LogInv, CacheInv
<1>4. PICK s, r : s = query.sent /\ r = query.it
  OBVIOUS
<1>5. s \in Seq(Rev) /\ Downward(s) /\ SentAbove(s, r, query.lastReported) /\ Len(s) \in Nat
      /\ query.lastReported \in Int /\ \A k \in 1 .. Len(s) : s[k] \in Int
  <2>1. s \in Seq(Rev) /\ query.lastReported \in Int
    BY <1>1, <1>4 DEF QueryType
  <2> QED  BY <1>1, <1>4, <2>1, Positions DEF QueryOK, DownwardInv
<1>6. PICK a : a = IF r < query.lastReported THEN Append(s, r) ELSE s
  OBVIOUS
<1>7. Downward(a) /\ \A k \in 1 .. Len(a) : a[k] > x \/ a[k] >= query.lastReported
  <2>1. CASE r < query.lastReported
    <3>1. \A k \in 1 .. Len(s) : r < s[k]
      BY <1>1, <1>4, <1>5, <2>1 DEF SentAbove
    <3>2. /\ a \in Seq(Rev) /\ Len(a) = Len(s) + 1 /\ a[Len(a)] = r
          /\ \A k \in 1 .. Len(s) : a[k] = s[k]
      BY <1>1, <1>4, <1>5, <1>6, <2>1
    <3>3. Downward(a)
      BY <1>1, <1>4, <1>5, <3>1, <3>2, AppendDown
    <3>4. ASSUME NEW k \in 1 .. Len(a)  PROVE a[k] > x
      <4>1. k = Len(a) \/ k \in 1 .. Len(s)
        BY <1>5, <3>2
      <4> QED  BY <1>1, <1>3, <1>4, <1>5, <3>1, <3>2, <4>1
    <3> QED  BY <3>3, <3>4
  <2>2. CASE ~ (r < query.lastReported)
    <3>1. a = s
      BY <1>6, <2>2
    <3>2. \A k \in 1 .. Len(s) : s[k] > r \/ s[k] >= query.lastReported
      BY <1>5 DEF SentAbove
    <3> QED  BY <1>1, <1>3, <1>4, <1>5, <3>1, <3>2
  <2> QED  BY <2>1, <2>2
<1>8. PICK n : n = IF query.limit = 0 THEN 0 ELSE query.left - 1
  OBVIOUS
<1>9. query' = [query EXCEPT !.sent = a, !.left = n,
                             !.state = IF query.left = 1 THEN "done" ELSE "running",
                             !.it = IF query.left = 1 THEN @ ELSE x]
  BY <1>1, <1>2, <1>4, <1>6, <1>8 DEF Report, QueryType
<1>10. /\ query'.sent = a /\ query'.lastReported = query.lastReported
       /\ query'.state = "running" => query'.it = x
  BY <1>1, <1>9 DEF QueryType
<1> QED  BY <1>1, <1>7, <1>10 DEF DownwardInv, SentAbove, Running

\* A new query has reported nothing.
LEMMA DownEmpty ==
  ASSUME fills' = <<>>, query'.sent = <<>>
  PROVE  DownwardInv'
<1>1. PICK s : s = <<>> /\ Len(s) = 0
  OBVIOUS
<1>2. query'.sent = s
  BY <1>1
<1> QED  BY <1>1, <1>2 DEF DownwardInv, Downward, SentAbove

\* A query ends, or passes revisions without reporting them.
LEMMA DownLoops ==
  ASSUME QueryOK, fills = <<>>, fills' = <<>>, NEW x \in Int, query'.sent = query.sent,
         \/ query'.state # "running"
         \/ Running /\ query'.it = x /\ x <= query.it /\ query'.lastReported = query.lastReported
  PROVE  DownwardInv'
<1>1. PICK s : s = query.sent
  OBVIOUS
<1>2. query \in QueryType /\ Downward(s)
  BY <1>1 DEF QueryOK, LogInv, QueryInv, DownwardInv
<1>3. CASE query'.state # "running"
  BY <1>1, <1>2, <1>3 DEF DownwardInv, Running
<1>4. CASE Running /\ query'.it = x /\ x <= query.it /\ query'.lastReported = query.lastReported
  <2>1. SentAbove(s, query.it, query.lastReported)
    BY <1>1, <1>4 DEF QueryOK, DownwardInv
  <2>2. s \in Seq(Rev) /\ query.it \in Int
    BY <1>1, <1>2 DEF QueryType
  <2>3. \A k \in 1 .. Len(s) : s[k] \in Int
    BY <2>2, Positions
  <2>4. SentAbove(s, x, query.lastReported)
    BY <1>4, <2>1, <2>2, <2>3 DEF SentAbove
  <2> QED  BY <1>1, <1>2, <1>4, <2>4 DEF DownwardInv, Running
<1> QED  BY <1>3, <1>4

\* What the loop fetches lies below what has been reported.
LEMMA DownFetches ==
  ASSUME QueryOK, Fetch
  PROVE  DownwardInv'
<1>1. /\ query.it \in Rev /\ query.end \in Rev /\ query.end <= query.it
      /\ query.path \in Path /\ query.left \in Nat /\ query.props \in BOOLEAN
      /\ ~ Available(cache, query.props, query.it)
  BY Inside DEF QueryOK, LogInv, QueryInv, QueryType, Fetch, MustFetch, HasData
<1>2. /\ Running /\ fills = <<>> /\ query.it < query.lastReported /\ query' = query
      /\ query.lastReported \in Int /\ query.sent \in Seq(Rev)
  BY DEF QueryOK, LogInv, QueryInv, QueryType, Fetch, MustFetch, Looping
<1>3. PICK low : /\ low = FetchEnd(cache, query.path, query.it, query.end, query.props)
                 /\ fills' = <<Fill(query.path, query.it, low, query.left, query.props, TRUE)>>
  BY DEF Fetch
<1>4. low \in Rev /\ low <= query.it
  BY <1>1, <1>3, FetchEndType DEF QueryOK, LogInv, CacheInv
<1>5. PICK f : f = Fill(query.path, query.it, low, query.left, query.props, TRUE)
  OBVIOUS
<1>6. /\ f.todo = ServerLog(query.path, query.it, low, query.left)
      /\ f.phase = "log" /\ f.oldest = MaxRev + 2
  BY <1>5 DEF Fill
<1>7. PICK s, x, i : s = query.sent /\ x = query.lastReported /\ i = query.it
  OBVIOUS
<1>8. s \in Seq(Rev) /\ x \in Int /\ i \in Int /\ i < x /\ \A k \in 1 .. Len(s) : s[k] \in Int
  BY <1>1, <1>2, <1>7, Positions
<1>9. Downward(s) /\ \A k \in 1 .. Len(s) : s[k] > i
  BY <1>2, <1>7, <1>8 DEF QueryOK, DownwardInv, SentAbove
<1>10. Downward(f.todo) /\ \A j \in 1 .. Len(f.todo) : f.todo[j] \in Int /\ f.todo[j] <= i
  <2>1. PICK t : t = ServerLog(query.path, query.it, low, query.left)
    OBVIOUS
  <2>2. PICK all : /\ Lists(all, query.path, query.it, low)
                   /\ t \in Seq(Rev) /\ Len(t) <= Len(all)
                   /\ \A k \in 1 .. Len(t) : t[k] = all[k]
    BY <1>1, <1>4, <2>1, ServerLogLists DEF QueryOK, LogInv, CacheInv
  <2>3. all \in Seq(Rev) /\ Downward(all)
    BY <2>2 DEF Lists
  <2>4. \A k \in 1 .. Len(t) : k \in 1 .. Len(all)
    BY <2>2, <2>3
  <2>5. Downward(t)
    BY <2>2, <2>3, <2>4 DEF Downward
  <2>6. ASSUME NEW j \in 1 .. Len(t)  PROVE t[j] \in Int /\ t[j] <= i
    <3>1. all[j] \in Rev /\ t[j] = all[j]
      BY <2>2, <2>3, <2>4
    <3>2. all[j] <= query.it
      BY <2>2, <2>4, <3>1 DEF Lists
    <3> QED  BY <1>7, <3>1, <3>2, Positions
  <2> QED  BY <1>6, <2>1, <2>5, <2>6
<1>11. FillBelow(s, i, f)
  BY <1>6, <1>8, <1>9, <1>10 DEF FillBelow, SentAbove, Pending
<1>12. fills' = <<f>>
  BY <1>3, <1>5
<1>13. PICK u : u = <<f>>
  OBVIOUS
<1>14. Len(u) = 1 /\ u[1] = f
  BY <1>13
<1>15. u # <<>>
  <2>1. Len(<<>>) = 0
    OBVIOUS
  <2> QED  BY <1>14, <2>1
<1>16. fills' = u /\ Outer' = f
  BY <1>12, <1>13, <1>14 DEF Outer
<1> QED  BY <1>2, <1>7, <1>9, <1>11, <1>15, <1>16 DEF DownwardInv

\* The filler returns to the loop, which goes on below what it has reported.
LEMMA DownReturns ==
  ASSUME QueryOK, fills # <<>>, changes' = changes, OuterReturns
  PROVE  DownwardInv'
<1>1. query \in QueryType /\ Outer \in FillType
  BY LastFill DEF QueryOK, LogInv, QueryInv
<1>2. PICK low : low = IF Outer.oldest < Outer.firstNA + 1 THEN Outer.oldest
                       ELSE Outer.firstNA + 1
  OBVIOUS
<1>3. PICK c : c = cache'
  OBVIOUS
<1>4. PICK x : x = Retry(c, query.path, query.it)
  OBVIOUS
<1>5. query' = [query EXCEPT !.lastReported = low, !.it = x]
  BY <1>1, <1>2, <1>3, <1>4 DEF OuterReturns, QueryType
<1>6. query'.sent = query.sent /\ query'.lastReported = low /\ query'.it = x
  BY <1>1, <1>5 DEF QueryType
<1>7. PICK s, i : s = query.sent /\ i = query.it
  OBVIOUS
<1>8. s \in Seq(Rev) /\ i \in -1 .. MaxRev /\ query.path \in Path
  BY <1>1, <1>7 DEF QueryType
<1>9. x \in Int /\ x <= i
  <2>1. CacheOK(c)
    BY <1>3 DEF OuterReturns
  <2>2. i \in Position /\ i <= MaxRev + 1
    <3>1. i \in Int /\ -1 <= i /\ i <= MaxRev
      BY <1>8
    <3> QED  BY <3>1, Positions
  <2> QED  BY <1>4, <1>7, <1>8, <2>1, <2>2, RetrySound, Positions DEF QueryOK, LogInv, CacheInv
<1>10. low \in Int /\ low <= Outer.oldest /\ Outer.oldest \in Int
  <2>1. Outer.oldest \in Int /\ Outer.firstNA \in Int
    BY <1>1, Positions DEF FillType
  <2> QED  BY <1>2, <2>1
<1>11. \A k \in 1 .. Len(s) : s[k] \in Int
  BY <1>8, Positions
<1>12. Downward(s) /\ SentAbove(s, i, Outer.oldest)
  BY <1>7 DEF QueryOK, DownwardInv, FillBelow
<1>13. SentAbove(s, x, low)
  BY <1>8, <1>9, <1>10, <1>11, <1>12, Positions DEF SentAbove
<1> QED  BY <1>6, <1>7, <1>12, <1>13 DEF DownwardInv, OuterReturns

\* Every step keeps this.
LEMMA QueryNext ==
  ASSUME QueryOK, [Next]_vars
  PROVE  OuterOnly' /\ DownwardInv'
<1>0. OuterOnly'
  BY OuterSteps, LoopSteps DEF QueryOK, OuterStep, LoopStep
<1> SUFFICES DownwardInv'
  BY <1>0
<1>1. CASE fills # <<>>
  <2>1. OuterStep
    BY <1>1, OuterSteps DEF QueryOK
  <2>2. /\ query \in QueryType /\ Outer \in FillType
        /\ Downward(query.sent) /\ FillBelow(query.sent, query.it, Outer)
    BY <1>1, LastFill DEF QueryOK, LogInv, QueryInv, DownwardInv
  <2>3. query.sent \in Seq(Rev) /\ query.it \in Int /\ Outer.oldest \in Int /\ Outer.todo \in Seq(Rev)
    BY <2>2 DEF QueryType, FillType
  <2>4. CASE OuterStays
    BY <2>2, <2>4, BelowLike DEF OuterStays, DownwardInv
  <2>5. CASE OuterReceives
    <3>1. PICK t : t = Tail(Outer.todo)
      OBVIOUS
    <3>2. FillBelow(query.sent, query.it, Outer')
      BY <2>2, <2>3, <2>5, <3>1, BelowReceived DEF OuterReceives
    <3> QED  BY <2>2, <2>5, <3>2 DEF OuterReceives, DownwardInv
  <2>6. CASE OuterHandsOn
    <3>1. PICK a : a = IF Outer.following THEN Append(query.sent, Outer.rev) ELSE query.sent
      OBVIOUS
    <3>2. query' = [query EXCEPT !.sent = a]
      BY <2>2, <2>6, <3>1 DEF OuterHandsOn, QueryType
    <3>3. query'.sent = a /\ query'.it = query.it
      BY <2>2, <3>2 DEF QueryType
    <3>4. Downward(a) /\ FillBelow(a, query.it, Outer')
      BY <2>2, <2>3, <2>6, <3>1, BelowHanded DEF OuterHandsOn
    <3> QED  BY <2>6, <3>3, <3>4 DEF OuterHandsOn, DownwardInv
  <2>7. CASE OuterReturns
    BY <1>1, <2>1, <2>7, DownReturns DEF OuterStep
  <2>8. CASE OuterFails
    <3>1. query'.sent = query.sent /\ query'.state = "failed"
      BY <2>2, <2>8 DEF OuterFails, QueryType
    <3> QED  BY <2>2, <2>8, <3>1 DEF OuterFails, DownwardInv, Running
  <2> QED  BY <2>1, <2>4, <2>5, <2>6, <2>7, <2>8 DEF OuterStep
<1>2. CASE fills = <<>>
  <2>1. LoopStep
    BY <1>2, LoopSteps DEF QueryOK
  <2>2. query \in QueryType /\ query.it \in Int
    BY DEF QueryOK, LogInv, QueryInv, QueryType
  <2>3. ASSUME NEW q \in Asked, Log(q)  PROVE DownwardInv'
    <3>1. fills' = <<>> /\ query'.sent = <<>>
      BY <1>2, <2>3 DEF Log
    <3> QED  BY <1>2, <3>1, DownEmpty
  <2>4. CASE Report
    BY <2>4, DownReports
  <2>5. CASE SkipUnknown
    <3>1. query.it \in Rev /\ query.path \in Path
      BY <2>5, Inside DEF QueryOK, LogInv, QueryInv, QueryType, SkipUnknown, MustFetch
    <3>2. PICK y : y = ToNextAvailableData(cache, query.path, query.it)
      OBVIOUS
    <3>3. y \in Position /\ y < query.it
      BY <3>1, <3>2, ToAvailable, Positions DEF QueryOK, LogInv, CacheInv
    <3>4. PICK x : x = Retry(cache, query.path, y)
      OBVIOUS
    <3>5. y <= MaxRev + 1
      BY <3>1, <3>3, Positions
    <3>6. x \in Int /\ x <= y
      BY <3>1, <3>3, <3>4, <3>5, RetrySound, Positions DEF QueryOK, LogInv, CacheInv
    <3>7. x <= query.it
      BY <2>2, <3>3, <3>6, Positions
    <3>8. query' = [query EXCEPT !.it = x] /\ fills' = fills /\ Running
      BY <2>5, <3>2, <3>4 DEF SkipUnknown, MustFetch, Looping
    <3>9. query'.sent = query.sent /\ query'.lastReported = query.lastReported /\ query'.it = x
      BY <2>2, <3>8 DEF QueryType
    <3> QED  BY <1>2, <3>6, <3>7, <3>8, <3>9, DownLoops
  <2>6. CASE Fetch
    BY <2>6, DownFetches
  <2>7. CASE ResetOffline
    <3>1. PICK e : e = <<>>
      OBVIOUS
    <3>2. query' = [query EXCEPT !.state = "none", !.sent = e] /\ fills' = fills
      BY <2>7, <3>1 DEF ResetOffline
    <3>3. query'.sent = <<>>
      BY <2>2, <3>1, <3>2 DEF QueryType
    <3> QED  BY <1>2, <3>2, <3>3, DownEmpty
  <2>8. ASSUME NEW reason \in {"done", "refused"}, Looping, Done(reason)  PROVE DownwardInv'
    <3>1. query'.sent = query.sent /\ query'.state # "running" /\ fills' = fills
      BY <2>2, <2>8 DEF Done, QueryType
    <3> QED  BY <1>2, <2>2, <3>1, DownLoops
  <2>9. CASE UNCHANGED vars
    BY <2>9 DEF vars, QueryOK, DownwardInv, Running, Outer
  <2> QED  BY <2>1, <2>3, <2>4, <2>5, <2>6, <2>7, <2>8, <2>9 DEF LoopStep
<1> QED  BY <1>1, <1>2

\* QueryInvariant: whatever is asked, fetched and cached, and whichever queries fail,
\* only the filler that a query has started itself hands revisions on to it, and what
\* the query has yet to report lies below what it has reported (lastReported).
THEOREM QueryInvariant == Spec => []QueryOK
<1>1. Init => OuterOnly /\ DownwardInv
  BY QueryInit
<1>2. LogInv /\ OuterOnly /\ DownwardInv /\ [Next]_vars => (OuterOnly /\ DownwardInv)'
  BY QueryNext DEF QueryOK
<1>3. QueryOK <=> LogInv /\ OuterOnly /\ DownwardInv
  BY DEF QueryOK
<1> QED  BY <1>1, <1>2, <1>3, LogInvariant, PTL DEF Spec

\* ReportsDescend: Descending holds of the specification; a query reports no revision
\* twice and none out of order, whatever it takes from the cache and whatever from the
\* filler, off-line, too.
THEOREM ReportsDescend == Spec => []Descending
<1>1. QueryOK => Descending
  <2> SUFFICES ASSUME QueryOK, NEW k \in 2 .. Len(query.sent)
               PROVE  query.sent[k] < query.sent[k - 1]
    BY DEF Descending
  <2>1. query.sent \in Seq(Rev)
    BY DEF QueryOK, LogInv, QueryInv, QueryType
  <2>2. k - 1 \in 1 .. Len(query.sent) /\ k \in 1 .. Len(query.sent) /\ k - 1 < k
    BY <2>1
  <2> QED  BY <2>2 DEF QueryOK, DownwardInv, Downward
<1> QED  BY <1>1, QueryInvariant, PTL

-----------------------------------------------------------------------------
(* Faithful *)

\* The path is there at x.
Born(p, x) == \E z \in Rev : z <= x /\ Touches(p, z)

\* A is the whole log of the query, q, of which it has reported the first n entries.
FirstSent(A, n, q) ==
  /\ n \in 0 .. Len(A) /\ n = Len(q.sent)
  /\ \A k \in 1 .. n : q.sent[k] = A[k]
  /\ q.limit # 0 => n <= q.limit

\* Of the log, i entries are above x; n are above x or not below low.
Counts(A, i, x) == \A k \in 1 .. Len(A) : k <= i <=> A[k] > x
Splits(A, n, x, low) == \A k \in 1 .. Len(A) : k <= n <=> A[k] > x \/ A[k] >= low

\* left counts the entries that the iterator has not passed.
LeftOK(A, q) ==
  /\ q.limit = 0 => q.left = 0
  /\ q.limit # 0 /\ q.it # NO_REVISION =>
       \E i \in 0 .. Len(A) : q.left = q.limit - i /\ Counts(A, i, q.it)

\* The loop reports what is at the iterator and below lastReported.
LoopAt(A, n, q) == Splits(A, n, q.it, q.lastReported)

\* The filler, f, reports the next entries, and all down to where it has come.
FillAt(A, n, q, f) ==
  /\ n + Pending(f) + Len(f.todo) <= Len(A)
  /\ q.limit # 0 => n + Pending(f) + Len(f.todo) <= q.limit
  /\ Pending(f) = 1 => f.rev = A[n + 1]
  /\ \A j \in 1 .. Len(f.todo) : f.todo[j] = A[n + Pending(f) + j]
  /\ \A k \in 1 .. n : A[k] > q.it \/ A[k] >= f.oldest
  /\ \A k \in n + 1 .. Len(A) : /\ A[k] <= q.it /\ A[k] < f.oldest
                                /\ Pending(f) = 0 => A[k] <= f.firstNA
  /\ ~ f.following => n = Len(A)
  /\ q.it = 0 => n + Pending(f) + Len(f.todo) = Len(A)

\* All that was asked for has been reported.
DoneOK(A, n, q) ==
  \/ \A k \in 1 .. Len(A) : A[k] >= q.end => k <= n
  \/ q.limit # 0 /\ n = q.limit

\* The query has reported the first n entries of its log, A, and goes on behind them.
FaithOK(A, n) ==
  /\ Lists(A, query.path, query.start, 0) /\ query.end <= query.start
  /\ FirstSent(A, n, query)
  /\ Running => /\ LeftOK(A, query) /\ query.it <= query.start
                /\ query.it = NO_REVISION \/ Born(query.path, query.it)
  /\ Running /\ fills = <<>> =>
       /\ LoopAt(A, n, query)
       /\ query.it \in cache.have => Touches(query.path, query.it)
  /\ fills # <<>> => FillAt(A, n, query, Outer)
  /\ query.state = "done" => DoneOK(A, n, query)

\* ... as long as the server answers.
FaithInv == ~ offline /\ query.state # "none" /\ query.start > 0 => \E A, n : FaithOK(A, n)

-----------------------------------------------------------------------------

\* What the list of a path's revisions says, entry by entry.
LEMMA ListOf ==
  ASSUME NEW A, NEW p, NEW hi \in Rev, Lists(A, p, hi, 0)
  PROVE  /\ A \in Seq(Rev) /\ Len(A) \in Nat /\ Downward(A) /\ hi \in Nat
         /\ \A k \in 1 .. Len(A) : A[k] \in Rev /\ A[k] \in Nat /\ A[k] <= hi /\ Touches(p, A[k])
         /\ \A j, k \in 1 .. Len(A) : A[k] < A[j] => j < k
         /\ \A z \in Rev : z <= hi /\ Touches(p, z) => \E k \in 1 .. Len(A) : A[k] = z
<1>1. A \in Seq(Rev) /\ Len(A) \in Nat /\ Downward(A) /\ hi \in Nat
  BY Positions DEF Lists
<1>2. \A k \in 1 .. Len(A) : A[k] \in Rev /\ A[k] \in Nat
  BY <1>1, Positions
<1>3. \A k \in 1 .. Len(A) : A[k] <= hi /\ Touches(p, A[k])
  BY <1>2 DEF Lists
<1>4. \A z \in Rev : z <= hi /\ Touches(p, z) => \E k \in 1 .. Len(A) : A[k] = z
  BY Positions DEF Lists
<1>5. ASSUME NEW j \in 1 .. Len(A), NEW k \in 1 .. Len(A), A[k] < A[j]  PROVE j < k
  <2>1. j < k \/ j = k \/ k < j
    OBVIOUS
  <2>2. ~ (k < j)
    BY <1>2, <1>5, <1>1 DEF Downward
  <2> QED  BY <1>2, <1>5, <2>1, <2>2
<1> QED  BY <1>1, <1>2, <1>3, <1>4, <1>5

\* Only the repository matters to these.
LEMMA RepositoryStays ==
  ASSUME changes' = changes
  PROVE  /\ \A A, p, hi, lo : Lists(A, p, hi, lo)' <=> Lists(A, p, hi, lo)
         /\ \A p, x : Born(p, x)' <=> Born(p, x)
         /\ \A p, x : Touches(p, x)' <=> Touches(p, x)
BY DEF Lists, Born, Touches

\* What the iterator passes does not change the path, so the path is there still.
LEMMA BornStill ==
  ASSUME NEW p, NEW r \in Rev, NEW y \in -1 .. MaxRev, Passes(p, r, y), Born(p, r)
  PROVE  Born(p, y)
BY Positions DEF Passes, Born

\* A path is there from the revision on that it begins with.
LEMMA BornIs ==
  ASSUME changes \in Histories, NEW p \in Path, NEW x \in Rev
  PROVE  Born(p, x) <=> Birth(p) <= x
<1>1. Birth(p) \in Rev /\ Touches(p, Birth(p))
  BY BirthType
<1>2. \A z \in Rev : Touches(p, z) => Birth(p) <= z
  BY BornFirst
<1> QED  BY <1>1, <1>2, Positions DEF Born

\* Where an iterator stops at data, and the path is there, the data change it.
LEMMA StopsAtEntry ==
  ASSUME changes \in Histories, NEW c, CacheOK(c), NEW p \in Path, NEW y \in Rev,
         Stops(c, p, y), Born(p, y), y \in c.have
  PROVE  Touches(p, y)
<1>1. y \in Nat /\ Birth(p) <= y /\ Birth(p) \in Nat /\ Touches(p, Birth(p))
  BY BirthType, BornIs, Positions
<1>2. CASE y <= 0
  <2>1. y = Birth(p)
    BY <1>1, <1>2
  <2> QED  BY <1>1, <2>1
<1>3. CASE PathInRevision(c, p, y)
  <2>1. CASE p = Root
    BY <2>1 DEF Touches
  <2>2. CASE FullyCached(c, p) /\ Touches(p, y)
    BY <2>2
  <2>3. CASE \E q \in Adds(y) : SameOrParent(q, Base(c, p))
    <3>1. PICK q \in Adds(y) : SameOrParent(q, Base(c, p))
      BY <2>3
    <3>2. q \in Path /\ q # Root /\ y = Birth(q)
      BY <3>1 DEF Adds
    <3>3. Base(c, p) \in Path /\ Base(c, p) \in Ancestors[p]
      BY BaseNearest
    <3>4. q \in Ancestors[p]
      BY <3>1, <3>2, <3>3, AncestorsOrder DEF SameOrParent
    <3>5. Touches(q, Birth(p))
      <4>1. Birth(p) \in Rev
        BY BirthType
      <4> QED  BY <1>1, <3>4, <4>1, TouchesParent
    <3>6. Birth(q) <= Birth(p)
      BY <1>1, <3>2, <3>5, BornFirst, BirthType
    <3>7. y = Birth(p)
      BY <1>1, <3>2, <3>6
    <3> QED  BY <1>1, <3>7
  <2> QED  BY <1>3, <2>1, <2>2, <2>3 DEF PathInRevision
<1> QED  BY <1>2, <1>3 DEF Stops, Missing

\* FillAt depends on what matters to the query only.
LEMMA FillAtLike ==
  ASSUME NEW A, NEW n, NEW q, NEW f, NEW g, FillAt(A, n, q, f), Alike(f, g)
  PROVE  FillAt(A, n, q, g)
BY DEF FillAt, Alike

\* The filler of the query receives the next entry of the log.
LEMMA FillAtReceived ==
  ASSUME NEW A \in Seq(Rev), NEW n \in Nat, NEW q, q.limit \in Nat, NEW f, NEW g,
         FillAt(A, n, q, f), NEW u \in Seq(Rev), f.todo = u, Len(u) > 0, Pending(f) = 0,
         NEW t \in Seq(Rev), g.todo = t, g.rev = u[1], Pending(g) = 1,
         Len(t) = Len(u) - 1, \A j \in 1 .. Len(t) : t[j] = u[j + 1],
         g.oldest = f.oldest, g.following = f.following
  PROVE  FillAt(A, n, q, g)
<1>1. f.todo = u
  OBVIOUS
<1>2. /\ Len(t) = Len(u) - 1 /\ Len(u) \in Nat /\ Len(u) > 0 /\ Len(t) \in Nat
      /\ \A j \in 1 .. Len(t) : t[j] = u[j + 1] /\ j + 1 \in 1 .. Len(u)
  OBVIOUS
<1>3. Len(A) \in Nat
  OBVIOUS
<1>4. /\ n + Len(u) <= Len(A) /\ (q.limit # 0 => n + Len(u) <= q.limit)
      /\ \A j \in 1 .. Len(u) : u[j] = A[n + j]
      /\ \A k \in 1 .. n : A[k] > q.it \/ A[k] >= f.oldest
      /\ \A k \in n + 1 .. Len(A) : A[k] <= q.it /\ A[k] < f.oldest
      /\ ~ f.following => n = Len(A)
      /\ q.it = 0 => n + Len(u) = Len(A)
  <2>1. /\ n + 0 + Len(u) <= Len(A) /\ (q.limit # 0 => n + 0 + Len(u) <= q.limit)
        /\ \A j \in 1 .. Len(u) : u[j] = A[n + 0 + j]
        /\ \A k \in 1 .. n : A[k] > q.it \/ A[k] >= f.oldest
        /\ \A k \in n + 1 .. Len(A) : A[k] <= q.it /\ A[k] < f.oldest
        /\ ~ f.following => n = Len(A)
        /\ q.it = 0 => n + 0 + Len(u) = Len(A)
    BY <1>1 DEF FillAt
  <2> QED  BY <1>2, <1>3, <2>1
<1>5. g.rev = A[n + 1]
  <2>1. 1 \in 1 .. Len(u)
    BY <1>2
  <2> QED  BY <1>1, <1>2, <1>4, <2>1
<1>6. ASSUME NEW j \in 1 .. Len(t)  PROVE t[j] = A[n + 1 + j]
  <2>1. t[j] = u[j + 1] /\ j + 1 \in 1 .. Len(u)
    BY <1>2
  <2>2. u[j + 1] = A[n + (j + 1)]
    BY <1>4, <2>1
  <2>3. n + (j + 1) = n + 1 + j
    OBVIOUS
  <2> QED  BY <2>1, <2>2, <2>3
<1>7. n + 1 + Len(t) = n + Len(u)
  <2>1. PICK a, b : a = Len(t) /\ b = Len(u)
    OBVIOUS
  <2>2. b \in Nat /\ a = b - 1
    BY <1>2, <2>1
  <2>3. n + 1 + a = n + b
    BY <2>2
  <2> QED  BY <2>1, <2>3
<1>8. /\ n + 1 + Len(t) <= Len(A) /\ (q.limit # 0 => n + 1 + Len(t) <= q.limit)
      /\ q.it = 0 => n + 1 + Len(t) = Len(A)
  BY <1>4, <1>7
<1>9. /\ \A k \in 1 .. n : A[k] > q.it \/ A[k] >= g.oldest
      /\ \A k \in n + 1 .. Len(A) : A[k] <= q.it /\ A[k] < g.oldest
      /\ ~ g.following => n = Len(A)
  BY <1>4
<1> QED  BY <1>5, <1>6, <1>8, <1>9 DEF FillAt

\* The filler hands the revision on to the receiver of the query.
LEMMA FillAtHanded ==
  ASSUME changes \in Histories, NEW p \in Path, NEW hi \in Rev,
         NEW A, Lists(A, p, hi, 0), NEW q, q.limit \in Nat, NEW n, FirstSent(A, n, q),
         NEW f, NEW g, FillAt(A, n, q, f), Pending(f) = 1, f.todo \in Seq(Rev),
         f.oldest \in Int, g.todo = f.todo, Pending(g) = 0, f.rev \in Rev,
         g.firstNA = Larger(f.rev - 1, 0),
         g.oldest = IF f.following /\ f.rev < f.oldest THEN f.rev ELSE f.oldest,
         p \notin Adds(f.rev) => g.following = f.following,
         NEW r, r.it = q.it, r.limit = q.limit
  PROVE  /\ f.following /\ n + 1 \in 1 .. Len(A) /\ f.rev = A[n + 1]
         /\ q.limit # 0 => n + 1 <= q.limit
         /\ FillAt(A, n + 1, r, g)
<1>1. /\ A \in Seq(Rev) /\ Len(A) \in Nat /\ Downward(A)
      /\ \A k \in 1 .. Len(A) : A[k] \in Rev /\ A[k] \in Nat /\ Touches(p, A[k])
  BY ListOf
<1>2. n \in Nat /\ n <= Len(A)
  BY <1>1 DEF FirstSent
<1>3. PICK s : s = f.todo
  OBVIOUS
<1>4. Len(s) \in Nat
  BY <1>3
<1>5. /\ n + 1 + Len(s) <= Len(A) /\ (q.limit # 0 => n + 1 + Len(s) <= q.limit)
      /\ f.rev = A[n + 1]
      /\ \A j \in 1 .. Len(s) : s[j] = A[n + 1 + j]
      /\ \A k \in 1 .. n : A[k] > q.it \/ A[k] >= f.oldest
      /\ \A k \in n + 1 .. Len(A) : A[k] <= q.it /\ A[k] < f.oldest
      /\ ~ f.following => n = Len(A)
      /\ q.it = 0 => n + 1 + Len(s) = Len(A)
  BY <1>3 DEF FillAt
<1>6. PICK m : m = n + 1
  OBVIOUS
<1>7. m \in 1 .. Len(A) /\ (q.limit # 0 => m <= q.limit) /\ f.following /\ m \in Nat
  BY <1>1, <1>2, <1>4, <1>5, <1>6
<1>8. PICK x : x = A[m]
  OBVIOUS
<1>9. x \in Nat /\ x < f.oldest /\ x <= q.it /\ f.rev = x /\ Touches(p, x)
  <2>1. m \in n + 1 .. Len(A)
    BY <1>2, <1>6, <1>7
  <2> QED  BY <1>1, <1>5, <1>6, <1>7, <1>8, <2>1
<1>10. g.oldest = x
  BY <1>7, <1>9
<1>11. ASSUME NEW k \in 1 .. m  PROVE A[k] > r.it \/ A[k] >= g.oldest
  <2>1. k \in 1 .. Len(A) /\ A[k] \in Nat
    BY <1>1, <1>7
  <2>2. CASE k = m
    BY <1>8, <1>9, <1>10, <2>2
  <2>3. CASE k # m
    <3>1. k \in 1 .. n
      BY <1>2, <1>6, <2>3
    <3> QED  BY <1>5, <1>9, <1>10, <2>1, <3>1
  <2> QED  BY <2>2, <2>3
<1>12. ASSUME NEW k \in m + 1 .. Len(A)
       PROVE  A[k] <= r.it /\ A[k] < g.oldest /\ A[k] <= g.firstNA
  <2>1. k \in n + 1 .. Len(A) /\ k \in 1 .. Len(A) /\ m < k
    BY <1>2, <1>6, <1>7
  <2>2. A[k] < x /\ A[k] \in Nat
    BY <1>1, <1>7, <1>8, <2>1 DEF Downward
  <2>3. g.firstNA = Larger(x - 1, 0)
    BY <1>9
  <2>4. A[k] <= Larger(x - 1, 0)
    BY <1>9, <2>2 DEF Larger
  <2> QED  BY <1>5, <1>10, <2>1, <2>2, <2>3, <2>4
<1>13. ~ g.following => m = Len(A)
  <2> SUFFICES ASSUME ~ g.following, m # Len(A)  PROVE FALSE
    OBVIOUS
  <2>1. p \in Adds(x)
    BY <1>7, <1>9
  <2>2. x = Birth(p)
    BY <2>1 DEF Adds
  <2>3. m + 1 \in m + 1 .. Len(A) /\ m + 1 \in 1 .. Len(A)
    BY <1>1, <1>7
  <2>4. A[m + 1] < x
    <3>1. m < m + 1
      BY <1>7
    <3> QED  BY <1>1, <1>7, <1>8, <2>3, <3>1 DEF Downward
  <2>5. PICK z : z = A[m + 1]
    OBVIOUS
  <2>6. z \in Rev /\ z \in Nat /\ Touches(p, z)
    BY <1>1, <2>3, <2>5
  <2>7. Birth(p) <= z
    BY <2>6, BornFirst
  <2> QED  BY <1>9, <2>2, <2>4, <2>5, <2>6, <2>7
<1>14. FillAt(A, m, r, g)
  <2>1. m + 0 + Len(s) <= Len(A) /\ (q.limit # 0 => m + 0 + Len(s) <= q.limit)
    BY <1>1, <1>2, <1>4, <1>5, <1>6
  <2>2. \A j \in 1 .. Len(s) : s[j] = A[m + 0 + j]
    BY <1>2, <1>5, <1>6, <1>7
  <2>3. q.it = 0 => m + 0 + Len(s) = Len(A)
    BY <1>1, <1>2, <1>4, <1>5, <1>6
  <2>4. g.todo = s
    BY <1>3
  <2> QED  BY <1>11, <1>12, <1>13, <2>1, <2>2, <2>3, <2>4 DEF FillAt
<1> QED  BY <1>5, <1>6, <1>7, <1>14

\* FaithOK after a step that leaves the repository alone, part by part.
LEMMA FaithOf ==
  ASSUME NEW A, NEW n, changes' = changes, NEW r, query' = r,
         Lists(A, r.path, r.start, 0), r.end <= r.start, FirstSent(A, n, r),
         r.state = "running" =>
           LeftOK(A, r) /\ r.it <= r.start /\ (r.it = NO_REVISION \/ Born(r.path, r.it)),
         r.state = "running" /\ fills' = <<>> =>
           LoopAt(A, n, r) /\ (r.it \in cache'.have => Touches(r.path, r.it)),
         fills' # <<>> => FillAt(A, n, r, Outer'),
         r.state = "done" => DoneOK(A, n, r)
  PROVE  FaithOK(A, n)'
<1>1. /\ Lists(A, r.path, r.start, 0)' <=> Lists(A, r.path, r.start, 0)
      /\ Born(r.path, r.it)' <=> Born(r.path, r.it)
      /\ Touches(r.path, r.it)' <=> Touches(r.path, r.it)
  BY RepositoryStays
<1> QED  BY <1>1 DEF FaithOK, Running

\* The entries that the iterator passes on its way from r to y are none.
LEMMA PassesNone ==
  ASSUME NEW A, NEW p, NEW hi \in Rev, Lists(A, p, hi, 0), NEW r \in Int, NEW y \in Int,
         y <= r, Passes(p, r, y), NEW k \in 1 .. Len(A)
  PROVE  A[k] > y <=> A[k] > r
<1>1. A[k] \in Rev /\ A[k] \in Nat /\ Touches(p, A[k])
  BY ListOf
<1> QED  BY <1>1 DEF Passes

\* Advance stops at or above the revision where the path begins, or ends the log.
LEMMA AdvanceBorn ==
  ASSUME changes \in Histories, NEW c, CacheOK(c), NEW p \in Path, NEW r \in Rev,
         r \in c.have, Touches(p, r), NEW x, x = Advance(c, p, r)
  PROVE  x = NO_REVISION \/ (x \in Rev /\ Born(p, x))
<1>1. r \in Valid /\ r \in Nat /\ r <= MaxRev
  BY Positions
<1>2. x \in -1 .. MaxRev /\ x < r /\ Passes(p, r - 1, x)
  BY <1>1, AdvancePasses, Positions
<1>3. CASE Birth(p) < r
  <2>1. r - 1 \in Rev
    BY <1>1, <1>3, BirthType, Positions
  <2>2. Born(p, r - 1)
    BY <1>1, <1>3, <2>1, BornIs, BirthType, Positions
  <2>3. Born(p, x)
    BY <1>2, <2>1, <2>2, BornStill
  <2>4. x # -1 => x \in Rev
    BY <1>2, Positions
  <2> QED  BY <2>3, <2>4, Positions
<1>4. CASE ~ (Birth(p) < r)
  <2>1. Birth(p) = r
    BY <1>1, <1>4, BornFirst, BirthType, Positions
  <2>2. CASE p = Root
    <3>1. r = 0
      BY <2>1, <2>2 DEF Birth
    <3> QED  BY <1>2, <3>1, Positions
  <2>3. CASE p # Root
    <3>1. r \in 1 .. MaxRev /\ p \in changes[r]
      BY <2>1, <2>3, BirthIs
    <3>2. p \in Adds(r)
      BY <2>1, <2>3, <3>1 DEF Adds
    <3> QED  BY <3>2 DEF Advance
  <2> QED  BY <2>2, <2>3
<1> QED  BY <1>3, <1>4

\* What the loop reports next is the next entry of the log, or has been reported.
LEMMA LoopEntry ==
  ASSUME NEW A, NEW p, NEW hi \in Rev, Lists(A, p, hi, 0), NEW n \in 0 .. Len(A),
         NEW it \in Rev, it <= hi, Touches(p, it), NEW low \in Int,
         Splits(A, n, it, low),
         NEW x \in -1 .. MaxRev, x < it, Passes(p, it - 1, x)
  PROVE  \E m \in 1 .. Len(A) :
           /\ A[m] = it
           /\ Counts(A, m - 1, it) /\ Counts(A, m, x)
           /\ it < low => m = n + 1
           /\ ~ (it < low) => m <= n
           /\ it < low => Splits(A, m, x, low)
           /\ ~ (it < low) => Splits(A, n, x, low)
<1>1. /\ A \in Seq(Rev) /\ Len(A) \in Nat /\ Downward(A)
      /\ \A k \in 1 .. Len(A) : A[k] \in Rev /\ A[k] \in Nat
      /\ \A j, k \in 1 .. Len(A) : A[k] < A[j] => j < k
      /\ \A z \in Rev : z <= hi /\ Touches(p, z) => \E k \in 1 .. Len(A) : A[k] = z
  BY ListOf
<1>2. PICK m \in 1 .. Len(A) : A[m] = it
  BY <1>1
<1>3. /\ it \in Nat /\ n \in Nat /\ m \in Nat
      /\ \A k \in 1 .. Len(A) : k <= n <=> A[k] > it \/ A[k] >= low
  BY <1>1, Positions DEF Splits
<1>4. ASSUME NEW k \in 1 .. Len(A)  PROVE A[k] > it <=> k < m
  <2>1. k < m => A[m] < A[k]
    BY <1>1 DEF Downward
  <2>2. A[m] < A[k] => k < m
    BY <1>1
  <2> QED  BY <1>1, <1>2, <1>3, <2>1, <2>2
<1>5. ASSUME NEW k \in 1 .. Len(A)  PROVE A[k] > x <=> k <= m
  <2>1. A[k] > x <=> A[k] > it - 1
    <3>1. it - 1 \in Int /\ x \in Int /\ x <= it - 1
      BY <1>3
    <3> QED  BY <3>1, PassesNone
  <2>2. A[k] = it <=> k = m
    <3>1. k < m \/ k = m \/ m < k
      BY <1>3
    <3>2. m < k => A[k] < A[m]
      BY <1>1 DEF Downward
    <3> QED  BY <1>1, <1>2, <1>3, <1>4, <3>1, <3>2
  <2> QED  BY <1>1, <1>3, <1>4, <2>1, <2>2
<1>6. it < low => m = n + 1
  <2> SUFFICES ASSUME it < low  PROVE m = n + 1
    OBVIOUS
  <2>1. \A k \in 1 .. Len(A) : k <= n <=> k < m
    BY <1>1, <1>3, <1>4
  <2>2. ~ (m <= n)
    BY <1>3, <2>1
  <2>3. ~ (n + 1 < m)
    <3> SUFFICES ASSUME n + 1 < m  PROVE FALSE
      OBVIOUS
    <3>1. n + 1 \in 1 .. Len(A)
      BY <1>1, <1>3
    <3> QED  BY <1>3, <2>1, <3>1
  <2> QED  BY <1>3, <2>2, <2>3
<1>7. ~ (it < low) => m <= n
  BY <1>2, <1>3
<1>8. ASSUME NEW k \in 1 .. Len(A)
      PROVE  /\ it < low => (k <= m <=> A[k] > x \/ A[k] >= low)
             /\ ~ (it < low) => (k <= n <=> A[k] > x \/ A[k] >= low)
  <2>1. CASE it < low
    <3>1. A[k] >= low => k < m
      BY <1>1, <1>3, <1>4, <2>1
    <3> QED  BY <1>3, <1>5, <2>1, <3>1
  <2>2. CASE ~ (it < low)
    <3>1. A[k] > x => A[k] > it \/ A[k] >= low
      BY <1>1, <1>2, <1>3, <1>4, <1>5, <2>2
    <3>2. A[k] > it => A[k] > x
      BY <1>1, <1>3
    <3> QED  BY <1>3, <2>2, <3>1, <3>2
  <2> QED  BY <2>1, <2>2
<1>9. Counts(A, m - 1, it) /\ Counts(A, m, x)
  <2>1. \A k \in 1 .. Len(A) : k <= m - 1 <=> k < m
    BY <1>3
  <2> QED  BY <1>4, <1>5, <2>1 DEF Counts
<1>10. (it < low => Splits(A, m, x, low)) /\ (~ (it < low) => Splits(A, n, x, low))
  BY <1>8 DEF Splits
<1> QED  BY <1>2, <1>6, <1>7, <1>9, <1>10

\* The loop reports the next entry of the log, or one that is reported already.
LEMMA FaithReports ==
  ASSUME QueryOK, Report, NEW A, NEW n, FaithOK(A, n)
  PROVE  \E m : FaithOK(A, m)'
<1>1. /\ query \in QueryType /\ query.it \in Rev /\ query.it \in Nat /\ Running
      /\ fills = <<>> /\ fills' = fills /\ changes' = changes /\ cache' = cache
      /\ changes \in Histories /\ CacheOK(cache) /\ query.it >= query.end
  BY Inside, Positions DEF QueryOK, LogInv, QueryInv, CacheInv, Report, Looping
<1>2. PICK p, it, low, lim, lft : /\ p = query.path /\ it = query.it /\ low = query.lastReported
                                  /\ lim = query.limit /\ lft = query.left
  OBVIOUS
<1>3. /\ p \in Path /\ it \in Rev /\ it \in Nat /\ low \in Int /\ lim \in Nat /\ lft \in Nat
      /\ lim # 0 => lft > 0
  BY <1>1, <1>2 DEF QueryType, QueryOK, LogInv, QueryInv
<1>4. PICK hi : hi = query.start
  OBVIOUS
<1>5. hi \in Rev /\ Lists(A, p, hi, 0) /\ query.end <= hi
  BY <1>1, <1>2, <1>4 DEF QueryType, FaithOK
<1>6. /\ A \in Seq(Rev) /\ Len(A) \in Nat /\ Downward(A)
      /\ \A k \in 1 .. Len(A) : A[k] \in Rev /\ A[k] \in Nat /\ A[k] <= hi /\ Touches(p, A[k])
      /\ \A j, k \in 1 .. Len(A) : A[k] < A[j] => j < k
      /\ \A z \in Rev : z <= hi /\ Touches(p, z) => \E k \in 1 .. Len(A) : A[k] = z
  BY <1>5, ListOf
<1>7. /\ n \in 0 .. Len(A) /\ n = Len(query.sent) /\ (lim # 0 => n <= lim)
      /\ \A k \in 1 .. n : query.sent[k] = A[k]
      /\ Splits(A, n, it, low) /\ Born(p, it)
  <2>1. it # NO_REVISION
    BY <1>3, Positions
  <2> QED  BY <1>1, <1>2, <2>1 DEF FaithOK, FirstSent, LoopAt
<1>8. PICK x : x = Advance(cache, p, it)
  OBVIOUS
<1>9. x \in -1 .. MaxRev /\ x < it /\ Passes(p, it - 1, x) /\ Stops(cache, p, x)
  <2>1. it \in Valid
    BY <1>3, Positions
  <2> QED  BY <1>1, <1>3, <1>8, <2>1, AdvancePasses, Positions
<1>10. it <= hi /\ it \in cache.have /\ Touches(p, it)
  <2>1. it \in cache.have
    BY <1>1, <1>2 DEF Report, HasData, Available, CacheOK
  <2> QED  BY <1>1, <1>2, <1>4, <2>1 DEF FaithOK
<1>11. PICK m \in 1 .. Len(A) :
           /\ A[m] = it
           /\ Counts(A, m - 1, it) /\ Counts(A, m, x)
           /\ it < low => m = n + 1
           /\ ~ (it < low) => m <= n
           /\ it < low => Splits(A, m, x, low)
           /\ ~ (it < low) => Splits(A, n, x, low)
  BY <1>3, <1>5, <1>7, <1>9, <1>10, LoopEntry
<1>12. (lim = 0 => lft = 0) /\ (lim # 0 => lft = lim - m + 1)
  <2>1. LeftOK(A, query) /\ it # NO_REVISION
    BY <1>1, <1>3, Positions DEF FaithOK
  <2>2. lim = 0 => lft = 0
    BY <1>2, <2>1 DEF LeftOK
  <2>3. ASSUME lim # 0  PROVE lft = lim - m + 1
    <3>1. PICK i \in 0 .. Len(A) : lft = lim - i /\ Counts(A, i, it)
      BY <1>2, <2>1, <2>3 DEF LeftOK
    <3>2. \A k \in 1 .. Len(A) : k <= i <=> k <= m - 1
      BY <1>11, <3>1 DEF Counts
    <3>3. m \in Nat /\ i \in Nat /\ i <= Len(A) /\ m <= Len(A) /\ m > 0
      BY <1>6
    <3>4. ~ (m <= i)
      BY <3>2, <3>3
    <3>5. ~ (i + 1 < m)
      <4> SUFFICES ASSUME i + 1 < m  PROVE FALSE
        OBVIOUS
      <4>1. i + 1 \in 1 .. Len(A)
        BY <1>6, <3>3
      <4> QED  BY <3>2, <3>3, <4>1
    <3>6. i = m - 1
      BY <3>3, <3>4, <3>5
    <3> QED  BY <1>3, <3>1, <3>3, <3>6
  <2> QED  BY <2>2, <2>3
<1>13. PICK w : w = IF it < low THEN m ELSE n
  OBVIOUS
<1>14. w \in 0 .. Len(A) /\ (lim # 0 => w <= lim) /\ (lft = 1 => w = lim) /\ m \in Nat
  <2>1. m \in Nat /\ n \in Nat
    BY <1>6, <1>7
  <2>2. lim # 0 => m <= lim
    BY <1>3, <1>12, <2>1
  <2>3. lft = 1 => lim # 0 /\ m = lim
    BY <1>3, <1>12, <2>1
  <2> QED  BY <1>3, <1>6, <1>7, <1>11, <1>13, <2>1, <2>2, <2>3
<1>15. PICK s : s = query.sent
  OBVIOUS
<1>16. PICK a : a = IF it < low THEN Append(s, it) ELSE s
  OBVIOUS
<1>17. Len(a) = w /\ \A k \in 1 .. w : a[k] = A[k]
  <2>1. s \in Seq(Rev) /\ Len(s) = n /\ n \in Nat /\ \A k \in 1 .. n : s[k] = A[k]
    BY <1>1, <1>6, <1>7, <1>15 DEF QueryType
  <2>2. CASE it < low
    <3>1. Len(a) = n + 1 /\ a[n + 1] = it /\ \A k \in 1 .. n : a[k] = s[k]
      BY <1>3, <1>16, <2>1, <2>2
    <3>2. w = n + 1 /\ A[n + 1] = it
      BY <1>11, <1>13, <2>2
    <3>3. \A k \in 1 .. n + 1 : k = n + 1 \/ k \in 1 .. n
      BY <2>1
    <3> QED  BY <2>1, <3>1, <3>2, <3>3
  <2>3. CASE ~ (it < low)
    BY <1>13, <1>16, <2>1, <2>3
  <2> QED  BY <2>2, <2>3
<1>18. PICK v : v = IF lim = 0 THEN 0 ELSE lft - 1
  OBVIOUS
<1>19. PICK r : r = [query EXCEPT !.sent = a, !.left = v,
                             !.state = IF lft = 1 THEN "done" ELSE "running",
                             !.it = IF lft = 1 THEN @ ELSE x]
  OBVIOUS
<1>20. query' = r
  BY <1>1, <1>2, <1>8, <1>15, <1>16, <1>18, <1>19 DEF Report, QueryType
<1>21. /\ r.path = p /\ r.start = hi /\ r.end = query.end /\ r.limit = lim /\ r.sent = a
       /\ r.left = v /\ r.lastReported = low
       /\ r.state = IF lft = 1 THEN "done" ELSE "running"
       /\ r.it = IF lft = 1 THEN it ELSE x
  BY <1>1, <1>2, <1>4, <1>19 DEF QueryType
<1>22. FirstSent(A, w, r)
  BY <1>14, <1>17, <1>21 DEF FirstSent
<1>23. r.state = "done" => DoneOK(A, w, r)
  BY <1>3, <1>12, <1>14, <1>21 DEF DoneOK
<1>24. ASSUME r.state = "running"
       PROVE  /\ LeftOK(A, r) /\ r.it <= r.start /\ LoopAt(A, w, r)
              /\ r.it = NO_REVISION \/ Born(r.path, r.it)
              /\ r.it \in cache.have => Touches(r.path, r.it)
  <2>1. r.it = x /\ lft # 1
    BY <1>21, <1>24
  <2>2. LoopAt(A, w, r)
    BY <1>11, <1>13, <1>21, <2>1 DEF LoopAt
  <2>3. x = NO_REVISION \/ (x \in Rev /\ Born(p, x))
    BY <1>1, <1>3, <1>8, <1>10, AdvanceBorn
  <2>4. x \in cache.have => Touches(p, x)
    <3>1. x \in cache.have => x \in Rev /\ x # NO_REVISION
      BY <1>1, Positions DEF CacheOK
    <3> QED  BY <1>1, <1>3, <1>9, <2>3, <3>1, StopsAtEntry
  <2>5. LeftOK(A, r)
    <3>1. lim # 0 => v = lim - m
      BY <1>3, <1>12, <1>14, <1>18
    <3>2. m \in 0 .. Len(A)
      BY <1>6
    <3> QED  BY <1>11, <1>18, <1>21, <2>1, <3>1, <3>2 DEF LeftOK
  <2>6. x <= hi
    BY <1>3, <1>5, <1>9, <1>10, Positions
  <2> QED  BY <1>21, <2>1, <2>2, <2>3, <2>4, <2>5, <2>6
<1>25. Lists(A, r.path, r.start, 0) /\ r.end <= r.start
  BY <1>5, <1>21
<1>26. FaithOK(A, w)'
  BY <1>1, <1>20, <1>22, <1>23, <1>24, <1>25, FaithOf
<1> QED  BY <1>26

\* As many entries of the log are above a revision as there are.
LEMMA CountsOnce ==
  ASSUME NEW A, Len(A) \in Nat, NEW x, NEW i \in 0 .. Len(A), NEW j \in 0 .. Len(A),
         Counts(A, i, x), Counts(A, j, x)
  PROVE  i = j
<1>1. \A k \in 1 .. Len(A) : k <= i <=> k <= j
  BY DEF Counts
<1>2. i \in Nat /\ j \in Nat /\ i <= Len(A) /\ j <= Len(A)
  OBVIOUS
<1>3. ~ (i < j)
  <2> SUFFICES ASSUME i < j  PROVE FALSE
    OBVIOUS
  <2>1. j \in 1 .. Len(A)
    BY <1>2
  <2> QED  BY <1>1, <1>2, <2>1
<1>4. ~ (j < i)
  <2> SUFFICES ASSUME j < i  PROVE FALSE
    OBVIOUS
  <2>1. i \in 1 .. Len(A)
    BY <1>2
  <2> QED  BY <1>1, <1>2, <2>1
<1> QED  BY <1>2, <1>3, <1>4

\* B has the entries of A from hi down to lo.
Stretch(B, A, lo, hi) ==
  \A x \in Rev : (\E k \in 1 .. Len(B) : B[k] = x)
                 <=> lo <= x /\ x <= hi /\ \E k \in 1 .. Len(A) : A[k] = x

\* B is the stretch of A from hi down to lo; n entries of A are above it.
LEMMA SameStretch ==
  ASSUME NEW A \in Seq(Rev), Downward(A), NEW B \in Seq(Rev), Downward(B),
         NEW hi \in Int, NEW lo \in Int, NEW n \in 0 .. Len(A),
         Counts(A, n, hi), Stretch(B, A, lo, hi)
  PROVE  /\ n + Len(B) <= Len(A)
         /\ \A j \in 1 .. Len(B) : B[j] = A[n + j]
<1>0. /\ \A k \in 1 .. Len(A) : k <= n <=> A[k] > hi
      /\ \A x \in Rev : (\E k \in 1 .. Len(B) : B[k] = x)
                        <=> lo <= x /\ x <= hi /\ \E k \in 1 .. Len(A) : A[k] = x
  BY DEF Counts, Stretch
<1>1. Len(A) \in Nat /\ Len(B) \in Nat /\ n \in Nat
  OBVIOUS
<1>2. \A k \in 1 .. Len(A) : A[k] \in Rev /\ A[k] \in Nat
  BY Positions
<1>3. \A k \in 1 .. Len(B) : B[k] \in Rev /\ B[k] \in Nat
  BY Positions
<1> DEFINE D == 1 .. Len(B)
           T == {j \in D : n + j <= Len(A) /\ B[j] = A[n + j]}
           id == [j \in D |-> j]
<1>4. ASSUME NEW j \in D, \A y \in D : id[y] < id[j] => y \in T
      PROVE  j \in T
  <2>0. j \in Nat /\ j > 0 /\ \A y \in D : y < j => y \in T
    BY <1>4
  <2>1. lo <= B[j] /\ B[j] <= hi /\ \E k \in 1 .. Len(A) : A[k] = B[j]
    BY <1>0, <1>3
  <2>2. PICK i \in 1 .. Len(A) : A[i] = B[j]
    BY <2>1
  <2>3. ~ (A[i] > hi)
    BY <1>3, <2>1, <2>2
  <2>4. i > n
    BY <1>0, <1>1, <2>3
  <2>5. ~ (i < n + j)
    <3> SUFFICES ASSUME i < n + j  PROVE FALSE
      OBVIOUS
    <3>1. PICK y : y = i - n
      OBVIOUS
    <3>2. y \in D /\ y < j /\ n + y = i
      BY <1>1, <2>0, <2>4, <3>1
    <3>3. B[y] = A[i]
      BY <2>0, <3>2
    <3>4. B[j] < B[y]
      BY <3>2 DEF Downward
    <3> QED  BY <1>3, <2>2, <3>2, <3>3, <3>4
  <2>6. PICK k : k = n + j
    OBVIOUS
  <2>7. k \in 1 .. Len(A) /\ k > n /\ k <= i
    BY <1>1, <2>0, <2>5, <2>6
  <2>8. ~ (k < i)
    <3> SUFFICES ASSUME k < i  PROVE FALSE
      OBVIOUS
    <3>1. A[i] < A[k]
      BY <2>7 DEF Downward
    <3>2. A[k] <= hi /\ lo <= A[k]
      <4>1. ~ (A[k] > hi)
        BY <1>0, <1>1, <2>7
      <4> QED  BY <1>2, <2>1, <2>2, <2>7, <3>1, <4>1
    <3>3. PICK y \in 1 .. Len(B) : B[y] = A[k]
      BY <1>0, <1>2, <2>7, <3>2
    <3>4. y < j
      <4> SUFFICES ASSUME ~ (y < j)  PROVE FALSE
        OBVIOUS
      <4>1. y = j \/ B[y] < B[j]
        BY <2>0 DEF Downward
      <4> QED  BY <1>2, <1>3, <2>2, <2>7, <3>1, <3>3, <4>1
    <3>5. n + y \in 1 .. Len(A) /\ B[y] = A[n + y] /\ n + y < k
      BY <1>1, <2>0, <2>6, <3>4
    <3>6. A[k] < A[n + y]
      BY <2>7, <3>5 DEF Downward
    <3> QED  BY <1>2, <2>7, <3>3, <3>5, <3>6
  <2>9. i = k
    BY <1>1, <2>7, <2>8
  <2> QED  BY <2>2, <2>6, <2>9
<1>5. \A j \in D : j \in T
  <2>1. id \in [D -> Nat]
    OBVIOUS
  <2> HIDE DEF D, T, id
  <2> QED  BY <1>4, <2>1, FromBelow
<1>6. n + Len(B) <= Len(A)
  <2>1. CASE Len(B) = 0
    BY <1>1, <2>1
  <2>2. CASE Len(B) # 0
    <3>1. Len(B) \in D
      BY <1>1, <2>2
    <3> QED  BY <1>5, <3>1
  <2> QED  BY <2>1, <2>2
<1> QED  BY <1>5, <1>6

\* A part of the log, from x down, is the stretch of it that begins there.
LEMMA LogPart ==
  ASSUME NEW A, NEW p, NEW hi \in Rev, Lists(A, p, hi, 0), NEW n \in 0 .. Len(A),
         NEW x \in Rev, x <= hi, Counts(A, n, x), NEW lo \in Rev,
         NEW B, Lists(B, p, x, lo)
  PROVE  /\ B \in Seq(Rev) /\ n + Len(B) <= Len(A)
         /\ \A j \in 1 .. Len(B) : B[j] = A[n + j]
<1>1. /\ A \in Seq(Rev) /\ Len(A) \in Nat /\ Downward(A)
      /\ \A k \in 1 .. Len(A) : A[k] \in Rev /\ A[k] \in Nat /\ Touches(p, A[k])
      /\ \A z \in Rev : z <= hi /\ Touches(p, z) => \E k \in 1 .. Len(A) : A[k] = z
  BY ListOf
<1>2. /\ B \in Seq(Rev) /\ Downward(B) /\ x \in Int /\ lo \in Int /\ hi \in Int
      /\ \A z \in Rev : z \in Int
  BY Positions DEF Lists
<1>3. ASSUME NEW z \in Rev
      PROVE  (\E k \in 1 .. Len(B) : B[k] = z)
             <=> lo <= z /\ z <= x /\ \E k \in 1 .. Len(A) : A[k] = z
  <2>1. (\E k \in 1 .. Len(B) : B[k] = z) <=> lo <= z /\ z <= x /\ Touches(p, z)
    BY DEF Lists
  <2>2. z <= x => z <= hi
    BY <1>2
  <2> QED  BY <1>1, <2>1, <2>2
<1>4. Stretch(B, A, lo, x)
  BY <1>3 DEF Stretch
<1> QED  BY <1>1, <1>2, <1>4, SameStretch

\* The filler is asked for just what follows in the log.
LEMMA FaithFetches ==
  ASSUME QueryOK, Fetch, NEW A, NEW n, FaithOK(A, n)
  PROVE  FaithOK(A, n)'
<1>1. /\ query \in QueryType /\ query.it \in Rev /\ query.end \in Rev /\ query.end <= query.it
      /\ query.path \in Path /\ query.left \in Nat /\ query.props \in BOOLEAN
      /\ query.limit \in Nat /\ query.lastReported \in Int
      /\ ~ Available(cache, query.props, query.it)
      /\ changes \in Histories /\ CacheOK(cache)
  BY Inside DEF QueryOK, LogInv, QueryInv, QueryType, CacheInv, Fetch, MustFetch, HasData
<1>2. /\ Running /\ fills = <<>> /\ query.it < query.lastReported /\ query' = query
      /\ changes' = changes
      /\ query.limit # 0 => query.left > 0
  BY DEF QueryOK, LogInv, QueryInv, Fetch, MustFetch, Looping
<1>3. PICK low : /\ low = FetchEnd(cache, query.path, query.it, query.end, query.props)
                 /\ fills' = <<Fill(query.path, query.it, low, query.left, query.props, TRUE)>>
  BY DEF Fetch
<1>4. low \in Rev /\ low <= query.it
  BY <1>1, <1>3, FetchEndType
<1>5. PICK p, it, lim, lft : p = query.path /\ it = query.it /\ lim = query.limit /\ lft = query.left
  OBVIOUS
<1>6. PICK f : f = Fill(p, it, low, lft, query.props, TRUE)
  OBVIOUS
<1>7. PICK t : t = ServerLog(p, it, low, lft)
  OBVIOUS
<1>8. /\ f.todo = t /\ f.phase = "log" /\ f.oldest = MaxRev + 2 /\ f.firstNA = it
      /\ f.following = TRUE
  BY <1>6, <1>7 DEF Fill
<1>9. Pending(f) = 0
  BY <1>8 DEF Pending
<1>10. PICK hi : hi = query.start
  OBVIOUS
<1>11. hi \in Rev /\ Lists(A, p, hi, 0) /\ query.end <= hi /\ it \in Rev /\ it <= hi
       /\ p \in Path /\ lft \in Nat /\ lim \in Nat /\ it \in Nat
  BY <1>1, <1>2, <1>5, <1>10, Positions DEF QueryType, FaithOK
<1>12. /\ A \in Seq(Rev) /\ Len(A) \in Nat /\ Downward(A)
       /\ \A k \in 1 .. Len(A) : A[k] \in Rev /\ A[k] \in Nat
       /\ \A z \in Rev : z <= hi /\ Touches(p, z) => \E k \in 1 .. Len(A) : A[k] = z
  BY <1>11, ListOf
<1>13. n \in 0 .. Len(A) /\ n \in Nat /\ Counts(A, n, it)
  <2>1. Splits(A, n, query.it, query.lastReported) /\ n \in 0 .. Len(A)
    BY <1>2 DEF FaithOK, FirstSent, LoopAt
  <2>2. \A k \in 1 .. Len(A) : A[k] >= query.lastReported => A[k] > it
    BY <1>1, <1>2, <1>5, <1>11, <1>12
  <2>3. \A k \in 1 .. Len(A) : k <= n <=> A[k] > it
    BY <1>5, <2>1, <2>2 DEF Splits
  <2> QED  BY <1>12, <2>1, <2>3 DEF Counts
<1>14. (lim = 0 => lft = 0) /\ (lim # 0 => lft = lim - n)
  <2>1. LeftOK(A, query) /\ it # NO_REVISION
    BY <1>2, <1>11, Positions DEF FaithOK
  <2>2. lim = 0 => lft = 0
    BY <1>5, <2>1 DEF LeftOK
  <2>3. ASSUME lim # 0  PROVE lft = lim - n
    <3>1. PICK i \in 0 .. Len(A) : lft = lim - i /\ Counts(A, i, it)
      BY <1>5, <2>1, <2>3 DEF LeftOK
    <3>2. i = n
      BY <1>12, <1>13, <3>1, CountsOnce
    <3> QED  BY <3>1, <3>2
  <2> QED  BY <2>2, <2>3
<1>15. PICK all : /\ Lists(all, p, it, low)
                  /\ t \in Seq(Rev) /\ Len(t) <= Len(all)
                  /\ \A k \in 1 .. Len(t) : t[k] = all[k]
                  /\ IF lft = 0 THEN t = all
                     ELSE Len(t) <= lft /\ (Len(t) = lft \/ Len(t) = Len(all))
  <2>1. low <= it
    BY <1>4, <1>5
  <2> QED  BY <1>1, <1>4, <1>7, <1>11, <2>1, ServerLogLists
<1>16. /\ all \in Seq(Rev) /\ n + Len(all) <= Len(A)
       /\ \A j \in 1 .. Len(all) : all[j] = A[n + j]
  BY <1>4, <1>11, <1>13, <1>15, LogPart
<1>17. PICK u, v : u = Len(t) /\ v = Len(all)
  OBVIOUS
<1>18. u \in Nat /\ v \in Nat /\ u <= v /\ n + v <= Len(A)
  BY <1>15, <1>16, <1>17
<1>19. n + u <= Len(A) /\ (lim # 0 => n + u <= lim)
  <2>1. n + u <= Len(A)
    BY <1>12, <1>13, <1>18
  <2>2. ASSUME lim # 0  PROVE n + u <= lim
    <3>1. lft # 0 /\ lft = lim - n
      BY <1>2, <1>5, <1>14, <2>2
    <3>2. u <= lft
      BY <1>15, <1>17, <3>1
    <3> QED  BY <1>11, <1>13, <1>18, <3>1, <3>2
  <2> QED  BY <2>1, <2>2
<1>20. ASSUME NEW j \in 1 .. u  PROVE t[j] = A[n + j]
  <2>1. j \in 1 .. Len(t) /\ j \in 1 .. Len(all)
    BY <1>17, <1>18
  <2> QED  BY <1>15, <1>16, <2>1
<1>21. ASSUME NEW k \in n + 1 .. Len(A)  PROVE A[k] <= it /\ A[k] < MaxRev + 2
  <2>1. k \in 1 .. Len(A) /\ ~ (k <= n)
    BY <1>12, <1>13
  <2>2. A[k] \in Rev /\ A[k] \in Nat
    BY <1>12, <2>1
  <2>3. ~ (A[k] > it)
    BY <1>13, <2>1 DEF Counts
  <2> QED  BY <1>11, <2>2, <2>3, Positions
<1>22. ASSUME NEW k \in 1 .. n  PROVE A[k] > it
  <2>1. k \in 1 .. Len(A) /\ k <= n
    BY <1>12, <1>13
  <2> QED  BY <1>13, <2>1 DEF Counts
<1>23. ASSUME it = 0  PROVE n + u = Len(A)
  <2>1. ~ (n + 1 < Len(A))
    <3> SUFFICES ASSUME n + 1 < Len(A)  PROVE FALSE
      OBVIOUS
    <3>1. PICK a, b : a = n + 1 /\ b = n + 2
      OBVIOUS
    <3>2. a \in n + 1 .. Len(A) /\ b \in n + 1 .. Len(A) /\ a \in 1 .. Len(A)
          /\ b \in 1 .. Len(A) /\ a < b
      BY <1>12, <1>13, <3>1
    <3>3. A[a] \in Nat /\ A[b] \in Nat /\ A[a] <= 0
      BY <1>12, <1>21, <1>23, <3>2
    <3>4. A[b] < A[a]
      BY <1>12, <3>2 DEF Downward
    <3> QED  BY <3>3, <3>4
  <2>2. ASSUME n + 1 = Len(A)  PROVE u = 1
    <3>1. n + 1 \in n + 1 .. Len(A) /\ n + 1 \in 1 .. Len(A)
      BY <1>12, <1>13, <2>2
    <3>2. PICK z : z = A[n + 1]
      OBVIOUS
    <3>3. z \in Rev /\ z \in Nat /\ z <= it
      BY <1>12, <1>21, <3>1, <3>2
    <3>4. Touches(p, z) /\ z = 0 /\ low = 0
      <4>1. Touches(p, A[n + 1])
        BY <1>11, <3>1, ListOf
      <4>2. low \in Nat /\ low <= it
        BY <1>4, <1>5, Positions
      <4> QED  BY <1>23, <3>2, <3>3, <4>1, <4>2
    <3>5. \E k \in 1 .. Len(all) : all[k] = z
      BY <1>15, <1>23, <3>3, <3>4 DEF Lists
    <3>6. v = 1
      <4>1. v > 0
        BY <1>17, <1>18, <3>5
      <4> QED  BY <1>12, <1>13, <1>18, <2>2, <4>1
    <3>7. u = v
      <4>1. CASE lft = 0
        BY <1>15, <1>17, <4>1
      <4>2. CASE lft # 0
        BY <1>11, <1>15, <1>17, <1>18, <3>6, <4>2
      <4> QED  BY <4>1, <4>2
    <3> QED  BY <3>6, <3>7
  <2> QED  BY <1>12, <1>13, <1>18, <1>19, <2>1, <2>2
<1>24. FillAt(A, n, query, f)
  <2>1. n + 0 + Len(t) <= Len(A) /\ (query.limit # 0 => n + 0 + Len(t) <= query.limit)
    BY <1>5, <1>13, <1>17, <1>18, <1>19
  <2>2. \A j \in 1 .. Len(t) : t[j] = A[n + 0 + j]
    BY <1>13, <1>17, <1>20
  <2>3. query.it = 0 => n + 0 + Len(t) = Len(A)
    BY <1>5, <1>13, <1>17, <1>18, <1>23
  <2> QED  BY <1>5, <1>8, <1>9, <1>21, <1>22, <2>1, <2>2, <2>3 DEF FillAt
<1>25. fills' # <<>> /\ Outer' = f
  <2>1. PICK w : w = <<f>>
    OBVIOUS
  <2>2. Len(w) = 1 /\ w[1] = f /\ fills' = w
    BY <1>3, <1>5, <1>6, <2>1
  <2>3. Len(<<>>) = 0
    OBVIOUS
  <2> QED  BY <2>2, <2>3 DEF Outer
<1>26. /\ Lists(A, query.path, query.start, 0) /\ query.end <= query.start
       /\ FirstSent(A, n, query) /\ query.state = "running"
       /\ LeftOK(A, query) /\ query.it <= query.start
       /\ query.it = NO_REVISION \/ Born(query.path, query.it)
  BY <1>2 DEF FaithOK, Running
<1> QED  BY <1>2, <1>24, <1>25, <1>26, FaithOf

\* What a query says about its log does not depend on what it reports next.
LEMMA FaithKeeps ==
  ASSUME NEW A, NEW n, FaithOK(A, n), Running, changes' = changes, NEW r, query' = r,
         r.path = query.path, r.start = query.start, r.end = query.end,
         r.limit = query.limit, r.left = query.left, r.it = query.it,
         r.state = "running", NEW m, FirstSent(A, m, r), fills' # <<>>, FillAt(A, m, r, Outer')
  PROVE  FaithOK(A, m)'
<1>1. /\ Lists(A, query.path, query.start, 0) /\ query.end <= query.start
      /\ LeftOK(A, query) /\ query.it <= query.start
      /\ query.it = NO_REVISION \/ Born(query.path, query.it)
  BY DEF FaithOK
<1>2. LeftOK(A, r)
  BY <1>1 DEF LeftOK
<1> QED  BY <1>1, <1>2, FaithOf

\* A step that the query does not notice.
LEMMA FaithStays ==
  ASSUME QueryOK, fills # <<>>, OuterStays, changes' = changes, NEW A, NEW n, FaithOK(A, n)
  PROVE  FaithOK(A, n)'
<1>1. Running /\ query.state = "running" /\ FirstSent(A, n, query) /\ FillAt(A, n, query, Outer)
  BY DEF QueryOK, OuterOnly, FaithOK, Running
<1>2. fills' # <<>> /\ query' = query /\ FillAt(A, n, query, Outer')
  BY <1>1, FillAtLike DEF OuterStays
<1> QED  BY <1>1, <1>2, FaithKeeps

\* The filler of the query receives a revision.
LEMMA FaithReceives ==
  ASSUME QueryOK, fills # <<>>, OuterReceives, changes' = changes, NEW A, NEW n, FaithOK(A, n)
  PROVE  FaithOK(A, n)'
<1>1. /\ Running /\ query.state = "running" /\ FirstSent(A, n, query)
      /\ FillAt(A, n, query, Outer) /\ query \in QueryType
  BY DEF QueryOK, LogInv, QueryInv, OuterOnly, FaithOK, Running
<1>2. PICK u, t : u = Outer.todo /\ t = Tail(Outer.todo)
  OBVIOUS
<1>3. u \in Seq(Rev) /\ u # <<>> /\ t = Tail(u) /\ Outer'.todo = t /\ Outer'.rev = Head(u)
      /\ Pending(Outer) = 0 /\ Pending(Outer') = 1 /\ fills' # <<>> /\ query' = query
      /\ Outer'.oldest = Outer.oldest /\ Outer'.following = Outer.following
  BY <1>2 DEF OuterReceives
<1>4. /\ t \in Seq(Rev) /\ Len(t) = Len(u) - 1 /\ Len(u) \in Nat /\ Len(u) > 0
      /\ Head(u) = u[1]
      /\ \A j \in 1 .. Len(t) : t[j] = u[j + 1]
  BY <1>3, TailOf
<1>5. A \in Seq(Rev) /\ n \in Nat /\ query.limit \in Nat
  <2>1. query.start \in Rev /\ query.limit \in Nat
    BY <1>1 DEF QueryType
  <2>2. A \in Seq(Rev)
    BY <2>1, ListOf DEF FaithOK
  <2> QED  BY <1>1, <2>1, <2>2 DEF FirstSent
<1>6. PICK g : g = Outer'
  OBVIOUS
<1>7. FillAt(A, n, query, g)
  BY <1>1, <1>2, <1>3, <1>4, <1>5, <1>6, FillAtReceived
<1> QED  BY <1>1, <1>3, <1>6, <1>7, FaithKeeps

\* The filler of the query reports what it has received.
LEMMA FaithHandsOn ==
  ASSUME QueryOK, fills # <<>>, OuterHandsOn, changes' = changes, NEW A, NEW n, FaithOK(A, n)
  PROVE  FaithOK(A, n + 1)'
<1>1. /\ Running /\ query.state = "running" /\ FirstSent(A, n, query)
      /\ FillAt(A, n, query, Outer) /\ query \in QueryType /\ Outer \in FillType
      /\ changes \in Histories /\ Outer.path = query.path
  BY LastFill DEF QueryOK, LogInv, QueryInv, CacheInv, OuterOnly, FaithOK, Running
<1>2. PICK p, hi : p = query.path /\ hi = query.start
  OBVIOUS
<1>3. p \in Path /\ hi \in Rev /\ Lists(A, p, hi, 0) /\ query.limit \in Nat /\ query.sent \in Seq(Rev)
  BY <1>1, <1>2 DEF QueryType, FaithOK
<1>4. Outer.todo \in Seq(Rev) /\ Outer.oldest \in Int
  BY <1>1 DEF FillType
<1>5. PICK f, g : f = Outer /\ g = Outer'
  OBVIOUS
<1>6. /\ Pending(f) = 1 /\ f.rev \in Rev /\ g.todo = f.todo /\ Pending(g) = 0
      /\ g.firstNA = Larger(f.rev - 1, 0)
      /\ g.oldest = IF f.following /\ f.rev < f.oldest THEN f.rev ELSE f.oldest
      /\ p \notin Adds(f.rev) => g.following = f.following
      /\ fills' # <<>>
      /\ query' = IF f.following THEN [query EXCEPT !.sent = Append(@, f.rev)] ELSE query
  BY <1>1, <1>2, <1>5 DEF OuterHandsOn
<1>7. PICK a : a = Append(query.sent, f.rev)
  OBVIOUS
<1>8. PICK r : r = [query EXCEPT !.sent = a]
  OBVIOUS
<1>9. /\ r.sent = a /\ r.path = query.path /\ r.start = query.start /\ r.end = query.end
      /\ r.limit = query.limit /\ r.left = query.left /\ r.it = query.it
      /\ r.state = query.state
  BY <1>1, <1>8 DEF QueryType
<1>10. /\ f.following /\ n + 1 \in 1 .. Len(A) /\ f.rev = A[n + 1]
       /\ query.limit # 0 => n + 1 <= query.limit
       /\ FillAt(A, n + 1, r, g)
  BY <1>1, <1>3, <1>4, <1>5, <1>6, <1>9, FillAtHanded
<1>11. query' = r
  BY <1>1, <1>6, <1>7, <1>8, <1>10 DEF QueryType
<1>12. FirstSent(A, n + 1, r)
  <2>1. n \in Nat /\ n = Len(query.sent) /\ \A k \in 1 .. n : query.sent[k] = A[k]
    BY <1>1, <1>3 DEF FirstSent
  <2>2. Len(a) = n + 1 /\ a[n + 1] = f.rev /\ \A k \in 1 .. n : a[k] = query.sent[k]
    BY <1>3, <1>6, <1>7, <2>1
  <2>3. \A k \in 1 .. n + 1 : k = n + 1 \/ k \in 1 .. n
    BY <2>1
  <2>4. \A k \in 1 .. n + 1 : a[k] = A[k]
    BY <1>10, <2>1, <2>2, <2>3
  <2> QED  BY <1>9, <1>10, <2>2, <2>4 DEF FirstSent
<1>13. PICK m : m = n + 1
  OBVIOUS
<1>14. FaithOK(A, m)'
  BY <1>1, <1>5, <1>6, <1>9, <1>10, <1>11, <1>12, <1>13, FaithKeeps
<1> QED  BY <1>13, <1>14

\* FillLog returns: the filler has reported all that lies above where the loop goes on.
LEMMA FaithReturns ==
  ASSUME QueryOK, fills # <<>>, OuterReturns, ~ offline', changes' = changes,
         NEW A, NEW n, FaithOK(A, n)
  PROVE  FaithOK(A, n)'
<1>1. /\ Running /\ query.state = "running" /\ FirstSent(A, n, query)
      /\ FillAt(A, n, query, Outer) /\ query \in QueryType /\ Outer \in FillType
      /\ changes \in Histories
  BY LastFill DEF QueryOK, LogInv, QueryInv, CacheInv, OuterOnly, FaithOK, Running
<1>2. PICK p, hi, it : p = query.path /\ hi = query.start /\ it = query.it
  OBVIOUS
<1>3. PICK c, f : c = cache' /\ f = Outer
  OBVIOUS
<1>4. p \in Path /\ hi \in Rev /\ Lists(A, p, hi, 0) /\ it \in Position /\ it \in Int
      /\ it \in -1 .. MaxRev /\ query.end <= hi /\ CacheOK(c) /\ it <= hi
      /\ (it = NO_REVISION \/ Born(p, it))
  BY <1>1, <1>2, <1>3, Positions DEF QueryType, FaithOK, OuterReturns
<1>5. PICK x : x = Retry(c, p, it)
  OBVIOUS
<1>6. /\ x \in Position /\ x <= it /\ Stops(c, p, x)
      /\ IF it = 0 THEN x < 0 ELSE Passes(p, it, x)
  BY <1>1, <1>4, <1>5, RetrySound, Positions
<1>7. x \in Int /\ x \in -1 .. MaxRev /\ (x = NO_REVISION \/ x \in Rev)
  BY <1>4, <1>6, Positions
<1>8. PICK low : low = IF f.oldest < f.firstNA + 1 THEN f.oldest ELSE f.firstNA + 1
  OBVIOUS
<1>9. f.oldest \in Int /\ f.firstNA \in Nat /\ low \in Int /\ low <= f.oldest /\ low <= f.firstNA + 1
      /\ (low = f.oldest \/ low = f.firstNA + 1)
  <2>1. f.oldest \in Int /\ f.firstNA \in Nat
    BY <1>1, <1>3, Positions DEF FillType
  <2> QED  BY <1>8, <2>1
<1>10. /\ A \in Seq(Rev) /\ Len(A) \in Nat
       /\ \A k \in 1 .. Len(A) : A[k] \in Rev /\ A[k] \in Nat /\ A[k] <= hi
  BY <1>4, ListOf
<1>11. /\ n + 0 + Len(f.todo) <= Len(A) /\ n \in Nat
       /\ \A k \in 1 .. n : A[k] > it \/ A[k] >= f.oldest
       /\ \A k \in n + 1 .. Len(A) : A[k] <= it /\ A[k] < f.oldest /\ A[k] <= f.firstNA
       /\ it = 0 => n + 0 + Len(f.todo) = Len(A)
  <2>1. Pending(f) = 0 /\ n \in Nat
    BY <1>1, <1>3, <1>10 DEF OuterReturns, FirstSent
  <2> QED  BY <1>1, <1>2, <1>3, <2>1 DEF FillAt
<1>12. it = 0 => n = Len(A)
  <2>1. PICK e : e = f.todo
    OBVIOUS
  <2>2. e = <<>>
    BY <1>3, <2>1 DEF OuterReturns
  <2>3. Len(e) = 0
    BY <2>2
  <2> QED  BY <1>10, <1>11, <2>1, <2>3
<1>13. ASSUME NEW k \in 1 .. Len(A)
       PROVE  k <= n <=> A[k] > x \/ A[k] >= low
  <2>1. CASE k <= n
    <3>1. A[k] > it \/ A[k] >= f.oldest
      BY <1>11, <2>1
    <3> QED  BY <1>4, <1>6, <1>7, <1>9, <1>10, <2>1, <3>1
  <2>2. CASE ~ (k <= n)
    <3>1. k \in n + 1 .. Len(A) /\ it # 0
      BY <1>10, <1>11, <1>12, <2>2
    <3>2. A[k] <= it /\ A[k] < f.oldest /\ A[k] <= f.firstNA
      BY <1>11, <3>1
    <3>3. A[k] > x <=> A[k] > it
      BY <1>4, <1>6, <1>7, <3>1, PassesNone
    <3> QED  BY <1>4, <1>9, <1>10, <2>2, <3>2, <3>3
  <2> QED  BY <2>1, <2>2
<1>14. PICK r : r = [query EXCEPT !.lastReported = low, !.it = x]
  OBVIOUS
<1>15. query' = r /\ fills' = <<>>
  BY <1>1, <1>2, <1>3, <1>5, <1>8, <1>14 DEF OuterReturns, QueryType
<1>16. /\ r.sent = query.sent /\ r.path = p /\ r.start = hi /\ r.end = query.end
       /\ r.limit = query.limit /\ r.left = query.left /\ r.it = x /\ r.lastReported = low
       /\ r.state = "running"
  BY <1>1, <1>2, <1>14 DEF QueryType
<1>17. LoopAt(A, n, r)
  BY <1>13, <1>16 DEF LoopAt, Splits
<1>18. LeftOK(A, r)
  <2>1. LeftOK(A, query)
    BY <1>1 DEF FaithOK
  <2>2. ASSUME r.limit # 0, x # NO_REVISION
        PROVE  \E i \in 0 .. Len(A) : r.left = r.limit - i /\ Counts(A, i, x)
    <3>1. it # NO_REVISION /\ it # 0 /\ Passes(p, it, x)
      BY <1>4, <1>6, <1>7, <2>2, Positions
    <3>2. PICK i \in 0 .. Len(A) : query.left = query.limit - i /\ Counts(A, i, it)
      BY <1>2, <1>16, <2>1, <2>2, <3>1 DEF LeftOK
    <3>3. \A k \in 1 .. Len(A) : A[k] > x <=> A[k] > it
      BY <1>4, <1>6, <1>7, <3>1, PassesNone
    <3>4. Counts(A, i, x)
      BY <3>2, <3>3 DEF Counts
    <3> QED  BY <1>16, <3>2, <3>4
  <2> QED  BY <1>16, <2>1, <2>2 DEF LeftOK
<1>19. x = NO_REVISION \/ (x \in Rev /\ Born(p, x))
  <2>1. CASE x = NO_REVISION
    BY <2>1
  <2>2. CASE x # NO_REVISION
    <3>1. x \in Rev /\ x >= 0 /\ it \in Rev /\ it # 0 /\ it # NO_REVISION
      BY <1>4, <1>6, <1>7, <2>2, Positions
    <3>2. Passes(p, it, x) /\ Born(p, it)
      BY <1>4, <1>6, <3>1
    <3>3. Born(p, x)
      BY <1>7, <3>1, <3>2, BornStill
    <3> QED  BY <3>1, <3>3
  <2> QED  BY <2>1, <2>2
<1>20. x \in c.have => Touches(p, x)
  <2>1. x \in c.have => x \in Rev /\ x # NO_REVISION
    BY <1>4, Positions DEF CacheOK
  <2> QED  BY <1>1, <1>4, <1>6, <1>19, <2>1, StopsAtEntry
<1>21. FirstSent(A, n, r)
  BY <1>1, <1>16 DEF FirstSent
<1>22. x <= hi
  BY <1>4, <1>6, <1>7, Positions
<1> QED
  BY <1>3, <1>4, <1>15, <1>16, <1>17, <1>18, <1>19, <1>20, <1>21, <1>22, FaithOf

\* A query that fails has reported what it has.
LEMMA FaithFails ==
  ASSUME QueryOK, fills # <<>>, OuterFails, changes' = changes, NEW A, NEW n, FaithOK(A, n)
  PROVE  FaithOK(A, n)'
<1>1. PICK r : r = [query EXCEPT !.state = "failed"]
  OBVIOUS
<1>2. query \in QueryType /\ query' = r /\ fills' = <<>>
  BY <1>1 DEF QueryOK, LogInv, QueryInv, OuterFails
<1>3. /\ r.path = query.path /\ r.start = query.start /\ r.end = query.end
      /\ r.sent = query.sent /\ r.limit = query.limit /\ r.state = "failed"
  BY <1>1, <1>2 DEF QueryType
<1>4. Lists(A, r.path, r.start, 0) /\ r.end <= r.start /\ FirstSent(A, n, r)
  BY <1>3 DEF FaithOK, FirstSent
<1> QED  BY <1>2, <1>3, <1>4, FaithOf

\* While the filler of a query is at work.
LEMMA FaithOuter ==
  ASSUME QueryOK, fills # <<>>, [Next]_vars, ~ offline', NEW A, NEW n, FaithOK(A, n)
  PROVE  \E m : FaithOK(A, m)'
<1>1. OuterStep
  BY OuterSteps DEF QueryOK
<1> QED
  BY <1>1, FaithStays, FaithReceives, FaithHandsOn, FaithReturns, FaithFails DEF OuterStep

\* A new query has its whole log before it.
LEMMA FaithStarts ==
  ASSUME QueryOK, NEW q \in Asked, Log(q), query'.start > 0
  PROVE  \E A, n : FaithOK(A, n)'
<1>1. PICK p, hi : p = q.path /\ hi = q.start
  OBVIOUS
<1>2. /\ p \in Path /\ hi \in Rev /\ q.end \in Rev /\ q.limit \in Nat /\ q.end <= hi
      /\ hi \in Nat /\ 0 \in Rev /\ 0 <= hi
  BY <1>1, LogAssumption, Positions DEF LogAssumption
<1>3. changes \in Histories /\ CacheOK(cache) /\ Birth(p) <= hi /\ changes' = changes
      /\ fills' = fills /\ cache' = cache
  BY <1>1 DEF QueryOK, LogInv, CacheInv, Log
<1>4. fills = <<>>
  BY DEF QueryOK, OuterOnly, Log
<1>5. PICK s : s = ServerLog(p, hi, 0, 0)
  OBVIOUS
<1>6. PICK A : Lists(A, p, hi, 0)
  BY <1>2, <1>3, <1>5, ServerLogLists
<1>7. /\ A \in Seq(Rev) /\ Len(A) \in Nat
      /\ \A k \in 1 .. Len(A) : A[k] \in Nat /\ A[k] <= hi
  BY <1>2, <1>6, ListOf
<1>8. PICK x, e : x = Retry(cache, p, hi) /\ e = <<>> /\ Len(e) = 0
  OBVIOUS
<1>9. PICK r : r = [state |-> "running", path |-> p, start |-> hi, end |-> q.end,
                limit |-> q.limit, props |-> q.props, left |-> q.limit,
                it |-> x, lastReported |-> hi + 1, sent |-> e]
  OBVIOUS
<1>10. query' = r
  BY <1>1, <1>8, <1>9 DEF Log
<1>11. /\ r.state = "running" /\ r.path = p /\ r.start = hi /\ r.end = q.end
       /\ r.limit = q.limit /\ r.left = q.limit /\ r.it = x /\ r.lastReported = hi + 1
       /\ r.sent = e
  BY <1>9
<1>12. hi > 0 /\ hi # 0 /\ hi \in Position /\ hi <= MaxRev + 1
  BY <1>2, <1>10, <1>11, Positions
<1>13. x \in Position /\ x <= hi /\ Passes(p, hi, x) /\ Stops(cache, p, x)
  BY <1>2, <1>3, <1>8, <1>12, RetrySound
<1>14. x \in Int /\ x \in -1 .. MaxRev /\ (x = NO_REVISION \/ x \in Rev)
  BY <1>2, <1>13, Positions
<1>15. \A k \in 1 .. Len(A) : ~ (A[k] > x)
  <2>1. \A k \in 1 .. Len(A) : A[k] > x <=> A[k] > hi
    BY <1>2, <1>6, <1>13, <1>14, PassesNone
  <2> QED  BY <1>2, <1>7, <2>1
<1>16. PICK n : n = 0
  OBVIOUS
<1>17. LoopAt(A, n, r) /\ Counts(A, n, x)
  BY <1>2, <1>7, <1>11, <1>15, <1>16 DEF LoopAt, Splits, Counts
<1>18. LeftOK(A, r)
  <2>1. n \in 0 .. Len(A) /\ q.limit = q.limit - n
    BY <1>2, <1>7, <1>16
  <2> QED  BY <1>11, <1>17, <2>1 DEF LeftOK
<1>19. FirstSent(A, n, r)
  BY <1>2, <1>7, <1>8, <1>11, <1>16 DEF FirstSent
<1>20. Born(p, hi)
  BY <1>2, <1>3, BornIs
<1>21. Born(p, x)
  BY <1>2, <1>13, <1>14, <1>20, BornStill
<1>22. x \in cache.have => Touches(p, x)
  <2>1. x \in cache.have => x \in Rev
    BY <1>3 DEF CacheOK
  <2> QED  BY <1>2, <1>3, <1>13, <1>21, <2>1, StopsAtEntry
<1>23. FaithOK(A, n)'
  BY <1>2, <1>3, <1>4, <1>6, <1>10, <1>11, <1>13, <1>17, <1>18, <1>19, <1>21, <1>22, FaithOf
<1> QED  BY <1>23

\* The loop ends where nothing that was asked for is left.
LEMMA FaithFinishes ==
  ASSUME QueryOK, NEW A, NEW n, FaithOK(A, n), Looping, NEW reason, Done(reason),
         reason = "refused" \/ (reason = "done" /\ EndOfLog)
  PROVE  FaithOK(A, n)'
<1>1. /\ query \in QueryType /\ Running /\ fills = <<>> /\ fills' = <<>> /\ changes' = changes
      /\ query.start \in Rev /\ query.end \in Rev /\ query.it \in Int /\ query.lastReported \in Int
  BY Positions DEF QueryOK, LogInv, QueryInv, QueryType, Looping, Done
<1>2. PICK r : r = [query EXCEPT !.state = reason]
  OBVIOUS
<1>3. /\ query' = r /\ r.path = query.path /\ r.start = query.start /\ r.end = query.end
      /\ r.sent = query.sent /\ r.limit = query.limit /\ r.state = reason
  BY <1>1, <1>2 DEF Done, QueryType
<1>4. Lists(A, r.path, r.start, 0) /\ r.end <= r.start /\ FirstSent(A, n, r)
      /\ Splits(A, n, query.it, query.lastReported)
  BY <1>1, <1>3 DEF FaithOK, FirstSent, LoopAt
<1>5. ASSUME EndOfLog, NEW k \in 1 .. Len(A), A[k] >= query.end  PROVE k <= n
  <2>1. A[k] \in Nat
    BY <1>1, <1>3, <1>4, ListOf
  <2>2. query.end \in Nat
    BY <1>1, Positions
  <2>3. A[k] > query.it
    BY <1>1, <1>5, <2>1, <2>2, Positions DEF EndOfLog
  <2> QED  BY <1>4, <2>3 DEF Splits
<1>6. r.state = "done" => DoneOK(A, n, r)
  BY <1>3, <1>5 DEF DoneOK
<1>7. r.state # "running"
  BY <1>3
<1> QED  BY <1>1, <1>3, <1>4, <1>6, <1>7, FaithOf

\* The iterator does not come to revision 0 with a path that begins later.
LEMMA NeverBelow ==
  ASSUME QueryOK, NEW A, NEW n, FaithOK(A, n)
  PROVE  ~ NothingBelow
<1> SUFFICES ASSUME NothingBelow  PROVE FALSE
  OBVIOUS
<1>1. Running /\ query.it = 0 /\ query.path # Root
  BY DEF NothingBelow, Looping
<1>2. Born(query.path, 0)
  BY <1>1, Positions DEF FaithOK
<1>3. PICK z \in Rev : z <= 0 /\ Touches(query.path, z)
  BY <1>2 DEF Born
<1> QED  BY <1>1, <1>3, Positions DEF Touches

\* Nothing happens.
LEMMA FaithUnchanged ==
  ASSUME QueryOK, NEW A, NEW n, FaithOK(A, n), UNCHANGED vars
  PROVE  FaithOK(A, n)'
<1>1. changes' = changes /\ query' = query /\ fills' = fills /\ cache' = cache /\ Outer' = Outer
  BY DEF vars, Outer
<1>2. /\ Lists(A, query.path, query.start, 0) /\ query.end <= query.start
      /\ FirstSent(A, n, query)
      /\ query.state = "running" =>
           LeftOK(A, query) /\ query.it <= query.start
             /\ (query.it = NO_REVISION \/ Born(query.path, query.it))
      /\ query.state = "running" /\ fills = <<>> =>
           LoopAt(A, n, query) /\ (query.it \in cache.have => Touches(query.path, query.it))
      /\ fills # <<>> => FillAt(A, n, query, Outer)
      /\ query.state = "done" => DoneOK(A, n, query)
  BY DEF FaithOK, Running
<1> QED  BY <1>1, <1>2, FaithOf

\* Only a new query, and going on-line again, change what was asked for.
LEMMA SameQuery ==
  ASSUME QueryOK, [Next]_vars, ~ offline', query'.state # "none",
         ~ \E q \in Asked : Log(q)
  PROVE  ~ offline /\ query.state # "none" /\ query'.start = query.start
<1>1. query \in QueryType
  BY DEF QueryOK, LogInv, QueryInv
<1>2. CASE UNCHANGED vars
  BY <1>2 DEF vars
<1>3. CASE ResetOffline
  <2>1. PICK e : e = <<>>
    OBVIOUS
  <2>2. query' = [query EXCEPT !.state = "none", !.sent = e]
    BY <1>3, <2>1 DEF ResetOffline
  <2> QED  BY <1>1, <2>2 DEF QueryType
<1>4. CASE fills # <<>> /\ ~ UNCHANGED vars /\ ~ ResetOffline
  <2>1. OuterStep /\ Running
    BY <1>4, OuterSteps DEF QueryOK, OuterOnly
  <2>2. query'.start = query.start
    BY <1>1, <2>1 DEF OuterStep, OuterStays, OuterReceives, OuterHandsOn, OuterReturns,
                      OuterFails, QueryType
  <2>3. offline' = offline \/ offline' = TRUE
    BY <1>4 DEF Next, Step, Log, Report, Finish, NothingBelow, RefusesRefetch, SkipUnknown,
                Fetch, Receive, NoGap, MarkGap, FillGap, HandOn, LogEnds, FillEnds, GoOffline,
                Fail, Done
  <2> QED  BY <2>1, <2>2, <2>3 DEF Running
<1>5. CASE fills = <<>> /\ ~ UNCHANGED vars /\ ~ ResetOffline
  <2>1. LoopStep
    BY <1>5, LoopSteps DEF QueryOK
  <2>2. CASE Report
    <3>1. PICK a, v, t, y : query' = [query EXCEPT !.sent = a, !.left = v, !.state = t, !.it = y]
      BY <2>2 DEF Report
    <3> QED  BY <1>1, <2>2, <3>1 DEF Report, Looping, Running, QueryType
  <2>3. CASE SkipUnknown
    BY <2>3 DEF SkipUnknown
  <2>4. CASE Fetch
    BY <2>4 DEF Fetch, MustFetch, Looping, Running
  <2>5. ASSUME NEW reason \in {"done", "refused"}, Looping, Done(reason)
        PROVE  ~ offline /\ query.state # "none" /\ query'.start = query.start
    BY <1>1, <2>5 DEF Done, Looping, Running, QueryType
  <2> QED  BY <1>5, <2>1, <2>2, <2>3, <2>4, <2>5 DEF LoopStep
<1> QED  BY <1>2, <1>3, <1>4, <1>5

\* Every step keeps it.
LEMMA FaithNext ==
  ASSUME QueryOK, FaithInv, [Next]_vars
  PROVE  FaithInv'
<1> SUFFICES ASSUME ~ offline', query'.state # "none", query'.start > 0
             PROVE  \E A, n : FaithOK(A, n)'
  BY DEF FaithInv
<1>1. CASE \E q \in Asked : Log(q)
  BY <1>1, FaithStarts
<1>2. CASE ~ \E q \in Asked : Log(q)
  <2>1. ~ offline /\ query.state # "none" /\ query'.start = query.start
    BY <1>2, SameQuery
  <2>2. PICK A, n : FaithOK(A, n)
    BY <2>1 DEF FaithInv
  <2>3. CASE fills # <<>>
    BY <2>2, <2>3, FaithOuter
  <2>4. CASE fills = <<>>
    <3>1. CASE Report
      BY <2>2, <3>1, FaithReports
    <3>2. CASE Fetch
      BY <2>2, <3>2, FaithFetches
    <3>3. CASE Finish
      BY <2>2, <3>3, FaithFinishes DEF Finish
    <3>4. CASE RefusesRefetch
      BY <2>2, <3>4, FaithFinishes DEF RefusesRefetch
    <3>5. ~ NothingBelow
      BY <2>2, NeverBelow
    <3>6. ~ SkipUnknown /\ ~ ResetOffline
      BY <2>1 DEF SkipUnknown, MustFetch, ResetOffline
    <3>7. CASE UNCHANGED vars
      BY <2>2, <3>7, FaithUnchanged
    <3>8. ~ (Receive \/ NoGap \/ MarkGap \/ FillGap \/ HandOn \/ LogEnds \/ FillEnds \/ GoOffline \/ Fail)
      BY <2>4 DEF Receive, NoGap, MarkGap, FillGap, HandOn, LogEnds, FillEnds, GoOffline, Fail, Filling
    <3> QED  BY <1>2, <3>1, <3>2, <3>3, <3>4, <3>5, <3>6, <3>7, <3>8 DEF Next, Step
  <2> QED  BY <2>3, <2>4
<1> QED  BY <1>1, <1>2

\* FaithInvariant: as long as the server answers, there is at every moment a log of the
\* path of which the query has reported the first entries, and iterator, lastReported,
\* limit and the filler at work stand exactly before the rest.
THEOREM FaithInvariant == Spec => []FaithInv
<1>1. Init => FaithInv
  BY DEF Init, FaithInv
<1>2. QueryOK /\ FaithInv /\ [Next]_vars => FaithInv'
  BY FaithNext
<1> QED  BY <1>1, <1>2, QueryInvariant, PTL DEF Spec

\* IsPrefix, entry by entry.
LEMMA PrefixOf ==
  ASSUME NEW s \in Seq(Rev), NEW t \in Seq(Rev), Len(s) <= Len(t),
         \A k \in 1 .. Len(s) : s[k] = t[k]
  PROVE  IsPrefix(s, t)
<1>1. PICK n : n = Len(s)
  OBVIOUS
<1>2. n \in Nat /\ Len(t) \in Nat /\ n <= Len(t)
  BY <1>1
<1>3. PICK a, b : a = SubSeq(s, 1, n) /\ b = SubSeq(t, 1, n)
  OBVIOUS
<1>4. /\ a \in Seq(Rev) /\ Len(a) = IF 1 <= n THEN n - 1 + 1 ELSE 0
      /\ \A i \in 1 .. n - 1 + 1 : a[i] = s[1 + i - 1]
  <2>1. \A k \in 1 .. n : s[k] \in Rev
    BY <1>1
  <2> QED  BY <1>2, <1>3, <2>1, SubSeqProperties
<1>5. /\ b \in Seq(Rev) /\ Len(b) = IF 1 <= n THEN n - 1 + 1 ELSE 0
      /\ \A i \in 1 .. n - 1 + 1 : b[i] = t[1 + i - 1]
  <2>1. \A k \in 1 .. n : t[k] \in Rev
    BY <1>2
  <2> QED  BY <1>2, <1>3, <2>1, SubSeqProperties
<1>6. Len(a) = Len(b)
  BY <1>4, <1>5
<1>7. ASSUME NEW i \in 1 .. Len(a)  PROVE a[i] = b[i]
  <2>1. i \in 1 .. n - 1 + 1 /\ 1 + i - 1 = i /\ i \in 1 .. n
    BY <1>2, <1>4
  <2> QED  BY <1>1, <1>4, <1>5, <2>1
<1>8. a = b
  BY <1>4, <1>5, <1>6, <1>7, SeqEqual
<1> QED  BY <1>1, <1>2, <1>3, <1>8 DEF IsPrefix

\* The log of the server for what was asked is a part of the whole log.
LEMMA FaithSuffices ==
  ASSUME QueryOK, FaithInv
  PROVE  Faithful
<1> SUFFICES ASSUME ~ offline, query.state # "none", query.start > 0
             PROVE  /\ IsPrefix(query.sent, ServerLog(query.path, query.start, 0, query.limit))
                    /\ query.state = "done" =>
                         IsPrefix(ServerLog(query.path, query.start, query.end, query.limit), query.sent)
  BY DEF Faithful
<1>1. PICK A, n : FaithOK(A, n)
  BY DEF FaithInv
<1>2. PICK p, hi, lo, lim, s : /\ p = query.path /\ hi = query.start /\ lo = query.end
                               /\ lim = query.limit /\ s = query.sent
  OBVIOUS
<1>3. /\ p \in Path /\ hi \in Rev /\ lo \in Rev /\ lim \in Nat /\ s \in Seq(Rev)
      /\ changes \in Histories /\ lo <= hi /\ 0 \in Rev /\ 0 <= hi /\ hi \in Int
  BY <1>1, <1>2, Positions DEF QueryOK, LogInv, QueryInv, QueryType, CacheInv, FaithOK
<1>4. Lists(A, p, hi, 0)
  BY <1>1, <1>2 DEF FaithOK
<1>5. A \in Seq(Rev) /\ Len(A) \in Nat /\ \A k \in 1 .. Len(A) : A[k] \in Nat /\ A[k] <= hi
  BY <1>3, <1>4, ListOf
<1>6. /\ n \in Nat /\ n <= Len(A) /\ n = Len(s) /\ (lim # 0 => n <= lim)
      /\ \A k \in 1 .. n : s[k] = A[k]
  BY <1>1, <1>2, <1>5 DEF FaithOK, FirstSent
<1>7. PICK z : z = 0
  OBVIOUS
<1>8. ASSUME NEW B, NEW y \in Rev, Lists(B, p, hi, y)
      PROVE  B \in Seq(Rev) /\ Len(B) <= Len(A) /\ \A j \in 1 .. Len(B) : B[j] = A[j]
  <2>1. z \in 0 .. Len(A) /\ Counts(A, z, hi)
    BY <1>3, <1>5, <1>7 DEF Counts
  <2>2. /\ B \in Seq(Rev) /\ z + Len(B) <= Len(A)
        /\ \A j \in 1 .. Len(B) : B[j] = A[z + j]
    BY <1>3, <1>4, <1>8, <2>1, LogPart
  <2>3. z + Len(B) = Len(B) /\ \A j \in 1 .. Len(B) : z + j = j
    BY <1>7, <2>2
  <2> QED  BY <2>2, <2>3
<1>9. IsPrefix(s, ServerLog(p, hi, 0, lim))
  <2>1. PICK w : w = ServerLog(p, hi, 0, lim)
    OBVIOUS
  <2>2. PICK all : /\ Lists(all, p, hi, 0)
                   /\ w \in Seq(Rev) /\ Len(w) <= Len(all)
                   /\ \A k \in 1 .. Len(w) : w[k] = all[k]
                   /\ IF lim = 0 THEN w = all
                      ELSE Len(w) <= lim /\ (Len(w) = lim \/ Len(w) = Len(all))
    BY <1>3, <2>1, ServerLogLists
  <2>3. all \in Seq(Rev) /\ Len(all) \in Nat /\ \A k \in 1 .. Len(all) : all[k] \in Nat /\ all[k] <= hi
    BY <1>3, <2>2, ListOf
  <2>4. Len(A) <= Len(all) /\ \A j \in 1 .. Len(A) : A[j] = all[j]
    <3>1. z \in 0 .. Len(all) /\ Counts(all, z, hi)
      BY <1>3, <1>7, <2>3 DEF Counts
    <3>2. /\ z + Len(A) <= Len(all)
          /\ \A j \in 1 .. Len(A) : A[j] = all[z + j]
      BY <1>3, <1>4, <2>2, <3>1, LogPart
    <3>3. z + Len(A) = Len(A) /\ \A j \in 1 .. Len(A) : z + j = j
      BY <1>5, <1>7
    <3> QED  BY <3>2, <3>3
  <2>5. n <= Len(w)
    <3>1. Len(w) \in Nat
      BY <2>2
    <3>2. CASE lim = 0
      BY <1>5, <1>6, <2>2, <2>3, <2>4, <3>2
    <3>3. CASE lim # 0
      BY <1>5, <1>6, <2>2, <2>3, <2>4, <3>1, <3>3
    <3> QED  BY <3>2, <3>3
  <2>6. \A k \in 1 .. Len(s) : s[k] = w[k]
    <3>1. \A k \in 1 .. n : k \in 1 .. Len(w) /\ k \in 1 .. Len(A)
      BY <1>5, <1>6, <2>2, <2>5
    <3> QED  BY <1>6, <2>2, <2>4, <3>1
  <2> QED  BY <1>3, <1>6, <2>1, <2>2, <2>5, <2>6, PrefixOf
<1>10. ASSUME query.state = "done"
       PROVE  IsPrefix(ServerLog(p, hi, lo, lim), s)
  <2>1. PICK w : w = ServerLog(p, hi, lo, lim)
    OBVIOUS
  <2>2. PICK all : /\ Lists(all, p, hi, lo)
                   /\ w \in Seq(Rev) /\ Len(w) <= Len(all)
                   /\ \A k \in 1 .. Len(w) : w[k] = all[k]
                   /\ IF lim = 0 THEN w = all
                      ELSE Len(w) <= lim /\ (Len(w) = lim \/ Len(w) = Len(all))
    BY <1>3, <2>1, ServerLogLists
  <2>3. all \in Seq(Rev) /\ Len(all) <= Len(A) /\ \A j \in 1 .. Len(all) : all[j] = A[j]
    BY <1>3, <1>8, <2>2
  <2>4. Len(w) \in Nat /\ Len(all) \in Nat
    BY <2>2, <2>3
  <2>5. Len(w) <= n
    <3>1. DoneOK(A, n, query)
      BY <1>1, <1>10 DEF FaithOK
    <3>2. CASE lim # 0 /\ n = lim
      BY <2>2, <3>2
    <3>3. CASE \A k \in 1 .. Len(A) : A[k] >= lo => k <= n
      <4>1. CASE Len(w) = 0
        BY <1>6, <4>1
      <4>2. CASE Len(w) # 0
        <5>1. PICK k : k = Len(w)
          OBVIOUS
        <5>2. k \in 1 .. Len(w) /\ k \in 1 .. Len(all) /\ k \in 1 .. Len(A)
          BY <1>5, <2>2, <2>3, <2>4, <4>2, <5>1
        <5>3. PICK v : v = all[k]
          OBVIOUS
        <5>4. v \in Rev /\ v = A[k]
          BY <2>3, <5>2, <5>3
        <5>5. lo <= v
          BY <2>2, <5>2, <5>3, <5>4 DEF Lists
        <5>6. A[k] >= lo
          BY <1>3, <5>4, <5>5, Positions
        <5> QED  BY <3>3, <5>1, <5>2, <5>6
      <4> QED  BY <4>1, <4>2
    <3> QED  BY <1>2, <3>1, <3>2, <3>3 DEF DoneOK
  <2>6. \A k \in 1 .. Len(w) : w[k] = s[k]
    <3>1. \A k \in 1 .. Len(w) : k \in 1 .. Len(all) /\ k \in 1 .. n
      BY <1>6, <2>2, <2>4, <2>5
    <3> QED  BY <1>6, <2>2, <2>3, <3>1
  <2> QED  BY <1>3, <1>6, <2>1, <2>2, <2>5, <2>6, PrefixOf
<1> QED  BY <1>2, <1>9, <1>10

\* LogIsFaithful: Faithful holds of the specification; whatever earlier queries have
\* left in the cache, a query that is not cut short by an error reports the log that
\* the server would have sent, entry by entry, and nothing else.
THEOREM LogIsFaithful == Spec => []Faithful
BY FaithSuffices, QueryInvariant, FaithInvariant, PTL

-----------------------------------------------------------------------------
(* Why a query may refuse to fetch: what it has passed, it has got *)

\* Of revision y the query q needs nothing more: the cache has it, or a skip range says
\* that it does not change the path.  The properties of those in late are yet to be
\* merged.
Got(c, late, q, y) ==
  /\ y \in c.have \/ Covers(c.ranges[q.path], y)
  /\ q.props /\ Touches(q.path, y) => y \in c.props \cup late

\* From low on, if that is not above the iterator, the path is there and known.
KnownFrom(c, q, low) == low <= q.it => q.path \in Known(c) /\ Birth(q.path) <= low

\* The loop of InternalLog has all that it needs down to lastReported, and its iterator
\* rests.
LoopGot(c, q) ==
  /\ KnownFrom(c, q, q.lastReported)
  /\ \A y \in Rev : q.lastReported <= y /\ y <= q.it => Got(c, {}, q, y)
  /\ Stops(c, q.path, q.it)

\* What a filler has reached: FillLog returns it.
Reached(f) == IF f.oldest < f.firstNA + 1 THEN f.oldest ELSE f.firstNA + 1

\* What it has dealt with: when a revision is about to be handed on, all above it, too.
Handled(f, y) == Reached(f) <= y \/ (f.phase = "after" /\ Pending(f) = 1 /\ f.rev < y)

\* The filler of a query gets for it all that it passes.
FillGot(c, q, f) ==
  /\ f.props = q.props
  /\ \A j \in 1 .. Len(f.todo) : f.todo[j] <= q.it /\ Touches(q.path, f.todo[j])
  /\ ~ f.following => f.todo = <<>> /\ Pending(f) = 0
  /\ f.final => f.update = {}
  /\ Pending(f) = 1 => /\ f.base = f.path /\ f.rev <= q.it /\ f.rev \in c.have
                       /\ Touches(q.path, f.rev) /\ Got(c, f.update, q, f.rev)
  /\ q.it <= f.firstNA \/ Touches(q.path, f.firstNA + 1)
  /\ Reached(f) <= q.it => f.base = f.path
  /\ KnownFrom(c, q, Reached(f))
  /\ \A y \in Rev : Handled(f, y) /\ y <= q.it => Got(c, f.update, q, y)

\* The invariant behind RefusedByOverlap.  A filler waits for another one only as long as
\* the cache does not know its path.
RefusalInv ==
  /\ Running /\ fills = <<>> => LoopGot(cache, query)
  /\ fills # <<>> => FillGot(cache, query, Outer)
  /\ Len(fills) > 1 => Outer.base # Outer.path
  /\ query.state = "refused" => ~ Apart(cache.ranges[query.path])

-----------------------------------------------------------------------------

\* The repository does not change.
LEMMA GotStays ==
  ASSUME changes' = changes
  PROVE  /\ \A c, q : LoopGot(c, q)' <=> LoopGot(c, q)
         /\ \A c, q, f : FillGot(c, q, f)' <=> FillGot(c, q, f)
<1>1. \A p, r : Touches(p, r)' <=> Touches(p, r)
  BY DEF Touches
<1>2. \A p : Birth(p)' = Birth(p)
  BY DEF Birth
<1>3. \A c : Known(c)' = Known(c)
  BY DEF Known
<1>4. \A c, p, y : Stops(c, p, y)' <=> Stops(c, p, y)
  BY DEF Stops, Missing, PathInRevision, FullyCached, Base, Known, Adds, Birth, Touches
<1>5. \A c, late, q, y : Got(c, late, q, y)' <=> Got(c, late, q, y)
  BY <1>1 DEF Got
<1>6. \A c, q, low : KnownFrom(c, q, low)' <=> KnownFrom(c, q, low)
  BY <1>2, <1>3 DEF KnownFrom
<1>7. \A c, q : LoopGot(c, q)' <=> LoopGot(c, q)
  BY <1>4, <1>5, <1>6 DEF LoopGot
<1>8. \A c, q, f : FillGot(c, q, f)' <=> FillGot(c, q, f)
  BY <1>1, <1>5, <1>6 DEF FillGot, Reached, Handled, Pending
<1> QED  BY <1>7, <1>8

\* Merging the data that a filler has kept takes nothing away that is needed.
LEMMA UpdateKeeps ==
  ASSUME NEW c, CacheOK(c), NEW revs, revs \subseteq c.have, NEW g \in BOOLEAN,
         NEW d, d = Update(c, revs, g)
  PROVE  /\ c.props \subseteq d.props /\ (g => revs \subseteq d.props)
         /\ \A p \in Path, y \in Int :
              Covers(c.ranges[p], y) => y \in d.have \/ Covers(d.ranges[p], y)
<1>1. CASE revs = {}
  BY <1>1 DEF Update
<1>2. CASE revs # {}
  <2>1. PICK rs : rs = [p \in Path |-> RemoveKnown(c.ranges[p], c.have)]
    OBVIOUS
  <2>2. d = [c EXCEPT !.props = IF g THEN @ \cup revs ELSE @, !.ranges = rs]
    BY <1>2, <2>1 DEF Update
  <2>3. d.ranges = rs /\ d.have = c.have /\ d.props = IF g THEN c.props \cup revs ELSE c.props
    BY <2>2 DEF CacheOK
  <2>4. ASSUME NEW p \in Path  PROVE Keeps(rs[p], c.ranges[p], c.have)
    <3>1. c.ranges[p] \in Ranges
      BY DEF CacheOK
    <3> QED  BY <2>1, <3>1, RemoveKnownSound
  <2> QED  BY <2>3, <2>4 DEF Keeps
<1> QED  BY <1>1, <1>2

\* Marking a gap does not, either, unless something behind it has been marked before.
LEMMA SkipRangeKeeps ==
  ASSUME NEW c, CacheOK(c), NEW p \in Path, NEW s \in Nat, NEW n \in Nat,
         NEW d, d = AddSkipRange(c, p, s, n), NEW y \in Int, y \notin c.have
  PROVE  /\ d.have = c.have /\ d.props = c.props
         /\ Within(y, s, n) => Covers(d.ranges[p], y)
         /\ Covers(c.ranges[p], y) /\ ~ Covers(d.ranges[p], y) =>
              s + n <= y /\ Covers(c.ranges[p], s + n)
<1>1. PICK m : m = Add(c.ranges[p], s, n, c.have)
  OBVIOUS
<1>2. c.ranges[p] \in Ranges
  BY DEF CacheOK
<1>3. d.ranges[p] = m /\ d.have = c.have /\ d.props = c.props
  BY <1>1 DEF AddSkipRange, CacheOK
<1>4. /\ Within(y, s, n) => Covers(m, y)
      /\ Covers(c.ranges[p], y) /\ ~ Covers(m, y) => s + n <= y /\ Covers(c.ranges[p], s + n)
  BY <1>1, <1>2, AddKeeps
<1> QED  BY <1>3, <1>4

\* A query that is about to fetch a second time what it has passed has found a revision
\* that is neither in the cache nor in a range that its iterator leaves behind: that one
\* is hidden by an overlap.
LEMMA RefusedHidden ==
  ASSUME changes \in Histories, CacheOK(cache), query \in QueryType, LoopGot(cache, query),
         RefusesRefetch
  PROVE  ~ Apart(cache.ranges[query.path])
<1> SUFFICES ASSUME Apart(cache.ranges[query.path])  PROVE FALSE
  OBVIOUS
<1>1. PICK p, it, low : p = query.path /\ it = query.it /\ low = query.lastReported
  OBVIOUS
<1>2. p \in Path /\ it \in Rev /\ it \in Nat /\ low \in Int /\ low <= it
  BY <1>1, Positions DEF RefusesRefetch, EndOfLog, QueryType
<1>3. p \in Known(cache) /\ Birth(p) <= low /\ Got(cache, {}, query, it) /\ Stops(cache, p, it)
  BY <1>1, <1>2 DEF LoopGot, KnownFrom
<1>4. CASE it \in cache.have
  <2>1. Born(p, it)
    BY <1>2, <1>3, BirthType, Positions DEF Born
  <2>2. Touches(p, it)
    BY <1>2, <1>3, <1>4, <2>1, StopsAtEntry
  <2>3. Available(cache, query.props, it)
    BY <1>1, <1>3, <1>4, <2>2 DEF Got, Available
  <2> QED  BY <1>1, <2>3 DEF RefusesRefetch, HasData
<1>5. CASE it \notin cache.have
  <2>1. PICK ranges : ranges = cache.ranges
    OBVIOUS
  <2>2. /\ ranges \in [Path -> Ranges] /\ ranges[p] \in Ranges /\ Apart(ranges[p])
        /\ Covers(ranges[p], it) /\ ~ Covers(ranges[p], 0)
    BY <1>1, <1>2, <1>3, <1>5, <2>1 DEF Got, CacheOK
  <2>3. 0 \notin DOMAIN ranges[p]
    BY <2>2, RangesType DEF Covers
  <2>4. it # 0 /\ it \in Position
    BY <1>2, <2>2, Positions
  <2>5. GetPreviousRevision(ranges, p, it) = NO_REVISION
    <3>1. Base(cache, p) = p
      BY <1>2, <1>3, KnownPath
    <3> QED  BY <1>2, <1>3, <1>5, <2>1, <2>4, <3>1 DEF Stops, Missing
  <2>6. PICK next : next = GetPreviousRevision(ranges, p, it)
    OBVIOUS
  <2>7. PICK Silence : Silence = Path \X Int
    OBVIOUS
  <2>8. next # NO_REVISION
    <3>1. \A q \in Path, y \in Int : Covers(ranges[q], y) => <<q, y>> \in Silence
      BY <2>7
    <3>2. \A q \in Path \ {Root}, y \in Int : <<Parent[q], y>> \in Silence => <<q, y>> \in Silence
      BY <2>7
    <3> QED  BY <1>2, <2>2, <2>3, <2>4, <2>6, <3>1, <3>2, GetPreviousSound
  <2> QED  BY <2>5, <2>6, <2>8
<1> QED  BY <1>4, <1>5

\* The last filler stays where it is when those in front of it change.
LEMMA LastStays ==
  ASSUME NEW S, NEW T, NEW pre \in Seq(S), NEW t \in Seq(T), Len(t) > 0, t[Len(t)] = Outer,
         fills' = pre \o t
  PROVE  fills' # <<>> /\ Outer' = Outer
<1>1. PICK s : s = pre \o t
  OBVIOUS
<1>2. Len(pre) \in Nat /\ Len(t) \in Nat
  OBVIOUS
<1>3. /\ Len(s) = Len(pre) + Len(t)
      /\ \A i \in 1 .. Len(pre) + Len(t) :
           s[i] = IF i <= Len(pre) THEN pre[i] ELSE t[i - Len(pre)]
  <2>1. pre \in Seq(S \cup T) /\ t \in Seq(S \cup T)
    OBVIOUS
  <2> QED  BY <1>1, <2>1, ConcatProperties
<1>4. s[Len(s)] = t[Len(t)]
  <2>1. PICK n, k : n = Len(pre) /\ k = Len(t)
    OBVIOUS
  <2>2. n + k \in 1 .. n + k /\ ~ (n + k <= n) /\ n + k - n = k
    BY <1>2, <2>1
  <2> QED  BY <1>3, <2>1, <2>2
<1>5. s # <<>>
  <2>1. Len(<<>>) = 0
    OBVIOUS
  <2> QED  BY <1>2, <1>3, <2>1
<1> QED  BY <1>1, <1>4, <1>5 DEF Outer

\* A filler that waits for another one does nothing but wait.
Waits ==
  \/ OuterFails
  \/ /\ fills' # <<>> /\ query' = query
     /\ \/ Outer' = Outer
        \/ Outer.phase = "nested" /\ Outer' = [Outer EXCEPT !.phase = "after"]

\* The innermost filler goes on, or hands over to another one.
LEMMA WaitsFor ==
  ASSUME FillsInv, Len(fills) > 1, query' = query, NEW S, NEW pre \in Seq(S),
         fills' = pre \o Tail(fills)
  PROVE  Waits
<1>1. fills \in Seq(FillType)
  BY DEF FillsInv
<1>2. PICK u, t : u = fills /\ t = Tail(u)
  OBVIOUS
<1>3. t \in Seq(FillType) /\ Len(t) = Len(u) - 1 /\ \A k \in 1 .. Len(t) : t[k] = u[k + 1]
  BY <1>1, <1>2
<1>4. Len(t) > 0 /\ t[Len(t)] = Outer
  <2>1. PICK n : n = Len(u)
    OBVIOUS
  <2>2. n \in Nat /\ n > 1 /\ Len(t) = n - 1
    BY <1>1, <1>2, <1>3, <2>1
  <2>3. n - 1 \in 1 .. Len(t) /\ n - 1 + 1 = n
    BY <2>2
  <2>4. t[n - 1] = u[n]
    BY <1>3, <2>3
  <2> QED  BY <1>2, <2>1, <2>2, <2>4 DEF Outer
<1>5. fills' # <<>> /\ Outer' = Outer
  BY <1>2, <1>3, <1>4, LastStays
<1> QED  BY <1>5 DEF Waits

\* The innermost filler returns to the one that waits for it.
LEMMA WaitsNot ==
  ASSUME FillsInv, Len(fills) > 1, NEW c, Return(c)
  PROVE  Waits
<1>1. fills \in Seq(FillType) /\ Len(fills) \in Nat
  BY DEF FillsInv
<1>2. PICK g : g = [fills[2] EXCEPT !.phase = "after"]
  OBVIOUS
<1>3. PICK t : t = SubSeq(fills, 3, Len(fills))
  OBVIOUS
<1>4. fills' = <<g>> \o t /\ query' = query
  BY <1>2, <1>3 DEF Return
<1>5. PICK u : u = fills
  OBVIOUS
<1>6. /\ t \in Seq(FillType) /\ Len(t) = Len(u) - 2
      /\ \A k \in 1 .. Len(t) : t[k] = u[k + 2]
  <2>1. u \in Seq(FillType) /\ Len(u) > 1 /\ t = SubSeq(u, 3, Len(u))
    BY <1>1, <1>3, <1>5
  <2> QED  BY <2>1, LaterFills
<1>7. PICK n : n = Len(u) /\ n \in Nat /\ n > 1
  BY <1>1, <1>5
<1>8. PICK pre : pre = <<g>>
  OBVIOUS
<1>9. pre \in Seq({g})
  BY <1>8
<1>10. CASE n = 2
  <2>1. t = <<>>
    BY <1>6, <1>7, <1>10
  <2>2. fills' = <<g>>
    BY <1>4, <1>8, <1>9, <2>1
  <2>3. fills' # <<>> /\ Outer' = g
    <3>1. Len(<<g>>) = 1 /\ <<g>>[1] = g /\ <<g>> # <<>>
      OBVIOUS
    <3> QED  BY <2>2, <3>1 DEF Outer
  <2>4. Outer = fills[2] /\ fills[2].phase = "nested"
    <3>1. 2 \in 1 .. Len(fills)
      BY <1>5, <1>7
    <3> QED  BY <1>5, <1>7, <1>10, <3>1 DEF Outer, FillsInv
  <2> QED  BY <1>2, <1>4, <2>3, <2>4 DEF Waits
<1>11. CASE n > 2
  <2>1. Len(t) > 0 /\ t[Len(t)] = Outer
    <3>1. n - 2 \in 1 .. Len(t) /\ n - 2 + 2 = n /\ Len(t) = n - 2
      BY <1>6, <1>7, <1>11
    <3>2. t[n - 2] = u[n]
      BY <1>6, <3>1
    <3> QED  BY <1>5, <1>7, <1>11, <3>1, <3>2 DEF Outer
  <2>2. fills' # <<>> /\ Outer' = Outer
    BY <1>4, <1>6, <1>8, <1>9, <2>1, LastStays
  <2> QED  BY <1>4, <2>2 DEF Waits
<1> QED  BY <1>7, <1>10, <1>11

\* Whatever step is made while a filler waits, it waits, or is given up.
LEMMA WaitSteps ==
  ASSUME LogInv, OuterOnly, fills # <<>>, Len(fills) > 1, [Next]_vars
  PROVE  Waits
<1>1. Running /\ FillsInv
  BY DEF OuterOnly, LogInv
<1>2. ASSUME NEW q \in Asked, Log(q)  PROVE Waits
  BY <1>1, <1>2 DEF Log
<1>3. CASE Report \/ Finish \/ NothingBelow \/ RefusesRefetch \/ SkipUnknown \/ Fetch
  BY <1>3 DEF Report, Finish, NothingBelow, RefusesRefetch, SkipUnknown, Fetch, MustFetch,
              Looping
<1>4. ASSUME query' = query, NEW g, fills' = <<g>> \o Tail(fills)
      PROVE  Waits
  <2>1. PICK pre : pre = <<g>>
    OBVIOUS
  <2>2. pre \in Seq({g})
    BY <2>1
  <2> QED  BY <1>1, <1>4, <2>1, <2>2, WaitsFor
<1>5. CASE Receive
  BY <1>4, <1>5 DEF Receive, Now
<1>6. CASE NoGap \/ MarkGap
  BY <1>4, <1>6 DEF NoGap, MarkGap, Now
<1>7. CASE FillGap
  <2>1. query' = query
    BY <1>7 DEF FillGap
  <2>2. CASE RangeGap(cache', fill.base, fill.rev + 1, GapLength) = NO_REVISION
    BY <1>4, <1>7, <2>2 DEF FillGap, Now
  <2>3. CASE RangeGap(cache', fill.base, fill.rev + 1, GapLength) # NO_REVISION
    <3>1. PICK f, g : fills' = <<f, g>> \o Tail(fills)
      BY <1>7, <2>3 DEF FillGap
    <3>2. PICK pre : pre = <<f, g>>
      OBVIOUS
    <3>3. pre \in Seq({f, g})
      BY <3>2
    <3> QED  BY <1>1, <2>1, <3>1, <3>2, <3>3, WaitsFor
  <2> QED  BY <2>2, <2>3
<1>8. CASE HandOn
  <2>1. ~ fill.sends
    <3>1. 1 \in 1 .. Len(fills) - 1
      <4>1. Len(fills) \in Nat
        BY <1>1 DEF FillsInv
      <4> QED  BY <4>1
    <3> QED  BY <3>1 DEF OuterOnly, fill
  <2> QED  BY <1>4, <1>8, <2>1 DEF HandOn, Now
<1>9. CASE LogEnds
  <2>1. CASE ~ offline /\ (fill.count = 0 \/ ~ (fill.limit > 0 /\ fill.count >= fill.limit))
    BY <1>4, <1>9, <2>1 DEF LogEnds, Now
  <2>2. CASE ~ (~ offline /\ (fill.count = 0 \/ ~ (fill.limit > 0 /\ fill.count >= fill.limit)))
    <3>1. PICK c : c = cache' /\ Return(c)
      BY <1>9, <2>2 DEF LogEnds
    <3> QED  BY <1>1, <3>1, WaitsNot
  <2> QED  BY <2>1, <2>2
<1>10. CASE FillEnds
  <2>1. PICK c : c = cache /\ Return(c)
    BY <1>10 DEF FillEnds
  <2> QED  BY <1>1, <2>1, WaitsNot
<1>11. CASE GoOffline
  <2>1. PICK c : c = cache' /\ Return(c)
    BY <1>11 DEF GoOffline
  <2> QED  BY <1>1, <2>1, WaitsNot
<1>12. CASE Fail
  BY <1>12 DEF Fail, Waits, OuterFails
<1>13. CASE ResetOffline
  BY <1>1, <1>13 DEF ResetOffline
<1>14. CASE UNCHANGED vars
  <2>1. query' = query /\ fills' = fills
    BY <1>14 DEF vars
  <2> QED  BY <2>1 DEF Waits, Outer
<1> QED
  BY <1>2, <1>3, <1>5, <1>6, <1>7, <1>8, <1>9, <1>10, <1>11, <1>12, <1>13, <1>14
     DEF Next, Step

\* ... and gets nothing for the query meanwhile, which it has not yet reached.
LEMMA RefusalWaits ==
  ASSUME QueryOK, RefusalInv, fills # <<>>, Len(fills) > 1, [Next]_vars
  PROVE  RefusalInv'
<1>1. Waits /\ changes' = changes
  BY WaitSteps, OuterSteps DEF QueryOK, OuterStep
<1>2. /\ Running /\ query \in QueryType /\ Outer \in FillType
      /\ FillGot(cache, query, Outer) /\ Outer.base # Outer.path
  BY LastFill DEF QueryOK, OuterOnly, LogInv, QueryInv, RefusalInv
<1>3. CASE OuterFails
  <2>1. fills' = <<>> /\ query'.state = "failed"
    BY <1>2, <1>3 DEF OuterFails, QueryType
  <2>2. ~ (Len(fills') > 1)
    <3>1. Len(<<>>) = 0
      OBVIOUS
    <3> QED  BY <2>1, <3>1
  <2> QED  BY <2>1, <2>2 DEF RefusalInv, Running
<1>4. ASSUME fills' # <<>>, query' = query,
             \/ Outer' = Outer
             \/ Outer.phase = "nested" /\ Outer' = [Outer EXCEPT !.phase = "after"]
      PROVE  RefusalInv'
  <2>1. PICK f, g, q, d : f = Outer /\ g = Outer' /\ q = query /\ d = cache'
    OBVIOUS
  <2>2. /\ g.path = f.path /\ g.base = f.base /\ g.props = f.props /\ g.todo = f.todo
        /\ g.following = f.following /\ g.final = f.final /\ g.update = f.update
        /\ g.firstNA = f.firstNA /\ g.oldest = f.oldest /\ Pending(g) = Pending(f)
    BY <1>2, <1>4, <2>1 DEF FillType, Pending
  <2>3. FillGot(cache, q, f) /\ f.base # f.path
    BY <1>2, <2>1
  <2>4. q.it \in Int /\ Reached(f) \in Int /\ Pending(f) = 0 /\ ~ (Reached(f) <= q.it)
    <3>1. q.it \in Int /\ f.firstNA \in Int /\ f.oldest \in Int
      BY <1>2, <2>1, Positions DEF QueryType, FillType
    <3> QED  BY <2>3, <3>1 DEF FillGot, Reached, Pending
  <2>5. Reached(g) = Reached(f)
    BY <2>2 DEF Reached
  <2>6. ASSUME NEW y \in Rev, Handled(g, y), y <= q.it  PROVE FALSE
    BY <2>2, <2>4, <2>5, <2>6, Positions DEF Handled
  <2>7. KnownFrom(d, q, Reached(g))
    BY <2>4, <2>5 DEF KnownFrom
  <2>8. FillGot(d, q, g)
    BY <2>2, <2>3, <2>4, <2>5, <2>6, <2>7 DEF FillGot
  <2>9. FillGot(d, q, g)'
    BY <1>1, <2>8, GotStays
  <2>10. Running' /\ query'.state = "running"
    BY <1>2, <1>4 DEF Running
  <2> QED  BY <1>4, <2>1, <2>2, <2>3, <2>9, <2>10 DEF RefusalInv
<1> QED  BY <1>1, <1>3, <1>4 DEF Waits

\* A filler that no other one is in front of changes, and the query goes on.
LEMMA RefusalNow ==
  ASSUME LogInv, OuterOnly, fills # <<>>, ~ (Len(fills) > 1), changes' = changes,
         NEW g, fills' = <<g>> \o Tail(fills),
         NEW c, c = cache', NEW q, q = query', q.state = query.state, FillGot(c, q, g)
  PROVE  RefusalInv'
<1>1. fills \in Seq(FillType) /\ Len(fills) = 1
  <2>1. PICK n : n = Len(fills)
    OBVIOUS
  <2>2. n \in Nat /\ n > 0 /\ ~ (n > 1)
    BY <2>1, LastFill DEF LogInv
  <2> QED  BY <2>1, <2>2, LastFill DEF LogInv
<1>2. Tail(fills) = <<>>
  <2>1. PICK u, t : u = fills /\ t = Tail(fills)
    OBVIOUS
  <2>2. t \in Seq(FillType) /\ Len(t) = 0
    BY <1>1, <2>1
  <2> QED  BY <2>1, <2>2
<1>3. PICK one : one = <<g>> /\ one \o <<>> = one
  OBVIOUS
<1>4. one # <<>> /\ Len(one) = 1 /\ one[1] = g
  BY <1>3
<1>5. fills' = one
  BY <1>2, <1>3
<1>6. Outer' = g /\ ~ (Len(fills') > 1)
  BY <1>4, <1>5 DEF Outer
<1>7. query'.state = "running"
  BY DEF OuterOnly, Running
<1>8. FillGot(c, q, g)'
  BY GotStays
<1> QED  BY <1>4, <1>5, <1>6, <1>7, <1>8 DEF RefusalInv

\* From c to d nothing is lost that query q has got.
Grows(c, late, d, later, q) ==
  /\ c.have \subseteq d.have
  /\ \A y \in Int : Covers(c.ranges[q.path], y) => y \in d.have \/ Covers(d.ranges[q.path], y)
  /\ q.props => c.props \cup late \subseteq d.props \cup later

\* A query still has what it had.
LEMMA GrowsGot ==
  ASSUME NEW c, NEW late, NEW d, NEW later, NEW q, Grows(c, late, d, later, q)
  PROVE  /\ \A y \in Int : Got(c, late, q, y) => Got(d, later, q, y)
         /\ \A low : KnownFrom(c, q, low) => KnownFrom(d, q, low)
<1>1. Known(c) \subseteq Known(d)
  BY DEF Grows, Known
<1> QED  BY <1>1 DEF Grows, Got, KnownFrom

\* One change of the cache after another.
LEMMA GrowsOn ==
  ASSUME NEW c, NEW late, NEW d, NEW later, NEW e, NEW last, NEW q,
         Grows(c, late, d, later, q), Grows(d, later, e, last, q)
  PROVE  Grows(c, late, e, last, q)
BY DEF Grows

\* A filler merges what it has kept.
LEMMA MergeGrows ==
  ASSUME NEW c, CacheOK(c), NEW late, late \subseteq c.have, NEW q \in QueryType,
         NEW d, d = Update(c, late, q.props)
  PROVE  Grows(c, late, d, {}, q) /\ CacheOK(d)
<1>1. q.props \in BOOLEAN /\ q.path \in Path
  BY DEF QueryType
<1>0. PICK g \in BOOLEAN : g = q.props
  BY <1>1
<1>2. CacheOK(d) /\ d.have = c.have
  BY <1>0, UpdateOK
<1>3. /\ c.props \subseteq d.props /\ (q.props => late \subseteq d.props)
      /\ \A p \in Path, y \in Int :
           Covers(c.ranges[p], y) => y \in d.have \/ Covers(d.ranges[p], y)
  <2>1. d = Update(c, late, g)
    BY <1>0
  <2>2. c.props \subseteq d.props /\ (g => late \subseteq d.props)
    BY <2>1, UpdateKeeps
  <2>3. ASSUME NEW p \in Path, NEW y \in Int, Covers(c.ranges[p], y)
        PROVE  y \in d.have \/ Covers(d.ranges[p], y)
    BY <2>1, <2>3, UpdateKeeps
  <2> QED  BY <1>0, <2>2, <2>3
<1> QED  BY <1>1, <1>2, <1>3 DEF Grows

\* What matters here of a filler that goes on from phase "log", where nothing is pending,
\* to "gap".
LEMMA ReceivedGot ==
  ASSUME NEW c, NEW q \in QueryType, NEW f \in FillType, FillGot(c, q, f), Pending(f) = 0,
         f.todo # <<>>,
         NEW g, g.props = f.props, g.todo = Tail(f.todo), g.base = g.path,
         g.following, g.final = FALSE, g.phase = "gap", g.rev = Head(f.todo),
         g.firstNA = f.firstNA, g.oldest = f.oldest,
         NEW d, Grows(c, f.update, d, g.update, q), g.rev \in d.have,
         Got(d, g.update, q, g.rev)
  PROVE  FillGot(d, q, g)
<1>1. q.it \in Int /\ f.todo \in Seq(Rev) /\ f.firstNA \in Int /\ f.oldest \in Int
  BY Positions DEF QueryType, FillType
<1>2. PICK t, s : t = Tail(f.todo) /\ s = f.todo
  OBVIOUS
<1>3. /\ t \in Seq(Rev) /\ Len(t) = Len(s) - 1 /\ Len(s) \in Nat /\ Len(s) > 0
      /\ Head(s) = s[1] /\ s[1] \in Rev
      /\ \A j \in 1 .. Len(t) : t[j] = s[j + 1] /\ j + 1 \in 1 .. Len(s)
  <2>1. s \in Seq(Rev) /\ s # <<>> /\ t = Tail(s)
    BY <1>1, <1>2
  <2> QED  BY <2>1, TailOf
<1>4. \A j \in 1 .. Len(s) : s[j] <= q.it /\ Touches(q.path, s[j])
  BY <1>2 DEF FillGot
<1>5. \A j \in 1 .. Len(t) : t[j] <= q.it /\ Touches(q.path, t[j])
  BY <1>3, <1>4
<1>6. g.todo = t /\ g.rev = s[1] /\ 1 \in 1 .. Len(s)
  BY <1>2, <1>3
<1>7. g.rev <= q.it /\ Touches(q.path, g.rev)
  BY <1>4, <1>6
<1>8. Reached(g) = Reached(f) /\ g.base = g.path
  BY DEF Reached
<1>9. \A y \in Rev : Handled(g, y) => Handled(f, y)
  BY <1>8 DEF Handled
<1>10. \A y \in Rev : Handled(g, y) /\ y <= q.it => Got(d, g.update, q, y)
  BY <1>9, GrowsGot, Positions DEF FillGot
<1>11. KnownFrom(d, q, Reached(g))
  BY <1>8, GrowsGot DEF FillGot
<1>12. g.props = q.props /\ (q.it <= g.firstNA \/ Touches(q.path, g.firstNA + 1))
  BY DEF FillGot
<1> QED  BY <1>5, <1>6, <1>7, <1>8, <1>10, <1>11, <1>12 DEF FillGot

\* Receive: the cache gets the revision, now or when its data are merged.
LEMMA RefusalReceives ==
  ASSUME QueryOK, RefusalInv, ~ (Len(fills) > 1), Receive
  PROVE  RefusalInv'
<1>0. fills # <<>> /\ fill.phase = "log" /\ fill.todo # <<>> /\ changes' = changes /\ query' = query
  BY DEF Receive, Filling
<1>1. PICK f, q, c : f = fill /\ q = query /\ c = cache
  OBVIOUS
<1>2. /\ f \in FillType /\ FillOK(f) /\ q \in QueryType /\ Outer = f
      /\ f.update \subseteq c.have /\ CacheOK(c) /\ changes \in Histories
      /\ LogInv /\ OuterOnly /\ FillGot(c, q, f) /\ f.path = q.path
  <2>1. PICK n : n = Len(fills)
    OBVIOUS
  <2>2. n \in Nat /\ n > 0 /\ ~ (n > 1)
    BY <1>0, <2>1, LastFill DEF QueryOK, LogInv
  <2>3. Outer = f
    BY <1>0, <1>1, <2>1, <2>2, LastFill DEF QueryOK, LogInv
  <2> QED
    BY <1>0, <1>1, <2>3, InnermostOK DEF QueryOK, LogInv, QueryInv, CacheInv, RefusalInv, OuterOnly
<1>3. PICK r, t : r = Head(f.todo) /\ t = Tail(f.todo)
  OBVIOUS
<1>4. f.todo \in Seq(Rev) /\ f.todo # <<>> /\ r \in Rev /\ Touches(q.path, r) /\ f.following
  <2>1. f.todo \in Seq(Rev) /\ f.todo # <<>> /\ f.following \in BOOLEAN
    BY <1>0, <1>1, <1>2 DEF FillType
  <2>2. r = f.todo[1] /\ r \in Rev /\ 1 \in 1 .. Len(f.todo)
    BY <1>3, <2>1, TailOf
  <2> QED  BY <1>2, <2>1, <2>2 DEF FillGot
<1>5. q.path \in Path /\ q.props \in BOOLEAN /\ f.props = q.props /\ f.final = FALSE /\ Pending(f) = 0
  <2>1. f.final \in BOOLEAN /\ f.phase = "log"
    BY <1>0, <1>1, <1>2 DEF FillType
  <2> QED  BY <1>2, <2>1 DEF FillGot, QueryType, FillOK, Pending
<1>6. PICK known : known = [c EXCEPT !.have = @ \cup {r},
                              !.props = IF r \notin c.have /\ f.props THEN @ \cup {r} ELSE @]
  OBVIOUS
<1>7. /\ CacheOK(known) /\ known.have = c.have \cup {r} /\ known.ranges = c.ranges
      /\ known.props = IF r \notin c.have /\ f.props THEN c.props \cup {r} ELSE c.props
  <2>1. PICK new \in BOOLEAN : new <=> r \notin c.have /\ f.props
    OBVIOUS
  <2>2. known = Written(c, r, new)
    BY <1>6, <2>1 DEF Written
  <2>3. CacheOK(known) /\ known.have = c.have \cup {r}
    BY <1>2, <1>4, <2>1, <2>2, WrittenOK
  <2> QED  BY <1>2, <1>6, <2>3 DEF CacheOK
<1>8. PICK late : late = IF r \notin c.have THEN f.update ELSE f.update \cup {r}
  OBVIOUS
<1>9. Grows(c, f.update, known, late, q) /\ Got(known, late, q, r) /\ late \subseteq known.have
  BY <1>2, <1>5, <1>7, <1>8 DEF Grows, Got
<1>10. q.path \in Known(known)
  <2>1. r \in known.have \cap Rev /\ (r > 0 \/ q.path = Root)
    BY <1>4, <1>7 DEF Touches
  <2> QED  BY <1>2, <1>4, <1>5, <2>1, KnownPath
<1>11. PICK h : h = [f EXCEPT !.todo = t, !.count = @ + 1, !.rev = r,
                              !.phase = "gap", !.update = late]
  OBVIOUS
<1>12. /\ h.path = f.path /\ h.base = f.base /\ h.props = f.props /\ h.todo = t
       /\ h.following /\ h.final = FALSE /\ h.phase = "gap" /\ h.rev = r
       /\ h.firstNA = f.firstNA /\ h.oldest = f.oldest /\ h.update = late
  BY <1>2, <1>4, <1>5, <1>11 DEF FillType
<1>13. CASE f.base = f.path
  <2>1. fills' = <<h>> \o Tail(fills) /\ cache' = known
    BY <1>1, <1>3, <1>6, <1>8, <1>11, <1>13 DEF Receive, Now
  <2>2. FillGot(known, q, h)
    BY <1>2, <1>3, <1>4, <1>5, <1>7, <1>9, <1>12, <1>13, ReceivedGot
  <2> QED  BY <1>0, <1>1, <1>2, <2>1, <2>2, RefusalNow
<1>14. CASE f.base # f.path
  <2>1. PICK g : g = [h EXCEPT !.update = {}, !.base = Base(known, h.path)]
    OBVIOUS
  <2>2. /\ g.path = f.path /\ g.base = Base(known, q.path) /\ g.props = f.props /\ g.todo = t
        /\ g.following /\ g.final = FALSE /\ g.phase = "gap" /\ g.rev = r
        /\ g.firstNA = f.firstNA /\ g.oldest = f.oldest /\ g.update = {}
    <3>1. DOMAIN h = DOMAIN f /\ "update" \in DOMAIN f /\ "base" \in DOMAIN f
      BY <1>2, <1>11 DEF FillType
    <3> QED  BY <1>2, <1>12, <2>1, <3>1
  <2>3. PICK d : d = Update(known, late, q.props)
    OBVIOUS
  <2>4. fills' = <<g>> \o Tail(fills) /\ cache' = d
    <3>1. Merged(known, h) = d
      BY <1>5, <1>12, <2>3 DEF Merged
    <3> QED  BY <1>1, <1>3, <1>4, <1>6, <1>8, <1>11, <1>14, <2>1, <3>1 DEF Receive, Now
  <2>5. Grows(known, late, d, {}, q)
    BY <1>2, <1>7, <1>9, <2>3, MergeGrows
  <2>6. Grows(c, f.update, d, {}, q) /\ Got(d, {}, q, r) /\ r \in d.have
    <3>1. r \in Int /\ r \in known.have
      BY <1>4, <1>7, Positions
    <3> QED  BY <1>9, <2>5, <3>1, GrowsOn, GrowsGot DEF Grows
  <2>7. g.base = g.path
    BY <1>2, <1>5, <1>10, <2>2, KnownPath
  <2>8. FillGot(d, q, g)
    BY <1>2, <1>3, <1>4, <1>5, <2>2, <2>6, <2>7, ReceivedGot
  <2> QED  BY <1>0, <1>1, <1>2, <2>4, <2>8, RefusalNow
<1> QED  BY <1>13, <1>14

\* What is known of a filler that works for the query alone.
LEMMA FillAlone ==
  ASSUME QueryOK, RefusalInv, fills # <<>>, ~ (Len(fills) > 1)
  PROVE  /\ fill \in FillType /\ FillOK(fill) /\ query \in QueryType /\ Outer = fill
         /\ fill.update \subseteq cache.have /\ CacheOK(cache) /\ changes \in Histories
         /\ LogInv /\ OuterOnly /\ FillGot(cache, query, fill) /\ fill.path = query.path
         /\ FillBelow(query.sent, query.it, fill) /\ Running /\ fill.sends
         /\ Len(fills) = 1 /\ fill.props = query.props
<1>1. PICK n : n = Len(fills)
  OBVIOUS
<1>2. n \in Nat /\ n > 0 /\ ~ (n > 1)
  BY <1>1, LastFill DEF QueryOK, LogInv
<1>3. Len(fills) = 1 /\ Outer = fill
  BY <1>1, <1>2, LastFill DEF QueryOK, LogInv
<1>4. FillGot(cache, query, fill) /\ FillBelow(query.sent, query.it, fill)
  BY <1>3 DEF RefusalInv, QueryOK, DownwardInv
<1>5. fill.props = query.props
  BY <1>4 DEF FillGot
<1> QED
  BY <1>3, <1>4, <1>5, InnermostOK DEF QueryOK, LogInv, QueryInv, CacheInv, OuterOnly

\* A filler that is only in another phase gets what it got before.
LEMMA SameGot ==
  ASSUME NEW c, NEW q \in QueryType, NEW f \in FillType, FillGot(c, q, f),
         NEW g, g.props = f.props, g.todo = f.todo, g.following = f.following,
         g.base = f.base, g.path = f.path, g.firstNA = f.firstNA, g.oldest = f.oldest,
         Pending(g) = Pending(f), Pending(f) = 1 => g.rev = f.rev, g.final => g.update = {},
         NEW d, Grows(c, f.update, d, g.update, q),
         \A y \in Rev : y <= q.it /\ Handled(g, y) => Handled(f, y)
  PROVE  FillGot(d, q, g)
<1>1. Reached(g) = Reached(f)
  BY DEF Reached
<1>2. \A y \in Int : Got(c, f.update, q, y) => Got(d, g.update, q, y)
  BY GrowsGot
<1>3. KnownFrom(d, q, Reached(g))
  BY <1>1, GrowsGot DEF FillGot
<1>4. Pending(g) = 1 => /\ g.base = g.path /\ g.rev <= q.it /\ g.rev \in d.have
                        /\ Touches(q.path, g.rev) /\ Got(d, g.update, q, g.rev)
  <2>1. f.rev \in Int
    BY Positions DEF FillType
  <2> QED  BY <1>2, <2>1 DEF FillGot, Grows
<1>5. \A y \in Rev : Handled(g, y) /\ y <= q.it => Got(d, g.update, q, y)
  BY <1>2, Positions DEF FillGot
<1> QED  BY <1>1, <1>3, <1>4, <1>5 DEF FillGot

\* Nothing is to be marked.
LEMMA RefusalNoGap ==
  ASSUME QueryOK, RefusalInv, ~ (Len(fills) > 1), NoGap
  PROVE  RefusalInv'
<1>0. /\ fills # <<>> /\ fill.phase = "gap" /\ changes' = changes /\ query' = query
      /\ cache' = cache /\ ~ (fill.following /\ fill.firstNA > fill.rev)
  BY DEF NoGap, Filling, GapToMark
<1>1. PICK f, q, c : f = fill /\ q = query /\ c = cache
  OBVIOUS
<1>2. /\ f \in FillType /\ FillOK(f) /\ q \in QueryType /\ LogInv /\ OuterOnly
      /\ FillGot(c, q, f)
  BY <1>0, <1>1, FillAlone
<1>3. PICK g : g = [f EXCEPT !.phase = "after"]
  OBVIOUS
<1>4. fills' = <<g>> \o Tail(fills)
  BY <1>1, <1>3 DEF NoGap, Now
<1>5. /\ g.path = f.path /\ g.base = f.base /\ g.props = f.props /\ g.todo = f.todo
      /\ g.following = f.following /\ g.final = f.final /\ g.update = f.update
      /\ g.firstNA = f.firstNA /\ g.oldest = f.oldest /\ g.rev = f.rev /\ g.phase = "after"
  BY <1>2, <1>3 DEF FillType
<1>6. Pending(g) = Pending(f)
  BY <1>0, <1>1, <1>5 DEF Pending
<1>7. g.final => g.update = {}
  BY <1>2, <1>5 DEF FillGot
<1>8. Grows(c, f.update, c, g.update, q)
  BY <1>5 DEF Grows
<1>9. ASSUME NEW y \in Rev, Handled(g, y)  PROVE Handled(f, y)
  <2>1. Reached(g) = Reached(f)
    BY <1>5 DEF Reached
  <2>2. CASE Reached(g) <= y
    BY <2>1, <2>2 DEF Handled
  <2>3. CASE Pending(g) = 1 /\ g.rev < y
    <3>1. f.following
      BY <1>2, <1>6, <2>3 DEF FillGot
    <3>2. f.firstNA \in Int /\ f.rev \in Int /\ f.oldest \in Int /\ y \in Int
      BY <1>2, Positions DEF FillType
    <3>3. f.firstNA <= f.rev
      BY <1>0, <1>1, <3>1, <3>2
    <3>4. Reached(f) <= y
      BY <1>5, <2>3, <3>2, <3>3 DEF Reached
    <3> QED  BY <3>4 DEF Handled
  <2> QED  BY <1>9, <2>2, <2>3 DEF Handled
<1>10. FillGot(c, q, g)
  BY <1>2, <1>5, <1>6, <1>7, <1>8, <1>9, SameGot
<1> QED  BY <1>0, <1>1, <1>2, <1>4, <1>10, RefusalNow

\* A gap is marked: what lies in it is covered, and nothing above it is lost.
LEMMA RefusalMarks ==
  ASSUME QueryOK, RefusalInv, ~ (Len(fills) > 1), MarkGap
  PROVE  RefusalInv'
<1>0. /\ fills # <<>> /\ fill.phase = "gap" /\ changes' = changes /\ query' = query
      /\ fill.following /\ fill.firstNA > fill.rev /\ fill.base = fill.path
  BY DEF MarkGap, Filling, GapToMark
<1>1. PICK f, q, c, d : f = fill /\ q = query /\ c = cache /\ d = cache'
  OBVIOUS
<1>2. /\ f \in FillType /\ FillOK(f) /\ q \in QueryType /\ LogInv /\ OuterOnly
      /\ FillGot(c, q, f) /\ CacheOK(c) /\ f.path = q.path
  BY <1>0, <1>1, FillAlone
<1>3. PICK g : g = [f EXCEPT !.phase = "after"]
  OBVIOUS
<1>4. fills' = <<g>> \o Tail(fills)
  BY <1>1, <1>3 DEF MarkGap, Now
<1>5. /\ g.path = f.path /\ g.base = f.base /\ g.props = f.props /\ g.todo = f.todo
      /\ g.following = f.following /\ g.final = f.final /\ g.update = f.update
      /\ g.firstNA = f.firstNA /\ g.oldest = f.oldest /\ g.rev = f.rev /\ g.phase = "after"
  BY <1>2, <1>3 DEF FillType
<1>6. Pending(g) = Pending(f) /\ Reached(g) = Reached(f)
  BY <1>0, <1>1, <1>5 DEF Pending, Reached
<1>7. PICK p, s, n, hi : p = q.path /\ s = f.rev + 1 /\ n = f.firstNA - f.rev /\ hi = f.firstNA
  OBVIOUS
<1>8. /\ p \in Path /\ s \in Nat /\ n \in Nat /\ f.rev \in Int /\ hi \in Int /\ s + n = hi + 1
      /\ f.oldest \in Int /\ q.it \in Int
  <2>1. q.path \in Path /\ f.rev \in Nat /\ f.firstNA \in Nat /\ f.oldest \in Int /\ q.it \in Int
    BY <1>2, Positions DEF FillType, QueryType
  <2>2. f.rev < f.firstNA
    BY <1>0, <1>1, <2>1
  <2> QED  BY <1>7, <2>1, <2>2
<1>9. d = AddSkipRange(c, p, s, n)
  BY <1>0, <1>1, <1>2, <1>7 DEF MarkGap, GapLength
<1>10. d.have = c.have /\ d.props = c.props
  <2>1. \E z \in Int : z \notin c.have
    <3>1. -1 \notin c.have
      BY <1>2, Positions DEF CacheOK
    <3> QED  BY <3>1
  <2>2. PICK z \in Int : z \notin c.have
    BY <2>1
  <2> QED  BY <1>2, <1>8, <1>9, <2>2, SkipRangeKeeps
<1>11. ASSUME NEW y \in Rev, y <= q.it, Covers(c.ranges[p], y)
       PROVE  y \in d.have \/ Covers(d.ranges[p], y)
  <2>1. SUFFICES ASSUME y \notin c.have, ~ Covers(d.ranges[p], y)  PROVE FALSE
    BY <1>10
  <2>2. y \in Int
    BY Positions
  <2>3. hi + 1 <= y /\ Covers(c.ranges[p], hi + 1)
    <3>1. s + n <= y /\ Covers(c.ranges[p], s + n)
      BY <1>2, <1>8, <1>9, <1>11, <2>1, <2>2, SkipRangeKeeps
    <3> QED  BY <1>8, <3>1
  <2>4. Touches(p, hi + 1)
    BY <1>2, <1>7, <1>8, <1>11, <2>2, <2>3 DEF FillGot
  <2>5. hi + 1 \in Rev
    <3>1. hi \in Nat /\ y <= MaxRev
      BY <1>2, <1>7, Positions DEF FillType
    <3>2. hi + 1 <= MaxRev
      BY <2>2, <2>3, <3>1, Positions
    <3> QED  BY <3>1, <3>2, Positions
  <2> QED  BY <1>2, <1>8, <2>3, <2>4, <2>5 DEF CacheOK
<1>12. \A y \in Rev : y <= q.it /\ Got(c, f.update, q, y) => Got(d, g.update, q, y)
  BY <1>5, <1>7, <1>10, <1>11 DEF Got
<1>13. ASSUME NEW y \in Rev, Handled(g, y), y <= q.it  PROVE Got(d, g.update, q, y)
  <2>1. CASE Handled(f, y)
    BY <1>2, <1>12, <1>13, <2>1 DEF FillGot
  <2>2. CASE ~ Handled(f, y)
    <3>1. Pending(f) = 1 /\ f.rev < y /\ ~ (Reached(f) <= y)
      BY <1>5, <1>6, <1>13, <2>2 DEF Handled
    <3>2. y \in Int /\ y <= hi
      BY <1>7, <1>8, <3>1, Positions DEF Reached
    <3>3. Within(y, s, n)
      BY <1>7, <1>8, <3>1, <3>2 DEF Within
    <3>4. y \in d.have \/ Covers(d.ranges[p], y)
      BY <1>2, <1>8, <1>9, <1>10, <3>2, <3>3, SkipRangeKeeps
    <3>5. ~ Touches(p, y)
      <4>1. Silent(p, f.rev, hi)
        BY <1>0, <1>1, <1>2, <1>7 DEF FillOK
      <4>2. 0 < y
        BY <1>8, <3>1, <3>2, <1>2, Positions DEF FillType
      <4> QED  BY <3>1, <3>2, <4>1, <4>2 DEF Silent
    <3> QED  BY <1>7, <3>4, <3>5 DEF Got
  <2> QED  BY <2>1, <2>2
<1>14. KnownFrom(d, q, Reached(g))
  <2>1. Known(d) = Known(c)
    BY <1>10 DEF Known
  <2>2. KnownFrom(c, q, Reached(f))
    BY <1>2 DEF FillGot
  <2> QED  BY <1>6, <2>1, <2>2 DEF KnownFrom
<1>15. Pending(g) = 1 => /\ g.base = g.path /\ g.rev <= q.it /\ g.rev \in d.have
                         /\ Touches(q.path, g.rev) /\ Got(d, g.update, q, g.rev)
  <2>1. f.rev \in Rev
    BY <1>2 DEF FillType
  <2>2. Pending(f) = 1 => /\ f.base = f.path /\ f.rev <= q.it /\ f.rev \in c.have
                          /\ Touches(q.path, f.rev) /\ Got(c, f.update, q, f.rev)
    BY <1>2 DEF FillGot
  <2> QED  BY <1>5, <1>6, <1>10, <1>12, <2>1, <2>2
<1>16. FillGot(d, q, g)
  BY <1>2, <1>5, <1>6, <1>13, <1>14, <1>15 DEF FillGot
<1> QED  BY <1>0, <1>1, <1>2, <1>4, <1>16, RefusalNow

\* The filler of a query that has to look for the gap itself, because the cache does not
\* know the path, has nothing to hand on, and has not yet reached the query.
LEMMA RefusalFillsGap ==
  ASSUME QueryOK, RefusalInv, ~ (Len(fills) > 1), FillGap
  PROVE  RefusalInv'
<1>0. /\ fills # <<>> /\ fill.phase = "gap" /\ changes' = changes /\ query' = query
      /\ fill.base # fill.path /\ cache' = Merged(cache, fill)
  BY DEF FillGap, Filling
<1>1. PICK f, q, c, d : f = fill /\ q = query /\ c = cache /\ d = cache'
  OBVIOUS
<1>2. /\ f \in FillType /\ q \in QueryType /\ LogInv /\ OuterOnly /\ Running
      /\ FillGot(c, q, f) /\ CacheOK(c) /\ f.update \subseteq c.have /\ f.props = q.props
      /\ Len(fills) = 1 /\ fills \in Seq(FillType)
  BY <1>0, <1>1, FillAlone, LastFill DEF LogInv
<1>3. Grows(c, f.update, d, {}, q)
  <2>1. d = Update(c, f.update, q.props)
    BY <1>0, <1>1, <1>2 DEF Merged
  <2> QED  BY <1>2, <2>1, MergeGrows
<1>4. Pending(f) = 0 /\ Reached(f) \in Int /\ q.it \in Int /\ ~ (Reached(f) <= q.it)
  <2>1. q.it \in Int /\ f.firstNA \in Int /\ f.oldest \in Int
    BY <1>2, Positions DEF QueryType, FillType
  <2> QED  BY <1>0, <1>1, <1>2, <2>1 DEF FillGot, Reached, Pending
<1>5. ASSUME NEW g, g.props = f.props, g.todo = f.todo, g.following = f.following,
             g.base = f.base, g.path = f.path, g.firstNA = f.firstNA, g.oldest = f.oldest,
             g.phase # "log", g.final = f.final, g.update = {}
      PROVE  FillGot(d, q, g)
  <2>1. Pending(g) = Pending(f)
    BY <1>0, <1>1, <1>5 DEF Pending
  <2>2. Reached(g) = Reached(f)
    BY <1>5 DEF Reached
  <2>3. \A y \in Rev : y <= q.it /\ Handled(g, y) => Handled(f, y)
    BY <1>4, <2>1, <2>2, Positions DEF Handled
  <2>4. Grows(c, f.update, d, g.update, q)
    BY <1>3, <1>5
  <2>5. (Pending(f) = 1 => g.rev = f.rev) /\ (g.final => g.update = {})
    BY <1>4, <1>5
  <2>6. f \in FillType /\ q \in QueryType /\ FillGot(c, q, f)
    BY <1>2
  <2> QED  BY <1>5, <2>1, <2>3, <2>4, <2>5, <2>6, SameGot
<1>6. PICK x : x = RangeGap(cache', fill.base, fill.rev + 1, GapLength)
  OBVIOUS
<1>7. CASE x = NO_REVISION
  <2>1. PICK g : g = [f EXCEPT !.update = {}, !.phase = "after"]
    OBVIOUS
  <2>2. fills' = <<g>> \o Tail(fills)
    BY <1>1, <1>6, <1>7, <2>1 DEF FillGap, Now
  <2>3. /\ g.path = f.path /\ g.base = f.base /\ g.props = f.props /\ g.todo = f.todo
        /\ g.following = f.following /\ g.final = f.final /\ g.update = {}
        /\ g.firstNA = f.firstNA /\ g.oldest = f.oldest /\ g.phase # "log"
    BY <1>2, <2>1 DEF FillType
  <2>4. FillGot(d, q, g)
    BY <1>5, <2>3
  <2> QED  BY <1>0, <1>1, <1>2, <2>2, <2>4, RefusalNow
<1>8. CASE x # NO_REVISION
  <2>1. PICK e, g : /\ e = Fill(fill.base, x, fill.rev + 1, 0, TRUE, FALSE)
                    /\ g = [f EXCEPT !.update = {}, !.phase = "nested"]
    OBVIOUS
  <2>2. fills' = <<e, g>> \o Tail(fills)
    BY <1>1, <1>6, <1>8, <2>1 DEF FillGap
  <2>3. /\ g.path = f.path /\ g.base = f.base /\ g.props = f.props /\ g.todo = f.todo
        /\ g.following = f.following /\ g.final = f.final /\ g.update = {}
        /\ g.firstNA = f.firstNA /\ g.oldest = f.oldest /\ g.phase # "log"
    BY <1>2, <2>1 DEF FillType
  <2>4. FillGot(d, q, g)
    BY <1>5, <2>3
  <2>5. FillGot(d, q, g)'
    BY <1>0, <2>4, GotStays
  <2>6. Tail(fills) = <<>>
    <3>1. PICK u, t : u = fills /\ t = Tail(fills)
      OBVIOUS
    <3>2. u \in Seq(FillType) /\ Len(u) = 1
      BY <1>2, <3>1
    <3>3. t = Tail(u) /\ u # <<>>
      BY <3>1, <3>2
    <3>4. t \in Seq(FillType) /\ Len(t) = Len(u) - 1
      BY <3>2, <3>3
    <3>5. t = <<>>
      BY <3>2, <3>4
    <3> QED  BY <3>1, <3>5
  <2>7. PICK two : two = <<e, g>>
    OBVIOUS
  <2>8. two # <<>> /\ Len(two) = 2 /\ two[2] = g
    BY <2>7
  <2>9. fills' = two
    <3>1. two \in Seq({e, g})
      BY <2>7
    <3>2. two \o <<>> = two
      BY <3>1
    <3> QED  BY <2>2, <2>6, <2>7, <3>2
  <2>10. Outer' = g
    BY <2>8, <2>9 DEF Outer
  <2>11. g.base # g.path /\ query'.state = "running"
    BY <1>0, <1>1, <1>2, <2>3 DEF Running
  <2> QED  BY <1>0, <1>1, <2>5, <2>8, <2>9, <2>10, <2>11 DEF RefusalInv
<1> QED  BY <1>7, <1>8

\* FillLog returns to the loop of InternalLog.
LEMMA RefusalReturns ==
  ASSUME QueryOK, RefusalInv, fills # <<>>, ~ (Len(fills) > 1), changes' = changes,
         Pending(fill) = 0, NEW d, d = cache', CacheOK(d), Return(d),
         Grows(cache, fill.update, d, {}, query)
  PROVE  RefusalInv'
<1>1. PICK f, q, c : f = fill /\ q = query /\ c = cache
  OBVIOUS
<1>2. /\ f \in FillType /\ q \in QueryType /\ Running /\ FillGot(c, q, f)
      /\ changes \in Histories
  BY <1>1, FillAlone
<1>3. PICK x, low : x = Retry(d, q.path, q.it) /\ low = Reached(f)
  OBVIOUS
<1>4. fills' = <<>> /\ query' = [q EXCEPT !.lastReported = low, !.it = x]
  <2>1. /\ fills' = <<>>
        /\ query' = [query EXCEPT
             !.lastReported = IF fill.oldest < fill.firstNA + 1 THEN fill.oldest
                              ELSE fill.firstNA + 1,
             !.it = Retry(d, query.path, @)]
    BY DEF Return
  <2> QED  BY <1>1, <1>2, <1>3, <2>1 DEF Reached, QueryType
<1>5. PICK r : r = [q EXCEPT !.lastReported = low, !.it = x]
  OBVIOUS
<1>6. r.path = q.path /\ r.props = q.props /\ r.lastReported = low /\ r.it = x /\ r.state = "running"
  BY <1>1, <1>2, <1>5 DEF QueryType, Running
<1>7. q.path \in Path /\ q.it \in -1 .. MaxRev /\ low \in Int
  BY <1>2, <1>3, Positions DEF QueryType, FillType, Reached
<1>8. x \in Int /\ q.it \in Int /\ x <= q.it /\ Stops(d, q.path, x)
  <2>1. q.it \in Position /\ q.it <= MaxRev + 1 /\ q.it \in Int
    <3>1. q.it \in Int /\ -1 <= q.it /\ q.it <= MaxRev
      BY <1>7
    <3> QED  BY <3>1, Positions
  <2> QED  BY <1>2, <1>3, <1>7, <2>1, RetrySound, Positions
<1>9. Grows(c, f.update, d, {}, q)
  BY <1>1
<1>10. KnownFrom(d, r, low)
  <2>1. KnownFrom(d, q, low)
    BY <1>2, <1>3, <1>9, GrowsGot DEF FillGot
  <2> QED  BY <1>6, <1>7, <1>8, <2>1 DEF KnownFrom
<1>11. ASSUME NEW y \in Rev, low <= y, y <= x  PROVE Got(d, {}, r, y)
  <2>1. y \in Int /\ y <= q.it /\ Handled(f, y)
    BY <1>3, <1>8, <1>11, Positions DEF Handled
  <2>2. Got(c, f.update, q, y)
    BY <1>2, <2>1 DEF FillGot
  <2>3. Got(d, {}, q, y)
    BY <1>9, <2>1, <2>2, GrowsGot
  <2> QED  BY <1>6, <2>3 DEF Got
<1>12. LoopGot(d, r)
  BY <1>6, <1>8, <1>10, <1>11 DEF LoopGot
<1>13. LoopGot(d, r)'
  BY <1>12, GotStays
<1>14. query' = r
  BY <1>4, <1>5
<1>15. ~ (Len(fills') > 1)
  <2>1. Len(<<>>) = 0
    OBVIOUS
  <2> QED  BY <1>4, <2>1
<1> QED  BY <1>4, <1>6, <1>13, <1>14, <1>15 DEF RefusalInv

\* svnQuery->Log is over.
LEMMA RefusalLogEnds ==
  ASSUME QueryOK, RefusalInv, ~ (Len(fills) > 1), LogEnds
  PROVE  RefusalInv'
<1>0. /\ fills # <<>> /\ fill.phase = "log" /\ fill.todo = <<>> /\ changes' = changes
      /\ cache' = Merged(cache, fill)
  BY DEF LogEnds, Filling
<1>1. PICK f, q, c, d : f = fill /\ q = query /\ c = cache /\ d = cache'
  OBVIOUS
<1>2. /\ f \in FillType /\ q \in QueryType /\ LogInv /\ OuterOnly
      /\ FillGot(c, q, f) /\ CacheOK(c) /\ f.update \subseteq c.have /\ f.props = q.props
  BY <1>0, <1>1, FillAlone
<1>3. Grows(c, f.update, d, {}, q) /\ CacheOK(d)
  <2>1. d = Update(c, f.update, q.props)
    BY <1>0, <1>1, <1>2 DEF Merged
  <2> QED  BY <1>2, <2>1, MergeGrows
<1>4. Pending(f) = 0
  BY <1>0, <1>1 DEF Pending
<1> DEFINE Ends == ~ offline /\ (fill.count = 0 \/ ~ (fill.limit > 0 /\ fill.count >= fill.limit))
<1>5. CASE Ends
  <2>1. PICK v : v = Larger(f.end, 1) - 1
    OBVIOUS
  <2>2. PICK g : g = [f EXCEPT !.update = {}, !.final = TRUE, !.phase = "gap", !.rev = v]
    OBVIOUS
  <2>3. fills' = <<g>> \o Tail(fills) /\ query' = query
    BY <1>1, <1>5, <2>1, <2>2 DEF LogEnds, Now
  <2>4. /\ g.path = f.path /\ g.base = f.base /\ g.props = f.props /\ g.todo = f.todo
        /\ g.following = f.following /\ g.final /\ g.update = {}
        /\ g.firstNA = f.firstNA /\ g.oldest = f.oldest /\ g.phase = "gap"
    BY <1>2, <2>2 DEF FillType
  <2>5. Pending(g) = Pending(f)
    BY <1>4, <2>4 DEF Pending
  <2>6. \A y \in Rev : y <= q.it /\ Handled(g, y) => Handled(f, y)
    BY <2>4 DEF Handled, Reached
  <2>7. Grows(c, f.update, d, g.update, q)
    BY <1>3, <2>4
  <2>8. FillGot(d, q, g)
    <3>1. (Pending(f) = 1 => g.rev = f.rev) /\ (g.final => g.update = {})
      BY <1>4, <2>4
    <3>2. f \in FillType /\ q \in QueryType /\ FillGot(c, q, f)
      BY <1>2
    <3> QED  BY <2>4, <2>5, <2>6, <2>7, <3>1, <3>2, SameGot
  <2> QED  BY <1>0, <1>1, <1>2, <2>3, <2>8, RefusalNow
<1>6. CASE ~ Ends
  <2>1. Return(d)
    BY <1>1, <1>6 DEF LogEnds
  <2> QED  BY <1>0, <1>1, <1>3, <1>4, <2>1, RefusalReturns
<1> QED  BY <1>5, <1>6

\* ... and so is what comes after it.
LEMMA RefusalFillEnds ==
  ASSUME QueryOK, RefusalInv, ~ (Len(fills) > 1), FillEnds
  PROVE  RefusalInv'
<1>0. fills # <<>> /\ fill.final /\ changes' = changes /\ cache' = cache /\ Return(cache)
  BY DEF FillEnds, Filling
<1>1. FillGot(cache, query, fill) /\ CacheOK(cache)
  BY <1>0, FillAlone
<1>2. fill.update = {} /\ Pending(fill) = 0
  BY <1>0, <1>1 DEF FillGot, Pending
<1>3. Grows(cache, fill.update, cache, {}, query)
  BY <1>2 DEF Grows
<1> QED  BY <1>0, <1>1, <1>2, <1>3, RefusalReturns

\* The connection breaks.
LEMMA RefusalBroken ==
  ASSUME QueryOK, RefusalInv, ~ (Len(fills) > 1), GoOffline
  PROVE  RefusalInv'
<1>0. /\ fills # <<>> /\ fill.phase = "log" /\ changes' = changes
      /\ cache' = Merged(cache, fill) /\ Return(cache')
  BY DEF GoOffline, Filling
<1>1. PICK d : d = cache'
  OBVIOUS
<1>2. /\ fill.update \subseteq cache.have /\ query \in QueryType /\ CacheOK(cache)
      /\ fill.props = query.props
  BY <1>0, FillAlone
<1>3. Pending(fill) = 0
  BY <1>0 DEF Pending
<1>4. PICK late, q : late = fill.update /\ q = query
  OBVIOUS
<1>5. Grows(cache, late, d, {}, q) /\ CacheOK(d)
  <2>1. d = Update(cache, late, q.props)
    BY <1>0, <1>1, <1>2, <1>4 DEF Merged
  <2> QED  BY <1>2, <1>4, <2>1, MergeGrows
<1> QED  BY <1>0, <1>1, <1>3, <1>4, <1>5, RefusalReturns

\* A revision is handed on: all down to it has been got.
LEMMA RefusalHandsOn ==
  ASSUME QueryOK, RefusalInv, ~ (Len(fills) > 1), HandOn
  PROVE  RefusalInv'
<1>0. fills # <<>> /\ fill.phase = "after" /\ ~ fill.final /\ changes' = changes /\ cache' = cache
  BY DEF HandOn, Filling
<1>1. PICK f, q, c : f = fill /\ q = query /\ c = cache
  OBVIOUS
<1>2. /\ f \in FillType /\ q \in QueryType /\ LogInv /\ OuterOnly /\ f.sends
      /\ FillGot(c, q, f) /\ CacheOK(c) /\ f.path = q.path /\ changes \in Histories
      /\ FillBelow(q.sent, q.it, f)
  BY <1>0, <1>1, FillAlone
<1>3. /\ q.path \in Path /\ q.it \in Int /\ f.rev \in Rev /\ f.rev \in Nat /\ f.oldest \in Int
      /\ f.firstNA \in Int /\ f.todo \in Seq(Rev) /\ f.following \in BOOLEAN
  BY <1>2, Positions DEF FillType, QueryType
<1>4. Pending(f) = 1 /\ f.phase = "after" /\ f.final = FALSE
  BY <1>0, <1>1, <1>2 DEF Pending, FillType
<1>5. /\ f.base = f.path /\ f.rev <= q.it /\ f.rev \in c.have /\ f.following
      /\ Touches(q.path, f.rev) /\ Got(c, f.update, q, f.rev)
  BY <1>2, <1>4 DEF FillGot
<1>6. PICK v, o, b : /\ v = Larger(f.rev - 1, 0) /\ o = (IF f.rev < f.oldest THEN f.rev ELSE f.oldest)
                     /\ b = (IF Adds(f.rev) # {} THEN Base(c, f.path) ELSE f.base)
  OBVIOUS
<1>7. PICK h \in BOOLEAN : h <=> ~ (f.path \in Adds(f.rev))
  OBVIOUS
<1>8. PICK g : g = [f EXCEPT !.phase = "log", !.firstNA = v, !.oldest = o,
                             !.following = h, !.base = b]
  OBVIOUS
<1>9. fills' = <<g>> \o Tail(fills)
  <2>1. g = [fill EXCEPT !.phase = "log",
              !.firstNA = Larger(fill.rev - 1, 0),
              !.oldest = IF fill.following /\ fill.rev < @ THEN fill.rev ELSE @,
              !.following = @ /\ ~ (fill.path \in Adds(fill.rev)),
              !.base = IF Adds(fill.rev) # {} THEN Base(cache, fill.path) ELSE @]
    BY <1>1, <1>2, <1>5, <1>6, <1>7, <1>8 DEF FillType
  <2> QED  BY <2>1 DEF HandOn, Now
<1>10. /\ g.path = f.path /\ g.base = b /\ g.props = f.props /\ g.todo = f.todo
       /\ g.following = h /\ g.final = FALSE /\ g.update = f.update
       /\ g.firstNA = v /\ g.oldest = o /\ g.phase = "log"
  BY <1>2, <1>4, <1>8 DEF FillType
<1>11. PICK s : s = Append(q.sent, f.rev)
  OBVIOUS
<1>12. PICK r : r = [q EXCEPT !.sent = s]
  OBVIOUS
<1>13. /\ query' = r /\ r.path = q.path /\ r.props = q.props /\ r.it = q.it
       /\ r.state = query.state
  <2>1. query' = [query EXCEPT !.sent = Append(@, fill.rev)]
    BY <1>1, <1>2, <1>5 DEF HandOn
  <2> QED  BY <1>1, <1>2, <1>11, <1>12, <2>1 DEF QueryType
<1>14. q.path \in Known(c) /\ b = q.path
  <2>1. f.rev > 0 \/ q.path = Root
    BY <1>5 DEF Touches
  <2> QED  BY <1>2, <1>3, <1>5, <1>6, <2>1, KnownPath
<1>15. /\ v \in Int /\ v >= 0 /\ o \in Int /\ o <= f.rev /\ (v + 1 = f.rev \/ (f.rev = 0 /\ v = 0))
       /\ (o = f.rev \/ o = f.oldest)
  BY <1>3, <1>6 DEF Larger
<1>16. Reached(g) = o
  BY <1>3, <1>10, <1>15 DEF Reached
<1>17. Pending(g) = 0
  BY <1>10 DEF Pending
<1>18. o = f.oldest => Reached(f) <= o /\ Reached(f) \in Int /\ Reached(f) <= q.it
  BY <1>3, <1>5, <1>15 DEF Reached
<1>19. Birth(q.path) <= o
  <2>1. Birth(q.path) \in Int
    BY <1>2, <1>3, BirthType, Positions
  <2>2. CASE o = f.rev
    BY <1>2, <1>3, <1>5, <2>2, BornFirst
  <2>3. CASE o = f.oldest
    <3>1. Birth(q.path) <= Reached(f)
      BY <1>2, <1>18, <2>3 DEF FillGot, KnownFrom
    <3> QED  BY <1>15, <1>18, <2>1, <2>3, <3>1
  <2> QED  BY <1>15, <2>2, <2>3
<1>20. ASSUME NEW y \in Rev, Handled(g, y), y <= q.it  PROVE Got(c, f.update, r, y)
  <2>1. o <= y /\ y \in Int
    BY <1>10, <1>16, <1>20, Positions DEF Handled
  <2>2. CASE y = f.rev
    BY <1>5, <1>13, <2>2 DEF Got
  <2>3. CASE y # f.rev
    <3>1. Handled(f, y)
      <4>1. CASE o = f.rev
        BY <1>3, <1>4, <2>1, <2>3, <4>1 DEF Handled
      <4>2. CASE o = f.oldest
        BY <1>15, <1>18, <2>1, <4>2 DEF Handled
      <4> QED  BY <1>15, <4>1, <4>2
    <3>2. Got(c, f.update, q, y)
      BY <1>2, <1>20, <3>1 DEF FillGot
    <3> QED  BY <1>13, <3>2 DEF Got
  <2> QED  BY <2>2, <2>3
<1>21. ~ h => f.todo = <<>>
  <2>1. SUFFICES ASSUME ~ h, f.todo # <<>>  PROVE FALSE
    OBVIOUS
  <2>2. f.rev = Birth(q.path)
    BY <1>2, <1>7, <2>1 DEF Adds
  <2>3. 1 \in 1 .. Len(f.todo) /\ f.todo[1] \in Rev
    BY <1>3, <2>1, TailOf
  <2>4. Touches(q.path, f.todo[1])
    BY <1>2, <2>3 DEF FillGot
  <2>5. f.todo[1] < f.rev
    BY <1>2, <1>4, <2>3 DEF FillBelow
  <2>6. Birth(q.path) <= f.todo[1]
    BY <1>2, <1>3, <2>3, <2>4, BornFirst
  <2> QED  BY <1>3, <2>2, <2>3, <2>5, <2>6, Positions
<1>22. q.it <= v \/ Touches(q.path, v + 1)
  <2>1. CASE v + 1 = f.rev
    BY <1>5, <2>1
  <2>2. CASE f.rev = 0
    BY <1>5, <2>2 DEF Touches
  <2> QED  BY <1>15, <2>1, <2>2
<1>23. \A j \in 1 .. Len(g.todo) : g.todo[j] <= r.it /\ Touches(r.path, g.todo[j])
  BY <1>2, <1>10, <1>13 DEF FillGot
<1>24. KnownFrom(c, r, Reached(g))
  BY <1>13, <1>14, <1>16, <1>19 DEF KnownFrom
<1>25. g.props = r.props
  BY <1>2, <1>10, <1>13 DEF FillGot
<1>26. FillGot(c, r, g)
  BY <1>2, <1>10, <1>13, <1>14, <1>17, <1>20, <1>21, <1>22, <1>23, <1>24, <1>25 DEF FillGot
<1> QED  BY <1>0, <1>1, <1>2, <1>9, <1>13, <1>26, RefusalNow

\* All the fillers are left.
LEMMA RefusalFails ==
  ASSUME QueryOK, RefusalInv, Fail
  PROVE  RefusalInv'
<1>1. fills' = <<>> /\ query' = [query EXCEPT !.state = "failed"]
  BY DEF Fail
<1>2. query \in QueryType
  BY DEF QueryOK, LogInv, QueryInv
<1>3. query'.state = "failed"
  BY <1>1, <1>2 DEF QueryType
<1>4. ~ (Len(fills') > 1)
  <2>1. Len(<<>>) = 0
    OBVIOUS
  <2> QED  BY <1>1, <2>1
<1> QED  BY <1>1, <1>3, <1>4 DEF RefusalInv, Running

\* The loop of InternalLog goes on, or ends.
LEMMA RefusalInLoop ==
  ASSUME fills' = <<>>, changes' = changes, NEW c, c = cache', NEW q, q = query',
         q.state = "running" => LoopGot(c, q),
         q.state = "refused" => ~ Apart(c.ranges[q.path])
  PROVE  RefusalInv'
<1>1. q.state = "running" => LoopGot(c, q)'
  BY GotStays
<1>2. ~ (Len(fills') > 1)
  <2>1. Len(<<>>) = 0
    OBVIOUS
  <2> QED  BY <2>1
<1>3. Running' => q.state = "running"
  BY DEF Running
<1> QED  BY <1>1, <1>2, <1>3 DEF RefusalInv

\* What there was to get above the iterator stays so when it goes down.
LEMMA LoopLower ==
  ASSUME NEW c, NEW q \in QueryType, LoopGot(c, q), NEW r, r.path = q.path, r.props = q.props,
         r.lastReported = q.lastReported, r.it \in Int, r.it <= q.it, Stops(c, r.path, r.it)
  PROVE  LoopGot(c, r)
<1>1. q.it \in Int /\ q.lastReported \in Int
  BY Positions DEF QueryType
<1>2. KnownFrom(c, r, r.lastReported)
  BY <1>1 DEF LoopGot, KnownFrom
<1>3. \A y \in Rev : r.lastReported <= y /\ y <= r.it => Got(c, {}, r, y)
  BY <1>1, Positions DEF LoopGot, Got
<1> QED  BY <1>2, <1>3 DEF LoopGot

\* A query begins, and has passed nothing.
LEMMA RefusalStarts ==
  ASSUME QueryOK, NEW a \in Asked, Log(a)
  PROVE  RefusalInv'
<1>1. ~ Running /\ changes' = changes /\ cache' = cache /\ fills' = fills
  BY DEF Log
<1>2. PICK p, hi, g, c : p = a.path /\ hi = a.start /\ g = a.props /\ c = cache
  OBVIOUS
<1>3. /\ p \in Path /\ hi \in Rev /\ changes \in Histories /\ CacheOK(c) /\ fills = <<>>
      /\ hi \in Int
  BY <1>1, <1>2, LogAssumption, Positions DEF LogAssumption, QueryOK, LogInv, CacheInv, OuterOnly
<1>4. hi \in Position /\ hi <= MaxRev + 1
  BY <1>3, Positions
<1>5. PICK x : x = Retry(c, p, hi)
  OBVIOUS
<1>6. x \in Int /\ x <= hi /\ Stops(c, p, x)
  BY <1>3, <1>4, <1>5, RetrySound, Positions
<1>7. PICK e : e = <<>>
  OBVIOUS
<1>8. PICK r : r = [state |-> "running", path |-> p, start |-> hi, end |-> a.end,
                limit |-> a.limit, props |-> g, left |-> a.limit,
                it |-> x, lastReported |-> hi + 1, sent |-> e]
  OBVIOUS
<1>9. query' = r
  BY <1>2, <1>5, <1>7, <1>8 DEF Log
<1>10. r.state = "running" /\ r.path = p /\ r.it = x /\ r.lastReported = hi + 1
  BY <1>8
<1>11. LoopGot(c, r)
  BY <1>3, <1>6, <1>10, Positions DEF LoopGot, KnownFrom
<1> QED  BY <1>1, <1>2, <1>3, <1>9, <1>10, <1>11, RefusalInLoop

\* The loop reports from the cache.
LEMMA RefusalReports ==
  ASSUME QueryOK, RefusalInv, Report
  PROVE  RefusalInv'
<1>1. /\ query \in QueryType /\ query.it \in Rev /\ Running /\ fills = <<>> /\ fills' = <<>>
      /\ changes' = changes /\ cache' = cache /\ CacheOK(cache) /\ changes \in Histories
  BY Inside DEF QueryOK, LogInv, CacheInv, QueryInv, Report, Looping
<1>2. PICK q, c, x : q = query /\ c = cache /\ x = Advance(cache, query.path, query.it)
  OBVIOUS
<1>3. q \in QueryType /\ q.path \in Path /\ q.it \in Valid /\ LoopGot(c, q) /\ q.it \in Int
  BY <1>1, <1>2, Positions DEF QueryType, RefusalInv
<1>4. x \in Int /\ x <= q.it /\ Stops(c, q.path, x)
  BY <1>1, <1>2, <1>3, AdvancePasses, Positions
<1>5. PICK s, n, st, i : /\ query' = [q EXCEPT !.sent = s, !.left = n, !.state = st, !.it = i]
                         /\ st = (IF q.left = 1 THEN "done" ELSE "running")
                         /\ i = (IF q.left = 1 THEN q.it ELSE x)
  BY <1>1, <1>2 DEF Report, QueryType
<1>6. PICK r : r = [q EXCEPT !.sent = s, !.left = n, !.state = st, !.it = i]
  OBVIOUS
<1>7. /\ r.path = q.path /\ r.props = q.props /\ r.lastReported = q.lastReported
      /\ r.it = i /\ r.state = st
  BY <1>3, <1>6 DEF QueryType
<1>8. ASSUME r.state = "running"  PROVE LoopGot(c, r)
  <2>1. r.it = x
    BY <1>5, <1>7, <1>8
  <2> QED  BY <1>3, <1>4, <1>7, <2>1, LoopLower
<1>9. r.state # "refused"
  BY <1>5, <1>7
<1> QED  BY <1>1, <1>2, <1>5, <1>6, <1>8, <1>9, RefusalInLoop

\* Off-line, the loop passes over what is missing.
LEMMA RefusalSkips ==
  ASSUME QueryOK, RefusalInv, SkipUnknown
  PROVE  RefusalInv'
<1>1. /\ query \in QueryType /\ query.it \in Rev /\ Running /\ fills = <<>> /\ fills' = <<>>
      /\ changes' = changes /\ cache' = cache /\ CacheOK(cache) /\ changes \in Histories
  BY Inside DEF QueryOK, LogInv, CacheInv, QueryInv, SkipUnknown, MustFetch, Looping
<1>2. PICK q, c, y : q = query /\ c = cache /\ y = ToNextAvailableData(cache, query.path, query.it)
  OBVIOUS
<1>3. q \in QueryType /\ q.path \in Path /\ q.it \in Valid /\ LoopGot(c, q) /\ q.it \in Rev
  BY <1>1, <1>2, Positions DEF QueryType, RefusalInv
<1>4. y \in Position /\ y < q.it
  BY <1>1, <1>2, <1>3, ToAvailable
<1>5. y <= MaxRev + 1
  BY <1>3, <1>4, Positions
<1>6. PICK x : x = Retry(c, q.path, y)
  OBVIOUS
<1>7. x \in Position /\ x <= y /\ Stops(c, q.path, x)
  BY <1>1, <1>2, <1>3, <1>4, <1>5, <1>6, RetrySound
<1>8. x \in Int /\ x <= q.it
  BY <1>3, <1>4, <1>7, Positions
<1>9. PICK r : r = [q EXCEPT !.it = x]
  OBVIOUS
<1>10. query' = r
  BY <1>2, <1>6, <1>9 DEF SkipUnknown
<1>11. /\ r.path = q.path /\ r.props = q.props /\ r.lastReported = q.lastReported
       /\ r.it = x /\ r.state = "running"
  BY <1>1, <1>2, <1>3, <1>9 DEF QueryType, Running
<1>12. LoopGot(c, r)
  BY <1>3, <1>7, <1>8, <1>11, LoopLower
<1> QED  BY <1>1, <1>2, <1>10, <1>11, <1>12, RefusalInLoop

\* A new filler has nothing to show above the iterator.
LEMMA RefusalFetches ==
  ASSUME QueryOK, Fetch
  PROVE  RefusalInv'
<1>1. /\ query.it \in Rev /\ query.end \in Rev /\ query.end <= query.it
      /\ query \in QueryType /\ CacheOK(cache) /\ changes \in Histories
      /\ ~ Available(cache, query.props, query.it)
  BY Inside DEF QueryOK, LogInv, CacheInv, QueryInv, Fetch, MustFetch, HasData
<1>2. Running /\ fills = <<>> /\ query' = query /\ changes' = changes /\ cache' = cache
  BY DEF Fetch, MustFetch, Looping
<1>3. PICK q, p, i, c : q = query /\ p = query.path /\ i = query.it /\ c = cache
  OBVIOUS
<1>4. /\ p \in Path /\ i \in Rev /\ q.left \in Nat /\ q.props \in BOOLEAN
      /\ i \in Int /\ i <= MaxRev /\ MaxRev \in Int
  BY <1>1, <1>3, Positions DEF QueryType
<1>5. PICK low : /\ low = FetchEnd(c, p, i, q.end, q.props)
                 /\ fills' = <<Fill(p, i, low, q.left, q.props, TRUE)>>
  BY <1>3 DEF Fetch
<1>6. low \in Rev /\ low <= i
  BY <1>1, <1>3, <1>4, <1>5, FetchEndType
<1>7. PICK f : f = Fill(p, i, low, q.left, q.props, TRUE)
  OBVIOUS
<1>8. /\ f.todo = ServerLog(p, i, low, q.left) /\ f.props = q.props /\ f.following = TRUE
      /\ f.final = FALSE /\ f.phase = "log" /\ f.oldest = MaxRev + 2 /\ f.firstNA = i
  BY <1>7 DEF Fill
<1>9. \A j \in 1 .. Len(f.todo) : f.todo[j] <= i /\ Touches(p, f.todo[j])
  <2>1. PICK t : t = ServerLog(p, i, low, q.left)
    OBVIOUS
  <2>2. PICK all : /\ Lists(all, p, i, low)
                   /\ t \in Seq(Rev) /\ Len(t) <= Len(all)
                   /\ \A k \in 1 .. Len(t) : t[k] = all[k]
    BY <1>1, <1>4, <1>6, <2>1, ServerLogLists
  <2>3. all \in Seq(Rev)
    BY <2>2 DEF Lists
  <2>4. \A k \in 1 .. Len(t) : k \in 1 .. Len(all)
    BY <2>2, <2>3
  <2>5. ASSUME NEW j \in 1 .. Len(t)  PROVE t[j] <= i /\ Touches(p, t[j])
    <3>1. all[j] \in Rev /\ t[j] = all[j] /\ j \in 1 .. Len(all)
      BY <2>2, <2>3, <2>4
    <3>2. all[j] <= i /\ Touches(p, all[j])
      BY <2>2, <3>1 DEF Lists
    <3> QED  BY <3>1, <3>2
  <2> QED  BY <1>8, <2>1, <2>5
<1>10. Pending(f) = 0 /\ Reached(f) = i + 1
  BY <1>4, <1>8 DEF Pending, Reached
<1>11. ~ (Reached(f) <= i)
  BY <1>4, <1>10
<1>12. ASSUME NEW y \in Rev, Handled(f, y), y <= i  PROVE FALSE
  BY <1>4, <1>10, <1>12, Positions DEF Handled
<1>13. q.it = i /\ q.path = p
  BY <1>3
<1>14. FillGot(c, q, f)
  <2>1. KnownFrom(c, q, Reached(f)) /\ ~ (Reached(f) <= q.it)
    BY <1>11, <1>13 DEF KnownFrom
  <2>2. \A j \in 1 .. Len(f.todo) : f.todo[j] <= q.it /\ Touches(q.path, f.todo[j])
    BY <1>9, <1>13
  <2>3. \A y \in Rev : ~ (Handled(f, y) /\ y <= q.it)
    BY <1>12, <1>13
  <2>4. q.it <= f.firstNA
    BY <1>4, <1>8, <1>13
  <2>5. Pending(f) = 0
    BY <1>10
  <2> QED  BY <1>8, <2>1, <2>2, <2>3, <2>4, <2>5 DEF FillGot
<1>15. FillGot(c, q, f)'
  BY <1>2, <1>14, GotStays
<1>16. PICK u : u = <<f>>
  OBVIOUS
<1>17. Len(u) = 1 /\ u[1] = f /\ u # <<>>
  BY <1>16
<1>18. fills' = u /\ Outer' = f /\ ~ (Len(fills') > 1)
  BY <1>5, <1>7, <1>16, <1>17 DEF Outer
<1>19. query'.state = "running"
  BY <1>2 DEF Running
<1> QED  BY <1>2, <1>3, <1>15, <1>17, <1>18, <1>19 DEF RefusalInv

\* The loop is over.
LEMMA RefusalDone ==
  ASSUME QueryOK, RefusalInv, Finish \/ NothingBelow \/ RefusesRefetch
  PROVE  RefusalInv'
<1>1. PICK reason : Done(reason) /\ (reason = "done" \/ (reason = "refused" /\ RefusesRefetch))
  BY DEF Finish, NothingBelow, RefusesRefetch
<1>2. /\ query \in QueryType /\ Looping /\ Running /\ fills = <<>> /\ CacheOK(cache)
      /\ changes \in Histories /\ LoopGot(cache, query)
  BY DEF Finish, NothingBelow, RefusesRefetch, Looping, QueryOK, LogInv, QueryInv, CacheInv,
         RefusalInv
<1>3. PICK q, c, r : q = query /\ c = cache /\ r = [query EXCEPT !.state = reason]
  OBVIOUS
<1>4. /\ query' = r /\ cache' = c /\ fills' = <<>> /\ changes' = changes
      /\ r.state = reason /\ r.path = q.path
  BY <1>1, <1>2, <1>3 DEF Done, QueryType
<1>5. reason = "refused" => ~ Apart(c.ranges[r.path])
  BY <1>1, <1>2, <1>3, <1>4, RefusedHidden
<1> QED  BY <1>1, <1>4, <1>5, RefusalInLoop

\* Nothing happens.
LEMMA RefusalUnchanged ==
  ASSUME QueryOK, RefusalInv, ~ (Len(fills) > 1), UNCHANGED vars
  PROVE  RefusalInv'
<1>1. changes' = changes /\ query' = query /\ fills' = fills /\ cache' = cache
  BY DEF vars
<1>2. PICK q, c : q = query /\ c = cache
  OBVIOUS
<1>3. CASE fills = <<>>
  <2>1. q.state = "running" => LoopGot(c, q)
    BY <1>2, <1>3 DEF RefusalInv, Running
  <2>2. q.state = "refused" => ~ Apart(c.ranges[q.path])
    BY <1>2 DEF RefusalInv
  <2> QED  BY <1>1, <1>2, <1>3, <2>1, <2>2, RefusalInLoop
<1>4. CASE fills # <<>>
  <2>1. PICK f : f = Outer
    OBVIOUS
  <2>2. FillGot(c, q, f)
    BY <1>2, <1>4, <2>1 DEF RefusalInv
  <2>3. FillGot(c, q, f)'
    BY <1>1, <2>2, GotStays
  <2>4. Outer' = f
    BY <1>1, <2>1 DEF Outer
  <2>5. q.state = "running"
    BY <1>2, <1>4 DEF QueryOK, OuterOnly, Running
  <2>6. ~ (Len(fills') > 1)
    BY <1>1
  <2> QED  BY <1>1, <1>2, <1>4, <2>3, <2>4, <2>5, <2>6 DEF RefusalInv
<1> QED  BY <1>3, <1>4

\* Every step keeps it.
LEMMA RefusalNext ==
  ASSUME QueryOK, RefusalInv, [Next]_vars
  PROVE  RefusalInv'
<1>1. CASE fills # <<>> /\ Len(fills) > 1
  BY <1>1, RefusalWaits
<1>2. CASE fills # <<>> /\ ~ (Len(fills) > 1)
  <2>1. Running
    BY <1>2 DEF QueryOK, OuterOnly
  <2>2. ~ (\E q \in Asked : Log(q)) /\ ~ ResetOffline
    BY <2>1 DEF Log, ResetOffline
  <2>3. ~ (Report \/ Finish \/ NothingBelow \/ RefusesRefetch \/ SkipUnknown \/ Fetch)
    BY <1>2 DEF Report, Finish, NothingBelow, RefusesRefetch, SkipUnknown, Fetch, MustFetch, Looping
  <2> QED
    BY <1>2, <2>2, <2>3, RefusalReceives, RefusalNoGap, RefusalMarks, RefusalFillsGap,
       RefusalHandsOn, RefusalLogEnds, RefusalFillEnds, RefusalBroken, RefusalFails,
       RefusalUnchanged
       DEF Next, Step
<1>3. CASE fills = <<>>
  <2>1. ~ (Receive \/ NoGap \/ MarkGap \/ FillGap \/ HandOn \/ LogEnds \/ FillEnds \/ GoOffline \/ Fail)
    BY <1>3 DEF Receive, NoGap, MarkGap, FillGap, HandOn, LogEnds, FillEnds, GoOffline, Fail, Filling
  <2>2. CASE \E q \in Asked : Log(q)
    BY <2>2, RefusalStarts
  <2>3. CASE ResetOffline
    <3>1. query \in QueryType
      BY DEF QueryOK, LogInv, QueryInv
    <3>2. PICK e : e = <<>>
      OBVIOUS
    <3>3. PICK r, c : r = [query EXCEPT !.state = "none", !.sent = e] /\ c = cache
      OBVIOUS
    <3>4. query' = r /\ r.state = "none" /\ fills' = <<>> /\ changes' = changes /\ cache' = c
      BY <1>3, <2>3, <3>1, <3>2, <3>3 DEF ResetOffline, QueryType
    <3> QED  BY <3>4, RefusalInLoop
  <2>4. CASE UNCHANGED vars
    <3>1. ~ (Len(fills) > 1)
      <4>1. Len(<<>>) = 0
        OBVIOUS
      <4> QED  BY <1>3, <4>1
    <3> QED  BY <2>4, <3>1, RefusalUnchanged
  <2> QED
    BY <2>1, <2>2, <2>3, <2>4, RefusalReports, RefusalSkips, RefusalFetches, RefusalDone
       DEF Next, Step
<1> QED  BY <1>1, <1>2, <1>3

\* RefusalInvariant: whatever the iterator of InternalLog, or the filler that works for
\* it, has passed below the last reported revision is in the cache or in a skip range of
\* the path.
THEOREM RefusalInvariant == Spec => []RefusalInv
<1>1. Init => RefusalInv
  <2>1. Len(<<>>) = 0
    OBVIOUS
  <2> QED  BY <2>1 DEF Init, RefusalInv, Running
<1>2. QueryOK /\ RefusalInv /\ [Next]_vars => RefusalInv'
  BY RefusalNext
<1> QED  BY <1>1, <1>2, QueryInvariant, PTL DEF Spec

\* RefusalByOverlapOnly: RefusedByOverlap holds of the specification; a query gives up
\* (the early return behind the assertion of InternalLog) only when skip ranges overlap,
\* namely those of the path that it asks for.
THEOREM RefusalByOverlapOnly == Spec => []RefusedByOverlap
<1>1. QueryOK /\ RefusalInv => RefusedByOverlap
  BY DEF QueryOK, LogInv, QueryInv, QueryType, RefusalInv, RefusedByOverlap
<1> QED  BY <1>1, QueryInvariant, RefusalInvariant, PTL

=============================================================================
