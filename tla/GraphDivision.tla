--------------------------- MODULE GraphDivision ---------------------------
(***************************************************************************)
(* The constraint "the borders divide the graph into regions, and the size *)
(* of a vertex, where it has one, is the size of its region"               *)
(* (constraints/GraphDivision.cc).  borders[e] is true when edge e is cut. *)
(* The size of vertex v is order encoded: sizes[v].lits[j] says that it is *)
(* sizes[v].values[j + 1] or more; a vertex without a size has no values.  *)
(***************************************************************************)
EXTENDS Integers, Sequences, FiniteSets

LOCAL INSTANCE SequencesExt
LOCAL INSTANCE FiniteSetsExt

Make(sizes, edges, borders) ==
  [kind |-> "Division", sizes |-> sizes, edges |-> edges, borders |-> borders]

Vertex(k) == DOMAIN k.sizes
Sized(k)  == {v \in Vertex(k) : k.sizes[v].values # <<>>}
LitsOf(k) == ToSet(k.borders) \cup UNION {ToSet(k.sizes[v].lits) : v \in Vertex(k)}
Watches(k) == LitsOf(k) \cup {-l : l \in LitsOf(k)}

(***************************************************************************)
(* Regions: the decided ones are connected by edges that are not cut, the  *)
(* potential ones by edges that are not cut yet.                           *)
(***************************************************************************)
Joined(k, A) == {e \in DOMAIN k.edges : -k.borders[e] \in A}
Cut(k, A)    == {e \in DOMAIN k.edges : k.borders[e] \in A}
Region(k, E, v) ==
  LET within[n \in 0..Len(k.sizes)] ==
        IF n = 0 THEN {v}
        ELSE LET R == within[n - 1]
             IN R \cup UNION {ToSet(k.edges[e]) : e \in {d \in E : ToSet(k.edges[d]) \cap R # {}}}
  IN within[Len(k.sizes)]
DecidedRegion(k, A, v)   == Region(k, Joined(k, A), v)
PotentialRegion(k, A, v) == Region(k, DOMAIN k.edges \ Cut(k, A), v)

\* The bounds of a size, by bisection, as places in its values.
Lower(k, A, v) ==
  LET n == Len(k.sizes[v].values)
      least[l \in 1..n, r \in 1..n] ==
        LET mid == (l + r + 1) \div 2
        IN IF l >= r THEN l
           ELSE IF k.sizes[v].lits[mid - 1] \in A THEN least[mid, r] ELSE least[l, mid - 1]
  IN least[1, n]
Upper(k, A, v) ==
  LET n == Len(k.sizes[v].values)
      greatest[l \in 1..n, r \in 1..n] ==
        LET mid == (l + r) \div 2
        IN IF l >= r THEN l
           ELSE IF -k.sizes[v].lits[mid] \in A THEN greatest[l, mid] ELSE greatest[mid + 1, r]
  IN greatest[1, n]
SizeLb(k, A, v) == k.sizes[v].values[Lower(k, A, v)]
SizeUb(k, A, v) == k.sizes[v].values[Upper(k, A, v)]

\* size_lb_reason_ and size_ub_reason_ as sets.
LbReason(k, A, v) ==
  IF Lower(k, A, v) = 1 THEN {} ELSE {k.sizes[v].lits[Lower(k, A, v) - 1]}
UbReason(k, A, v) ==
  IF Upper(k, A, v) = Len(k.sizes[v].values) THEN {} ELSE {-k.sizes[v].lits[Upper(k, A, v)]}

\* OptionalOrderEncoding::at_least and at_most as sets: empty if it is no
\* condition.  (Where run_check uses them, x is never out of all reach.)
AtLeast(k, v, x) ==
  LET vals == k.sizes[v].values
  IN IF x <= vals[1] THEN {}
     ELSE {k.sizes[v].lits[Min({j \in DOMAIN vals : vals[j] >= x}) - 1]}
\* Variant: the literal is not negated.
AtMostPositive(k, v, x) ==
  LET vals == k.sizes[v].values
  IN IF x >= vals[Len(vals)] THEN {}
     ELSE {k.sizes[v].lits[Min({j \in DOMAIN vals : vals[j] > x}) - 1]}

AtMost(k, v, x) ==
  LET vals == k.sizes[v].values
  IN IF x >= vals[Len(vals)] THEN {}
     ELSE {-k.sizes[v].lits[Min({j \in DOMAIN vals : vals[j] > x}) - 1]}

\* Variant: only the first edge of the path.
ConnectingPathOneEdge(k, A, u, v) ==
  LET joins == {E \in SUBSET Joined(k, A) : v \in Region(k, E, u)}
      path  == CHOOSE E \in joins : \A D \in joins : Cardinality(E) <= Cardinality(D)
  IN {-k.borders[e] : e \in {d \in path : u \in ToSet(k.edges[d])}}

\* The three explanations.  Of the shortest paths the code takes the first
\* that a breadth-first search comes to.
ConnectingPath(k, A, u, v) ==
  LET joins == {E \in SUBSET Joined(k, A) : v \in Region(k, E, u)}
      path  == CHOOSE E \in joins : \A D \in joins : Cardinality(E) <= Cardinality(D)
  IN {-k.borders[e] : e \in path}
WhyDecided(k, A, R) ==
  {-k.borders[e] : e \in {d \in Joined(k, A) : ToSet(k.edges[d]) \subseteq R}}
WhyPotential(k, A, R) ==
  {k.borders[e] : e \in {d \in DOMAIN k.edges : Cardinality(ToSet(k.edges[d]) \cap R) = 1}}

(***************************************************************************)
(* run_check: a sequence of rules, each applied to what the run has done   *)
(* so far, until one finds a conflict.  A: the assignment, with what the   *)
(* run has enqueued (wants); prop: the reasons it has stored; why: that of *)
(* the conflict; broken: an assertion has failed.                          *)
(***************************************************************************)
Begin(A) == [A |-> A, wants |-> <<>>, prop |-> <<>>, stop |-> FALSE, why |-> {}, broken |-> FALSE]

Fail(r, why, asserted) ==
  [r EXCEPT !.stop = TRUE, !.why = why, !.broken = @ \/ ~asserted]

\* `reasons_prop_[l] = why; assert(solver.enqueue(l, this))'.
Enqueue(r, l, why) ==
  [r EXCEPT !.prop = [m \in DOMAIN @ \cup {l} |-> IF m = l THEN why ELSE @[m]],
            !.wants = IF l \in r.A THEN @ ELSE Append(@, l),
            !.A = @ \cup {l},
            !.broken = @ \/ -l \in r.A]
EnqueueUndef(r, L, why) ==
  IF \E l \in L : l \notin r.A /\ -l \notin r.A
  THEN Enqueue(r, CHOOSE l \in L : TRUE, why) ELSE r

\* 1. No border has the same region on both sides.
BorderRule(k, A, r, e) ==
  LET u == k.edges[e][1]
      v == k.edges[e][2]
  IN IF r.stop \/ v \notin DecidedRegion(k, A, u) THEN r
     ELSE IF e \in Cut(k, A)
          THEN Fail(r, ConnectingPath(k, A, u, v) \cup {k.borders[e]}, TRUE)
     ELSE IF e \in Joined(k, A) THEN r
     ELSE Enqueue(r, -k.borders[e], ConnectingPath(k, A, u, v))

\* 2. A size is at least that of the decided region.
DecidedRule(k, A, r, v) ==
  LET R == DecidedRegion(k, A, v)
      n == Cardinality(R)
  IN IF r.stop \/ v \notin Sized(k) THEN r
     ELSE IF SizeUb(k, A, v) < n
          THEN Fail(r, WhyDecided(k, A, R) \cup AtMost(k, v, n - 1), AtMost(k, v, n - 1) \subseteq r.A)
     ELSE IF SizeLb(k, A, v) < n
          THEN EnqueueUndef(r, AtLeast(k, v, n), WhyDecided(k, A, R))
     ELSE r

\* Sizes in a decided region are equal: least_ub is the least upper bound, if
\* one is below the number of vertices, which it is not compared with else.
EqualRule(k, A, r, v) ==
  LET R     == DecidedRegion(k, A, v) \cap Sized(k)
      least == Min({SizeUb(k, A, u) : u \in R} \cup {Len(k.sizes)})
      pos   == {u \in R : SizeUb(k, A, u) = least /\ least < Len(k.sizes)}
      more  == AtLeast(k, v, least + 1)
  IN IF r.stop \/ v \notin Sized(k) \/ SizeLb(k, A, v) <= least THEN r
     ELSE IF pos = {} THEN Fail(r, {}, FALSE)
     ELSE Fail(r, ConnectingPath(k, A, Min(pos), v) \cup UbReason(k, A, Min(pos)) \cup more,
               more \subseteq r.A)

\* 3. A size is at most that of the potential region.
PotentialRule(k, A, r, v) ==
  LET R == PotentialRegion(k, A, v)
      n == Cardinality(R)
  IN IF r.stop \/ v \notin Sized(k) THEN r
     ELSE IF SizeLb(k, A, v) > n
          THEN Fail(r, WhyPotential(k, A, R) \cup AtLeast(k, v, n + 1), AtLeast(k, v, n + 1) \subseteq r.A)
     ELSE IF SizeUb(k, A, v) > n
          THEN EnqueueUndef(r, AtMost(k, v, n), WhyPotential(k, A, R))
     ELSE r

\* 3a. Vertices of a potential region whose sizes cannot be equal are in
\* different regions: chosen greedily by upper bound, they all have to fit.
Disjoint(k, A, R) ==
  LET cells == SetToSortSeq(R \cap Sized(k),
                 LAMBDA u, v : \/ SizeUb(k, A, u) < SizeUb(k, A, v)
                               \/ /\ SizeUb(k, A, u) = SizeUb(k, A, v)
                                  /\ \/ SizeLb(k, A, u) > SizeLb(k, A, v)
                                     \/ SizeLb(k, A, u) = SizeLb(k, A, v) /\ u < v)
      Take(q, v) == IF q.cur < SizeLb(k, A, v)
                    THEN [cur |-> SizeUb(k, A, v), took |-> q.took \cup {v}] ELSE q
  IN FoldLeft(Take, [cur |-> 0, took |-> {}], cells).took
PackingRule(k, A, r, R) ==
  LET D == Disjoint(k, A, R)
  IN IF r.stop \/ MapThenSumSet(LAMBDA u : SizeLb(k, A, u), D) <= Cardinality(R) THEN r
     ELSE Fail(r, WhyPotential(k, A, R)
                  \cup UNION {LbReason(k, A, u) \cup UbReason(k, A, u) : u \in D}, TRUE)

\* The order of the rules: edges as they are met from their lesser ends, the
\* regions by their least vertices.  (Within a region the code's order is
\* that of the search that computed it.)
EdgesInOrder(k) ==
  LET least(e) == Min(ToSet(k.edges[e]))
  IN SetToSortSeq(DOMAIN k.edges,
                  LAMBDA d, e : least(d) < least(e) \/ (least(d) = least(e) /\ d < e))
InOrder(R) == SetToSortSeq(R, <)
Regions(k, E) == SetToSortSeq({Region(k, E, v) : v \in Vertex(k)}, LAMBDA R, S : Min(R) < Min(S))

Check(k, A) ==
  LET Border(r, e)    == BorderRule(k, A, r, e)
      Decided(r, v)   == DecidedRule(k, A, r, v)
      Equal(r, v)     == EqualRule(k, A, r, v)
      Potential(r, v) == PotentialRule(k, A, r, v)
      Packing(r, R)   == PackingRule(k, A, r, R)
      potential == Regions(k, DOMAIN k.edges \ Cut(k, A))
      rule1 == FoldLeft(Border, Begin(A), EdgesInOrder(k))
      rule2 == FoldLeft(LAMBDA r, R : FoldLeft(Equal, FoldLeft(Decided, r, InOrder(R)), InOrder(R)),
                        rule1, Regions(k, Joined(k, A)))
      rule3 == FoldLeft(LAMBDA r, R : FoldLeft(Potential, r, InOrder(R)), rule2, potential)
  IN FoldLeft(Packing, rule3, potential)

\* reasons_prop_ keeps an entry until it is overwritten.  One for a literal
\* that is not true is overwritten before it is read, so it is dropped here.
Stored(prop, new, A) ==
  [l \in (DOMAIN prop \cap A) \cup DOMAIN new |-> IF l \in DOMAIN new THEN new[l] ELSE prop[l]]

Start(k) == [reasons |-> <<>>, prop |-> <<>>, broken |-> FALSE]

\* initialize: run_check (r), unless a least size is out of range (compared as
\* unsigned).
InRange(k) == \A v \in Sized(k) : k.sizes[v].values[1] \in 0..Len(k.sizes)
InitEnd(k, s, r) ==
  IF InRange(k)
  THEN [s |-> [s EXCEPT !.prop = r.prop, !.broken = r.broken], accepts |-> ~r.stop, wanted |-> r.wants]
  ELSE [s |-> s, accepts |-> FALSE, wanted |-> <<>>]

\* propagate: run_check (r), or, while calls are pending, an empty reason.
Propagate(s, A, r, late) ==
  IF late THEN [s |-> [s EXCEPT !.reasons = Append(@, {})], accepts |-> TRUE, wanted |-> <<>>]
  ELSE [s |-> [reasons |-> Append(s.reasons, r.why), prop |-> Stored(s.prop, r.prop, A),
               broken |-> s.broken \/ r.broken],
        accepts |-> ~r.stop, wanted |-> r.wants]
SkipsAssigned == FALSE

Reason(k, s, p, extra) ==
  (IF p = 0 THEN Last(s.reasons) ELSE s.prop[p]) \cup ({extra} \ {0})

Undone(k, s, p) == [s EXCEPT !.reasons = Front(@)]

\* A total assignment of the borders and sizes.
Holds(k, A) ==
  /\ \A e \in Cut(k, A) : k.edges[e][2] \notin DecidedRegion(k, A, k.edges[e][1])
  /\ \A v \in Sized(k) :
       /\ SizeLb(k, A, v) = Cardinality(DecidedRegion(k, A, v))
       /\ \A j \in DOMAIN k.sizes[v].lits :
            k.sizes[v].lits[j] \in A <=> k.sizes[v].values[j + 1] <= SizeLb(k, A, v)

\* reasons_ has an entry for each call not undone: at most one for each literal,
\* and none comes after that of a conflict.
InSync(k, s, K) ==
  /\ Len(s.reasons) <= Cardinality(K)
  /\ \A n \in DOMAIN s.reasons : s.reasons[n] # {} => n = Len(s.reasons)

\* The rules find a violation when all is decided, and no sooner.
Presumes(k, A) == \A l \in LitsOf(k) : l \in A \/ -l \in A
=============================================================================
