----------------------------- MODULE Connected -----------------------------
(***************************************************************************)
(* The constraint "the active vertices are connected": class               *)
(* ActiveVerticesConnected (constraints/Graph.cc).  Vertex v is active if  *)
(* lits[v] is true; adj[v] lists its neighbours, once for each edge.       *)
(* The depth-first search and the union-find are modelled by what they     *)
(* compute: the connected components of a set of vertices.                 *)
(***************************************************************************)
EXTENDS Integers, Sequences, FiniteSets

LOCAL INSTANCE SequencesExt
LOCAL INSTANCE FiniteSetsExt

AbsOf(l) == IF l < 0 THEN -l ELSE l

Make(lits, edges) ==
  LET ends(v, e) == (IF e[1] = v THEN <<e[2]>> ELSE <<>>)
                    \o (IF e[2] = v THEN <<e[1]>> ELSE <<>>)
  IN [kind |-> "Connected", lits |-> lits,
      adj |-> [v \in DOMAIN lits |->
                 FlattenSeq([i \in DOMAIN edges |-> ends(v, edges[i])])]]

Watches(k) == ToSet(k.lits) \cup {-l : l \in ToSet(k.lits)}

\* The components of the graph restricted to the vertices S.
Component(k, S, v) ==
  LET within[n \in 0..Len(k.lits)] ==
        IF n = 0 THEN {v}
        ELSE LET C == within[n - 1]
             IN C \cup {w \in S : \E u \in C : w \in ToSet(k.adj[u])}
  IN within[Len(k.lits)]
Components(k, S) == {Component(k, S, v) : v \in S}

\* initialize, before its calls of propagate: what is assigned already is
\* entered into state_ and decision_order_, but not counted.
Start(k, A) ==
  LET state == [v \in DOMAIN k.lits |-> IF k.lits[v] \in A THEN "active"
                                        ELSE IF -k.lits[v] \in A THEN "inactive"
                                        ELSE "undecided"]
  IN [state |-> state, n_active |-> 0,
      order |-> SetToSortSeq({v \in DOMAIN k.lits : state[v] # "undecided"}, <)]

Vertices(k, p) == {v \in DOMAIN k.lits : AbsOf(k.lits[v]) = AbsOf(p)}

\* propagate: the part that is never postponed.
Called(k, s, p) ==
  LET V == Vertices(k, p)
  IN [state |-> [v \in DOMAIN k.lits |-> IF v \notin V THEN s.state[v]
                                         ELSE IF k.lits[v] = p THEN "active"
                                         ELSE "inactive"],
      n_active |-> s.n_active + Cardinality({v \in V : k.lits[v] = p}),
      order |-> s.order \o SetToSortSeq(V, <)]

Active(s)     == {v \in DOMAIN s.state : s.state[v] = "active"}
NotInactive(s) == {v \in DOMAIN s.state : s.state[v] # "inactive"}
Clusters(k, s) == Components(k, NotInactive(s))
NonEmpty(k, s) == {C \in Clusters(k, s) : C \cap Active(s) # {}}

Accepts(k, s) == s.n_active = 0 \/ Cardinality(NonEmpty(k, s)) <= 1

\* The number of subtrees with active vertices that v would leave behind in
\* cluster C: one with the root of the search, and one for each neighbour of
\* v the search went on to from v, as often as adj[v] lists it.
SubgraphsWithout(k, s, C, v) ==
  LET parts    == {P \in Components(k, C \ {v}) : P \cap Active(s) # {}}
      first(P) == Min({i \in DOMAIN k.adj[v] : k.adj[v][i] \in P})
      times(P) == IF Min(C) \in P THEN 1
                  ELSE Cardinality({i \in DOMAIN k.adj[v] : k.adj[v][i] = k.adj[v][first(P)]})
  IN MapThenSumSet(times, parts)

\* Variant: one subtree is enough to make an articulation point.
LitForOne(k, s, v) ==
  LET C == CHOOSE D \in NonEmpty(k, s) : TRUE
  IN IF v \notin C THEN -k.lits[v]
     ELSE IF s.n_active > 1 /\ SubgraphsWithout(k, s, C, v) >= 1 THEN k.lits[v] ELSE 0

\* The literal an undecided vertex has to take, or 0.
LitFor(k, s, v) ==
  LET C == CHOOSE D \in NonEmpty(k, s) : TRUE
  IN IF v \notin C THEN -k.lits[v]
     ELSE IF s.n_active > 1 /\ SubgraphsWithout(k, s, C, v) >= 2 THEN k.lits[v] ELSE 0

Wanted(k, s) ==
  IF s.n_active = 0 \/ (s.n_active = 1 /\ Clusters(k, s) = NonEmpty(k, s)) THEN <<>>
  ELSE LET undecided == SetToSortSeq({v \in DOMAIN k.lits :
                            s.state[v] = "undecided" /\ LitFor(k, s, v) # 0}, <)
       IN [i \in DOMAIN undecided |-> LitFor(k, s, undecided[i])]

\* propagate(p).  While calls are pending (late) it goes no further.
Propagate(k, s, p, late) ==
  LET t == Called(k, s, p)
  IN IF late THEN [s |-> t, accepts |-> TRUE, wanted |-> <<>>]
     ELSE IF Accepts(k, t) THEN [s |-> t, accepts |-> TRUE, wanted |-> Wanted(k, t)]
     ELSE [s |-> t, accepts |-> FALSE, wanted |-> <<>>]
InitEnd(k, s) == [s |-> s, accepts |-> TRUE, wanted |-> <<>>]
SkipsAssigned == FALSE

(***************************************************************************)
(* calcReason supposes the negation of p, or takes the conflict as it is,  *)
(* which leaves two components with active vertices.  From the newest      *)
(* assignment back, it forgets each one without which there still are two; *)
(* the others are the reason.  count holds the active vertices, on those   *)
(* that may be passed.  An abort() is an empty reason.                     *)
(***************************************************************************)
NumActive(k, on, count) ==
  LET off == {{v} : v \in DOMAIN k.lits \ on}
  IN Cardinality({C \in Components(k, on) \cup off : MapThenSumSet(LAMBDA v : count[v], C) > 0})

\* The vertex whose literal could not be enqueued (conflict_cause_pos_).
CauseOf(k, s, extra) ==
  {v \in DOMAIN k.lits :
     /\ s.state[v] = "undecided" /\ LitFor(k, s, v) = -extra
     /\ \A w \in 1..(v - 1) : ~(s.state[w] = "undecided" /\ LitFor(k, s, w) = -extra)}

Reason(k, s, p, extra) ==
  LET cause == IF p = 0 /\ extra # 0 THEN CauseOf(k, s, extra) ELSE {}
      state == [v \in DOMAIN k.lits |-> IF v \notin cause THEN s.state[v]
                                        ELSE IF k.lits[v] = extra THEN "active" ELSE "inactive"]
      order == Reverse(s.order \o SetToSeq(cause))
      lit(v) == IF state[v] = "active" THEN k.lits[v] ELSE -k.lits[v]
      begin == [on    |-> {v \in DOMAIN k.lits : state[v] # "inactive" /\ (p = 0 \/ k.lits[v] # p)},
                count |-> [v \in DOMAIN k.lits |->
                             IF state[v] = "active" \/ (p # 0 /\ k.lits[v] = -p) THEN 1 ELSE 0],
                why   |-> {}]
      Forget(r, v) ==
        LET on    == r.on \cup {v}
            count == [r.count EXCEPT ![v] = IF state[v] = "active" THEN @ - 1 ELSE @]
        IN IF NumActive(k, on, count) >= 2 THEN [r EXCEPT !.on = on, !.count = count]
           ELSE [r EXCEPT !.why = @ \cup {lit(v)}]
  IN IF NumActive(k, begin.on, begin.count) <= 1 THEN {}
     ELSE FoldLeft(Forget, begin, order).why

\* Variant: only the state of the vertices is undone.
UndoneKeepsCount(k, s, p) ==
  [s EXCEPT !.state = [v \in DOMAIN k.lits |-> IF v \in Vertices(k, p) THEN "undecided" ELSE @[v]],
            !.order = SubSeq(@, 1, Len(@) - Cardinality(Vertices(k, p)))]

Undone(k, s, p) ==
  LET V == Vertices(k, p)
  IN [state |-> [v \in DOMAIN k.lits |-> IF v \in V THEN "undecided" ELSE s.state[v]],
      n_active |-> s.n_active - Cardinality(V \cap Active(s)),
      order |-> SubSeq(s.order, 1, Len(s.order) - Cardinality(V))]

Holds(k, A) ==
  LET active == {v \in DOMAIN k.lits : k.lits[v] \in A}
  IN Cardinality(Components(k, active)) <= 1

\* decision_order_ holds a vertex assigned before initialize twice.
InSync(k, s, K) ==
  /\ s.state = Start(k, K).state
  /\ s.n_active = Cardinality(Active(s))
  /\ ToSet(s.order) = {v \in DOMAIN k.lits : s.state[v] # "undecided"}
\* Literals are looked at one vertex at a time: if vertices share a variable,
\* no more is promised than to find a violation when all is decided.
Presumes(k, A) ==
  \/ \A v, w \in DOMAIN k.lits : AbsOf(k.lits[v]) = AbsOf(k.lits[w]) => v = w
  \/ \A l \in ToSet(k.lits) : l \in A \/ -l \in A
=============================================================================
