---------------------- MODULE DirectEncodingExtension ----------------------
(***************************************************************************)
(* The constraint "the integers vars[1], vars[2], ... take the values of   *)
(* one of the rows of supports" (constraints/DirectEncodingExtension.cc).  *)
(* vars[i][j] is the literal for "integer i has value j"; in a row, 0      *)
(* stands for any value, and known[i] = 0 for a value not known yet        *)
(* (the code, which counts from 0, writes -1 for both).                    *)
(***************************************************************************)
EXTENDS Integers, Sequences

LOCAL INSTANCE SequencesExt

Make(vars, supports) == [kind |-> "Direct", vars |-> vars, supports |-> supports]

Watches(k) == UNION {ToSet(k.vars[i]) : i \in DOMAIN k.vars}
Start(k) == [known |-> [i \in DOMAIN k.vars |-> 0], undo |-> <<>>,
             active |-> <<>>, clash |-> FALSE]

\* The entries of lits_ for literal l, in order: pairs of an integer and a value.
Places(k, l) ==
  SetToSortSeq({ij \in UNION {{i} \X DOMAIN k.vars[i] : i \in DOMAIN k.vars} :
                  k.vars[ij[1]][ij[2]] = l},
               LAMBDA a, b : a[1] < b[1] \/ (a[1] = b[1] /\ a[2] < b[2]))

\* propagate: integer ij[1] becomes known, unless it is; a second value for
\* it makes propagate return false at once.
Learned(s, ij) ==
  CASE s.clash \/ s.known[ij[1]] = ij[2] -> s
    [] s.known[ij[1]] = 0 -> [s EXCEPT !.known[ij[1]] = ij[2],
                                       !.undo = Append(@, ij[1])]
    [] OTHER -> [s EXCEPT !.clash = TRUE]
Called(k, s, p) ==
  FoldLeft(Learned, [s EXCEPT !.undo = Append(@, 0), !.active = Append(@, p),
                              !.clash = FALSE], Places(k, p))

\* The rows that fit the known values.
Matching(k, known) ==
  {row \in ToSet(k.supports) :
     \A i \in DOMAIN k.vars : row[i] = known[i] \/ row[i] = 0 \/ known[i] = 0}
Accepts(k, s) == ~s.clash /\ Matching(k, s.known) # {}

\* The values without a matching row, unless a matching row allows any value.
Wanted(k, s) ==
  LET rows(i) == {row[i] : row \in Matching(k, s.known)}
      dead(i) == IF 0 \in rows(i) THEN <<>>
                 ELSE SelectSeq([j \in DOMAIN k.vars[i] |-> j], LAMBDA j : j \notin rows(i))
  IN FlattenSeq([i \in DOMAIN k.vars |->
                   [n \in DOMAIN dead(i) |-> -k.vars[i][dead(i)[n]]]])

InitAccepts(k, s) == k.supports = <<>> => k.vars = <<>>
InitWanted(k, s)  == <<>>

\* propagate(p), and the last part of initialize: the state they leave, whether
\* they return true, and what they enqueue first.
Propagate(k, s, p) ==
  LET t == Called(k, s, p)
  IN IF Accepts(k, t) THEN [s |-> t, accepts |-> TRUE, wanted |-> Wanted(k, t)]
     ELSE [s |-> t, accepts |-> FALSE, wanted |-> <<>>]
InitEnd(k, s) ==
  IF InitAccepts(k, s) THEN [s |-> s, accepts |-> TRUE, wanted |-> InitWanted(k, s)]
  ELSE [s |-> s, accepts |-> FALSE, wanted |-> <<>>]
SkipsAssigned == FALSE

\* Variant: the literal it was last called with is left out.
ReasonWithoutLast(k, s, A, p, extra) ==
  ToSet(SubSeq(s.active, 1, Len(s.active) - 1)) \cup ({extra} \ {0})

Reason(k, s, A, p, extra) == ToSet(s.active) \cup ({extra} \ {0})

\* undo: the integers learned since the last mark are unknown again.
Undone(k, s, p) ==
  LET mark == SelectLastInSeq(s.undo, LAMBDA e : e = 0)
      gone == ToSet(SubSeq(s.undo, mark + 1, Len(s.undo)))
  IN [known |-> [i \in DOMAIN k.vars |-> IF i \in gone THEN 0 ELSE s.known[i]],
      undo |-> SubSeq(s.undo, 1, mark - 1),
      active |-> Front(s.active), clash |-> FALSE]

\* The constraint says: no integer has two values, and some row allows those
\* that have one.  (That each has one is left to the user's clauses.)
ValuesIn(k, i, A) == {j \in DOMAIN k.vars[i] : k.vars[i][j] \in A}
Holds(k, A) ==
  /\ \A i \in DOMAIN k.vars : \A j1, j2 \in ValuesIn(k, i, A) : j1 = j2
  /\ \E row \in ToSet(k.supports) : \A i \in DOMAIN k.vars :
       row[i] = 0 \/ ValuesIn(k, i, A) \subseteq {row[i]}

\* A call that returned false may have stopped before its last integer.
InSync(k, s, K) ==
  s.clash \/ /\ \A i \in DOMAIN k.vars :
                  ValuesIn(k, i, K) = IF s.known[i] = 0 THEN {} ELSE {s.known[i]}
             /\ ToSet(s.active) = K \cap Watches(k)

\* Nothing is enqueued before the first literal is true, and that an integer
\* has one value only is left to the user's clauses.
Presumes(k, A) ==
  /\ Watches(k) \cap A # {}
  /\ \A i \in DOMAIN k.vars : \A j1 \in ValuesIn(k, i, A), j2 \in DOMAIN k.vars[i] :
       j1 # j2 => -k.vars[i][j2] \in A
=============================================================================
