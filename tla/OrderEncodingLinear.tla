------------------------ MODULE OrderEncodingLinear ------------------------
(***************************************************************************)
(* The constraint "the terms and the constant sum to 0 or more"            *)
(* (constraints/OrderEncodingLinear.cc).  A term is a coefficient times an *)
(* integer x, which ranges over the increasing sequence domain; lits[j]    *)
(* stands for x >= domain[j + 1], so a term has one literal less than      *)
(* values.  Indices start at 1 here: ub[i] is the index of the largest     *)
(* value left to term i, total the sum of these values and the constant.   *)
(***************************************************************************)
EXTENDS Integers, Sequences

LOCAL INSTANCE SequencesExt
LOCAL INSTANCE FiniteSetsExt

\* LinearTerm::normalize: a negative coefficient turns the order round.
Normalize(t) ==
  LET turn == t.coef < 0
      lits == Reverse(t.lits)
      dom  == IF turn THEN Reverse(t.domain) ELSE t.domain
  IN [lits |-> IF turn THEN [j \in DOMAIN lits |-> -lits[j]] ELSE t.lits,
      domain |-> [j \in DOMAIN dom |-> dom[j] * t.coef]]

Make(terms, constant) ==
  [kind |-> "Linear", constant |-> constant,
   terms |-> [i \in DOMAIN terms |-> Normalize(terms[i])]]

LitsOf(k) == UNION {ToSet(k.terms[i].lits) : i \in DOMAIN k.terms}
ValueAt(k, ub) ==
  k.constant + MapThenSumSet(LAMBDA i : k.terms[i].domain[ub[i]], DOMAIN k.terms)

Watches(k) == {-l : l \in LitsOf(k)}
Start(k) ==
  LET ub == [i \in DOMAIN k.terms |-> Len(k.terms[i].domain)]
  IN [ub |-> ub, total |-> ValueAt(k, ub), undo |-> <<>>]

\* The entries of lits_ for literal l, in order: pairs of a term and a place.
Places(k, l) ==
  SetToSortSeq({ij \in UNION {{i} \X DOMAIN k.terms[i].lits : i \in DOMAIN k.terms} :
                  k.terms[ij[1]].lits[ij[2]] = l},
               LAMBDA a, b : a[1] < b[1] \/ (a[1] = b[1] /\ a[2] < b[2]))

\* propagate: the bounds of the terms that -p belongs to go down, until the
\* total is negative; undo_list_ keeps the old bounds behind a mark.
Lower(k, s, ij) ==
  LET i == ij[1]
      j == ij[2]
      d == k.terms[i].domain
  IN IF s.total < 0 \/ s.ub[i] <= j THEN s
     ELSE [ub |-> [s.ub EXCEPT ![i] = j],
           total |-> s.total - (d[s.ub[i]] - d[j]),
           undo |-> Append(s.undo, <<i, s.ub[i]>>)]
Called(k, s, p) ==
  FoldLeft(LAMBDA q, ij : Lower(k, q, ij),
           [s EXCEPT !.undo = Append(@, <<0, 0>>)], Places(k, -p))

\* A call returns false in the loop above, so only when it lowers a bound.
Accepts(k, s) == s.total >= 0 \/ Last(s.undo) = <<0, 0>>

\* For each term whose least value is too small: the literal that says that x
\* is more than the largest value that is.
TooSmall(k, s, i) ==
  LET d == k.terms[i].domain
  IN {j \in DOMAIN d : d[j] < d[s.ub[i]] - s.total}
Wanted(k, s) ==
  LET short == SetToSortSeq({i \in DOMAIN k.terms : s.ub[i] # 1 /\ TooSmall(k, s, i) # {}}, <)
  IN [n \in DOMAIN short |-> k.terms[short[n]].lits[Max(TooSmall(k, s, short[n]))]]

InitAccepts(k, s) == s.total >= 0
InitWanted(k, s)  == <<>>

\* propagate(p), and the last part of initialize: the state they leave, whether
\* they return true, and what they enqueue first.
Propagate(k, s, p) ==
  LET t == Called(k, s, p)
  IN IF Accepts(k, t) THEN [s |-> t, accepts |-> TRUE, wanted |-> Wanted(k, t)]
     ELSE [s |-> t, accepts |-> FALSE, wanted |-> <<>>]
InitEnd(k, s) ==
  IF InitAccepts(k, s) THEN [s |-> s, accepts |-> TRUE, wanted |-> InitWanted(k, s)]
  ELSE [s |-> s, accepts |-> FALSE, wanted |-> <<>>]
SkipsAssigned == FALSE

Reason(k, s, A, p, extra) ==
  {-k.terms[i].lits[s.ub[i]] :
     i \in {n \in DOMAIN k.terms : s.ub[n] < Len(k.terms[n].domain)}}
  \cup ({extra} \ {0})

\* Variant: total_ub_ is not raised with the bounds.
UndoneKeepsTotal(k, s, p) ==
  LET mark == SelectLastInSeq(s.undo, LAMBDA e : e = <<0, 0>>)
      Raise(q, e) == [q EXCEPT !.ub[e[1]] = e[2]]
  IN [FoldLeft(Raise, s, Reverse(SubSeq(s.undo, mark + 1, Len(s.undo))))
        EXCEPT !.undo = SubSeq(s.undo, 1, mark - 1)]

\* undo: every bound saved since the last mark goes back.
Undone(k, s, p) ==
  LET mark == SelectLastInSeq(s.undo, LAMBDA e : e = <<0, 0>>)
      Raise(q, e) ==
        LET d == k.terms[e[1]].domain
        IN [q EXCEPT !.ub[e[1]] = e[2], !.total = @ + d[e[2]] - d[q.ub[e[1]]]]
  IN [FoldLeft(Raise, s, Reverse(SubSeq(s.undo, mark + 1, Len(s.undo))))
        EXCEPT !.undo = SubSeq(s.undo, 1, mark - 1)]

\* The largest value of each term with the negated literals in K.
UbFor(k, K) ==
  [i \in DOMAIN k.terms |->
     Min({Len(k.terms[i].domain)}
         \cup {j \in DOMAIN k.terms[i].lits : -k.terms[i].lits[j] \in K})]
Holds(k, A) == ValueAt(k, UbFor(k, A)) >= 0

\* A call that returned false may have stopped before its last term.
InSync(k, s, K) ==
  /\ s.total >= 0 => s.ub = UbFor(k, K)
  /\ s.total = ValueAt(k, s.ub)

\* The clauses of the order encoding, x >= domain[j + 2] => x >= domain[j + 1],
\* are the user's: full propagation is promised once they have been applied.
Presumes(k, A) ==
  \A i \in DOMAIN k.terms : \A j \in 1..(Len(k.terms[i].lits) - 1) :
    LET lits == k.terms[i].lits
    IN (lits[j + 1] \in A => lits[j] \in A) /\ (-lits[j] \in A => -lits[j + 1] \in A)
=============================================================================
