------------------------------- MODULE AtMost -------------------------------
(***************************************************************************)
(* The constraint "at most threshold of lits are true"                     *)
(* (constraints/AtMost.cc) as functions of its parameters k, its state s   *)
(* and the set A of true literals.  k.lits is in the order of lits_.       *)
(***************************************************************************)
EXTENDS Integers, Sequences, FiniteSets

\* The literals it watches, and n_true_ before initialize.
Watches(k) == {k.lits[i] : i \in DOMAIN k.lits}
Start(k)   == [n_true |-> 0]

\* propagate: the new state, whether it is acceptable, and the literals then
\* passed to enqueue.
Called(k, s, p)  == [s EXCEPT !.n_true = @ + 1]
Accepts(k, s)    == s.n_true <= k.threshold

\* Variant: the last literal the constraint allows does not close it.
WantedLate(k, s) ==
  IF s.n_true > k.threshold THEN [i \in DOMAIN k.lits |-> -k.lits[i]] ELSE <<>>

\* Variant: the one before it closes it already.
WantedEarly(k, s) ==
  IF s.n_true + 1 >= k.threshold THEN [i \in DOMAIN k.lits |-> -k.lits[i]] ELSE <<>>

Wanted(k, s) ==
  IF s.n_true = k.threshold THEN [i \in DOMAIN k.lits |-> -k.lits[i]] ELSE <<>>

\* The tail of initialize, after its calls of propagate.
InitAccepts(k, s) == Accepts(k, s)
InitWanted(k, s)  == Wanted(k, s)

\* propagate(p), and the last part of initialize: the state they leave, whether
\* they return true, and what they enqueue first.
Propagate(k, s, p) ==
  LET t == Called(k, s, p)
  IN IF Accepts(k, t) THEN [s |-> t, accepts |-> TRUE, wanted |-> Wanted(k, t)]
     ELSE [s |-> t, accepts |-> FALSE, wanted |-> <<>>]

\* initialize collects what is undefined before it enqueues anything: of a
\* literal and its negation the second enqueue fails.  (Then ok is false and
\* nobody reads the enqueue_failure it leaves.)
Failing(k, A) ==
  LET open == {i \in DOMAIN k.lits : k.lits[i] \notin A /\ -k.lits[i] \notin A}
  IN {i \in open : \E j \in open : j < i /\ k.lits[j] = -k.lits[i]}
InitEnd(k, s, A) ==
  LET wanted == InitWanted(k, s)
      n == CHOOSE i \in Failing(k, A) : \A j \in Failing(k, A) : i <= j
  IN CASE ~InitAccepts(k, s) -> [s |-> s, accepts |-> FALSE, wanted |-> <<>>]
       [] InitAccepts(k, s) /\ wanted # <<>> /\ Failing(k, A) # {} ->
            [s |-> s, accepts |-> FALSE, wanted |-> SubSeq(wanted, 1, n - 1)]
       [] OTHER -> [s |-> s, accepts |-> TRUE, wanted |-> wanted]

\* propagate looks whether a literal is undefined right before it enqueues its
\* negation, which then never fails.
SkipsAssigned == TRUE

Reason(k, s, A, p, extra) ==
  ({extra} \ {0}) \cup {l \in Watches(k) : l \in A /\ l # p}

Undone(k, s, p) == [s EXCEPT !.n_true = @ - 1]

\* The meaning of the constraint for a total assignment A.
Holds(k, A) == Cardinality(Watches(k) \cap A) <= k.threshold
\* What the state has to be once it knows the literals K.
InSync(k, s, K) == s.n_true = Cardinality(Watches(k) \cap K)
\* Full propagation presumes nothing of the other clauses.
Presumes(k, A)  == TRUE
=============================================================================
