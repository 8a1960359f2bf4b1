--------------------------- MODULE IncrementalSat ---------------------------
(***************************************************************************)
(* What core/Solver.h promises its users: a store of clauses and           *)
(* constraints that only grows, and a solve() that answers, for the        *)
(* assumptions it is given, with a model, with "unsatisfiable", or not.    *)
(* Module Solver implements it.                                            *)
(***************************************************************************)
CONSTANTS
  Total,       \* the total assignments, each the set of its true literals
  Meets(_, _)  \* Meets(A, c): assignment A satisfies constraint c

VARIABLES
  formula,     \* the clauses of the store, each a set of literals
  constraints, \* its constraints
  asked,       \* the assumptions of the last call of solve()
  busy,        \* is that call still running?
  answer, model, conflict

vars == <<formula, constraints, asked, busy, answer, model, conflict>>

Models == {A \in Total : /\ \A f \in formula : f \cap A # {}
                         /\ \A c \in constraints : Meets(A, c)}

Init ==
  /\ formula = {} /\ constraints = {} /\ asked = {} /\ busy = FALSE
  /\ answer = "none" /\ model = {} /\ conflict = {}

AddClause ==
  /\ ~busy
  /\ \E f \in formula' : f \subseteq UNION Total /\ formula' = formula \cup {f}
  /\ UNCHANGED <<constraints, asked, busy, answer, model, conflict>>

AddConstraint ==
  /\ ~busy
  /\ \E c \in constraints' : constraints' = constraints \cup {c}
  /\ UNCHANGED <<formula, asked, busy, answer, model, conflict>>

Ask ==
  /\ ~busy
  /\ asked' \subseteq UNION Total
  /\ busy' = TRUE /\ answer' = "none" /\ model' = {} /\ conflict' = {}
  /\ UNCHANGED <<formula, constraints>>

AnswerSat ==
  /\ busy /\ busy' = FALSE /\ answer' = "l_True"
  /\ model' \in {A \in Models : asked \subseteq A}
  /\ UNCHANGED <<formula, constraints, asked, conflict>>

\* The literals of conflict are a clause every model satisfies, and the
\* assumptions falsify it.
AnswerUnsat ==
  /\ busy /\ busy' = FALSE /\ answer' = "l_False"
  /\ \A A \in Models : ~ asked \subseteq A
  /\ \A A \in Models : conflict' \cap A # {}
  /\ UNCHANGED <<formula, constraints, asked, model>>

GiveUp ==
  /\ busy /\ busy' = FALSE /\ answer' = "l_Undef"
  /\ UNCHANGED <<formula, constraints, asked, model, conflict>>

\* solve() of a store already known to have no model.
AskInVain ==
  /\ ~busy /\ answer' = "l_False" /\ model' = {} /\ conflict' = {}
  /\ asked' \subseteq UNION Total
  /\ Models = {}
  /\ UNCHANGED <<formula, constraints, busy>>

Next == \/ AddClause \/ AddConstraint \/ Ask \/ AnswerSat \/ AnswerUnsat
        \/ GiveUp \/ AskInVain

Spec == Init /\ [][Next]_vars

\* Every call of solve() returns.
Answered == busy ~> ~busy
=============================================================================
