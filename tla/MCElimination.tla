--------------------------- MODULE MCElimination ---------------------------
(* Small instances of Elimination for TLC: options and sequences of calls. *)
EXTENDS Elimination

clause(lits) == [op |-> "clause", lits |-> lits]
freeze(x, b) == [op |-> "freeze", x |-> x, b |-> b]
eliminateAll(off) == [op |-> "eliminate", off |-> off]
solve(assumed) == [op |-> "solve", assumptions |-> assumed, simp |-> TRUE, off |-> FALSE]
solveOff(assumed) == [op |-> "solve", assumptions |-> assumed, simp |-> TRUE, off |-> TRUE]
solvePlain(assumed) == [op |-> "solve", assumptions |-> assumed, simp |-> FALSE, off |-> FALSE]

Default == [use_asymm |-> FALSE, use_rcheck |-> FALSE, use_elim |-> TRUE,
            grow |-> 0, clause_lim |-> -1, subsumption_lim |-> -1]
Asymmetric == [Default EXCEPT !.use_asymm = TRUE]
Checked == [Default EXCEPT !.use_rcheck = TRUE, !.use_elim = FALSE]
Limited == [Default EXCEPT !.clause_lim = 2, !.subsumption_lim = 3, !.grow = -1]

Session(o, s) == [options |-> o, script |-> s]

\* Variables 1 and 2 differ, 2 and 3 differ, 4 follows from 1 and 3.
Chain == <<clause(<<1, 2>>), clause(<<-1, -2>>), clause(<<2, 3>>), clause(<<-2, -3>>),
           clause(<<-1, -3, 4>>)>>
\* Clauses that subsume and shorten one another, down to units.
Nested == <<clause(<<1, 2, 3>>), clause(<<1, -2, 3>>), clause(<<-1, 4>>), clause(<<1, 3, 4>>),
            clause(<<-3, -4, 2>>), clause(<<-4, -2>>)>>
\* Two groups of clauses over three variables with long resolvents.
Wide == <<clause(<<1, 2, 3>>), clause(<<1, -2, 4>>), clause(<<-1, 3, -4>>), clause(<<-1, 2, -3>>),
          clause(<<2, 3, -4>>)>>
\* Literals that only asymmetric branching removes.
Branching == <<clause(<<1, 2, 3>>), clause(<<-2, 4>>), clause(<<-4, 1>>), clause(<<-3, -4, 2>>)>>
\* The third clause shortens the first one, which then subsumes the second.
Delayed == <<clause(<<1, 2, 3>>), clause(<<2, 3, 4>>), clause(<<-1, 2>>)>>
\* No solution: each two of three variables differ.
Odd == <<clause(<<1, 2>>), clause(<<-1, -2>>), clause(<<2, 3>>), clause(<<-2, -3>>),
         clause(<<1, 3>>), clause(<<-1, -3>>)>>

Formulas == {Chain, Nested, Wide, Branching, Delayed, Odd}
\* The first one is what simp/Main.cc does.
Endings ==
  { <<eliminateAll(TRUE), solve(<<>>)>>,
    <<solve(<<-1>>), clause(<<-3, 4>>), clause(<<1, 3>>), solve(<<-4>>)>>,
    <<freeze(2, TRUE), freeze(3, TRUE), solve(<<3>>), clause(<<-2, -3>>), freeze(2, FALSE),
      solveOff(<<>>), clause(<<3>>), solve(<<>>)>>,
    <<solvePlain(<<4>>), eliminateAll(FALSE), solvePlain(<<2>>)>> }

MCSessions ==
  {Session(o, f \o e) : o \in {Default, Asymmetric, Checked, Limited}, f \in Formulas, e \in Endings}

\* Implied clauses are looked for while variables are eliminated.
RcheckSessions == {Session([Default EXCEPT !.use_rcheck = TRUE], Odd \o <<solve(<<>>)>>)}
=============================================================================
