--------------------------- MODULE MCMultiSolvers ---------------------------
(* Small instances of MultiSolvers for TLC. *)
EXTENDS MultiSolvers

\* Thread 0 shares clauses of two literals, thread 1 of four.  With a header of
\* three words, two of the second are one word too much for a ring of 14, and a
\* third clause wraps inside its literals after two of the first, inside its
\* header after one of each.
MCLemmas == [t \in Thread |-> CASE t = 0 -> {<<-1, 2>>} [] t = 1 -> {<<1, -2, 3, 4>>}
                               [] OTHER -> {}]

\* Clauses are shared and nobody finishes.
Sharing == [removeolder |-> FALSE, satisfiable |-> TRUE, simplify |-> FALSE,
            answers |-> FALSE, units |-> {}, lemmas |-> MCLemmas, exports |-> 3]
Forgetting == [Sharing EXCEPT !.removeolder = TRUE]
\* Threads prove a literal and its negation.
Contradicting == [Sharing EXCEPT !.satisfiable = FALSE, !.units = {1, -1}, !.exports = 2,
                                 !.lemmas = [t \in Thread |-> {}]]
\* Answers come at any moment.
Answering == [Sharing EXCEPT !.answers = TRUE, !.exports = 0]
Refuting == [Answering EXCEPT !.satisfiable = FALSE, !.simplify = TRUE]
MCSetups == {Sharing, Forgetting, Contradicting, Answering, Refuting}

\* One thread that searches.
AloneSetups == {[Refuting EXCEPT !.simplify = FALSE]}
=============================================================================
