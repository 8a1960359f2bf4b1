------------------------------ MODULE MCEngine ------------------------------
(* Small instances of ConstraintEngine for TLC. *)
EXTENDS ConstraintEngine

\* An AtMost and an Xor that share two variables, one of them negated.
AtMostAndXor == <<[kind |-> "AtMost", lits |-> <<1, -2, 3>>, threshold |-> 1],
                  XR!Make(<<1, -2, 3>>, 0)>>

\* 2x - y + z - 2 >= 0 with x, y in 0..1 and z in {0, 1, 3} (order encoded by
\* literals 3 and 4), and the pairs (y, u) allowed by a table with a wildcard.
LinearAndDirect ==
  <<OL!Make(<<[lits |-> <<1>>, domain |-> <<0, 1>>, coef |-> 2],
              [lits |-> <<2>>, domain |-> <<0, 1>>, coef |-> -1],
              [lits |-> <<3, 4>>, domain |-> <<0, 1, 3>>, coef |-> 1]>>, -2),
    DE!Make(<<<<2, -2>>, <<1, 3, -4>>>>, <<<<1, 2>>, <<2, 1>>, <<0, 3>>>>)>>

Small == AtMostAndXor \o LinearAndDirect
MCWatchSmall == [c \in DOMAIN Small |-> WatchesOf(Small[c])]

\* An Xor and an AtMost, for literals that become true twice.
MCWatchAtMostAndXor == [c \in DOMAIN AtMostAndXor |-> WatchesOf(AtMostAndXor[c])]

\* A star in which two leaves have complementary literals; a path; and a
\* triangle with sizes for two of its vertices, all over the same variables.
Graphs ==
  <<AV!Make(<<1, 2, 3, -3>>, <<<<1, 2>>, <<2, 3>>, <<2, 4>>>>),
    AV!Make(<<1, 2, -3>>, <<<<1, 2>>, <<2, 3>>>>),
    GD!Make(<<[lits |-> <<>>, values |-> <<>>],
              [lits |-> <<1>>, values |-> <<2, 3>>],
              [lits |-> <<-2>>, values |-> <<1, 2>>]>>,
            <<<<1, 2>>, <<2, 3>>, <<1, 3>>>>, <<1, 2, -3>>)>>
MCWatchGraphs == [c \in DOMAIN Graphs |-> WatchesOf(Graphs[c])]

\* Two edges between the first two vertices of a path.
DuplicateEdges == <<AV!Make(<<1, 2, 3>>, <<<<1, 2>>, <<2, 1>>, <<2, 3>>>>)>>
MCWatchDuplicateEdges == [c \in {1} |-> WatchesOf(DuplicateEdges[c])]

\* Two vertices, and a size that is 1, or 3 if its literal is true.
OutOfRange == <<GD!Make(<<[lits |-> <<1>>, values |-> <<1, 3>>],
                          [lits |-> <<>>, values |-> <<>>]>>, <<<<1, 2>>>>, <<2>>)>>
MCWatchOutOfRange == [c \in {1} |-> WatchesOf(OutOfRange[c])]
=============================================================================
