------------------------------ MODULE MCTrail ------------------------------
(* Small instance of Trail for TLC. *)
EXTENDS Trail

\* Two constraints that share one literal and watch one variable each in both
\* polarities, so that a conflict can leave one of them half informed.
MCWatch == <<{1, -1, 2}, {2, 3, -3}>>
=============================================================================
