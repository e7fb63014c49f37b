------------------------------ MODULE MCFeedback ------------------------------
(***************************************************************************)
(* Feedback on small instances.                                            *)
(***************************************************************************)
EXTENDS Feedback

Score(c, n) == [category |-> c, rating |-> n]

\* One category, two at once, and one category scored twice.
MCForms == {<<Score("manner", 1)>>,
            <<Score("driving", 5), Score("manner", 2)>>,
            <<Score("manner", 3), Score("manner", 1)>>}
=============================================================================
