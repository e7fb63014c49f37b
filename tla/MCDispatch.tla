------------------------------ MODULE MCDispatch ------------------------------
(***************************************************************************)
(* Dispatch on small instances.                                            *)
(***************************************************************************)
EXTENDS Dispatch, TLC

CONSTANTS s1, s2

\* One spot, or two, the nearer one first.
OneOrder == {<<s1>>, <<s1, s2>>}

\* One spot, or two in either order.
EitherOrder == OneOrder \cup {<<s2, s1>>}

Symmetry == Permutations(Sockets) \cup Permutations(Handlers)
=============================================================================
