--------------------------- MODULE MCDriveSession ---------------------------
(***************************************************************************)
(* DriveSession and its refinement on small instances: the .cfg files give *)
(* the constants their values.                                             *)
(***************************************************************************)
EXTENDS DriveSessionRefinement, TLC

\* Ids, sessions and slots are interchangeable: no definition names one of them. Used
\* in runs without liveness only.
Symmetry == Permutations(Sids) \cup Permutations(Handlers) \cup Permutations(Ids)

\* So are drivers who are no passengers.
DriverSymmetry == Symmetry \cup Permutations(Drivers \ Users)

\* Where every account is a passenger and a driver, the accounts are too.
AccountSymmetry == Symmetry \cup Permutations(Users \cap Drivers)
=============================================================================
