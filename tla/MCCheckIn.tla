----------------------------- MODULE MCCheckIn -----------------------------
(* Instances of CheckIn for TLC.                                           *)
EXTENDS CheckIn, TLC

\* Nothing tells two users, challenges, flows or courses apart.
AnySymmetry == Permutations(Users) \cup Permutations(Chals)
                   \cup Permutations(Flows) \cup Permutations(Courses)
=============================================================================
