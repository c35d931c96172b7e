----------------------------- MODULE MCRescore -----------------------------
(* Instances of Rescore for TLC: every play at the one course.             *)
EXTENDS Rescore

MCOneCourse == [p \in Plays |-> 1]
=============================================================================
