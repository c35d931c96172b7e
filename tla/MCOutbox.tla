------------------------------ MODULE MCOutbox ------------------------------
(* Instances of Outbox for TLC: who plays what.                            *)
EXTENDS Outbox, TLC

CONSTANTS u1, u2, play, other, old, older

\* One account with one play; two imports of one account, sent in one batch,
\* beside a play of another account.
OnePlay == (play :> u1)
TwoImportsAndOther == (old :> u1) @@ (older :> u1) @@ (other :> u2)
=============================================================================
