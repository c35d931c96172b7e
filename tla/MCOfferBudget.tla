---------------------------- MODULE MCOfferBudget ----------------------------
(* Two accounts: one with a play that backs two codes of two offers, the     *)
(* other with a play that backs a code of the first offer, whose cap covers  *)
(* one code.                                                                 *)
EXTENDS OfferBudget, TLC

MCOfferOf == (1 :> 12) @@ (2 :> 11) @@ (3 :> 11)
MCPlayOf == (1 :> 21) @@ (2 :> 21) @@ (3 :> 22)
MCUserOf == (1 :> 51) @@ (2 :> 51) @@ (3 :> 52) @@ (21 :> 51) @@ (22 :> 52)
              @@ (31 :> 51) @@ (32 :> 52)
MCFace == [o \in Offers |-> 1]
MCCap == [o \in Offers |-> 1]

Sessions == Permutations(Txs)
============================================================================
