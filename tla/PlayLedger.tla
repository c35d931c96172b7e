----------------------------- MODULE PlayLedger -----------------------------
(***************************************************************************)
(* What the outbox (apps/mobile/src/outbox) and the evidence intake        *)
(* (supabase/functions/_shared/evidence/handler.ts) promise a player about *)
(* the plays of this device, with nothing about passes, tokens, catalogs,  *)
(* sessions or lost requests: a play is recorded at most once, what the    *)
(* device tells about it is what the server keeps, and a play the device   *)
(* has given up on is never recorded behind the player's back.             *)
(***************************************************************************)
CONSTANT Items       \* the plays captured on one device

VARIABLES told,      \* told[i]: what the device shows for the play
          kept       \* kept[i]: what the server keeps of it

vars == <<told, kept>>

Tellings == {"open", "accepted", "queued", "dead"}
Keepings == {"none", "queued", "accepted", "rejected"}

Init == /\ told = [i \in Items |-> "open"]
        /\ kept = [i \in Items |-> "none"]

\* The server records plays: they count, or wait for course data.
Record(S) == /\ \A i \in S : kept[i] = "none" /\ told[i] = "open"
             /\ \E k \in [S -> {"queued", "accepted"}] :
                    kept' = [i \in Items |-> IF i \in S THEN k[i] ELSE kept[i]]
             /\ UNCHANGED told

\* Course data arrives for a waiting play, or its wait runs out.
Resolve(i) == /\ kept[i] = "queued"
              /\ kept' \in {[kept EXCEPT ![i] = k] : k \in {"accepted", "rejected"}}
              /\ UNCHANGED told

\* The device tells the player: what the server keeps, or kept a moment ago.
Tell(i, t) == /\ told[i] = "open"
              /\ \/ t = "accepted" /\ kept[i] = "accepted"
                 \/ t = "queued" /\ kept[i] # "none"
                 \/ t = "dead" /\ kept[i] \in {"none", "rejected"}
              /\ told' = [told EXCEPT ![i] = t]
              /\ UNCHANGED kept

Next == \/ \E S \in SUBSET Items : Record(S)
        \/ \E i \in Items : Resolve(i)
        \/ \E i \in Items, t \in Tellings : Tell(i, t)

Spec == Init /\ [][Next]_vars
=============================================================================
