--------------------------- MODULE AssertionLock ---------------------------
(***************************************************************************)
(* What the assertion lock of apps/mobile/src/attest/mutex.ts promises to  *)
(* the server, with nothing about how it is built: the requests that carry *)
(* an App Attest assertion (or register a key) never overlap, and a flow   *)
(* whose promise has settled has no request left and starts none.          *)
(***************************************************************************)
CONSTANT Calls        \* the flows that take the lock of one (user, device)

VARIABLES requesting, \* the calls with a request at the server right now
          ended       \* the calls whose promise has settled

vars == <<requesting, ended>>

Init == requesting = {} /\ ended = {}

\* A flow that is still alive sends a request, when no other one is out.
Begin(c) == /\ requesting = {}
            /\ c \notin ended
            /\ requesting' = {c}
            /\ UNCHANGED ended

\* The answer of the one request arrives; the flow may be over with it.
Answer(c) == /\ requesting = {c}
             /\ requesting' = {}
             /\ ended' \in {ended, ended \cup {c}}

\* Flows that have no request out end (with a value, an error, a timeout).
End(S) == /\ S \cap requesting = {}
          /\ ended' = ended \cup S
          /\ UNCHANGED requesting

\* An ended flow is forgotten: the same name stands for a later flow.
Forget(c) == /\ c \in ended
             /\ c \notin requesting
             /\ ended' = ended \ {c}
             /\ UNCHANGED requesting

Next == \/ \E c \in Calls : Begin(c) \/ Answer(c) \/ Forget(c)
        \/ \E S \in SUBSET Calls : End(S)

Spec == Init /\ [][Next]_vars
=============================================================================
