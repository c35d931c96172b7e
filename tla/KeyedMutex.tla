----------------------------- MODULE KeyedMutex -----------------------------
(***************************************************************************)
(* The keyed async mutex with cooperative abort                            *)
(* (apps/mobile/src/attest/mutex.ts), for one key: the assertion lock of   *)
(* one (user, device).  A call is one `run(key, fn)`.  `fn` is any program *)
(* that follows the guard protocol the way redeemer.ts and activator.ts    *)
(* do; between two awaits JavaScript runs to completion, so resuming from  *)
(* one await and reaching the next (or settling) is one step.              *)
(*                                                                         *)
(* The promise `tail = prev.then(() => held)` is the set of calls whose    *)
(* `held` must resolve before it does: ahead[c] is that set for the        *)
(* promise `prev` the call c awaits.  A settled call may be forgotten, so  *)
(* that its name stands for a later one and the key is used for ever.      *)
(***************************************************************************)
EXTENDS Naturals

CONSTANTS Calls, NoCall

ASSUME NoCallAssumption == NoCall \notin Calls

VARIABLES tail,     \* the call whose promise is this.tails.get(key), or NoCall
          ahead,    \* ahead[c]: the calls `prev` of c waits for
          pc,       \* pc[c]: where the call is
          op,       \* op[c]: the await `fn` is suspended on
          inner,    \* inner[c]: the nested call `fn` awaits, or NoCall
          counted,  \* counted[c]: inFlight > 0
          aborted,  \* aborted[c]: the hold timer has fired
          released, \* released[c]: cleanup() ran, so `held` is resolved
          outcome   \* outcome[c]: what the promise run() returned settled with

vars == <<tail, ahead, pc, op, inner, counted, aborted, released, outcome>>

PCs == {"idle", "queued", "running", "over"}

\* "read": a secure-store read or an unguarded local write; "native": a native
\* call, made after check(); "effect": guard.effect; "settle": guard.settle;
\* "nested": a run() of the same key awaited from inside fn.
Ops == {"none", "read", "native", "effect", "settle", "nested"}

Outcomes == {"none", "value", "error", "timeout", "reentry"}

TypeOK == /\ tail \in Calls \cup {NoCall}
          /\ ahead \in [Calls -> SUBSET Calls]
          /\ pc \in [Calls -> PCs]
          /\ op \in [Calls -> Ops]
          /\ inner \in [Calls -> Calls \cup {NoCall}]
          /\ counted \in [Calls -> BOOLEAN]
          /\ aborted \in [Calls -> BOOLEAN]
          /\ released \in [Calls -> BOOLEAN]
          /\ outcome \in [Calls -> Outcomes]

Init == /\ tail = NoCall
        /\ ahead = [c \in Calls |-> {}]
        /\ pc = [c \in Calls |-> "idle"]
        /\ op = [c \in Calls |-> "none"]
        /\ inner = [c \in Calls |-> NoCall]
        /\ counted = [c \in Calls |-> FALSE]
        /\ aborted = [c \in Calls |-> FALSE]
        /\ released = [c \in Calls |-> FALSE]
        /\ outcome = [c \in Calls |-> "none"]

-----------------------------------------------------------------------------
(* Taking and giving back the lock.                                        *)

\* Mutant: no `?? Promise.resolve()`, the chain starts from a missing tail.
EnterWithoutDefault(c) ==
    /\ pc[c] = "idle"
    /\ pc' = [pc EXCEPT ![c] = "queued"]
    /\ ahead' = [ahead EXCEPT ![c] = {tail}]
    /\ tail' = c

\* The synchronous part of run(): chain behind the current tail, become it.
Enter(c) ==
    /\ pc[c] = "idle"
    /\ pc' = [pc EXCEPT ![c] = "queued"]
    /\ ahead' = [ahead EXCEPT ![c] = IF tail = NoCall THEN {}
                                     ELSE ahead[tail] \cup {tail}]
    /\ tail' = c

\* Mutant: cleanup() deletes the key whoever owns its tail.
SettleCallDeletesAnyTail(c, o) ==
    IF outcome[c] = "none"
    THEN /\ outcome' = [outcome EXCEPT ![c] = o]
         /\ released' = [released EXCEPT ![c] = TRUE]
         /\ tail' = NoCall
    ELSE UNCHANGED <<outcome, released, tail>>

\* cleanup() and finish(): the call's promise settles with o, once.  A call
\* that was abandoned has settled already: nothing it does later counts.
SettleCall(c, o) ==
    IF outcome[c] = "none"
    THEN /\ outcome' = [outcome EXCEPT ![c] = o]
         /\ released' = [released EXCEPT ![c] = TRUE]
         /\ tail' = IF tail = c THEN NoCall ELSE tail
    ELSE UNCHANGED <<outcome, released, tail>>

\* Mutant: the hold timer abandons the holder whatever is in flight.
AbandonAnyway(c, isAborted, isCounted) ==
    IF isAborted
    THEN SettleCall(c, "timeout")
    ELSE UNCHANGED <<outcome, released, tail>>

\* abandonIfIdle(): no request (or bounded write) in flight, and aborted.
AbandonIfIdle(c, isAborted, isCounted) ==
    IF isAborted /\ ~isCounted
    THEN SettleCall(c, "timeout")
    ELSE UNCHANGED <<outcome, released, tail>>

-----------------------------------------------------------------------------
(* What fn does between two awaits.                                        *)

\* fn suspends on the operation o.
Suspend(c, o) ==
    /\ op' = [op EXCEPT ![c] = o]
    /\ counted' = [counted EXCEPT ![c] = o \in {"effect", "settle"}]
    /\ pc' = [pc EXCEPT ![c] = "running"]

\* Mutant: the check before an effect is forgotten.
NoCheck(c) == TRUE

\* guard.check(), and the check effect() makes: an aborted holder goes no
\* further (it settles: FnSettles below).
Check(c) == ~aborted[c]

\* fn settles: returns its value, throws, or is stopped by check(), whose
\* LockAbortedError becomes a LockTimeoutError.
FnSettles(c) ==
    /\ pc' = [pc EXCEPT ![c] = "over"]
    /\ op' = [op EXCEPT ![c] = "none"]
    /\ counted' = [counted EXCEPT ![c] = FALSE]
    /\ \/ SettleCall(c, "value")
       \/ SettleCall(c, "error")
       \/ ~Check(c) /\ SettleCall(c, "timeout")

\* A nested run() of the same key that starts after an await: it queues like
\* any other call, and fn waits for it.
AwaitNested(c) == \E d \in Calls \ {c} :
    /\ Check(c)
    /\ pc[d] = "idle"
    /\ pc' = [pc EXCEPT ![c] = "running", ![d] = "queued"]
    /\ ahead' = [ahead EXCEPT ![d] = IF tail = NoCall THEN {}
                                     ELSE ahead[tail] \cup {tail}]
    /\ tail' = d
    /\ inner' = [inner EXCEPT ![c] = d]
    /\ op' = [op EXCEPT ![c] = "nested"]
    /\ counted' = [counted EXCEPT ![c] = FALSE]
    /\ UNCHANGED <<outcome, released>>

\* fn runs until its next await (a check() stands before a native call and
\* before an effect) or until it settles.
Resume(c) ==
    \/ /\ \/ Suspend(c, "read") /\ op[c] # "read"
          \/ Check(c) /\ Suspend(c, "native")
          \/ Check(c) /\ Suspend(c, "effect")
       /\ UNCHANGED <<outcome, released, tail, ahead>>
       /\ inner' = [inner EXCEPT ![c] = NoCall]
    \/ FnSettles(c) /\ inner' = [inner EXCEPT ![c] = NoCall] /\ UNCHANGED ahead

-----------------------------------------------------------------------------
(* The actions.                                                            *)

\* A flow calls run(key, fn).
Run(c) == /\ Enter(c)
          /\ UNCHANGED <<op, inner, counted, aborted, released, outcome>>

\* `await prev` is over: the hold timer starts and fn starts synchronously.
Acquire(c) == /\ pc[c] = "queued"
              /\ \A d \in ahead[c] : released[d]
              /\ Resume(c)
              /\ UNCHANGED aborted

\* The same, when the synchronous start of fn calls run() for its own key:
\* that inner call d is refused (`starting`), and fn fails with it.
AcquireReentrant(c, d) ==
    /\ pc[c] = "queued"
    /\ \A e \in ahead[c] : released[e]
    /\ c # d /\ pc[d] = "idle"
    /\ pc' = [pc EXCEPT ![c] = "over", ![d] = "over"]
    /\ outcome' = [outcome EXCEPT ![c] = "error", ![d] = "reentry"]
    /\ released' = [released EXCEPT ![c] = TRUE]
    /\ tail' = IF tail = c THEN NoCall ELSE tail
    /\ UNCHANGED <<ahead, op, inner, counted, aborted>>

\* A store read or a native call returns to fn (which an abandoned holder
\* still runs: only its next check() stops it).
StepDone(c) == /\ op[c] \in {"read", "native"}
               /\ Resume(c) \/ AwaitNested(c)
               /\ UNCHANGED aborted

\* A request's answer (or its HTTP timeout) returns to fn; the writes that
\* must follow it start in the same turn.
EffectDone(c) == /\ op[c] = "effect"
                 /\ \/ Resume(c)
                    \/ /\ Suspend(c, "settle")
                       /\ UNCHANGED <<outcome, released, tail, ahead, inner>>
                 /\ UNCHANGED aborted

\* A settle write returns; redeemer.ts follows some with a second one
\* (the record, then the registration backoff).
SettleDone(c) == /\ op[c] = "settle"
                 /\ \/ Resume(c)
                    \/ /\ Suspend(c, "settle")
                       /\ UNCHANGED <<outcome, released, tail, ahead, inner>>
                 /\ UNCHANGED aborted

\* The nested call fn awaits has settled.
NestedDone(c) == /\ op[c] = "nested"
                 /\ outcome[inner[c]] # "none"
                 /\ Resume(c)
                 /\ UNCHANGED aborted

\* The hold timer (cleared when the call settles).
HoldTimeout(c) == /\ pc[c] = "running"
                  /\ outcome[c] = "none"
                  /\ ~aborted[c]
                  /\ aborted' = [aborted EXCEPT ![c] = TRUE]
                  /\ AbandonIfIdle(c, TRUE, counted[c])
                  /\ UNCHANGED <<ahead, pc, op, inner, counted>>

\* Mutant: the bound uncounts the write and forgets abandonIfIdle().
SettleBoundOnlyUncounts(c) ==
    /\ op[c] = "settle"
    /\ counted[c]
    /\ counted' = [counted EXCEPT ![c] = FALSE]
    /\ UNCHANGED <<tail, ahead, pc, op, inner, aborted, released, outcome>>

\* The bound of a settle write: it stops counting as in flight.
SettleBound(c) == /\ op[c] = "settle"
                  /\ counted[c]
                  /\ counted' = [counted EXCEPT ![c] = FALSE]
                  /\ AbandonIfIdle(c, aborted[c], FALSE)
                  /\ UNCHANGED <<ahead, pc, op, inner, aborted>>

\* A call that is over is forgotten; its name stands for a later call.
Forget(c) == /\ pc[c] = "over"
             /\ \A d \in Calls : inner[d] # c
             /\ pc' = [pc EXCEPT ![c] = "idle"]
             /\ ahead' = [d \in Calls |-> IF d = c THEN {} ELSE ahead[d] \ {c}]
             /\ aborted' = [aborted EXCEPT ![c] = FALSE]
             /\ released' = [released EXCEPT ![c] = FALSE]
             /\ outcome' = [outcome EXCEPT ![c] = "none"]
             /\ UNCHANGED <<tail, op, inner, counted>>

Next == \E c \in Calls :
            \/ Run(c)
            \/ Acquire(c)
            \/ \E d \in Calls : AcquireReentrant(c, d)
            \/ StepDone(c)
            \/ EffectDone(c)
            \/ SettleDone(c)
            \/ NestedDone(c)
            \/ HoldTimeout(c)
            \/ SettleBound(c)
            \/ Forget(c)

Spec == Init /\ [][Next]_vars

\* The timers fire, microtasks run, and a request ends at the HTTP timeout.
\* A secure-store read is assumed to return; nothing is assumed of a native
\* call or of a settle write, either of which may hang for ever.
Fairness == \A c \in Calls :
                /\ WF_vars(Acquire(c))
                /\ WF_vars(EffectDone(c))
                /\ WF_vars(op[c] = "read" /\ StepDone(c))
                /\ WF_vars(NestedDone(c))
                /\ WF_vars(HoldTimeout(c))
                /\ WF_vars(SettleBound(c))

FairSpec == Spec /\ Fairness

-----------------------------------------------------------------------------
(* Properties.                                                             *)

Holds(c) == pc[c] = "running" /\ ~released[c]

\* At most one flow holds the lock: a holder the timeout abandoned no longer
\* does, and the next one starts only after that (run, cleanup).
OneHolder == \A c, d \in Calls : Holds(c) /\ Holds(d) => c = d

\* Neither timer releases the lock under a request or a bounded settle write:
\* while one is in flight the lock stays with the flow that started it
\* (abandonIfIdle and the inFlight count).
HeldUntilAnswered ==
    [][\A c \in Calls : counted[c] /\ counted'[c]
           => released'[c] = released[c]]_vars

\* The lock implements what it promises: assertion requests never overlap,
\* and a flow that has settled (timed out included) starts none.
Promise == INSTANCE AssertionLock
    WITH requesting <- {c \in Calls : op[c] = "effect"},
         ended <- {c \in Calls : outcome[c] # "none"}

SerializedRequests == Promise!Spec

\* Every flow that queues for the lock gets an outcome, whatever the holders
\* before it do: hang in a native call, hang in a store write, lose an answer,
\* or wait for a nested call of their own.
EveryCallSettles == \A c \in Calls : pc[c] = "queued" ~> outcome[c] # "none"
=============================================================================
