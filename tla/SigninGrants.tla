---------------------------- MODULE SigninGrants ----------------------------
(***************************************************************************)
(* Sign in with Apple on the server: linking and unlinking methods,        *)
(* deleting the account, and the durable queue from which grants are       *)
(* revoked at Apple (signin/methods-handler.ts, signin/revocation.ts,      *)
(* me/delete-orchestrator.ts, migration 0035).  One account.               *)
(*                                                                         *)
(* A grant is a refresh token that is live at Apple from the moment an     *)
(* authorization code is exchanged.  Each link request obtains a grant of  *)
(* its own, so a grant is named by its request.  link, unlink and the      *)
(* deletion each change the account in one transaction under a             *)
(* per-account advisory lock: what the transaction reads under the lock    *)
(* and what it commits are two steps here.  Calls to Apple happen with no  *)
(* transaction open.                                                       *)
(*                                                                         *)
(* Ages and waits are relative and saturate, so time needs no bound: a     *)
(* Tick is any amount of time that matters to a deadline.                  *)
(***************************************************************************)
EXTENDS Naturals, FiniteSets

CONSTANTS
    Links, Unlinks, Deletes,  \* requests; each is made at most once
    ProviderOf,               \* the method an unlink request names
    Old,                      \* the grant of an earlier link
    Drain,                    \* the scheduled signin-revocation-drain
    None,
    Ttl,                      \* the 72 hours of a queue row
    Lease, Backoff,           \* REVOCATION_LEASE_SECONDS, backoffSeconds
    MaxFaults                 \* bound on rare failures: see Fault

Grants == Links \cup {Old}
Requests == Unlinks \cup Deletes
Runners == Requests \cup {Drain}
Methods == {"email", "apple"}

ASSUME RequestAssumption == /\ Links \cap Requests = {} /\ Unlinks \cap Deletes = {}
                            /\ Drain \notin Links \cup Requests
                            /\ {Old, None} \cap (Links \cup Requests \cup {Drain}) = {}
                            /\ Old # None
                            /\ ProviderOf \in [Unlinks -> Methods]
ASSUME TimeAssumption == Ttl \in Nat \ {0} /\ {Lease, Backoff} \subseteq 1..Ttl
                         /\ MaxFaults \in Nat

VARIABLES
    authUser,   \* the row of auth.users exists
    wiped,      \* a deletion has committed
    methods,    \* auth.identities of the account, by provider
    stored,     \* app.signin_provider_token: the grant it holds
    live,       \* the grants live at Apple
    queue,      \* private.signin_revocation_queue, by the token's fingerprint
    lock,       \* holder of the advisory lock signin:<uid>
    link, req,  \* where each request is, and its locals
    job,        \* the claimed rows each run is working
    owed,       \* history: grants stored before a deletion had committed
    faults      \* how many rare failures have happened

vars == <<authUser, wiped, methods, stored, live, queue, lock, link, req, job, owed, faults>>
account == <<authUser, wiped, methods, stored>>

NewRow == [st |-> "pending", age |-> 0, wait |-> 0]
\* A finished row keeps nothing of its attempts.
Finished(st) == [st |-> st, age |-> 0, wait |-> 0]
NewRequest == [pc |-> "idle", ids |-> {}, late |-> {}, seen |-> {},
               may |-> FALSE, said |-> {}]

Held == {stored} \ {None}

Row == [st : {"none", "pending", "revoked", "expired"}, age : 0..Ttl, wait : 0..Ttl]
RequestStep == {"idle", "claim", "run", "locked", "claim2", "run2", "auth", "done"}
RequestState == [pc : RequestStep, ids : SUBSET Grants, late : SUBSET Grants,
                 seen : SUBSET Grants, may : BOOLEAN, said : SUBSET Grants]

TypeOK == /\ authUser \in BOOLEAN /\ wiped \in BOOLEAN /\ methods \in SUBSET Methods
          /\ stored \in Grants \cup {None}
          /\ live \in SUBSET Grants /\ owed \in SUBSET Grants
          /\ queue \in [Grants -> Row]
          /\ lock \in Links \cup Requests \cup {None}
          /\ link \in [Links -> {"idle", "granted", "writing", "cleanup", "done"}]
          /\ req \in [Requests -> RequestState]
          /\ job \in [Runners -> [Grants -> {"none", "call", "ok", "failed"}]]
          /\ stored # None => "apple" \in methods
          /\ faults \in 0..MaxFaults

NoRow == Finished("none")
Answered == [NewRequest EXCEPT !.pc = "done"]

Init == /\ authUser = TRUE /\ wiped = FALSE
        /\ methods \in (SUBSET Methods) \ {{}}
        /\ stored \in {None} \cup (IF "apple" \in methods THEN {Old} ELSE {})
        /\ live = Held /\ owed = Held
        /\ queue = [g \in Grants |-> NoRow]
        /\ lock = None
        /\ link = [l \in Links |-> "idle"]
        /\ req = [f \in Requests |-> NewRequest]
        /\ job = [r \in Runners |-> [g \in Grants |-> "none"]]
        /\ faults = 0

-----------------------------------------------------------------------------
(* private.signin_enqueue_internal: ON CONFLICT (provider, fingerprint) DO *)
(* NOTHING, and the ids it returns are those of the pending rows.          *)

Enqueued(gs) == [g \in Grants |-> IF g \in gs /\ queue[g].st = "none" THEN NewRow ELSE queue[g]]
PendingOf(gs) == {g \in gs : queue[g].st \in {"none", "pending"}}

(* The rare failures a run allows MaxFaults of: a commit answered as a     *)
(* failure, a transaction that fails, a claim or the bookkeeping that      *)
(* fails, an answer of Apple that is lost, a run or a request that dies.   *)
(* Apple being down is not one of them.                                    *)
Fault == faults < MaxFaults /\ faults' = faults + 1

Free == lock = None
Take(f) == lock' = f
Release == lock' = None

-----------------------------------------------------------------------------
(* handleLinkProvider, for the caller's own account                        *)

(* The code is exchanged: from here the grant is live.                     *)
Exchange(l) ==
    /\ link[l] = "idle"
    /\ live' = live \cup {l}
    /\ link' = [link EXCEPT ![l] = "granted"]
    /\ UNCHANGED <<account, queue, lock, req, job, owed, faults>>

\* Mutant: the lock is not taken (the code before gate F6).
LinkTakeUnlocked(l) ==
    /\ link[l] = "granted"
    /\ link' = [link EXCEPT ![l] = "writing"]
    /\ UNCHANGED <<account, live, queue, lock, req, job, owed, faults>>

(* The transaction has the lock (signin_link_identity).                    *)
LinkTake(l) ==
    /\ link[l] = "granted" /\ Free
    /\ Take(l) /\ link' = [link EXCEPT ![l] = "writing"]
    /\ UNCHANGED <<account, live, queue, req, job, owed, faults>>

(* linkIdentity and storeToken commit together; a replaced token is        *)
(* queued.  The commit may be answered as a failure.                       *)
LinkCommit(l) ==
    /\ link[l] = "writing" /\ authUser
    /\ methods' = methods \cup {"apple"}
    /\ queue' = Enqueued(Held) /\ stored' = l
    /\ owed' = IF wiped THEN owed ELSE owed \cup {l}
    /\ \/ link' = [link EXCEPT ![l] = "done"] /\ UNCHANGED faults
       \/ link' = [link EXCEPT ![l] = "cleanup"] /\ Fault
    /\ Release
    /\ UNCHANGED <<authUser, wiped, live, req, job>>

\* Mutant: a lock of the session, which a rollback does not release.
LinkFailsHoldingLock(l) ==
    /\ link[l] \in {"granted", "writing"}
    /\ IF authUser THEN Fault ELSE UNCHANGED faults
    /\ link' = [link EXCEPT ![l] = "cleanup"]
    /\ UNCHANGED <<account, live, queue, lock, req, job, owed>>

(* No KEK, an identity conflict, a timeout, no such user: nothing is       *)
(* written and the grant is to be given back.                              *)
LinkFails(l) ==
    /\ link[l] \in {"granted", "writing"}
    /\ IF authUser THEN Fault ELSE UNCHANGED faults
    /\ link' = [link EXCEPT ![l] = "cleanup"]
    /\ lock' = IF lock = l THEN None ELSE lock
    /\ UNCHANGED <<account, live, queue, req, job, owed>>

(* bestEffortRevoke: a failure is only logged.                             *)
LinkCleanup(l) ==
    /\ link[l] = "cleanup"
    /\ live' \in {live, live \ {l}}
    /\ link' = [link EXCEPT ![l] = "done"]
    /\ UNCHANGED <<account, queue, lock, req, job, owed, faults>>

-----------------------------------------------------------------------------
(* Runs over the queue (runRevocations)                                    *)

Jobs(r) == {g \in Grants : job[r][g] # "none"}
\* Mutant: no row is ever too old.
ExpireNever == {}

Expire == {g \in Grants : queue[g].st = "pending" /\ queue[g].age = Ttl}
Due(ids) == {g \in ids : queue[g].st = "pending" /\ queue[g].age < Ttl /\ queue[g].wait = 0}

(* private.claim_signin_revocations: expire what is 72 h old, then lease   *)
(* the due rows by pushing their next attempt.                             *)
Claim(r, ids) ==
    /\ queue' = [g \in Grants |->
                    IF g \in Expire THEN Finished("expired")
                    ELSE IF g \in Due(ids) THEN [queue[g] EXCEPT !.wait = Lease]
                    ELSE queue[g]]
    /\ job' = [job EXCEPT ![r] = [g \in Grants |-> IF g \in Due(ids) THEN "call" ELSE "none"]]

(* The call to Apple.  A failure may have revoked the grant all the same;  *)
(* a grant already revoked answers as a success.                           *)
Call(r, g) ==
    /\ job[r][g] = "call"
    /\ \E answer \in {"ok", "failed"} : job' = [job EXCEPT ![r][g] = answer]
    /\ \/ job'[r][g] = "ok" /\ live' = live \ {g} /\ UNCHANGED faults
       \/ job'[r][g] = "failed" /\ UNCHANGED <<live, faults>>
       \/ job'[r][g] = "failed" /\ live' = live \ {g} /\ Fault
    /\ UNCHANGED <<account, queue, lock, link, req, owed>>

(* The status complete_signin_revocation leaves the row in: a row that is  *)
(* finished keeps its status.                                              *)
Completed(row, ok) ==
    IF row.st # "pending" THEN row
    ELSE IF ok THEN Finished("revoked")
    ELSE [row EXCEPT !.wait = Backoff]

\* Mutant: an attempt that was recorded is taken for a revocation.
ReportsRecorded(row, ok) == TRUE

(* The outcome a run reports for a row (revocation.ts:91-98).              *)
ReportsRevoked(row, ok) == ok \/ row.st = "revoked"

Say(r, gs) == IF r \in Requests THEN [req EXCEPT ![r].said = @ \cup gs] ELSE req

Complete(r, g) ==
    /\ job[r][g] \in {"ok", "failed"}
    /\ LET ok == job[r][g] = "ok" IN
       \/ /\ queue' = [queue EXCEPT ![g] = Completed(@, ok)]
          /\ req' = Say(r, IF ReportsRevoked(queue[g], ok) THEN {g} ELSE {})
          /\ UNCHANGED faults
       \/ UNCHANGED <<queue, req>> /\ Fault     \* reported as queued for retry
    /\ job' = [job EXCEPT ![r][g] = "none"]
    /\ UNCHANGED <<account, live, lock, link, owed>>

DrainClaim ==
    /\ Jobs(Drain) = {} /\ Claim(Drain, Grants)
    /\ UNCHANGED <<account, live, lock, link, req, owed, faults>>

(* A run of the drain ends half-way: its leases run out.                   *)
DrainDies ==
    /\ Jobs(Drain) # {} /\ Fault
    /\ job' = [job EXCEPT ![Drain] = [g \in Grants |-> "none"]]
    /\ UNCHANGED <<account, live, queue, lock, link, req, owed>>

(* Time passes: a row ages, leases and backoffs run out.  The 72 hours do  *)
(* not end while a function is running.                                    *)
Quiet == /\ \A f \in Requests : req[f].pc \in {"idle", "done"}
         /\ \A l \in Links : link[l] \in {"idle", "done"}
         /\ Jobs(Drain) = {}

Tick ==
    /\ (\E g \in Grants : queue[g].age = Ttl - 1) => Quiet
    /\ queue' = [g \in Grants |->
                    IF queue[g].st # "pending" THEN queue[g]
                    ELSE [queue[g] EXCEPT !.age = IF @ < Ttl THEN @ + 1 ELSE @,
                                          !.wait = IF @ > 0 THEN @ - 1 ELSE @]]
    /\ queue' # queue
    /\ UNCHANGED <<account, live, lock, link, req, job, owed, faults>>

(* runRevocationsBestEffort: one attempt at the named rows; a claim that   *)
(* fails is only logged.                                                   *)
RunClaim(f) ==
    /\ \/ req[f].pc = "claim" /\ Claim(f, req[f].ids) /\ UNCHANGED faults
       \/ req[f].pc = "claim2" /\ Claim(f, req[f].late) /\ UNCHANGED faults
       \/ req[f].pc \in {"claim", "claim2"} /\ UNCHANGED <<queue, job>> /\ Fault
    /\ req' = [req EXCEPT ![f].pc = IF @ = "claim" THEN "run" ELSE "run2"]
    /\ UNCHANGED <<account, live, lock, link, owed>>

RunEnded(f) == Jobs(f) = {}

\* With nothing to revoke no run is made.
AfterQueueing(ids) == IF ids = {} THEN "run" ELSE "claim"

-----------------------------------------------------------------------------
(* handleUnlinkProvider                                                    *)

(* signin_unlink_identity refuses a method that is not linked and the last *)
(* one; it counts the methods under the lock.                              *)
MayUnlink(p) == p \in methods /\ Cardinality(methods) > 1

\* Mutant: the methods are counted before the lock is waited for.
UnlinkTakeUnlocked(f) ==
    /\ req[f].pc = "idle"
    /\ req' = [req EXCEPT ![f].pc = "locked", ![f].may = MayUnlink(ProviderOf[f])]
    /\ UNCHANGED <<account, live, queue, lock, link, job, owed, faults>>

UnlinkTake(f) ==
    /\ req[f].pc = "idle" /\ Free
    /\ Take(f)
    /\ req' = [req EXCEPT ![f].pc = "locked", ![f].may = MayUnlink(ProviderOf[f])]
    /\ UNCHANGED <<account, live, queue, link, job, owed, faults>>

UnlinkRefused(f) ==
    /\ req[f].pc = "locked" /\ ~req[f].may
    /\ Release /\ req' = [req EXCEPT ![f] = Answered]
    /\ UNCHANGED <<account, live, queue, link, job, owed, faults>>

\* Mutant: the token's row is left behind.
UnlinkCommitKeepingToken(f) ==
    LET gs == IF ProviderOf[f] = "apple" THEN Held ELSE {} IN
    /\ req[f].pc = "locked" /\ req[f].may
    /\ queue' = Enqueued(gs) /\ UNCHANGED stored
    /\ methods' = methods \ {ProviderOf[f]}
    /\ req' = [req EXCEPT ![f] = IF PendingOf(gs) = {} THEN Answered
                                 ELSE [NewRequest EXCEPT !.pc = "claim", !.ids = PendingOf(gs)]]
    /\ Release
    /\ UNCHANGED <<authUser, wiped, live, link, job, owed, faults>>

UnlinkCommit(f) ==
    LET gs == IF ProviderOf[f] = "apple" THEN Held ELSE {} IN
    /\ req[f].pc = "locked" /\ req[f].may
    /\ queue' = Enqueued(gs) /\ stored' = IF gs = {} THEN stored ELSE None
    /\ methods' = methods \ {ProviderOf[f]}
    /\ req' = [req EXCEPT ![f] = IF PendingOf(gs) = {} THEN Answered
                                 ELSE [NewRequest EXCEPT !.pc = "claim", !.ids = PendingOf(gs)]]
    /\ Release
    /\ UNCHANGED <<authUser, wiped, live, link, job, owed, faults>>

UnlinkEnds(f) ==
    /\ req[f].pc = "run" /\ RunEnded(f)
    /\ req' = [req EXCEPT ![f] = Answered]
    /\ UNCHANGED <<account, live, queue, lock, link, job, owed, faults>>

-----------------------------------------------------------------------------
(* DELETE /v1/me (orchestrateMeDelete, then deleteAuthUser)                *)

(* 1. Queue every grant, in a transaction of its own.                      *)
DeleteEnqueue(f) ==
    /\ req[f].pc = "idle" /\ Free
    /\ queue' = Enqueued(Held)
    /\ req' = [req EXCEPT ![f].pc = AfterQueueing(PendingOf(Held)),
                             ![f].ids = PendingOf(Held)]
    /\ UNCHANGED <<account, live, lock, link, job, owed, faults>>

(* 2. has ended: 3. begins, with the second enqueue under the lock ...     *)
DeleteTake(f) ==
    /\ req[f].pc = "run" /\ RunEnded(f) /\ Free
    /\ Take(f)
    /\ req' = [req EXCEPT ![f].pc = "locked", ![f].seen = Held]
    /\ UNCHANGED <<account, live, queue, link, job, owed, faults>>

(* ... and commits with private.delete_my_data: the grant's row goes.      *)
DeleteCommit(f) ==
    /\ req[f].pc = "locked"
    /\ queue' = Enqueued(req[f].seen)
    /\ stored' = None /\ wiped' = TRUE
    /\ LET late == PendingOf(req[f].seen) \ req[f].ids IN
       req' = [req EXCEPT ![f].pc = IF late = {} THEN "auth" ELSE "claim2", ![f].late = late,
                             ![f].ids = {}, ![f].seen = {}]
    /\ Release
    /\ UNCHANGED <<authUser, methods, live, link, job, owed, faults>>

(* 4. has ended.                                                           *)
LateEnds(f) ==
    /\ req[f].pc = "run2" /\ RunEnded(f)
    /\ req' = [req EXCEPT ![f].pc = "auth"]
    /\ UNCHANGED <<account, live, queue, lock, link, job, owed, faults>>

(* deleteAuthUser: the identities, and a token row a late link stored,     *)
(* cascade.  GoTrue may fail, and the request with it.                     *)
DeleteAuthUser(f) ==
    /\ req[f].pc = "auth"
    /\ \/ /\ authUser' = FALSE /\ methods' = {} /\ stored' = None
          /\ UNCHANGED faults
       \/ UNCHANGED <<authUser, methods, stored>> /\ Fault
    /\ req' = [req EXCEPT ![f] = Answered]
    /\ UNCHANGED <<wiped, live, queue, lock, link, job, owed>>

(* A transaction of a request fails, or its function dies: an open         *)
(* transaction is rolled back and the claimed rows are left to the drain.  *)
RequestDies(f) ==
    /\ req[f].pc \notin {"idle", "done"} /\ Fault
    /\ req' = [req EXCEPT ![f] = Answered]
    /\ lock' = IF lock = f THEN None ELSE lock
    /\ job' = [job EXCEPT ![f] = [g \in Grants |-> "none"]]
    /\ UNCHANGED <<account, live, queue, link, owed>>

-----------------------------------------------------------------------------
LinkSteps(l) == LinkTake(l) \/ LinkCommit(l) \/ LinkFails(l) \/ LinkCleanup(l)
JobSteps(r) == \E g \in Grants : Call(r, g) \/ Complete(r, g)
UnlinkSteps(f) == UnlinkRefused(f) \/ UnlinkCommit(f) \/ RunClaim(f) \/ UnlinkEnds(f)
DeleteSteps(f) == \/ DeleteTake(f) \/ DeleteCommit(f) \/ RunClaim(f)
                  \/ LateEnds(f) \/ DeleteAuthUser(f)

Next == \/ \E l \in Links : Exchange(l) \/ LinkSteps(l)
        \/ \E f \in Unlinks : UnlinkTake(f) \/ UnlinkSteps(f)
        \/ \E f \in Deletes : DeleteEnqueue(f) \/ DeleteSteps(f)
        \/ \E f \in Requests : RequestDies(f)
        \/ \E r \in Runners : JobSteps(r)
        \/ DrainClaim \/ DrainDies \/ Tick

(* The calls to Apple and to the database end, with an answer or by their  *)
(* timeouts, and the scheduler keeps starting the drain.                   *)
Fairness == /\ \A l \in Links : WF_vars(LinkSteps(l))
            /\ \A f \in Unlinks : WF_vars(UnlinkSteps(f))
            /\ \A f \in Deletes : WF_vars(DeleteSteps(f))
            /\ \A r \in Runners : WF_vars(JobSteps(r))
            /\ WF_vars(DrainClaim) /\ WF_vars(Tick)

Spec == Init /\ [][Next]_vars /\ Fairness

-----------------------------------------------------------------------------
(* A grant the server has stored is never lost: while it is live at Apple  *)
(* it is the account's stored grant, or its row is pending, or the queue   *)
(* has given up on it after 72 h.  (0035: "so the token cannot be lost".)  *)
NoGrantLost ==
    \A g \in owed : g \in live => stored = g \/ queue[g].st \in {"pending", "expired"}

(* An account that exists always has a method to sign in with, whatever    *)
(* unlinks run at the same time (rule 4).                                  *)
LastMethodKept == authUser => methods # {}

(* What the response calls revoked is revoked at Apple.                    *)
ReportsAreTrue == \A f \in Requests : req[f].said \cap live = {}

(* Every queued row is finished, by a revocation or by its 72 h.           *)
QueueDrains == <>[](\A g \in Grants : queue[g].st # "pending")

(* A deletion always comes to its end, whatever Apple answers and whoever  *)
(* holds the lease of its rows.                                            *)
DeletionEnds == \A f \in Deletes : req[f].pc # "idle" ~> req[f].pc = "done"
=============================================================================
