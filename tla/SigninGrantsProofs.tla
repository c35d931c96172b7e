------------------------- MODULE SigninGrantsProofs -------------------------
(***************************************************************************)
(* For every set of links, unlinks and deletions, every deadline and every *)
(* number of failures: no stored grant is lost, an account that exists     *)
(* keeps a method to sign in with, and what is reported as revoked is.     *)
(*                                                                         *)
(* The argument has two parts.  The advisory lock makes what a transaction *)
(* has read still true when it commits (LockInv, ReadInv): this keeps the  *)
(* last method, and makes a deletion queue the grant that it unstores.     *)
(* And a grant's life has one direction: before its link commits nobody    *)
(* knows it (FreshInv), and once it is revoked it is never live again      *)
(* (DeadInv), so that a row whose call was answered may be finished.       *)
(***************************************************************************)
EXTENDS SigninGrants, FiniteSetTheorems, TLAPS

-----------------------------------------------------------------------------
(* The invariant. *)

\* Who changes the account holds its lock.
LockInv == /\ \A l \in Links : link[l] = "writing" => lock = l
           /\ \A f \in Requests : req[f].pc = "locked" => lock = f

\* What an unlink and a deletion read under the lock is still true of the
\* account, unless its user has been deleted meanwhile.
ReadInv == /\ \A f \in Unlinks : req[f].pc = "locked" /\ req[f].may
                                     => MayUnlink(ProviderOf[f]) \/ ~authUser
           /\ \A f \in Deletes : req[f].pc = "locked" => Held \subseteq req[f].seen

\* A deletion that has come past its transaction has committed it, and the
\* grants stored before it are no longer stored.
WipedInv == /\ \A f \in Deletes : req[f].pc \in {"claim2", "run2", "auth"} => wiped
            /\ wiped => stored \notin owed

\* The grant of a link that has not committed is known to nobody.
Unknown(l) == /\ stored # l /\ l \notin owed /\ queue[l].st = "none"
              /\ \A r \in Runners : job[r][l] = "none"
              /\ \A f \in Requests : l \notin req[f].seen /\ l \notin req[f].said
FreshInv == \A l \in Links : link[l] \in {"idle", "granted", "writing"} => Unknown(l)

\* A grant that was revoked is no longer live.
DeadInv == \A g \in live : /\ queue[g].st # "revoked"
                           /\ \A r \in Runners : job[r][g] # "ok"
                           /\ \A f \in Requests : g \notin req[f].said

Inv == /\ TypeOK /\ LockInv /\ ReadInv /\ WipedInv /\ FreshInv /\ DeadInv
       /\ NoGrantLost /\ LastMethodKept

-----------------------------------------------------------------------------
(* The records of the model. *)

LEMMA NewRequestFields ==
    /\ NewRequest \in RequestState
    /\ NewRequest.pc = "idle" /\ NewRequest.seen = {} /\ NewRequest.said = {}
    /\ NewRequest.may = FALSE
  BY DEF NewRequest, RequestState, RequestStep

LEMMA AnsweredFields ==
    /\ Answered \in RequestState
    /\ Answered.pc = "done" /\ Answered.seen = {} /\ Answered.said = {}
    /\ Answered.may = FALSE
  BY NewRequestFields DEF Answered, RequestState, RequestStep

\* An enqueue makes a row pending or leaves it as it is.
LEMMA EnqueuedRows ==
    ASSUME TypeOK, NEW gs
    PROVE  /\ Enqueued(gs) \in [Grants -> Row]
           /\ \A g \in Grants :
                 Enqueued(gs)[g].st = IF g \in gs /\ queue[g].st = "none" THEN "pending"
                                      ELSE queue[g].st
  BY TimeAssumption DEF Enqueued, TypeOK, Row, NewRow

\* A claim expires rows and leases rows, pending ones only, and works on rows
\* that are pending.
Claimed(g) ==
    /\ \/ queue'[g].st = queue[g].st
       \/ queue[g].st = "pending" /\ queue'[g].st = "expired"
    /\ \A s \in Runners : \/ job'[s][g] = job[s][g]
                          \/ job'[s][g] = "none"
                          \/ job'[s][g] = "call" /\ queue[g].st = "pending"

LEMMA ClaimedRows ==
    ASSUME TypeOK, NEW r \in Runners, NEW ids \in SUBSET Grants, Claim(r, ids)
    PROVE  /\ queue' \in [Grants -> Row]
           /\ job' \in [Runners -> [Grants -> {"none", "call", "ok", "failed"}]]
           /\ \A g \in Grants : Claimed(g)
  <1> DEFINE Leased(g) == [queue[g] EXCEPT !.wait = Lease]
             Gone == Finished("expired")
  <1>1. Gone \in Row /\ Gone.st = "expired"
    BY TimeAssumption DEF Row, Finished
  <1>8. ASSUME NEW g \in Grants PROVE Leased(g) \in Row /\ Leased(g).st = queue[g].st
    <2>1. PICK row \in Row : row = queue[g]
      BY DEF TypeOK
    <2>2. [row EXCEPT !.wait = Lease] \in Row /\ [row EXCEPT !.wait = Lease].st = row.st
      BY TimeAssumption DEF Row
    <2> QED
      BY <2>1, <2>2
  <1>2. queue' = [g \in Grants |-> IF g \in Expire THEN Gone
                                  ELSE IF g \in Due(ids) THEN Leased(g) ELSE queue[g]]
    BY DEF Claim
  <1>3. \A g \in Expire : queue[g].st = "pending"
    BY DEF Expire
  <1>4. \A g \in Due(ids) : queue[g].st = "pending"
    BY DEF Due
  <1>5. /\ job' \in [Runners -> [Grants -> {"none", "call", "ok", "failed"}]]
        /\ \A s \in Runners, g \in Grants :
              \/ job'[s][g] = job[s][g]
              \/ job'[s][g] = "none"
              \/ job'[s][g] = "call" /\ queue[g].st = "pending"
    BY <1>4 DEF Claim, TypeOK
  <1> HIDE DEF Leased, Gone
  <1>6. queue' \in [Grants -> Row]
    BY <1>1, <1>2, <1>8 DEF TypeOK
  <1>7. \A g \in Grants : \/ queue'[g].st = queue[g].st
                          \/ queue[g].st = "pending" /\ queue'[g].st = "expired"
    <2> TAKE g \in Grants
    <2>1. queue'[g] = IF g \in Expire THEN Gone
                      ELSE IF g \in Due(ids) THEN Leased(g) ELSE queue[g]
      BY <1>2
    <2> QED
      BY <1>1, <1>3, <1>8, <2>1
  <1> QED
    BY <1>5, <1>6, <1>7 DEF Claimed

\* A completed call finishes a pending row as revoked, when Apple answered
\* for it, and keeps the status of every other.
LEMMA CompletedRow ==
    ASSUME TypeOK, NEW g \in Grants, NEW ok \in BOOLEAN,
           queue' = [queue EXCEPT ![g] = Completed(@, ok)]
    PROVE  /\ queue' \in [Grants -> Row]
           /\ \A h \in Grants : h # g => queue'[h] = queue[h]
           /\ \/ queue'[g].st = queue[g].st
              \/ queue[g].st = "pending" /\ ok /\ queue'[g].st = "revoked"
  <1> DEFINE row == Completed(queue[g], ok)
  <1>1. /\ row \in Row
        /\ \/ row.st = queue[g].st
           \/ queue[g].st = "pending" /\ ok /\ row.st = "revoked"
    BY TimeAssumption DEF Completed, Finished, Row, TypeOK
  <1>2. queue' = [queue EXCEPT ![g] = row]
    OBVIOUS
  <1> HIDE DEF row
  <1> QED
    BY <1>1, <1>2 DEF TypeOK

\* Time changes no status.
LEMMA TickedRows ==
    ASSUME TypeOK, Tick
    PROVE  /\ queue' \in [Grants -> Row]
           /\ \A g \in Grants : queue'[g].st = queue[g].st
  <1> DEFINE Aged(g) == [queue[g] EXCEPT !.age = IF @ < Ttl THEN @ + 1 ELSE @,
                                         !.wait = IF @ > 0 THEN @ - 1 ELSE @]
  <1>1. \A g \in Grants : Aged(g) \in Row /\ Aged(g).st = queue[g].st
    <2> TAKE g \in Grants
    <2>1. PICK row \in Row : row = queue[g]
      BY DEF TypeOK
    <2>2. row.age \in 0..Ttl /\ row.wait \in 0..Ttl
      BY DEF Row
    <2>3. PICK a \in 0..Ttl, w \in 0..Ttl :
            a = (IF row.age < Ttl THEN row.age + 1 ELSE row.age)
            /\ w = (IF row.wait > 0 THEN row.wait - 1 ELSE row.wait)
      BY <2>2, TimeAssumption
    <2>4. [row EXCEPT !.age = a, !.wait = w] \in Row
          /\ [row EXCEPT !.age = a, !.wait = w].st = row.st
      BY DEF Row
    <2>5. Aged(g) = [row EXCEPT !.age = a, !.wait = w]
      BY <2>1, <2>3
    <2> QED
      BY <2>1, <2>4, <2>5
  <1>2. queue' = [g \in Grants |-> IF queue[g].st # "pending" THEN queue[g] ELSE Aged(g)]
    BY DEF Tick
  <1> HIDE DEF Aged
  <1> QED
    BY <1>1, <1>2 DEF TypeOK

-----------------------------------------------------------------------------
(* What a step does to the request it is of. *)

ReqTyped == req' \in [Requests -> RequestState]
OthersKeep(f) == ReqTyped /\ \A e \in Requests : e # f => req'[e] = req[e]
Becomes(f, pc, may, seen, said) ==
    /\ req'[f].pc = pc /\ req'[f].may = may /\ req'[f].seen = seen /\ req'[f].said = said

LEMMA Rewritten ==
    ASSUME TypeOK, NEW f \in Requests, NEW q \in RequestState, req' = [req EXCEPT ![f] = q]
    PROVE  OthersKeep(f) /\ req'[f] = q
  BY DEF TypeOK, OthersKeep, ReqTyped

LEMMA AnswersIt ==
    ASSUME TypeOK, NEW f \in Requests, req' = [req EXCEPT ![f] = Answered]
    PROVE  OthersKeep(f) /\ Becomes(f, "done", FALSE, {}, {})
  BY AnsweredFields, Rewritten DEF Becomes

LEMMA HeldGrants ==
    TypeOK => /\ Held \in SUBSET Grants
              /\ \A gs \in SUBSET Grants : PendingOf(gs) \in SUBSET Grants
  BY DEF TypeOK, Held, PendingOf

LEMMA UnlinkTakes ==
    ASSUME TypeOK, NEW f \in Unlinks, UnlinkTake(f)
    PROVE  /\ OthersKeep(f)
           /\ Becomes(f, "locked", MayUnlink(ProviderOf[f]), req[f].seen, req[f].said)
  <1> DEFINE q == [req[f] EXCEPT !.pc = "locked", !.may = MayUnlink(ProviderOf[f])]
  <1>1. f \in Requests /\ req[f] \in RequestState
    BY DEF Requests, TypeOK
  <1>2. /\ q \in RequestState
        /\ q.pc = "locked" /\ q.may = MayUnlink(ProviderOf[f])
        /\ q.seen = req[f].seen /\ q.said = req[f].said
    BY <1>1 DEF RequestState, RequestStep, MayUnlink
  <1>3. req' = [req EXCEPT ![f] = q]
    BY DEF UnlinkTake
  <1> HIDE DEF q
  <1> QED
    BY <1>1, <1>2, <1>3, Rewritten DEF Becomes

LEMMA DeleteTakes ==
    ASSUME TypeOK, NEW f \in Deletes, DeleteTake(f)
    PROVE  OthersKeep(f) /\ Becomes(f, "locked", req[f].may, Held, req[f].said)
  <1> DEFINE q == [req[f] EXCEPT !.pc = "locked", !.seen = Held]
  <1>1. f \in Requests /\ req[f] \in RequestState
    BY DEF Requests, TypeOK
  <1>2. /\ q \in RequestState
        /\ q.pc = "locked" /\ q.may = req[f].may /\ q.seen = Held /\ q.said = req[f].said
    BY <1>1, HeldGrants DEF RequestState, RequestStep
  <1>3. req' = [req EXCEPT ![f] = q]
    BY DEF DeleteTake
  <1> HIDE DEF q
  <1> QED
    BY <1>1, <1>2, <1>3, Rewritten DEF Becomes

LEMMA DeleteEnqueues ==
    ASSUME TypeOK, NEW f \in Deletes, DeleteEnqueue(f)
    PROVE  /\ OthersKeep(f)
           /\ \E pc \in {"run", "claim"} :
                 Becomes(f, pc, req[f].may, req[f].seen, req[f].said)
  <1>1. f \in Requests /\ req[f] \in RequestState
    BY DEF Requests, TypeOK
  <1>2. PICK ids \in SUBSET Grants, pc \in {"run", "claim"} :
          req' = [req EXCEPT ![f].pc = pc, ![f].ids = ids]
    BY HeldGrants DEF DeleteEnqueue, AfterQueueing
  <1> DEFINE q == [req[f] EXCEPT !.pc = pc, !.ids = ids]
  <1>3. /\ q \in RequestState
        /\ q.pc = pc /\ q.may = req[f].may /\ q.seen = req[f].seen /\ q.said = req[f].said
    BY <1>1 DEF RequestState, RequestStep
  <1>4. req' = [req EXCEPT ![f] = q]
    BY <1>2
  <1> HIDE DEF q
  <1> QED
    BY <1>1, <1>3, <1>4, Rewritten DEF Becomes

LEMMA LateEnded ==
    ASSUME TypeOK, NEW f \in Deletes, LateEnds(f)
    PROVE  OthersKeep(f) /\ Becomes(f, "auth", req[f].may, req[f].seen, req[f].said)
  <1> DEFINE q == [req[f] EXCEPT !.pc = "auth"]
  <1>1. f \in Requests /\ req[f] \in RequestState
    BY DEF Requests, TypeOK
  <1>2. /\ q \in RequestState
        /\ q.pc = "auth" /\ q.may = req[f].may /\ q.seen = req[f].seen /\ q.said = req[f].said
    BY <1>1 DEF RequestState, RequestStep
  <1>3. req' = [req EXCEPT ![f] = q]
    BY DEF LateEnds
  <1> HIDE DEF q
  <1> QED
    BY <1>1, <1>2, <1>3, Rewritten DEF Becomes

LEMMA DeleteCommits ==
    ASSUME TypeOK, NEW f \in Deletes, DeleteCommit(f)
    PROVE  /\ OthersKeep(f)
           /\ \E pc \in {"auth", "claim2"} : Becomes(f, pc, req[f].may, {}, req[f].said)
  <1>1. f \in Requests /\ req[f] \in RequestState
    BY DEF Requests, TypeOK
  <1>2. PICK late \in SUBSET Grants, pc \in {"auth", "claim2"} :
          req' = [req EXCEPT ![f].pc = pc, ![f].late = late, ![f].ids = {}, ![f].seen = {}]
    <2> DEFINE late == PendingOf(req[f].seen) \ req[f].ids
    <2>1. late \in SUBSET Grants
      BY <1>1, HeldGrants DEF RequestState
    <2>2. req' = [req EXCEPT ![f].pc = IF late = {} THEN "auth" ELSE "claim2",
                             ![f].late = late, ![f].ids = {}, ![f].seen = {}]
      BY DEF DeleteCommit
    <2> HIDE DEF late
    <2> QED
      BY <2>1, <2>2
  <1> DEFINE q == [req[f] EXCEPT !.pc = pc, !.late = late, !.ids = {}, !.seen = {}]
  <1>3. /\ q \in RequestState
        /\ q.pc = pc /\ q.may = req[f].may /\ q.seen = {} /\ q.said = req[f].said
    BY <1>1, <1>2 DEF RequestState, RequestStep
  <1>4. req' = [req EXCEPT ![f] = q]
    BY <1>2
  <1> HIDE DEF q
  <1> QED
    BY <1>1, <1>3, <1>4, <1>2, Rewritten DEF Becomes

LEMMA UnlinkCommits ==
    ASSUME TypeOK, NEW f \in Unlinks, UnlinkCommit(f)
    PROVE  OthersKeep(f) /\ \E pc \in {"done", "claim"} : Becomes(f, pc, FALSE, {}, {})
  <1> DEFINE ids == PendingOf(IF ProviderOf[f] = "apple" THEN Held ELSE {})
             q == [NewRequest EXCEPT !.pc = "claim", !.ids = ids]
  <1>1. f \in Requests /\ ids \in SUBSET Grants
    BY HeldGrants DEF Requests
  <1>2. /\ q \in RequestState
        /\ q.pc = "claim" /\ q.may = FALSE /\ q.seen = {} /\ q.said = {}
    BY <1>1, NewRequestFields DEF RequestState, RequestStep
  <1>3. req' = [req EXCEPT ![f] = IF ids = {} THEN Answered ELSE q]
    BY DEF UnlinkCommit
  <1> HIDE DEF ids, q
  <1>4. CASE ids = {}
    BY <1>1, <1>3, <1>4, AnswersIt
  <1>5. CASE ids # {}
    BY <1>1, <1>2, <1>3, <1>5, Rewritten DEF Becomes
  <1> QED
    BY <1>4, <1>5

LEMMA RunClaims ==
    ASSUME TypeOK, NEW f \in Requests, RunClaim(f)
    PROVE  /\ OthersKeep(f)
           /\ Becomes(f, IF req[f].pc = "claim" THEN "run" ELSE "run2",
                      req[f].may, req[f].seen, req[f].said)
  <1> DEFINE pc == IF req[f].pc = "claim" THEN "run" ELSE "run2"
             q == [req[f] EXCEPT !.pc = pc]
  <1>1. /\ q \in RequestState
        /\ q.pc = pc /\ q.may = req[f].may /\ q.seen = req[f].seen /\ q.said = req[f].said
    BY DEF TypeOK, RequestState, RequestStep
  <1>2. req' = [req EXCEPT ![f] = q]
    BY DEF RunClaim
  <1> HIDE DEF q
  <1> QED
    BY <1>1, <1>2, Rewritten DEF Becomes

\* What a run reports as revoked is a grant whose call was answered, or whose
\* row says so.
LEMMA Reports ==
    ASSUME TypeOK, NEW r \in Runners, NEW g \in Grants, Complete(r, g)
    PROVE  /\ ReqTyped
           /\ \A f \in Requests :
                 /\ req'[f].pc = req[f].pc /\ req'[f].may = req[f].may
                 /\ req'[f].seen = req[f].seen
                 /\ \/ req'[f].said = req[f].said
                    \/ /\ req'[f].said = req[f].said \cup {g}
                       /\ job[r][g] = "ok" \/ queue[g].st = "revoked"
  <1>1. CASE UNCHANGED req
    BY <1>1 DEF TypeOK, ReqTyped
  <1>2. ASSUME NEW gs \in SUBSET {g}, r \in Requests, req' = [req EXCEPT ![r].said = @ \cup gs],
               gs # {} => job[r][g] = "ok" \/ queue[g].st = "revoked"
        PROVE  /\ OthersKeep(r)
               /\ Becomes(r, req[r].pc, req[r].may, req[r].seen, req[r].said \cup gs)
    <2> DEFINE q == [req[r] EXCEPT !.said = @ \cup gs]
    <2>1. /\ q \in RequestState
          /\ q.pc = req[r].pc /\ q.may = req[r].may /\ q.seen = req[r].seen
          /\ q.said = req[r].said \cup gs
      BY <1>2 DEF TypeOK, RequestState
    <2>2. req' = [req EXCEPT ![r] = q]
      BY <1>2
    <2> HIDE DEF q
    <2> QED
      BY <1>2, <2>1, <2>2, Rewritten DEF Becomes
  <1>3. \/ UNCHANGED req
        \/ /\ r \in Requests
           /\ \E gs \in SUBSET {g} :
                 /\ req' = [req EXCEPT ![r].said = @ \cup gs]
                 /\ gs # {} => job[r][g] = "ok" \/ queue[g].st = "revoked"
    BY DEF Complete, Say, ReportsRevoked
  <1>4. ASSUME r \in Requests, NEW gs \in SUBSET {g}, req' = [req EXCEPT ![r].said = @ \cup gs],
               gs # {} => job[r][g] = "ok" \/ queue[g].st = "revoked"
        PROVE  /\ ReqTyped
               /\ \A f \in Requests :
                     /\ req'[f].pc = req[f].pc /\ req'[f].may = req[f].may
                     /\ req'[f].seen = req[f].seen
                     /\ \/ req'[f].said = req[f].said
                        \/ /\ req'[f].said = req[f].said \cup {g}
                           /\ job[r][g] = "ok" \/ queue[g].st = "revoked"
    <2>1. /\ OthersKeep(r)
          /\ Becomes(r, req[r].pc, req[r].may, req[r].seen, req[r].said \cup gs)
      BY <1>2, <1>4
    <2>2. gs = {} \/ gs = {g}
      OBVIOUS
    <2> QED
      BY <1>4, <2>1, <2>2 DEF OthersKeep, Becomes
  <1> QED
    BY <1>1, <1>3, <1>4

-----------------------------------------------------------------------------
(* Types. *)

LinkTyped == link' \in [Links -> {"idle", "granted", "writing", "cleanup", "done"}]
LockTyped == lock' \in Links \cup Requests \cup {None}
QueueTyped == queue' \in [Grants -> Row]
JobTyped == job' \in [Runners -> [Grants -> {"none", "call", "ok", "failed"}]]
AccountTyped == /\ authUser' \in BOOLEAN /\ wiped' \in BOOLEAN /\ methods' \in SUBSET Methods
                /\ stored' \in Grants \cup {None}
                /\ stored' # None => "apple" \in methods'
GrantsTyped == live' \in SUBSET Grants /\ owed' \in SUBSET Grants
FaultsTyped == faults' \in 0..MaxFaults

LEMMA FaultCounted ==
    ASSUME TypeOK
    PROVE  Fault \/ UNCHANGED faults => FaultsTyped
  BY TimeAssumption DEF TypeOK, Fault, FaultsTyped

\* What a step leaves alone stays typed.
LEMMA StillTyped ==
    ASSUME TypeOK
    PROVE  /\ UNCHANGED link => LinkTyped
           /\ UNCHANGED lock => LockTyped
           /\ UNCHANGED queue => QueueTyped
           /\ UNCHANGED req => ReqTyped
           /\ UNCHANGED job => JobTyped
           /\ UNCHANGED account => AccountTyped
           /\ UNCHANGED <<live, owed>> => GrantsTyped
           /\ UNCHANGED faults => FaultsTyped
  BY DEF TypeOK, LinkTyped, LockTyped, QueueTyped, ReqTyped, JobTyped, AccountTyped,
         GrantsTyped, FaultsTyped, account

LEMMA AllTyped ==
    ASSUME LinkTyped, LockTyped, QueueTyped, ReqTyped, JobTyped, AccountTyped, GrantsTyped,
           FaultsTyped
    PROVE  TypeOK'
  BY DEF TypeOK, LinkTyped, LockTyped, QueueTyped, ReqTyped, JobTyped, AccountTyped,
         GrantsTyped, FaultsTyped

LEMMA TypesKept ==
    ASSUME TypeOK, [Next]_vars
    PROVE  TypeOK'
  <1>1. ASSUME NEW l \in Links, Exchange(l) PROVE TypeOK'
    <2>1. LinkTyped
      BY <1>1 DEF LinkTyped, Exchange, TypeOK
    <2>2. GrantsTyped
      BY <1>1 DEF GrantsTyped, Exchange, TypeOK, Grants
    <2> QED
      BY <1>1, <2>1, <2>2, StillTyped, AllTyped DEF Exchange
  <1>2. ASSUME NEW l \in Links, LinkTake(l) PROVE TypeOK'
    <2>1. LinkTyped
      BY <1>2 DEF LinkTyped, LinkTake, TypeOK
    <2>2. LockTyped
      BY <1>2 DEF LockTyped, LinkTake, TypeOK, Take
    <2> QED
      BY <1>2, <2>1, <2>2, StillTyped, AllTyped DEF LinkTake
  <1>3. ASSUME NEW l \in Links, LinkCommit(l) PROVE TypeOK'
    <2>1. LinkTyped
      BY <1>3 DEF LinkTyped, LinkCommit, TypeOK
    <2>2. LockTyped
      BY <1>3 DEF LockTyped, LinkCommit, TypeOK, Release
    <2>3. QueueTyped
      BY <1>3, EnqueuedRows DEF QueueTyped, LinkCommit, TypeOK
    <2>4. AccountTyped
      BY <1>3 DEF AccountTyped, LinkCommit, TypeOK, Methods, Grants, account
    <2>5. GrantsTyped
      BY <1>3 DEF GrantsTyped, LinkCommit, TypeOK, Grants
    <2> QED
      BY <1>3, <2>1, <2>2, <2>3, <2>4, <2>5, StillTyped, AllTyped, FaultCounted DEF
         LinkCommit
  <1>4. ASSUME NEW l \in Links, LinkFails(l) PROVE TypeOK'
    <2>1. LinkTyped
      BY <1>4 DEF LinkTyped, LinkFails, TypeOK
    <2>2. LockTyped
      BY <1>4 DEF LockTyped, LinkFails, TypeOK
    <2> QED
      BY <1>4, <2>1, <2>2, StillTyped, AllTyped, FaultCounted DEF LinkFails
  <1>5. ASSUME NEW l \in Links, LinkCleanup(l) PROVE TypeOK'
    <2>1. LinkTyped
      BY <1>5 DEF LinkTyped, LinkCleanup, TypeOK
    <2>2. GrantsTyped
      BY <1>5 DEF GrantsTyped, LinkCleanup, TypeOK
    <2> QED
      BY <1>5, <2>1, <2>2, StillTyped, AllTyped DEF LinkCleanup
  <1>6. ASSUME NEW r \in Runners, NEW g \in Grants, Call(r, g) PROVE TypeOK'
    <2>1. JobTyped
      BY <1>6 DEF JobTyped, Call, TypeOK
    <2>2. GrantsTyped
      BY <1>6 DEF GrantsTyped, Call, TypeOK
    <2> QED
      BY <1>6, <2>1, <2>2, StillTyped, AllTyped, FaultCounted DEF Call
  <1>7. ASSUME NEW r \in Runners, NEW g \in Grants, Complete(r, g) PROVE TypeOK'
    <2>1. JobTyped
      BY <1>7 DEF JobTyped, Complete, TypeOK
    <2>2. QueueTyped
      BY <1>7, CompletedRow DEF QueueTyped, Complete, TypeOK
    <2>3. ReqTyped
      BY <1>7, Reports
    <2> QED
      BY <1>7, <2>1, <2>2, <2>3, StillTyped, AllTyped, FaultCounted DEF Complete
  <1>8. ASSUME DrainClaim PROVE TypeOK'
    <2>1. JobTyped
      BY <1>8, ClaimedRows DEF JobTyped, DrainClaim, TypeOK, Runners
    <2>2. QueueTyped
      BY <1>8, ClaimedRows DEF QueueTyped, DrainClaim, TypeOK, Runners
    <2> QED
      BY <1>8, <2>1, <2>2, StillTyped, AllTyped DEF DrainClaim
  <1>9. ASSUME DrainDies PROVE TypeOK'
    <2>1. JobTyped
      BY <1>9 DEF JobTyped, DrainDies, TypeOK, Runners
    <2> QED
      BY <1>9, <2>1, StillTyped, AllTyped, FaultCounted DEF DrainDies
  <1>10. ASSUME Tick PROVE TypeOK'
    <2>1. QueueTyped
      BY <1>10, TickedRows DEF QueueTyped
    <2> QED
      BY <1>10, <2>1, StillTyped, AllTyped DEF Tick
  <1>11. ASSUME NEW f \in Requests, RunClaim(f) PROVE TypeOK'
    <2>1. JobTyped
      BY <1>11, ClaimedRows DEF JobTyped, RunClaim, TypeOK, Runners, RequestState
    <2>2. QueueTyped
      BY <1>11, ClaimedRows DEF QueueTyped, RunClaim, TypeOK, Runners, RequestState
    <2>3. ReqTyped
      BY <1>11, RunClaims DEF OthersKeep
    <2> QED
      BY <1>11, <2>1, <2>2, <2>3, StillTyped, AllTyped, FaultCounted DEF RunClaim
  <1>12. ASSUME NEW f \in Unlinks, UnlinkTake(f) PROVE TypeOK'
    <2>1. LockTyped
      BY <1>12 DEF LockTyped, UnlinkTake, TypeOK, Take, Requests
    <2>2. ReqTyped
      BY <1>12, UnlinkTakes DEF OthersKeep
    <2> QED
      BY <1>12, <2>1, <2>2, StillTyped, AllTyped DEF UnlinkTake
  <1>13. ASSUME NEW f \in Unlinks, UnlinkRefused(f) PROVE TypeOK'
    <2>1. LockTyped
      BY <1>13 DEF LockTyped, UnlinkRefused, TypeOK, Release
    <2>2. ReqTyped
      BY <1>13, AnswersIt DEF ReqTyped, UnlinkRefused, OthersKeep, Requests
    <2> QED
      BY <1>13, <2>1, <2>2, StillTyped, AllTyped DEF UnlinkRefused
  <1>14. ASSUME NEW f \in Unlinks, UnlinkCommit(f) PROVE TypeOK'
    <2>1. LockTyped
      BY <1>14 DEF LockTyped, UnlinkCommit, TypeOK, Release
    <2>2. QueueTyped
      BY <1>14, EnqueuedRows DEF QueueTyped, UnlinkCommit, TypeOK
    <2>3. AccountTyped
      BY <1>14 DEF AccountTyped, UnlinkCommit, TypeOK, Held, account
    <2>4. ReqTyped
      BY <1>14, UnlinkCommits DEF OthersKeep
    <2> QED
      BY <1>14, <2>1, <2>2, <2>3, <2>4, StillTyped, AllTyped DEF UnlinkCommit
  <1>15. ASSUME NEW f \in Unlinks, UnlinkEnds(f) PROVE TypeOK'
    <2>1. ReqTyped
      BY <1>15, AnswersIt DEF ReqTyped, UnlinkEnds, OthersKeep, Requests
    <2> QED
      BY <1>15, <2>1, StillTyped, AllTyped DEF UnlinkEnds
  <1>16. ASSUME NEW f \in Deletes, DeleteEnqueue(f) PROVE TypeOK'
    <2>1. QueueTyped
      BY <1>16, EnqueuedRows DEF QueueTyped, DeleteEnqueue, TypeOK
    <2>2. ReqTyped
      BY <1>16, DeleteEnqueues DEF OthersKeep
    <2> QED
      BY <1>16, <2>1, <2>2, StillTyped, AllTyped DEF DeleteEnqueue
  <1>17. ASSUME NEW f \in Deletes, DeleteTake(f) PROVE TypeOK'
    <2>1. LockTyped
      BY <1>17 DEF LockTyped, DeleteTake, TypeOK, Take, Requests
    <2>2. ReqTyped
      BY <1>17, DeleteTakes DEF OthersKeep
    <2> QED
      BY <1>17, <2>1, <2>2, StillTyped, AllTyped DEF DeleteTake
  <1>18. ASSUME NEW f \in Deletes, DeleteCommit(f) PROVE TypeOK'
    <2>1. LockTyped
      BY <1>18 DEF LockTyped, DeleteCommit, TypeOK, Release
    <2>2. QueueTyped
      BY <1>18, EnqueuedRows DEF QueueTyped, DeleteCommit, TypeOK
    <2>3. AccountTyped
      BY <1>18 DEF AccountTyped, DeleteCommit, TypeOK, account
    <2>4. ReqTyped
      BY <1>18, DeleteCommits DEF OthersKeep
    <2> QED
      BY <1>18, <2>1, <2>2, <2>3, <2>4, StillTyped, AllTyped DEF DeleteCommit
  <1>19. ASSUME NEW f \in Deletes, LateEnds(f) PROVE TypeOK'
    <2>1. ReqTyped
      BY <1>19, LateEnded DEF OthersKeep
    <2> QED
      BY <1>19, <2>1, StillTyped, AllTyped DEF LateEnds
  <1>20. ASSUME NEW f \in Deletes, DeleteAuthUser(f) PROVE TypeOK'
    <2>1. AccountTyped
      BY <1>20 DEF AccountTyped, DeleteAuthUser, TypeOK, account
    <2>2. ReqTyped
      BY <1>20, AnswersIt DEF ReqTyped, DeleteAuthUser, OthersKeep, Requests
    <2> QED
      BY <1>20, <2>1, <2>2, StillTyped, AllTyped, FaultCounted DEF DeleteAuthUser
  <1>21. ASSUME NEW f \in Requests, RequestDies(f) PROVE TypeOK'
    <2>1. LockTyped
      BY <1>21 DEF LockTyped, RequestDies, TypeOK
    <2>2. JobTyped
      BY <1>21 DEF JobTyped, RequestDies, TypeOK, Runners
    <2>3. ReqTyped
      BY <1>21, AnswersIt DEF ReqTyped, RequestDies, OthersKeep, Requests
    <2> QED
      BY <1>21, <2>1, <2>2, <2>3, StillTyped, AllTyped, FaultCounted DEF RequestDies
  <1>22. CASE UNCHANGED vars
    BY <1>22, StillTyped, AllTyped DEF vars, account
  <1> QED
    BY <1>1, <1>2, <1>3, <1>4, <1>5, <1>6, <1>7, <1>8, <1>9, <1>10, <1>11, <1>12,
       <1>13, <1>14, <1>15, <1>16, <1>17, <1>18, <1>19, <1>20, <1>21, <1>22 DEF Next,
       LinkSteps, JobSteps, UnlinkSteps, DeleteSteps, Requests

-----------------------------------------------------------------------------
(* The invariant is kept. *)

\* What a step leaves alone keeps its part of the invariant.
LEMMA StillInv ==
    ASSUME Inv
    PROVE  /\ UNCHANGED <<link, req, lock>> => LockInv'
           /\ UNCHANGED <<req, account>> => ReadInv'
           /\ UNCHANGED <<req, wiped, stored, owed>> => WipedInv'
           /\ UNCHANGED <<link, req, stored, owed, queue, job>> => FreshInv'
           /\ UNCHANGED <<live, queue, job, req>> => DeadInv'
           /\ UNCHANGED <<owed, live, stored, queue>> => NoGrantLost'
           /\ UNCHANGED <<authUser, methods>> => LastMethodKept'
  BY DEF Inv, LockInv, ReadInv, WipedInv, FreshInv, DeadInv, NoGrantLost, LastMethodKept,
         Unknown, MayUnlink, Held, account

LEMMA GrantsApart ==
    /\ Links \subseteq Grants /\ Links \cap Requests = {}
    /\ None \notin Grants /\ None \notin Requests
  BY RequestAssumption DEF Grants

ReqReported(r, g) ==
    \A f \in Requests :
       /\ req'[f].pc = req[f].pc /\ req'[f].may = req[f].may
       /\ req'[f].seen = req[f].seen
       /\ \/ req'[f].said = req[f].said
          \/ /\ req'[f].said = req[f].said \cup {g}
             /\ job[r][g] = "ok" \/ queue[g].st = "revoked"

\* Who may be unlinked is not the only method.
LEMMA AnotherMethod ==
    ASSUME NEW p, methods \in SUBSET Methods, MayUnlink(p)
    PROVE  methods \ {p} # {}
  <1>1. methods \ {p} = {} => methods = {p}
    BY DEF MayUnlink
  <1>2. Cardinality({p}) = 1
    BY FS_Singleton
  <1> QED
    BY <1>1, <1>2 DEF MayUnlink

LEMMA InvKept ==
    ASSUME Inv, [Next]_vars
    PROVE  Inv'
  <1> TypeOK
    BY DEF Inv
  <1>0. /\ live \subseteq Grants /\ owed \subseteq Grants /\ stored \in Grants \cup {None}
        /\ \A g \in Grants : queue[g].st \in {"none", "pending", "revoked", "expired"}
    BY DEF TypeOK, Row
  <1> DEFINE Kept == LockInv' /\ ReadInv' /\ WipedInv' /\ FreshInv' /\ DeadInv'
                     /\ NoGrantLost' /\ LastMethodKept'
  <1>1. ASSUME NEW l \in Links, Exchange(l) PROVE Kept
    <2>1. /\ link[l] \in {"idle"} /\ link'[l] \in {"granted"}
          /\ \A k \in Links : k # l => link'[k] = link[k]
          /\ live' = live \cup {l}
          /\ UNCHANGED <<account, queue, lock, req, job, owed>>
      BY TypeOK, <1>1 DEF Exchange, TypeOK
    <2>2. Unknown(l) /\ l \in Grants
      BY Inv, <2>1, GrantsApart DEF Inv, FreshInv
    <2>3. LockInv'
      BY <2>1, <2>2, Inv, GrantsApart DEF Inv, LockInv, account
    <2>4. FreshInv'
      BY <2>1, <2>2, <1>0, Inv, GrantsApart DEF Inv, FreshInv, Unknown, account
    <2>5. DeadInv'
      BY <2>1, <2>2, <1>0, Inv, GrantsApart DEF Inv, DeadInv, account, Unknown
    <2>6. NoGrantLost'
      BY <2>1, <2>2, <1>0, Inv, GrantsApart DEF Inv, NoGrantLost, account,
         DeadInv, Unknown
    <2> QED
      BY <2>1, <2>3, <2>4, <2>5, <2>6, StillInv DEF account
  <1>2. ASSUME NEW l \in Links, LinkTake(l) PROVE Kept
    <2>1. /\ link[l] \in {"granted"} /\ link'[l] \in {"writing"}
          /\ \A k \in Links : k # l => link'[k] = link[k]
          /\ lock = None /\ lock' = l
          /\ UNCHANGED <<account, live, queue, req, job, owed>>
      BY TypeOK, <1>2 DEF LinkTake, TypeOK, Free, Take
    <2>2. /\ \A e \in Requests : req[e].pc # "locked"
          /\ \A k \in Links : link[k] # "writing"
      BY Inv, <2>1, GrantsApart DEF Inv, LockInv
    <2>3. LockInv'
      BY <2>1, <2>2, Inv, GrantsApart DEF Inv, LockInv, account
    <2>4. FreshInv'
      BY <2>1, <2>2, <1>0, Inv, GrantsApart DEF Inv, FreshInv, Unknown, account
    <2> QED
      BY <2>1, <2>3, <2>4, StillInv DEF account
  <1>3. ASSUME NEW l \in Links, LinkCommit(l) PROVE Kept
    <2>1. /\ link[l] \in {"writing"} /\ link'[l] \in {"done", "cleanup"}
          /\ \A k \in Links : k # l => link'[k] = link[k]
          /\ lock' = None
          /\ authUser
          /\ methods' = methods \cup {"apple"}
          /\ stored' = l
          /\ owed' = IF wiped THEN owed ELSE owed \cup {l}
          /\ queue' = Enqueued(Held)
          /\ UNCHANGED <<authUser, wiped, live, req, job>>
      BY TypeOK, <1>3 DEF LinkCommit, TypeOK, Release
    <2>2. /\ Unknown(l) /\ l \in Grants /\ lock = l
          /\ \A e \in Requests : req[e].pc # "locked"
          /\ \A k \in Links : k # l => link[k] # "writing"
      BY Inv, <2>1, GrantsApart DEF Inv, FreshInv, LockInv
    <2>3. \A g \in Grants : queue'[g].st = IF g \in Held /\ queue[g].st = "none"
                                           THEN "pending" ELSE queue[g].st
      BY <2>1, EnqueuedRows
    <2>4. LockInv'
      BY <2>1, <2>2, <2>3, Inv, GrantsApart DEF Inv, LockInv, account
    <2>5. ReadInv'
      BY <2>2, <2>1, GrantsApart DEF ReadInv, Requests
    <2>6. WipedInv'
      BY <2>1, <2>2, <2>3, Inv, GrantsApart DEF Inv, WipedInv, account, Unknown
    <2>7. FreshInv'
      BY <2>1, <2>2, <2>3, <1>0, Inv, GrantsApart DEF Inv, FreshInv, Unknown,
         account, Held
    <2>8. DeadInv'
      BY <2>1, <2>2, <2>3, <1>0, Inv, GrantsApart DEF Inv, DeadInv, account
    <2>9. NoGrantLost'
      <3>1. ASSUME NEW g \in owed', g \in live, g # l
            PROVE  queue'[g].st \in {"pending", "expired"}
        <4>1. g \in owed /\ g \in Grants /\ queue[g].st # "revoked"
          BY <2>1, <3>1, <1>0, Inv DEF Inv, DeadInv
        <4>2. g \in Held \/ queue[g].st \in {"pending", "expired"}
          BY <4>1, <3>1, Inv, GrantsApart DEF Inv, NoGrantLost, Held
        <4> QED
          BY <4>1, <4>2, <2>3, <1>0
      <3> QED
        BY <2>1, <3>1 DEF NoGrantLost
    <2>10. LastMethodKept'
      BY <2>1, <2>2, <2>3, Inv, GrantsApart DEF Inv, LastMethodKept, account
    <2> QED
      BY <2>1, <2>4, <2>5, <2>6, <2>7, <2>8, <2>9, <2>10 DEF account
  <1>4. ASSUME NEW l \in Links, LinkFails(l) PROVE Kept
    <2>1. /\ link[l] \in {"granted", "writing"} /\ link'[l] \in {"cleanup"}
          /\ \A k \in Links : k # l => link'[k] = link[k]
          /\ lock' = IF lock = l THEN None ELSE lock
          /\ UNCHANGED <<account, live, queue, req, job, owed>>
      BY TypeOK, <1>4 DEF LinkFails, TypeOK
    <2>2. LockInv'
      BY <2>1, Inv, GrantsApart DEF Inv, LockInv, account
    <2>3. FreshInv'
      BY <2>1, <1>0, Inv, GrantsApart DEF Inv, FreshInv, Unknown, account
    <2> QED
      BY <2>1, <2>2, <2>3, StillInv DEF account
  <1>5. ASSUME NEW l \in Links, LinkCleanup(l) PROVE Kept
    <2>1. /\ link[l] \in {"cleanup"} /\ link'[l] \in {"done"}
          /\ \A k \in Links : k # l => link'[k] = link[k]
          /\ live' \subseteq live
          /\ UNCHANGED <<account, queue, lock, req, job, owed>>
      BY TypeOK, <1>5 DEF LinkCleanup, TypeOK
    <2>2. LockInv'
      BY <2>1, Inv, GrantsApart DEF Inv, LockInv, account
    <2>3. FreshInv'
      BY <2>1, <1>0, Inv, GrantsApart DEF Inv, FreshInv, Unknown, account
    <2>4. DeadInv'
      BY <2>1, <1>0, Inv, GrantsApart DEF Inv, DeadInv, account
    <2>5. NoGrantLost'
      BY <2>1, <1>0, Inv, GrantsApart DEF Inv, NoGrantLost, account, DeadInv
    <2> QED
      BY <2>1, <2>2, <2>3, <2>4, <2>5, StillInv DEF account
  <1>6. ASSUME NEW r \in Runners, NEW g \in Grants, Call(r, g) PROVE Kept
    <2>1. /\ job[r][g] = "call"
          /\ job'[r][g] # "none"
          /\ job'[r][g] = "ok" => g \notin live'
          /\ \A s \in Runners, h \in Grants : s # r \/ h # g => job'[s][h] = job[s][h]
          /\ live' \subseteq live
          /\ UNCHANGED <<account, queue, lock, link, req, owed>>
      BY TypeOK, <1>6 DEF Call, TypeOK
    <2>2. FreshInv'
      BY <2>1, <1>0, Inv, GrantsApart DEF Inv, FreshInv, Unknown, account
    <2>3. DeadInv'
      BY <2>1, <1>0, Inv, GrantsApart DEF Inv, DeadInv, account
    <2>4. NoGrantLost'
      BY <2>1, <1>0, Inv, GrantsApart DEF Inv, NoGrantLost, account, DeadInv
    <2> QED
      BY <2>1, <2>2, <2>3, <2>4, StillInv DEF account
  <1>7. ASSUME NEW r \in Runners, NEW g \in Grants, Complete(r, g) PROVE Kept
    <2>1. /\ job[r][g] # "none"
          /\ \A s \in Runners, h \in Grants : job'[s][h] \in {"none", job[s][h]}
          /\ \A h \in Grants : \/ queue'[h].st = queue[h].st
                               \/ /\ h = g /\ job[r][g] = "ok" /\ queue[h].st = "pending"
                                /\ queue'[h].st = "revoked"
          /\ UNCHANGED <<account, live, lock, link, owed>>
      BY TypeOK, <1>7, CompletedRow DEF Complete, TypeOK
    <2>2. ReqReported(r, g)
      BY TypeOK, <1>7, Reports DEF ReqReported
    <2>3. LockInv'
      BY <2>1, <2>2, Inv, GrantsApart DEF Inv, LockInv, account, ReqReported,
         Requests
    <2>4. ReadInv'
      BY <2>1, <2>2, Inv, GrantsApart DEF Inv, ReadInv, MayUnlink, Held, account,
         ReqReported, Requests
    <2>5. WipedInv'
      BY <2>1, <2>2, Inv, GrantsApart DEF Inv, WipedInv, account, ReqReported,
         Requests
    <2>6. FreshInv'
      BY <2>1, <2>2, <1>0, Inv, GrantsApart DEF Inv, FreshInv, Unknown, account,
         ReqReported, Requests
    <2>7. DeadInv'
      BY <2>1, <2>2, <1>0, Inv, GrantsApart DEF Inv, DeadInv, account,
         ReqReported, Requests
    <2>8. NoGrantLost'
      BY <2>1, <2>2, <1>0, Inv, GrantsApart DEF Inv, NoGrantLost, account,
         DeadInv, ReqReported, Requests
    <2> QED
      BY <2>1, <2>3, <2>4, <2>5, <2>6, <2>7, <2>8, StillInv DEF account
  <1>8. ASSUME DrainClaim PROVE Kept
    <2>1. /\ \A g \in Grants : Claimed(g)
          /\ UNCHANGED <<account, live, lock, link, req, owed>>
      <3>1. /\ Drain \in Runners /\ Grants \in SUBSET Grants
            /\ Claim(Drain, Grants)
            /\ UNCHANGED <<account, live, lock, link, req, owed>>
        BY <1>8 DEF DrainClaim, Runners
      <3> QED
        BY TypeOK, <3>1, ClaimedRows
    <2>2. FreshInv'
      BY <2>1, <1>0, Inv, GrantsApart DEF Inv, FreshInv, Unknown, account,
         Claimed
    <2>3. DeadInv'
      BY <2>1, <1>0, Inv, GrantsApart DEF Inv, DeadInv, account, Claimed
    <2>4. NoGrantLost'
      BY <2>1, <1>0, Inv, GrantsApart DEF Inv, NoGrantLost, account, DeadInv,
         Claimed
    <2> QED
      BY <2>1, <2>2, <2>3, <2>4, StillInv DEF account
  <1>9. ASSUME DrainDies PROVE Kept
    <2>1. /\ \A s \in Runners, h \in Grants : job'[s][h] \in {"none", job[s][h]}
          /\ UNCHANGED <<account, live, queue, lock, link, req, owed>>
      BY TypeOK, <1>9 DEF DrainDies, TypeOK, Runners
    <2>2. FreshInv'
      BY <2>1, <1>0, Inv, GrantsApart DEF Inv, FreshInv, Unknown, account
    <2>3. DeadInv'
      BY <2>1, <1>0, Inv, GrantsApart DEF Inv, DeadInv, account
    <2> QED
      BY <2>1, <2>2, <2>3, StillInv DEF account
  <1>10. ASSUME Tick PROVE Kept
    <2>1. /\ \A g \in Grants : queue'[g].st = queue[g].st
          /\ UNCHANGED <<account, live, lock, link, req, job, owed>>
      BY TypeOK, <1>10, TickedRows DEF Tick
    <2>2. FreshInv'
      BY <2>1, <1>0, Inv, GrantsApart DEF Inv, FreshInv, Unknown, account
    <2>3. DeadInv'
      BY <2>1, <1>0, Inv, GrantsApart DEF Inv, DeadInv, account
    <2>4. NoGrantLost'
      BY <2>1, <1>0, Inv, GrantsApart DEF Inv, NoGrantLost, account, DeadInv
    <2> QED
      BY <2>1, <2>2, <2>3, <2>4, StillInv DEF account
  <1>11. ASSUME NEW f \in Requests, RunClaim(f) PROVE Kept
    <2>1. /\ req[f].pc \in {"claim", "claim2"}
          /\ \A g \in Grants : Claimed(g)
          /\ UNCHANGED <<account, live, lock, link, owed>>
      <3>1. /\ f \in Runners
            /\ req[f].ids \in SUBSET Grants /\ req[f].late \in SUBSET Grants
        BY DEF TypeOK, RequestState, Runners
      <3>2. /\ req[f].pc \in {"claim", "claim2"}
            /\ \/ Claim(f, req[f].ids) \/ Claim(f, req[f].late) \/ UNCHANGED <<queue, job>>
            /\ UNCHANGED <<account, live, lock, link, owed>>
        BY <1>11 DEF RunClaim
      <3>3. CASE UNCHANGED <<queue, job>>
        BY <3>2, <3>3 DEF Claimed
      <3> QED
        BY TypeOK, <3>1, <3>2, <3>3, ClaimedRows
    <2>2. OthersKeep(f) /\ Becomes(f, IF req[f].pc = "claim" THEN "run" ELSE "run2",
                             req[f].may, req[f].seen, req[f].said)
      BY TypeOK, <1>11, RunClaims
    <2>3. LockInv'
      BY <2>1, <2>2, Inv, GrantsApart DEF Inv, LockInv, account, OthersKeep,
         Becomes, Requests, Claimed
    <2>4. ReadInv'
      BY <2>1, <2>2, Inv, GrantsApart DEF Inv, ReadInv, MayUnlink, Held,
         account, OthersKeep, Becomes, Requests, Claimed
    <2>5. WipedInv'
      BY <2>1, <2>2, Inv, GrantsApart DEF Inv, WipedInv, account, OthersKeep,
         Becomes, Requests, Claimed
    <2>6. FreshInv'
      BY <2>1, <2>2, <1>0, Inv, GrantsApart DEF Inv, FreshInv, Unknown, account,
         OthersKeep, Becomes, Requests, Claimed
    <2>7. DeadInv'
      BY <2>1, <2>2, <1>0, Inv, GrantsApart DEF Inv, DeadInv, account,
         OthersKeep, Becomes, Requests, Claimed
    <2>8. NoGrantLost'
      BY <2>1, <2>2, <1>0, Inv, GrantsApart DEF Inv, NoGrantLost, account,
         DeadInv, OthersKeep, Becomes, Requests, Claimed
    <2> QED
      BY <2>1, <2>3, <2>4, <2>5, <2>6, <2>7, <2>8, StillInv DEF account
  <1>12. ASSUME NEW f \in Unlinks, UnlinkTake(f) PROVE Kept
    <2>1. /\ lock = None /\ lock' = f
          /\ UNCHANGED <<account, live, queue, link, job, owed>>
      BY TypeOK, <1>12 DEF UnlinkTake, Free, Take
    <2>2. /\ OthersKeep(f)
          /\ Becomes(f, "locked", MayUnlink(ProviderOf[f]), req[f].seen, req[f].said)
      BY TypeOK, <1>12, UnlinkTakes
    <2>3. /\ \A e \in Requests : req[e].pc # "locked"
          /\ \A k \in Links : link[k] # "writing"
      BY Inv, <2>1, GrantsApart, <1>12 DEF Inv, LockInv, Requests
    <2>4. LockInv'
      BY <2>1, <2>2, <2>3, Inv, GrantsApart DEF Inv, LockInv, account,
         OthersKeep, Becomes, Requests
    <2>5. ReadInv'
      <3>1. UNCHANGED methods
        BY <2>1 DEF account
      <3>2. \A p : MayUnlink(p)' = MayUnlink(p)
        BY <3>1 DEF MayUnlink
      <3>3. req'[f].may = MayUnlink(ProviderOf[f])
        BY <2>2 DEF Becomes
      <3>4. f \notin Deletes /\ \A e \in Requests : e # f => req'[e].pc # "locked"
        BY <2>2, <2>3, RequestAssumption DEF OthersKeep
      <3> QED
        BY <3>2, <3>3, <3>4 DEF ReadInv, Requests
    <2>6. WipedInv'
      BY <2>1, <2>2, <2>3, Inv, GrantsApart DEF Inv, WipedInv, account,
         OthersKeep, Becomes, Requests
    <2>7. FreshInv'
      BY <2>1, <2>2, <2>3, <1>0, Inv, GrantsApart DEF Inv, FreshInv, Unknown,
         account, OthersKeep, Becomes, Requests
    <2>8. DeadInv'
      BY <2>1, <2>2, <2>3, <1>0, Inv, GrantsApart DEF Inv, DeadInv, account,
         OthersKeep, Becomes, Requests
    <2> QED
      BY <2>1, <2>4, <2>5, <2>6, <2>7, <2>8, StillInv DEF account
  <1>13. ASSUME NEW f \in Unlinks, UnlinkRefused(f) PROVE Kept
    <2>1. /\ req[f].pc = "locked" /\ lock' = None
          /\ UNCHANGED <<account, live, queue, link, job, owed>>
      BY TypeOK, <1>13 DEF UnlinkRefused, Release
    <2>2. OthersKeep(f) /\ Becomes(f, "done", FALSE, {}, {})
      BY TypeOK, <1>13, AnswersIt DEF UnlinkRefused, Requests
    <2>3. /\ lock = f /\ \A e \in Requests : e # f => req[e].pc # "locked"
          /\ \A k \in Links : link[k] # "writing"
      BY Inv, <2>1, GrantsApart, <1>13 DEF Inv, LockInv, Requests
    <2>4. LockInv'
      BY <2>1, <2>2, <2>3, Inv, GrantsApart DEF Inv, LockInv, account,
         OthersKeep, Becomes, Requests
    <2>5. ReadInv'
      BY <2>1, <2>2, <2>3, Inv, GrantsApart DEF Inv, ReadInv, MayUnlink, Held,
         account, OthersKeep, Becomes, Requests
    <2>6. WipedInv'
      BY <2>1, <2>2, <2>3, Inv, GrantsApart DEF Inv, WipedInv, account,
         OthersKeep, Becomes, Requests
    <2>7. FreshInv'
      BY <2>1, <2>2, <2>3, <1>0, Inv, GrantsApart DEF Inv, FreshInv, Unknown,
         account, OthersKeep, Becomes, Requests
    <2>8. DeadInv'
      BY <2>1, <2>2, <2>3, <1>0, Inv, GrantsApart DEF Inv, DeadInv, account,
         OthersKeep, Becomes, Requests
    <2> QED
      BY <2>1, <2>4, <2>5, <2>6, <2>7, <2>8, StillInv DEF account
  <1>14. ASSUME NEW f \in Unlinks, UnlinkCommit(f) PROVE Kept
    <2>1. /\ req[f].pc = "locked" /\ req[f].may /\ lock' = None
          /\ methods' = methods \ {ProviderOf[f]}
          /\ \/ stored' = None /\ queue' = Enqueued(Held)
             \/ stored' = stored /\ \E gs \in SUBSET Held : queue' = Enqueued(gs)
          /\ UNCHANGED <<authUser, wiped, live, link, job, owed>>
      BY <1>14 DEF UnlinkCommit, Release
    <2>2. OthersKeep(f) /\ \E pc \in {"done", "claim"} : Becomes(f, pc, FALSE, {}, {})
      BY TypeOK, <1>14, UnlinkCommits
    <2>3. /\ lock = f /\ \A e \in Requests : e # f => req[e].pc # "locked"
          /\ \A k \in Links : link[k] # "writing"
          /\ MayUnlink(ProviderOf[f]) \/ ~authUser
      BY Inv, <2>1, GrantsApart, <1>14 DEF Inv, LockInv, ReadInv, Requests
    <2>4. /\ stored' \in {stored, None}
          /\ \A g \in Grants : \/ queue'[g].st = queue[g].st
                               \/ /\ g = stored /\ queue[g].st = "none"
                                /\ queue'[g].st = "pending"
          /\ stored \in Grants => stored' = stored \/ queue'[stored].st # "none"
      <3>1. CASE stored' = None /\ queue' = Enqueued(Held)
        BY <3>1, <1>0, GrantsApart, EnqueuedRows DEF Held
      <3>2. ASSUME stored' = stored, NEW gs \in SUBSET Held, queue' = Enqueued(gs)
            PROVE  \A g \in Grants : \/ queue'[g].st = queue[g].st
                                     \/ /\ g = stored /\ queue[g].st = "none"
                                      /\ queue'[g].st = "pending"
        BY <3>2, EnqueuedRows DEF Held
      <3> QED
        BY <2>1, <3>1, <3>2
    <2>5. LockInv'
      BY <2>1, <2>2, <2>3, <2>4, Inv, GrantsApart DEF Inv, LockInv, account,
         OthersKeep, Becomes, Requests
    <2>6. ReadInv'
      BY <2>1, <2>2, <2>3, <2>4, Inv, GrantsApart DEF Inv, ReadInv, MayUnlink,
         Held, account, OthersKeep, Becomes, Requests
    <2>7. WipedInv'
      BY <2>1, <2>2, <2>3, <2>4, Inv, GrantsApart DEF Inv, WipedInv, account,
         TypeOK, OthersKeep, Becomes, Requests
    <2>8. FreshInv'
      BY <2>1, <2>2, <2>3, <2>4, <1>0, Inv, GrantsApart DEF Inv, FreshInv,
         Unknown, account, OthersKeep, Becomes, Requests
    <2>9. DeadInv'
      BY <2>1, <2>2, <2>3, <2>4, <1>0, Inv, GrantsApart DEF Inv, DeadInv,
         account, OthersKeep, Becomes, Requests
    <2>10. NoGrantLost'
      BY <2>1, <2>2, <2>3, <2>4, <1>0, Inv, GrantsApart DEF Inv, NoGrantLost,
         account, DeadInv, OthersKeep, Becomes, Requests
    <2>11. LastMethodKept'
      <3>1. CASE MayUnlink(ProviderOf[f])
        <4>1. methods \ {ProviderOf[f]} # {}
          BY <3>1, AnotherMethod DEF TypeOK
        <4> QED
          BY <2>1, <4>1 DEF LastMethodKept
      <3>2. CASE ~authUser
        BY <2>1, <3>2 DEF LastMethodKept
      <3> QED
        BY <2>3, <3>1, <3>2
    <2> QED
      BY <2>1, <2>5, <2>6, <2>7, <2>8, <2>9, <2>10, <2>11 DEF account
  <1>15. ASSUME NEW f \in Unlinks, UnlinkEnds(f) PROVE Kept
    <2>1. /\ req[f].pc = "run"
          /\ UNCHANGED <<account, live, queue, lock, link, job, owed>>
      BY TypeOK, <1>15 DEF UnlinkEnds
    <2>2. OthersKeep(f) /\ Becomes(f, "done", FALSE, {}, {})
      BY TypeOK, <1>15, AnswersIt DEF UnlinkEnds, Requests
    <2>3. LockInv'
      BY <2>1, <2>2, Inv, GrantsApart DEF Inv, LockInv, account, OthersKeep,
         Becomes, Requests
    <2>4. ReadInv'
      BY <2>1, <2>2, Inv, GrantsApart DEF Inv, ReadInv, MayUnlink, Held,
         account, OthersKeep, Becomes, Requests
    <2>5. WipedInv'
      BY <2>1, <2>2, Inv, GrantsApart DEF Inv, WipedInv, account, OthersKeep,
         Becomes, Requests
    <2>6. FreshInv'
      BY <2>1, <2>2, <1>0, Inv, GrantsApart DEF Inv, FreshInv, Unknown, account,
         OthersKeep, Becomes, Requests
    <2>7. DeadInv'
      BY <2>1, <2>2, <1>0, Inv, GrantsApart DEF Inv, DeadInv, account,
         OthersKeep, Becomes, Requests
    <2> QED
      BY <2>1, <2>3, <2>4, <2>5, <2>6, <2>7, StillInv DEF account
  <1>16. ASSUME NEW f \in Deletes, DeleteEnqueue(f) PROVE Kept
    <2>1. /\ req[f].pc = "idle"
          /\ queue' = Enqueued(Held)
          /\ UNCHANGED <<account, live, lock, link, job, owed>>
      BY TypeOK, <1>16 DEF DeleteEnqueue
    <2>2. /\ OthersKeep(f)
          /\ \E pc \in {"run", "claim"} :
                Becomes(f, pc, req[f].may, req[f].seen, req[f].said)
      BY TypeOK, <1>16, DeleteEnqueues
    <2>3. \A g \in Grants : queue'[g].st = IF g \in Held /\ queue[g].st = "none"
                                           THEN "pending" ELSE queue[g].st
      BY <2>1, EnqueuedRows, <1>16
    <2>4. LockInv'
      BY <2>1, <2>2, <2>3, Inv, GrantsApart DEF Inv, LockInv, account,
         OthersKeep, Becomes, Requests
    <2>5. ReadInv'
      BY <2>1, <2>2, <2>3, Inv, GrantsApart DEF Inv, ReadInv, MayUnlink, Held,
         account, OthersKeep, Becomes, Requests
    <2>6. WipedInv'
      BY <2>1, <2>2, <2>3, Inv, GrantsApart DEF Inv, WipedInv, account,
         OthersKeep, Becomes, Requests
    <2>7. FreshInv'
      <3>1. \A l \in Links : Unknown(l) => queue'[l].st = "none"
        BY <2>3, GrantsApart DEF Held, Unknown
      <3> QED
        BY <2>1, <2>2, <3>1, Inv, GrantsApart DEF Inv, FreshInv, Unknown, account, OthersKeep,
           Becomes, Requests
    <2>8. DeadInv'
      BY <2>1, <2>2, <2>3, <1>0, Inv, GrantsApart DEF Inv, DeadInv, account,
         OthersKeep, Becomes, Requests
    <2>9. NoGrantLost'
      BY <2>1, <2>2, <2>3, <1>0, Inv, GrantsApart DEF Inv, NoGrantLost, account,
         DeadInv, Held, OthersKeep, Becomes, Requests
    <2> QED
      BY <2>1, <2>4, <2>5, <2>6, <2>7, <2>8, <2>9, StillInv DEF account
  <1>17. ASSUME NEW f \in Deletes, DeleteTake(f) PROVE Kept
    <2>1. /\ req[f].pc = "run" /\ lock = None /\ lock' = f
          /\ UNCHANGED <<account, live, queue, link, job, owed>>
      BY TypeOK, <1>17 DEF DeleteTake, Free, Take
    <2>2. OthersKeep(f) /\ Becomes(f, "locked", req[f].may, Held, req[f].said)
      BY TypeOK, <1>17, DeleteTakes
    <2>3. /\ \A e \in Requests : req[e].pc # "locked"
          /\ \A k \in Links : link[k] # "writing"
      BY Inv, <2>1, GrantsApart, <1>17 DEF Inv, LockInv, Requests
    <2>4. LockInv'
      BY <2>1, <2>2, <2>3, Inv, GrantsApart DEF Inv, LockInv, account,
         OthersKeep, Becomes, Requests
    <2>5. ReadInv'
      <3>1. f \notin Unlinks /\ \A e \in Requests : e # f => req'[e].pc # "locked"
        BY <2>2, <2>3, RequestAssumption DEF OthersKeep
      <3>2. req'[f].seen = Held /\ Held' = Held
        BY <2>1, <2>2 DEF Becomes, Held, account
      <3> QED
        BY <3>1, <3>2 DEF ReadInv, Requests
    <2>6. WipedInv'
      BY <2>1, <2>2, <2>3, Inv, GrantsApart DEF Inv, WipedInv, account,
         OthersKeep, Becomes, Requests
    <2>7. FreshInv'
      BY <2>1, <2>2, <2>3, <1>0, Inv, GrantsApart DEF Inv, FreshInv, Unknown,
         account, Held, OthersKeep, Becomes, Requests
    <2>8. DeadInv'
      BY <2>1, <2>2, <2>3, <1>0, Inv, GrantsApart DEF Inv, DeadInv, account,
         OthersKeep, Becomes, Requests
    <2> QED
      BY <2>1, <2>4, <2>5, <2>6, <2>7, <2>8, StillInv DEF account
  <1>18. ASSUME NEW f \in Deletes, DeleteCommit(f) PROVE Kept
    <2>1. /\ req[f].pc = "locked" /\ lock' = None
          /\ stored' = None /\ wiped' = TRUE
          /\ queue' = Enqueued(req[f].seen)
          /\ UNCHANGED <<authUser, methods, live, link, job, owed>>
      BY TypeOK, <1>18 DEF DeleteCommit, Release
    <2>2. /\ OthersKeep(f)
          /\ \E pc \in {"auth", "claim2"} : Becomes(f, pc, req[f].may, {}, req[f].said)
      BY TypeOK, <1>18, DeleteCommits
    <2>3. /\ lock = f /\ \A e \in Requests : e # f => req[e].pc # "locked"
          /\ \A k \in Links : link[k] # "writing"
          /\ Held \subseteq req[f].seen
      BY Inv, <2>1, GrantsApart, <1>18 DEF Inv, LockInv, ReadInv, Requests
    <2>4. \A g \in Grants : queue'[g].st = IF g \in req[f].seen /\ queue[g].st = "none"
                                           THEN "pending" ELSE queue[g].st
      BY <2>1, EnqueuedRows, <1>18
    <2>5. LockInv'
      BY <2>1, <2>2, <2>3, <2>4, Inv, GrantsApart DEF Inv, LockInv, account,
         OthersKeep, Becomes, Requests
    <2>6. ReadInv'
      BY <2>1, <2>2, <2>3, <2>4, Inv, GrantsApart DEF Inv, ReadInv, MayUnlink,
         Held, account, OthersKeep, Becomes, Requests
    <2>7. WipedInv'
      BY <2>1, <2>2, <2>3, <2>4, Inv, GrantsApart DEF Inv, WipedInv, account,
         TypeOK, OthersKeep, Becomes, Requests
    <2>8. FreshInv'
      BY <2>1, <2>2, <2>3, <2>4, <1>0, Inv, GrantsApart DEF Inv, FreshInv,
         Unknown, account, OthersKeep, Becomes, Requests
    <2>9. DeadInv'
      BY <2>1, <2>2, <2>3, <2>4, <1>0, Inv, GrantsApart DEF Inv, DeadInv,
         account, OthersKeep, Becomes, Requests
    <2>10. NoGrantLost'
      BY <2>1, <2>2, <2>3, <2>4, <1>0, Inv, GrantsApart DEF Inv, NoGrantLost,
         account, DeadInv, Held, OthersKeep, Becomes, Requests
    <2> QED
      BY <2>1, <2>5, <2>6, <2>7, <2>8, <2>9, <2>10, StillInv DEF account
  <1>19. ASSUME NEW f \in Deletes, LateEnds(f) PROVE Kept
    <2>1. /\ req[f].pc = "run2"
          /\ UNCHANGED <<account, live, queue, lock, link, job, owed>>
      BY TypeOK, <1>19 DEF LateEnds
    <2>2. OthersKeep(f) /\ Becomes(f, "auth", req[f].may, req[f].seen, req[f].said)
      BY TypeOK, <1>19, LateEnded
    <2>3. LockInv'
      BY <2>1, <2>2, Inv, GrantsApart DEF Inv, LockInv, account, OthersKeep,
         Becomes, Requests
    <2>4. ReadInv'
      BY <2>1, <2>2, Inv, GrantsApart DEF Inv, ReadInv, MayUnlink, Held,
         account, OthersKeep, Becomes, Requests
    <2>5. WipedInv'
      BY <2>1, <2>2, Inv, GrantsApart DEF Inv, WipedInv, account, OthersKeep,
         Becomes, Requests
    <2>6. FreshInv'
      BY <2>1, <2>2, <1>0, Inv, GrantsApart DEF Inv, FreshInv, Unknown, account,
         OthersKeep, Becomes, Requests
    <2>7. DeadInv'
      BY <2>1, <2>2, <1>0, Inv, GrantsApart DEF Inv, DeadInv, account,
         OthersKeep, Becomes, Requests
    <2> QED
      BY <2>1, <2>3, <2>4, <2>5, <2>6, <2>7, StillInv DEF account
  <1>20. ASSUME NEW f \in Deletes, DeleteAuthUser(f) PROVE Kept
    <2>1. /\ req[f].pc = "auth"
          /\ \/ authUser' = FALSE /\ methods' = {} /\ stored' = None
           \/ UNCHANGED <<authUser, methods, stored>>
          /\ UNCHANGED <<wiped, live, queue, lock, link, job, owed>>
      BY TypeOK, <1>20 DEF DeleteAuthUser
    <2>2. OthersKeep(f) /\ Becomes(f, "done", FALSE, {}, {})
      BY TypeOK, <1>20, AnswersIt DEF DeleteAuthUser, Requests
    <2>3. wiped
      BY Inv, <2>1, <1>20 DEF Inv, WipedInv, Requests
    <2>4. LockInv'
      BY <2>1, <2>2, <2>3, Inv, GrantsApart DEF Inv, LockInv, account,
         OthersKeep, Becomes, Requests
    <2>5. ReadInv'
      BY <2>1, <2>2, <2>3, Inv, GrantsApart DEF Inv, ReadInv, MayUnlink, Held,
         account, OthersKeep, Becomes, Requests
    <2>6. WipedInv'
      BY <2>1, <2>2, <2>3, Inv, GrantsApart DEF Inv, WipedInv, account, TypeOK,
         OthersKeep, Becomes, Requests
    <2>7. FreshInv'
      BY <2>1, <2>2, <2>3, <1>0, Inv, GrantsApart DEF Inv, FreshInv, Unknown,
         account, OthersKeep, Becomes, Requests
    <2>8. DeadInv'
      BY <2>1, <2>2, <2>3, <1>0, Inv, GrantsApart DEF Inv, DeadInv, account,
         OthersKeep, Becomes, Requests
    <2>9. NoGrantLost'
      BY <2>1, <2>2, <2>3, <1>0, Inv, GrantsApart DEF Inv, NoGrantLost, account,
         DeadInv, WipedInv, OthersKeep, Becomes, Requests
    <2>10. LastMethodKept'
      BY <2>1, <2>2, <2>3, Inv, GrantsApart DEF Inv, LastMethodKept, account,
         OthersKeep, Becomes, Requests
    <2> QED
      BY <2>1, <2>4, <2>5, <2>6, <2>7, <2>8, <2>9, <2>10 DEF account
  <1>21. ASSUME NEW f \in Requests, RequestDies(f) PROVE Kept
    <2>1. /\ lock' = IF lock = f THEN None ELSE lock
          /\ \A s \in Runners, h \in Grants : job'[s][h] \in {"none", job[s][h]}
          /\ UNCHANGED <<account, live, queue, link, owed>>
      BY TypeOK, <1>21 DEF RequestDies, TypeOK, Runners
    <2>2. OthersKeep(f) /\ Becomes(f, "done", FALSE, {}, {})
      BY TypeOK, <1>21, AnswersIt DEF RequestDies, Requests
    <2>3. LockInv'
      BY <2>1, <2>2, Inv, GrantsApart DEF Inv, LockInv, account, OthersKeep,
         Becomes, Requests
    <2>4. ReadInv'
      BY <2>1, <2>2, Inv, GrantsApart DEF Inv, ReadInv, MayUnlink, Held,
         account, OthersKeep, Becomes, Requests
    <2>5. WipedInv'
      BY <2>1, <2>2, Inv, GrantsApart DEF Inv, WipedInv, account, OthersKeep,
         Becomes, Requests
    <2>6. FreshInv'
      BY <2>1, <2>2, <1>0, Inv, GrantsApart DEF Inv, FreshInv, Unknown, account,
         OthersKeep, Becomes, Requests
    <2>7. DeadInv'
      BY <2>1, <2>2, <1>0, Inv, GrantsApart DEF Inv, DeadInv, account,
         OthersKeep, Becomes, Requests
    <2> QED
      BY <2>1, <2>3, <2>4, <2>5, <2>6, <2>7, StillInv DEF account
  <1>22. ASSUME UNCHANGED vars PROVE Kept
    BY <1>22, StillInv DEF vars, account
  <1>23. Kept
      BY <1>1, <1>2, <1>3, <1>4, <1>5, <1>6, <1>7, <1>8, <1>9, <1>10, <1>11, <1>12,
         <1>13, <1>14, <1>15, <1>16, <1>17, <1>18, <1>19, <1>20, <1>21, <1>22 DEF Next,
         LinkSteps, JobSteps, UnlinkSteps, DeleteSteps, Requests
  <1> QED
    BY <1>23, TypesKept DEF Inv

-----------------------------------------------------------------------------
(* The theorems. *)

LEMMA InitInv == Init => Inv
  <1> SUFFICES ASSUME Init PROVE Inv
    OBVIOUS
  <1>1. TypeOK
    <2>1. NoRow \in Row
      BY TimeAssumption DEF NoRow, Finished, Row
    <2>2. queue \in [Grants -> Row]
      BY <2>1 DEF Init
    <2>3. req \in [Requests -> RequestState]
      BY NewRequestFields DEF Init
    <2>4. live \in SUBSET Grants /\ owed \in SUBSET Grants /\ stored \in Grants \cup {None}
      BY DEF Init, Held, Grants
    <2>5. stored # None => "apple" \in methods
      BY DEF Init
    <2>6. /\ authUser \in BOOLEAN /\ wiped \in BOOLEAN /\ methods \in SUBSET Methods
          /\ lock \in Links \cup Requests \cup {None}
      BY DEF Init
    <2>8. faults \in 0..MaxFaults
      BY TimeAssumption DEF Init
    <2>7. /\ link \in [Links -> {"idle", "granted", "writing", "cleanup", "done"}]
          /\ job \in [Runners -> [Grants -> {"none", "call", "ok", "failed"}]]
      BY DEF Init
    <2> QED
      BY <2>2, <2>3, <2>4, <2>5, <2>6, <2>7, <2>8 DEF TypeOK
  <1>2. /\ \A f \in Requests : req[f].pc = "idle" /\ req[f].seen = {} /\ req[f].said = {}
        /\ \A f \in Requests : ~req[f].may
        /\ \A g \in Grants : queue[g].st = "none"
    <2>1. NoRow.st = "none"
      BY DEF NoRow, Finished
    <2> QED
      BY <2>1, NewRequestFields DEF Init
  <1>3. LockInv /\ ReadInv /\ WipedInv /\ DeadInv /\ NoGrantLost /\ LastMethodKept
    BY <1>1, <1>2 DEF Init, TypeOK, Requests, LockInv, ReadInv, WipedInv, DeadInv,
       NoGrantLost, LastMethodKept, Held
  <1>4. FreshInv
    BY <1>2, RequestAssumption, GrantsApart DEF Init, FreshInv, Unknown, Held
  <1> QED
    BY <1>1, <1>3, <1>4 DEF Inv

\* The invariant holds in every reachable state.
THEOREM InvHolds == Spec => []Inv
  <1>1. Inv /\ [Next]_vars => Inv'
    BY InvKept
  <1> QED
    BY InitInv, <1>1, PTL DEF Spec

\* Every variable keeps its type; a stored grant belongs to a linked Apple
\* identity (app.signin_provider_token and auth.identities change together).
THEOREM GrantsAreTyped == Spec => []TypeOK
  <1>1. Inv => TypeOK
    BY DEF Inv
  <1> QED
    BY InvHolds, <1>1, PTL

\* No grant the server has stored is lost by links, unlinks, deletions and
\* runs of the queue, however they interleave and wherever they fail.
THEOREM GrantsAreNotLost == Spec => []NoGrantLost
  <1>1. Inv => NoGrantLost
    BY DEF Inv
  <1> QED
    BY InvHolds, <1>1, PTL

\* However many unlinks run at the same time, an account that exists keeps a
\* method to sign in with (signin_unlink_identity counts under the lock).
THEOREM AMethodRemains == Spec => []LastMethodKept
  <1>1. Inv => LastMethodKept
    BY DEF Inv
  <1> QED
    BY InvHolds, <1>1, PTL

\* A grant that a response calls revoked is no longer live at Apple.
THEOREM RevokedMeansRevoked == Spec => []ReportsAreTrue
  <1>1. Inv => ReportsAreTrue
    BY DEF Inv, DeadInv, ReportsAreTrue
  <1> QED
    BY InvHolds, <1>1, PTL
=============================================================================
