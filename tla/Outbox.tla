------------------------------- MODULE Outbox -------------------------------
(***************************************************************************)
(* The outbox of one device (apps/mobile/src/outbox, evidence/send.ts)     *)
(* against the evidence intake of the server.  A play is a row of the      *)
(* device's store; a pass of the runner takes the due rows of one user     *)
(* through redeem, persist, POST and answer, with an await between any two *)
(* of them, while users sign in and out, the app is killed, requests and   *)
(* answers are lost or arrive late, and catalogs move on both sides.       *)
(*                                                                         *)
(* Time is abstracted: aged[i] says that the deadline of row i's status is *)
(* past (a retry is due, a `sent` is stale, a dead letter is 90 days old), *)
(* lapsed[i] that the challenges of play i have expired.  All of MaxCat's  *)
(* catalog versions are published; device and server lag behind.           *)
(***************************************************************************)
EXTENDS Naturals, Sequences, FiniteSets

CONSTANTS
    Users, Nobody,     \* Nobody: signed out
    Items, Owner,      \* the plays this device captures, and who plays them
    Imports,           \* historic plays: batched, no check-in fix
    Refused,           \* plays the server refuses (422 unknown_id and its like)
    NumFixes,          \* fixes of a check-in
    MaxDefer,          \* ATTEST_MAX_DEFERRALS
    BatchMax,          \* BATCH_MAX_ITEMS
    MaxCat,            \* bound: catalog versions
    MaxChain,          \* bound: passes running or waiting
    MaxFaults,         \* bound: faults of network, process, store and session
    StoreFaults        \* TRUE: persistPayload's write can fail

ASSUME UsersAssumption == Nobody \notin Users /\ Owner \in [Items -> Users]
ASSUME ItemsAssumption == /\ IsFiniteSet(Items)
                          /\ Imports \subseteq Items /\ Refused \subseteq Items
ASSUME BoundsAssumption == /\ NumFixes \in Nat /\ MaxDefer \in Nat
                           /\ BatchMax \in Nat \ {0} /\ MaxCat \in Nat \ {0}
                           /\ MaxChain \in Nat /\ MaxFaults \in Nat
                           /\ StoreFaults \in BOOLEAN

VARIABLES
    \* the device's store and session
    user,       \* session.currentUserId()
    row,        \* row[i]: the outbox row of play i
    aged, lapsed, devCat,
    \* the runner, all of it lost with the process
    chain,      \* the users of the running pass (first) and the waiting ones
    pc,         \* the await the running pass is at
    todo,       \* rows its current list still holds
    prior,      \* prior[i]: the status of row i before this send (DOMAIN: the send)
    work,       \* work[i]: the challenges of the payload being sent
    round,      \* 0: batches; 1, 2: the rounds of a single item
    refreshed,  \* the catalog was refreshed in this pass
    forced,     \* this send has refreshed its token after a 401
    bearer,     \* whose token the pass holds
    answer,     \* answer[i]: the answer of this send
    \* the network and the server
    wire,       \* the evidence request the pass awaits
    late,       \* requests nobody awaits any more, still on their way
    token,      \* token[i][f]: the challenge of a fix at the server
    ledger,     \* ledger[u][i]: the evidence row of (user, source_ref)
    srvCat, srvOld,  \* newest imported version, oldest one accepted
    faults

session == <<user, lapsed>>
store == <<row, aged, devCat>>
sending == <<prior, work, forced, bearer, answer>>
pass == <<chain, pc, todo, round, refreshed, sending>>
server == <<token, ledger, srvCat, srvOld>>
vars == <<session, store, pass, wire, late, server, faults>>

Fixes == 1..NumFixes
Cats == 1..MaxCat
Held(n) == [st |-> "held", n |-> n]      \* n: deferred attestations so far
None == [st |-> "none", n |-> 0]
Redeemed == [st |-> "redeemed", n |-> 0]
Challenges == [st : {"held"}, n : 0..MaxDefer] \cup {None, Redeemed}
Statuses == {"absent", "pending", "sent", "accepted", "queued", "retry",
             "needs_attention", "gone"}
Rows == [status : Statuses, cat : Cats, rematch : BOOLEAN, listed : BOOLEAN,
         ch : [Fixes -> Challenges]]
Bodies == [cat : Cats, jtis : SUBSET Fixes]
Answers == {"accepted", "queued", "stale", "retry", "unauthorized", "refused",
            "conflict"}
NoRecord == [st |-> "none"]
Records == [st : {"queued", "accepted", "rejected"}, body : Bodies]
           \cup {NoRecord}
Requests == UNION {[user : Users, body : [S -> Bodies]] :
                      S \in (SUBSET Items) \ {{}}}
NoWire == [st |-> "none"]
PCs == {"idle", "batch", "item", "rematch", "token", "mark", "redeem",
        "persist", "post", "refresh", "apply"}

FunsTo(T) == UNION {[S -> T] : S \in SUBSET Items}

TypeOK ==
    /\ user \in Users \cup {Nobody}
    /\ row \in [Items -> Rows]
    /\ aged \in [Items -> BOOLEAN] /\ lapsed \in [Items -> BOOLEAN]
    /\ devCat \in Cats /\ srvCat \in Cats /\ srvOld \in 1..srvCat
    /\ chain \in Seq(Users \cup {Nobody})
    /\ pc \in PCs /\ (chain = <<>> => pc = "idle")
    /\ todo \in SUBSET Items
    /\ prior \in FunsTo({"pending", "retry"})
    /\ work \in FunsTo([Fixes -> Challenges])
    /\ round \in 0..2 /\ refreshed \in BOOLEAN /\ forced \in BOOLEAN
    /\ bearer \in Users \cup {Nobody}
    /\ answer \in FunsTo(Answers)
    /\ wire = NoWire \/ wire.st \in {"sent", "answered"}
    /\ wire.st # "none" => wire.req \in Requests
    /\ wire.st = "answered" => wire.ans \in [DOMAIN wire.req.body -> Answers]
    /\ late \subseteq Requests
    /\ token \in [Items -> [Fixes -> {"open", "issued", "dead"}]]
    /\ ledger \in [Users -> [Items -> Records]]
    /\ faults \in 0..MaxFaults

Init ==
    /\ user = Nobody
    /\ row = [i \in Items |-> [status |-> "absent", cat |-> 1, rematch |-> FALSE,
                               listed |-> TRUE, ch |-> [f \in Fixes |-> None]]]
    /\ aged = [i \in Items |-> FALSE] /\ lapsed = [i \in Items |-> FALSE]
    /\ devCat = 1 /\ srvCat = 1 /\ srvOld = 1
    /\ chain = <<>> /\ pc = "idle" /\ todo = {} /\ round = 0
    /\ prior = <<>> /\ work = <<>> /\ answer = <<>>
    /\ refreshed = FALSE /\ forced = FALSE /\ bearer = Nobody
    /\ wire = NoWire /\ late = {}
    /\ token = [i \in Items |-> [f \in Fixes |-> "open"]]
    /\ ledger = [u \in Users |-> [i \in Items |-> NoRecord]]
    /\ faults = MaxFaults

Fault == faults > 0 /\ faults' = faults - 1

-----------------------------------------------------------------------------
(* The state machine of one row (machine.ts).                              *)

\* isDue
Due(i) == /\ row[i].listed
          /\ \/ row[i].status = "pending"
             \/ row[i].status = "retry" /\ aged[i]

\* applyAnswer and classifyAnswer: the row r after the answer a.
Answered(r, a) ==
    [r EXCEPT !.status = CASE a \in {"accepted", "queued"} -> a
                           [] a = "stale" -> "pending"
                           [] a \in {"retry", "unauthorized"} -> "retry"
                           [] a \in {"refused", "conflict"} -> "needs_attention",
              !.rematch = (a = "stale")]

\* completeRematch: to the course in the catalog c, to no course, or not at all.
Rematched(r, c) ==
    {[r EXCEPT !.rematch = FALSE, !.cat = c],
     [r EXCEPT !.rematch = FALSE, !.cat = c, !.listed = FALSE],
     [r EXCEPT !.rematch = FALSE, !.status = "needs_attention"]}

\* Mutant: recovery takes store.list(), not listByOwner(runUser).
AtPassStartAnyOwner(i, u) ==
    IF row[i].status = "needs_attention" /\ aged[i]
    THEN [row[i] EXCEPT !.status = "gone"]
    ELSE IF row[i].status = "sent" /\ aged[i]
    THEN [row[i] EXCEPT !.status = "retry"]
    ELSE row[i]

\* Mutant: interrupted sends are never recovered.
AtPassStartNoRecovery(i, u) ==
    IF row[i].status = "needs_attention" /\ aged[i]
    THEN [row[i] EXCEPT !.status = "gone"]
    ELSE row[i]

\* isExpiredDeadLetter, and isStaleSent with recoverInterrupted for user u.
AtPassStart(i, u) ==
    IF row[i].status = "needs_attention" /\ aged[i]
    THEN [row[i] EXCEPT !.status = "gone"]
    ELSE IF row[i].status = "sent" /\ aged[i] /\ Owner[i] = u
    THEN [row[i] EXCEPT !.status = "retry"]
    ELSE row[i]

-----------------------------------------------------------------------------
(* The server.                                                             *)

\* buildReplayResult: what a replay of a recorded play is answered.
Replay(st) == IF st = "rejected" THEN "refused" ELSE st

\* handleEvidenceIntake: the existing row first, then the catalog skew, then
\* the ids.
Intake(u, i, b) ==
    LET r == ledger[u][i]
    IN  IF r # NoRecord THEN IF r.body = b THEN Replay(r.st) ELSE "conflict"
        ELSE IF b.cat < srvOld THEN "stale"
        ELSE IF b.cat > srvCat THEN "queued"
        ELSE IF i \in Refused THEN "refused"
        ELSE "accepted"

\* The transaction of the request q, for the items S of it that no rate limit
\* stops: new rows are inserted, and the check-in tokens they use consumed.
Insert(q, S) ==
    LET new == {i \in S : /\ ledger[q.user][i] = NoRecord
                          /\ Intake(q.user, i, q.body[i]) \in {"accepted", "queued"}}
        used(i, f) == /\ i \in new
                      /\ f \in q.body[i].jtis
                      /\ Intake(q.user, i, q.body[i]) = "accepted"
    IN  /\ ledger' = [ledger EXCEPT ![q.user] = [i \in Items |->
                          IF i \in new
                          THEN [st |-> Intake(q.user, i, q.body[i]), body |-> q.body[i]]
                          ELSE @[i]]]
        /\ token' = [i \in Items |-> [f \in Fixes |->
                        IF used(i, f) THEN "dead" ELSE token[i][f]]]

\* handleTokenRequest: an unused challenge, or a repeat of its redemption.
CanRedeem(i, f) ==
    /\ bearer = Owner[i]
    /\ token[i][f] = "issued" \/ (token[i][f] = "open" /\ ~lapsed[i])

-----------------------------------------------------------------------------
(* What a pass does between two awaits.                                    *)

RunUser == chain[1]
UserChanged == user # RunUser
Sending == DOMAIN prior

ClearSend == /\ prior' = <<>> /\ work' = <<>> /\ answer' = <<>>
             /\ forced' = FALSE /\ bearer' = Nobody

\* The pass returns, aborts or throws; the one waiting behind it is next.
EndPass == /\ chain' = Tail(chain)
           /\ pc' = "idle" /\ todo' = {} /\ round' = 0 /\ refreshed' = FALSE
           /\ ClearSend

\* sendEvidenceItem (or sendEvidenceBatch, whose items have no challenge) with
\* the payloads w: expired challenges are dropped; the first one still held is
\* redeemed, and when none is, the evidence request goes out.
Drop(i, c) == IF lapsed[i] /\ c.st = "held" THEN None ELSE c
IsHeld(w, i, f) == w[i][f].st = "held"
Continue(w) ==
    LET v == [i \in DOMAIN w |-> [f \in Fixes |-> Drop(i, w[i][f])]]
        body(i) == [cat |-> row[i].cat,
                    jtis |-> {f \in Fixes : v[i][f] = Redeemed}]
    IN  /\ work' = v
        /\ IF \E i \in DOMAIN v, f \in Fixes : IsHeld(v, i, f)
           THEN pc' = "redeem" /\ UNCHANGED wire
           ELSE /\ pc' = "post"
                /\ wire' = [st |-> "sent",
                            req |-> [user |-> bearer,
                                     body |-> [i \in DOMAIN v |-> body(i)]]]

\* The answers a of a send: a 401 is answered, once, with a forced refresh.
Unauthorized(a) == \E i \in DOMAIN a : a[i] = "unauthorized"
AfterAnswer(a) ==
    /\ answer' = a
    /\ pc' = IF Unauthorized(a) /\ ~UserChanged /\ ~forced
             THEN "refresh" ELSE "apply"

All(a) == [i \in Sending |-> a]

-----------------------------------------------------------------------------
(* The runner (runner.ts).                                                 *)

\* run(): joins the last pass of the same user, or waits behind it.
RunOutbox ==
    /\ Len(chain) < MaxChain
    /\ chain # <<>> => chain[Len(chain)] # user
    /\ chain' = Append(chain, user)
    /\ UNCHANGED <<session, store, pc, todo, round, refreshed, sending, wire, late,
                   server, faults>>

\* Dead letters of every owner expire; then, for the user of the pass only,
\* interrupted sends are recovered and the due imports listed.
StartPass ==
    /\ pc = "idle" /\ chain # <<>> /\ UNCHANGED aged
    /\ IF RunUser = Nobody \/ UserChanged
       THEN row' = [i \in Items |-> AtPassStart(i, Nobody)] /\ EndPass
       ELSE /\ row' = [i \in Items |-> AtPassStart(i, RunUser)]
            /\ todo' = {i \in Imports : Owner[i] = RunUser /\ ~row'[i].rematch
                                         /\ Due(i)'}
            /\ pc' = "batch"
            /\ UNCHANGED <<chain, round, refreshed, sending>>
    /\ UNCHANGED <<session, devCat, wire, late, server, faults>>

\* The next planned batch, or the end of the batches: list the user's rows.
NextBatch ==
    /\ pc = "batch"
    /\ IF todo = {}
       THEN /\ todo' = {i \in Items : Owner[i] = RunUser
                                      /\ row[i].status \notin {"absent", "gone"}}
            /\ pc' = "item" /\ round' = 1
            /\ UNCHANGED <<chain, refreshed, sending>>
       ELSE IF UserChanged THEN EndPass
       ELSE \E S \in SUBSET todo :
            /\ Cardinality(S) = IF Cardinality(todo) < BatchMax
                                THEN Cardinality(todo) ELSE BatchMax
            /\ prior' = [i \in S |-> row[i].status]
            /\ todo' = todo \ S
            /\ pc' = "token"
            /\ UNCHANGED <<chain, round, refreshed, work, forced, bearer, answer>>
    /\ UNCHANGED <<session, store, wire, late, server, faults>>

\* The next round of the current item, or the next item of the list.
Turn(i) ==
    /\ pc = "item"
    /\ i \in IF Sending = {} THEN todo ELSE Sending
    /\ IF UserChanged THEN EndPass
       ELSE /\ IF row[i].status = "pending" /\ row[i].rematch
               THEN /\ pc' = "rematch" /\ prior' = [j \in {i} |-> "pending"]
                    /\ UNCHANGED <<todo, round>>
               ELSE IF Due(i)
               THEN /\ pc' = "token" /\ prior' = [j \in {i} |-> row[i].status]
                    /\ UNCHANGED <<todo, round>>
               ELSE /\ todo' = todo \ {i} /\ round' = 1 /\ prior' = <<>>
                    /\ UNCHANGED pc
            /\ UNCHANGED <<chain, refreshed, work, forced, bearer, answer>>
    /\ UNCHANGED <<session, store, wire, late, server, faults>>

PassDone ==
    /\ pc = "item" /\ todo = {}
    /\ EndPass
    /\ UNCHANGED <<session, store, wire, late, server, faults>>

\* The catalog is refreshed, once in a pass (a refresh may fail), and the row
\* re-matched against what the device has then.
Rematch ==
    /\ pc = "rematch"
    /\ \/ refreshed /\ UNCHANGED <<devCat, faults>>
       \/ ~refreshed /\ devCat' = MaxCat /\ UNCHANGED faults
       \/ ~refreshed /\ Fault /\ UNCHANGED devCat
    /\ \E i \in Sending : \E r \in Rematched(row[i], devCat') :
           /\ row' = [row EXCEPT ![i] = r]
           /\ aged' = [aged EXCEPT ![i] = FALSE]
    /\ refreshed' = TRUE
    /\ pc' = "item"
    /\ UNCHANGED <<session, chain, todo, round, sending, wire, late, server>>

\* Mutant: the token of whoever is signed in, not of the item's owner.
GetAnyToken ==
    /\ pc = "token"
    /\ \/ /\ user # Nobody
          /\ bearer' = user /\ pc' = "mark"
          /\ UNCHANGED <<chain, todo, round, refreshed, prior, work, forced, answer>>
       \/ user = Nobody /\ EndPass
    /\ UNCHANGED <<session, store, wire, late, server, faults>>

\* tokenFor(owner): the owner's bearer, or null (another user's session, or a
\* refresh that failed), which ends the pass.
GetToken ==
    /\ pc = "token"
    /\ \/ /\ ~UserChanged
          /\ bearer' = RunUser /\ pc' = "mark"
          /\ UNCHANGED <<chain, todo, round, refreshed, prior, work, forced, answer, faults>>
       \/ UserChanged /\ EndPass /\ UNCHANGED faults
       \/ Fault /\ EndPass
    /\ UNCHANGED <<session, store, wire, late, server>>

\* beginSend and its durable update, one row at a time.
MarkSent(i) ==
    /\ pc = "mark"
    /\ i \in Sending /\ row[i].status # "sent"
    /\ row' = [row EXCEPT ![i].status = "sent"]
    /\ aged' = [aged EXCEPT ![i] = FALSE]
    /\ UNCHANGED <<session, devCat, pass, wire, late, server, faults>>

\* The last check, in one step with the start of the send.  If the user has
\* changed the marks are undone.
LastCheck ==
    /\ pc = "mark"
    /\ \A i \in Sending : row[i].status = "sent"
    /\ IF UserChanged
       THEN /\ row' = [i \in Items |-> IF i \in Sending
                          THEN [row[i] EXCEPT !.status = prior[i]] ELSE row[i]]
            /\ aged' = [i \in Items |-> IF i \in Sending
                          THEN prior[i] = "retry" ELSE aged[i]]
            /\ EndPass
            /\ UNCHANGED wire
       ELSE /\ Continue([i \in Sending |-> row[i].ch])
            /\ UNCHANGED <<row, aged, chain, todo, round, refreshed, prior, forced,
                           bearer, answer>>
    /\ UNCHANGED <<session, devCat, late, server, faults>>

-----------------------------------------------------------------------------
(* Redeeming a held challenge (evidence/send.ts): the fix f of the item i.  *)

AtFix(i, f) == /\ i \in Sending
               /\ IsHeld(work, i, f)
               /\ \A g \in 1..f-1 : ~IsHeld(work, i, g)

\* The outcome c of the redemption is recorded before anything else can fail.
Learn(i, f, c) == /\ work' = [work EXCEPT ![i][f] = c]
                  /\ pc' = "persist"

RedeemOk(i, f) ==
    /\ CanRedeem(i, f)
    /\ token' = [token EXCEPT ![i][f] = "issued"]
    /\ Learn(i, f, Redeemed)
    /\ UNCHANGED <<answer, faults>>

RedeemRefused(i, f) ==
    /\ ~CanRedeem(i, f)
    /\ Learn(i, f, None)
    /\ UNCHANGED <<token, answer, faults>>

\* No answer (the redemption may have happened), a 5xx or 429, a 401, a 403.
RedeemFails(i, f) ==
    /\ Fault
    /\ \/ /\ AfterAnswer(All("retry"))
          /\ \/ UNCHANGED token
             \/ CanRedeem(i, f) /\ token' = [token EXCEPT ![i][f] = "issued"]
       \/ AfterAnswer(All("unauthorized")) /\ UNCHANGED token
       \/ AfterAnswer(All("refused")) /\ UNCHANGED token
    /\ UNCHANGED work

\* Mutant: the bound on deferrals is off by one.
DeferredOnceMore(i, f) ==
    /\ IF work[i][f].n <= MaxDefer
       THEN Learn(i, f, Held(work[i][f].n + 1)) /\ answer' = All("retry")
       ELSE Learn(i, f, None) /\ UNCHANGED answer
    /\ UNCHANGED <<token, faults>>

\* AttestationDeferred: counted on the challenge, which is dropped at the bound.
Deferred(i, f) ==
    /\ IF work[i][f].n < MaxDefer
       THEN Learn(i, f, Held(work[i][f].n + 1)) /\ answer' = All("retry")
       ELSE Learn(i, f, None) /\ UNCHANGED answer
    /\ UNCHANGED <<token, faults>>

Redeem ==
    /\ pc = "redeem"
    /\ \E i \in Items, f \in Fixes :
           /\ AtFix(i, f)
           /\ \/ RedeemOk(i, f) \/ RedeemRefused(i, f)
              \/ RedeemFails(i, f) \/ Deferred(i, f)
    /\ UNCHANGED <<session, store, chain, todo, round, refreshed, prior, forced, bearer,
                   wire, late, ledger, srvCat, srvOld>>

\* Mutant: what was redeemed is kept in memory until the answer.
PersistNothing ==
    /\ pc = "persist"
    /\ IF answer = <<>>
       THEN Continue(work)
       ELSE pc' = "apply" /\ UNCHANGED <<work, wire>>
    /\ UNCHANGED <<session, store, chain, todo, round, refreshed, prior, forced,
                   bearer, answer, late, server, faults>>

\* persistPayload, whose failure is swallowed; then the next fix, the evidence
\* request, or the answer of a deferral.
Persist ==
    /\ pc = "persist"
    /\ \/ /\ row' = [i \in Items |-> IF i \in Sending
                        THEN [row[i] EXCEPT !.ch = work[i]] ELSE row[i]]
          /\ UNCHANGED faults
       \/ StoreFaults /\ Fault /\ UNCHANGED row
    /\ IF answer = <<>>
       THEN Continue(work)
       ELSE pc' = "apply" /\ UNCHANGED <<work, wire>>
    /\ UNCHANGED <<session, aged, devCat, chain, todo, round, refreshed, prior, forced,
                   bearer, answer, late, server>>

-----------------------------------------------------------------------------
(* The evidence request.                                                   *)

\* The server handles it; some items may meet a rate limit, or all a 401.
Deliver ==
    /\ wire.st = "sent"
    /\ \E S \in SUBSET DOMAIN wire.req.body, other \in {"retry", "unauthorized"} :
           /\ IF S = DOMAIN wire.req.body
              THEN other = "retry" /\ UNCHANGED faults
              ELSE Fault /\ (other = "unauthorized" => S = {})
           /\ Insert(wire.req, S)
           /\ wire' = [st |-> "answered", req |-> wire.req,
                       ans |-> [i \in DOMAIN wire.req.body |->
                                   IF i \in S
                                   THEN Intake(wire.req.user, i, wire.req.body[i])
                                   ELSE other]]
    /\ UNCHANGED <<session, store, pass, late, srvCat, srvOld>>

\* Mutant: the answers of a batch reach the items in another order.
ReceiveMisaligned ==
    /\ pc = "post" /\ wire.st = "answered"
    /\ \E p \in [Sending -> Sending] : AfterAnswer([i \in Sending |-> wire.ans[p[i]]])
    /\ wire' = NoWire
    /\ UNCHANGED <<session, store, chain, todo, round, refreshed, prior, work, forced,
                   bearer, late, server, faults>>

Receive ==
    /\ pc = "post" /\ wire.st = "answered"
    /\ AfterAnswer(wire.ans)
    /\ wire' = NoWire
    /\ UNCHANGED <<session, store, chain, todo, round, refreshed, prior, work, forced,
                   bearer, late, server, faults>>

\* What is on its way when nobody waits for it any more.
Stray == IF wire.st = "sent" THEN late \cup {wire.req} ELSE late

\* The HTTP timeout, or a lost answer.
NetError ==
    /\ pc = "post" /\ Fault
    /\ AfterAnswer(All("retry"))
    /\ wire' = NoWire /\ late' = Stray
    /\ UNCHANGED <<session, store, chain, todo, round, refreshed, prior, work, forced,
                   bearer, server>>

\* One refresh for the owner and one resend, of the payload as it is now; or
\* none (the user changed, the refresh failed, or it was refused, which signs
\* the user out).
Refresh ==
    /\ pc = "refresh"
    /\ \/ /\ ~UserChanged
          /\ forced' = TRUE /\ answer' = <<>>
          /\ Continue(work)
          /\ UNCHANGED <<user, faults>>
       \/ /\ \/ UserChanged /\ UNCHANGED <<user, faults>>
             \/ ~UserChanged /\ Fault /\ user' \in {user, Nobody}
          /\ pc' = "apply"
          /\ UNCHANGED <<forced, answer, work, wire>>
    /\ UNCHANGED <<lapsed, store, chain, todo, round, refreshed, prior, bearer, late,
                   server>>

\* applyAnswer and its durable update, one row at a time: the payload the
\* send learned goes into the row with the answer.
Apply(i) ==
    /\ pc = "apply"
    /\ i \in DOMAIN answer /\ row[i].status = "sent"
    /\ row' = [row EXCEPT ![i] = Answered([row[i] EXCEPT !.ch = work[i]], answer[i])]
    /\ aged' = [aged EXCEPT ![i] = FALSE]
    /\ UNCHANGED <<session, devCat, pass, wire, late, server, faults>>

AfterApply ==
    /\ pc = "apply"
    /\ \A i \in Sending : row[i].status # "sent"
    /\ IF Unauthorized(answer) \/ (round = 0 /\ UserChanged) THEN EndPass
       ELSE /\ work' = <<>> /\ answer' = <<>> /\ forced' = FALSE /\ bearer' = Nobody
            /\ IF round = 0
               THEN pc' = "batch" /\ prior' = <<>> /\ UNCHANGED <<todo, round>>
               ELSE /\ pc' = "item"
                    /\ IF round = 1 /\ \E i \in Sending : row[i].rematch
                       THEN round' = 2 /\ UNCHANGED <<todo, prior>>
                       ELSE todo' = todo \ Sending /\ round' = 1 /\ prior' = <<>>
            /\ UNCHANGED <<chain, refreshed>>
    /\ UNCHANGED <<session, store, wire, late, server, faults>>

\* store.update throws: the pass rejects and the next one starts.
StoreRejects ==
    /\ pc \in {"mark", "apply"} /\ Fault
    /\ EndPass
    /\ UNCHANGED <<session, store, wire, late, server>>

-----------------------------------------------------------------------------
(* Everything else that happens.                                           *)

SignIn(u) ==
    /\ user # u
    /\ user' = u
    /\ UNCHANGED <<lapsed, store, pass, wire, late, server, faults>>

\* The play is captured and enqueued (createItem); CheckIn.tla has the details.
Enqueue(i) ==
    /\ row[i].status = "absent" /\ user = Owner[i]
    /\ \E H \in IF i \in Imports THEN {{}} ELSE SUBSET Fixes :
           row' = [row EXCEPT ![i] =
                      [status |-> "pending", cat |-> devCat, rematch |-> FALSE,
                       listed |-> TRUE,
                       ch |-> [f \in Fixes |-> IF f \in H THEN Held(0) ELSE None]]]
    /\ UNCHANGED <<session, aged, devCat, pass, wire, late, server, faults>>

\* The process is killed, and started again later with the stored session.
Crash ==
    /\ Fault /\ chain # <<>>
    /\ chain' = <<>> /\ pc' = "idle" /\ todo' = {} /\ round' = 0 /\ refreshed' = FALSE
    /\ ClearSend
    /\ wire' = NoWire /\ late' = Stray
    /\ UNCHANGED <<session, store, server>>

\* Time: a deadline of a row, the life of a challenge, the life of a token.
Tick(i) ==
    /\ ~aged[i] /\ row[i].status \in {"retry", "sent", "needs_attention"}
    /\ aged' = [aged EXCEPT ![i] = TRUE]
    /\ UNCHANGED <<session, row, devCat, pass, wire, late, server, faults>>

Lapse(i) ==
    /\ ~lapsed[i] /\ row[i].status # "absent" /\ i \notin Imports
    /\ lapsed' = [lapsed EXCEPT ![i] = TRUE]
    /\ UNCHANGED <<user, store, pass, wire, late, server, faults>>

TokenExpires(i, f) ==
    /\ token[i][f] = "issued"
    /\ token' = [token EXCEPT ![i][f] = "dead"]
    /\ UNCHANGED <<session, store, pass, wire, late, ledger, srvCat, srvOld, faults>>

\* The app refreshes its catalog outside a pass.
CatalogArrives ==
    /\ devCat < MaxCat
    /\ devCat' = MaxCat
    /\ UNCHANGED <<session, row, aged, pass, wire, late, server, faults>>

\* The server imports a version; the oldest it accepts falls out of the window.
Import ==
    /\ srvCat < MaxCat
    /\ srvCat' = srvCat + 1
    /\ UNCHANGED <<session, store, pass, wire, late, token, ledger, srvOld, faults>>

Retire ==
    /\ srvOld < srvCat
    /\ srvOld' = srvOld + 1
    /\ UNCHANGED <<session, store, pass, wire, late, token, ledger, srvCat, faults>>

\* drain-queued: a play that waited for its catalog is resolved, or its seven
\* days run out.
Drain(u, i) ==
    /\ ledger[u][i].st = "queued"
    /\ \E st \in {"accepted", "rejected"} :
           /\ st = "accepted" => ledger[u][i].body.cat <= srvCat /\ i \notin Refused
           /\ ledger' = [ledger EXCEPT ![u][i].st = st]
    /\ UNCHANGED <<session, store, pass, wire, late, token, srvCat, srvOld, faults>>

\* A request nobody waits for arrives, whole or not at all.
Arrives(q) ==
    /\ q \in late
    /\ late' = late \ {q}
    /\ Insert(q, DOMAIN q.body) \/ UNCHANGED <<ledger, token>>
    /\ UNCHANGED <<session, store, pass, wire, srvCat, srvOld, faults>>

-----------------------------------------------------------------------------

PassStep ==
    \/ StartPass \/ NextBatch \/ PassDone \/ Rematch \/ GetToken \/ LastCheck
    \/ Redeem \/ Persist \/ Receive \/ NetError \/ Refresh \/ AfterApply
    \/ StoreRejects
    \/ \E i \in Items : Turn(i) \/ MarkSent(i) \/ Apply(i)

World ==
    \/ RunOutbox \/ Deliver \/ Crash \/ CatalogArrives \/ Import \/ Retire
    \/ \E u \in Users \cup {Nobody} : SignIn(u)
    \/ \E i \in Items : Enqueue(i) \/ Tick(i) \/ Lapse(i)
    \/ \E i \in Items, f \in Fixes : TokenExpires(i, f)
    \/ \E u \in Users, i \in Items : Drain(u, i)
    \/ \E q \in late : Arrives(q)

Next == PassStep \/ World

Spec == Init /\ [][Next]_vars

\* A pass goes on whenever its await returns (requests have a timeout), the
\* server answers what reaches it, time passes, and the app runs the outbox
\* again and again (AppProvider.syncOutbox).
Fairness == /\ WF_vars(PassStep) /\ WF_vars(Deliver) /\ WF_vars(RunOutbox)
            /\ \A i \in Items : WF_vars(Tick(i))

FairSpec == Spec /\ Fairness

-----------------------------------------------------------------------------
(* Properties.                                                             *)

\* No play ever gets into another account, whoever signs in or out between
\* the list, the token, the marks, the redemption and the requests of a pass
\* (runner.ts:5-9).
PlaysBelongToOwner ==
    \A u \in Users, i \in Items : ledger[u][i] # NoRecord => u = Owner[i]

\* Only a pass of its owner changes a play's row, once it is enqueued; another
\* user's pass may only delete a dead letter past its retention (runner.ts:122).
OnlyOwnersPassRewrites ==
    [][\A i \in Items : row'[i] # row[i] =>
          \/ row[i].status = "absent" /\ user = Owner[i]
          \/ row'[i].status = "gone" /\ row[i].status = "needs_attention" /\ aged[i]
          \/ pc # "idle" /\ RunUser = Owner[i]
          \/ pc = "idle" /\ RunUser = Owner[i] /\ user = Owner[i]]_vars

\* A request the pass waits for, of a play that is recorded already, repeats
\* what is recorded byte for byte, tokens redeemed since included, so its
\* answer is never a 409 evidence_conflict (send.ts:10-20).
ReplaysIdentical ==
    wire.st = "sent" =>
        \A i \in DOMAIN wire.req.body :
            LET r == ledger[wire.req.user][i]
            IN  r # NoRecord => r.body = wire.req.body[i]

\* The outbox and the intake implement what they promise together.
Told(i) == CASE row[i].status \in {"absent", "pending", "sent", "retry"} -> "open"
             [] row[i].status \in {"needs_attention", "gone"} -> "dead"
             [] OTHER -> row[i].status

Promise == INSTANCE PlayLedger
    WITH told <- [i \in Items |-> Told(i)],
         kept <- [i \in Items |-> ledger[Owner[i]][i].st]

KeepsPlayLedger == Promise!Spec

\* A play whose owner stays signed in is settled in the end: recorded, waiting
\* for course data at the server, shown as a dead letter, or without a course
\* (an unlisted course waits for a catalog that has it, machine.ts:93).
Settled(i) == \/ row[i].status \in {"accepted", "queued", "needs_attention", "gone"}
              \/ ~row[i].listed

EveryPlaySettles ==
    \A i \in Items : <>[](user = Owner[i])
        => (row[i].status # "absent" ~> Settled(i))
=============================================================================
