------------------------------ MODULE CheckIn ------------------------------
(***************************************************************************)
(* From a tap to a record on one device: the pool of single-use check-in   *)
(* challenges (apps/mobile/src/challenges), the check-in                   *)
(* (checkin/flow.ts, evidence/enqueue.ts), the offline marker capture and  *)
(* the online marker scan (marker/capture.ts, marker/scan.ts), the top-up  *)
(* of the pool, and the local wipe of an account deletion                  *)
(* (account/delete.ts), with an await between any two steps of each while  *)
(* users sign in and out.  All flows are at one facility on one day.       *)
(*                                                                         *)
(* A fix has a time of its own, and the server counts it as a co-signal    *)
(* only inside the window of its challenge: covered[f] is the set of       *)
(* challenges the device had received before the time of f's fix and that  *)
(* had not expired at it.                                                  *)
(***************************************************************************)
EXTENDS Naturals, FiniteSets

CONSTANTS
    Users, Nobody,   \* Nobody: signed out
    Leavers,         \* bound: the users who may delete their account
    Chals, NoChal,   \* challenges: a finite supply bounds how many are issued
    Flows, Kinds,    \* taps on a button; Kinds \subseteq {"play","marker","scan"}
    Courses,         \* the courses of the (multi-course) facility
    Cap,             \* MAX_PREFETCHED, on the device and at the server
    Reserve,         \* MARKER_LIMITS.reserveForCheckins
    PerDay           \* MARKER_LIMITS.perFacilityPerDay

ASSUME NobodyAssumption == Nobody \notin Users /\ NoChal \notin Chals
ASSUME ChalsAssumption == IsFiniteSet(Chals)
ASSUME KindsAssumption == Kinds \subseteq {"play", "marker", "scan"}
ASSUME LeaversAssumption == Leavers \subseteq Users
ASSUME LimitsAssumption == Cap \in Nat /\ Reserve \in Nat /\ PerDay \in Nat

VARIABLES
    user,     \* currentUserId()
    \* the server
    chal,     \* chal[c]: the challenge c at the server
    gone,     \* deleted accounts
    \* the device
    pool,     \* pool[c]: the row of c in checkin_challenge (its owner: chal[c].to)
    items,    \* the outbox: which flow, whose row, which challenge it holds
    markers,  \* the marker co-signals waiting to be sent
    scans,    \* the marker scans posted
    wipe,     \* the next step of the local wipe of an account deletion
    doomed,   \* whose
    wiped,    \* accounts whose local wipe is complete
    racing,   \* history: the flows whose insert for the account being wiped was
              \* under way when its session was cleared
    \* what runs
    fill,     \* fill[u]: the top-up of u's pool (single flight)
    flow      \* flow[f]: the locals of the flow f, and where it is

server == <<chal, gone>>
records == <<items, markers, scans>>
deletion == <<wipe, doomed, wiped, racing>>
vars == <<user, server, pool, records, deletion, fill, flow>>

PCs == {"idle", "live", "fix", "enqueue", "reserve", "consume", "insert", "store", "over"}
Challenge == [st : {"none", "open", "used", "dead"}, to : Users \cup {Nobody},
              prefetched : BOOLEAN, lapsed : BOOLEAN]
Flow == [pc : PCs, kind : {"play", "marker", "scan"}, owner : Users \cup {Nobody},
         course : Courses, live : Chals \cup {NoChal}, covered : SUBSET Chals,
         ch : Chals \cup {NoChal},
         row : Users \cup {Nobody}]  \* the owner of the outbox row it inserts
NoFill == [at |-> "idle", want |-> 0, got |-> {}]
Fill == [at : {"token", "asked", "answered"}, want : 1..Cap, got : SUBSET Chals]
        \cup {NoFill}
Record == [flow : Flows, owner : Users, ch : Chals \cup {NoChal}]

TypeOK == /\ user \in Users \cup {Nobody}
          /\ chal \in [Chals -> Challenge]
          /\ gone \in SUBSET Users /\ wiped \in SUBSET Users
          /\ racing \in SUBSET Flows
          /\ pool \in [Chals -> {"absent", "usable", "consumed"}]
          /\ items \in SUBSET Record /\ markers \in SUBSET Record
          /\ scans \in SUBSET Record
          /\ wipe \in {"idle", "session", "outbox", "challenges", "markers"}
          /\ doomed \in Users \cup {Nobody}
          /\ fill \in [Users -> Fill]
          /\ flow \in [Flows -> Flow]

Init == /\ user = Nobody
        /\ chal = [c \in Chals |-> [st |-> "none", to |-> Nobody,
                                    prefetched |-> FALSE, lapsed |-> FALSE]]
        /\ gone = {} /\ wiped = {} /\ wipe = "idle" /\ doomed = Nobody
        /\ racing = {}
        /\ pool = [c \in Chals |-> "absent"]
        /\ items = {} /\ markers = {} /\ scans = {}
        /\ fill = [u \in Users |-> NoFill]
        /\ flow \in [Flows -> {[pc |-> "idle", kind |-> k, owner |-> Nobody,
                                course |-> x, live |-> NoChal, covered |-> {},
                                ch |-> NoChal, row |-> Nobody] :
                               k \in Kinds, x \in Courses}]

Fresh == {c \in Chals : chal[c].st = "none"}
Pick(S, n) == {T \in SUBSET S : Cardinality(T) = IF n < Cardinality(S) THEN n
                                                  ELSE Cardinality(S)}

-----------------------------------------------------------------------------
(* The server's challenges (challenge-handler.ts).                         *)

\* countOpenPrefetched: it counts the open live ones too.
Open(u) == {c \in Chals : chal[c].to = u /\ chal[c].st = "open" /\ ~chal[c].lapsed}

Issued(S, u, st, prefetched) ==
    [c \in Chals |-> IF c \in S THEN [st |-> st, to |-> u, prefetched |-> prefetched,
                                      lapsed |-> FALSE]
                     ELSE chal[c]]

\* Mutant: what is asked for is issued, without the room at the server.
IssueWhatIsAsked(u) ==
    /\ fill[u].at = "asked" /\ u \notin gone
    /\ \E S \in Pick(Fresh, fill[u].want) :
           /\ chal' = Issued(S, u, "open", TRUE)
           /\ fill' = [fill EXCEPT ![u].at = "answered", ![u].got = S]

\* A prefetch request: no more than the room the device has at the server.
IssuePrefetched(u) ==
    /\ fill[u].at = "asked" /\ u \notin gone
    /\ Cardinality(Open(u)) < Cap
    /\ \E S \in Pick(Fresh, IF fill[u].want < Cap - Cardinality(Open(u))
                            THEN fill[u].want ELSE Cap - Cardinality(Open(u))) :
           /\ chal' = Issued(S, u, "open", TRUE)
           /\ fill' = [fill EXCEPT ![u].at = "answered", ![u].got = S]

-----------------------------------------------------------------------------
(* The device's pool (challenges/manager.ts, challenges/store.ts).         *)

Usable(u) == {c \in Chals : chal[c].to = u /\ pool[c] = "usable" /\ ~chal[c].lapsed}

\* heldOpenCount: marker records that hold an unexpired, unredeemed challenge
\* (a redemption and the device's note of it are one step here).
HeldByMarkers(u) ==
    {m \in markers : m.owner = u /\ chal[m.ch].st # "used" /\ ~chal[m.ch].lapsed}

\* Mutant: `want <= 0` is not looked at.
TopUpWhenFull ==
    /\ user # Nobody
    /\ fill[user].at = "idle"
    /\ fill' = [fill EXCEPT ![user] =
                   [at |-> "token", got |-> {},
                    want |-> Cap - Cardinality(Usable(user))
                                 - Cardinality(HeldByMarkers(user))]]
    /\ UNCHANGED <<user, server, pool, records, deletion, flow>>

\* doPrefetch for the signed-in user: the shortfall, read before the token.
TopUp ==
    /\ user # Nobody
    /\ fill[user].at = "idle"
    /\ Cardinality(Usable(user)) + Cardinality(HeldByMarkers(user)) < Cap
    /\ fill' = [fill EXCEPT ![user] =
                   [at |-> "token", got |-> {},
                    want |-> Cap - Cardinality(Usable(user))
                                 - Cardinality(HeldByMarkers(user))]]
    /\ UNCHANGED <<user, server, pool, records, deletion, flow>>

\* The token for that user: without one (another user now) nothing is asked.
AskChallenges(u) ==
    /\ fill[u].at = "token"
    /\ fill' = IF user = u THEN [fill EXCEPT ![u].at = "asked"]
               ELSE [fill EXCEPT ![u] = NoFill]
    /\ UNCHANGED <<user, server, pool, records, deletion, flow>>

AnswerChallenges(u) ==
    /\ IssuePrefetched(u)
    /\ UNCHANGED <<user, gone, pool, records, deletion, flow>>

\* A refusal, or an answer that is lost (what was issued stays open there).
LoseChallenges(u) ==
    /\ fill[u].at \in {"asked", "answered"}
    /\ fill' = [fill EXCEPT ![u] = NoFill]
    /\ UNCHANGED <<user, server, pool, records, deletion, flow>>

\* insertMany, under the user whose credentials asked, into the room there is.
StoreChallenges(u) ==
    /\ fill[u].at = "answered"
    /\ \E S \in Pick(fill[u].got,
                     IF Cardinality(Usable(u)) < Cap THEN Cap - Cardinality(Usable(u))
                     ELSE 0) :
           pool' = [c \in Chals |-> IF c \in S THEN "usable" ELSE pool[c]]
    /\ fill' = [fill EXCEPT ![u] = NoFill]
    /\ UNCHANGED <<user, server, records, deletion, flow>>

\* Mutant: the row is selected but not marked consumed in the same step.
TakeWithoutMark(c) == UNCHANGED pool

\* consumeOne marks the row it selected in one transaction.
Take(c) == pool' = [pool EXCEPT ![c] = "consumed"]

\* Mutant: the owner's rows are selected whatever the time of the fix.
QualifiesAnyTime(f, c) == c \in Usable(flow[f].owner)

\* qualifies(): the owner's, unconsumed, unexpired, received before the fix.
Qualifies(f, c) == c \in Usable(flow[f].owner) /\ c \in flow[f].covered

-----------------------------------------------------------------------------
(* The flows.                                                              *)

Goto(f, p) == flow' = [flow EXCEPT ![f].pc = p]

\* It ends without a record: what it held is lost with it.
GiveUp(f) == flow' = [flow EXCEPT ![f].pc = "over", ![f].live = NoChal,
                                  ![f].covered = {}, ![f].ch = NoChal, ![f].row = Nobody]

\* picksFromItems and pickGuard: another course picked here today?
AlreadyPicked(f) ==
    \E i \in items : i.owner = user /\ flow[i.flow].course # flow[f].course

\* capReached and poolAllowsMarker, for the signed-in user.
MarkerAllowed ==
    /\ Cardinality({m \in markers : m.owner = user}) < PerDay
    /\ Cardinality(Usable(user)) > Reserve

\* The button: who is signed in, and what can be refused without a location.
Tap(f) ==
    /\ flow[f].pc = "idle" /\ user # Nobody
    /\ flow' = [flow EXCEPT ![f].owner = user,
                            ![f].pc = CASE flow[f].kind = "play" ->
                                               IF AlreadyPicked(f) THEN "over" ELSE "live"
                                        [] flow[f].kind = "marker" ->
                                               IF MarkerAllowed THEN "fix" ELSE "over"
                                        [] flow[f].kind = "scan" -> "fix"]
    /\ UNCHANGED <<user, server, pool, records, deletion, fill>>

\* tryLive: a live challenge is issued to the flow's owner and redeemed on the
\* spot: the flow goes on at p with it, or at q without (it failed half way, or
\* acquireLive's budget ran out, or another user is signed in by then).
TryLive(f, p, q) ==
    \/ /\ user = flow[f].owner \/ flow[f].kind = "scan"
       /\ flow[f].owner \notin gone
       /\ \E c \in Fresh :
              /\ chal' = Issued({c}, flow[f].owner, "used", FALSE)
              /\ flow' = [flow EXCEPT ![f].live = c, ![f].pc = p]
    \/ /\ flow[f].owner \notin gone
       /\ \E c \in Fresh, st \in {"open", "used"} :
              chal' = Issued({c}, flow[f].owner, st, FALSE)
       /\ Goto(f, q)
    \/ Goto(f, q) /\ UNCHANGED chal

\* A check-in asks before its fix (acquireLive), a scan after it.
AcquireLive(f) ==
    /\ flow[f].pc = "live"
    /\ IF flow[f].kind = "play" THEN TryLive(f, "fix", "fix")
       ELSE TryLive(f, "insert", "consume")
    /\ UNCHANGED <<user, gone, pool, records, deletion, fill>>

Received(f) == {c \in Chals : pool[c] # "absent" \/ c = flow[f].live}

\* The fix arrives (its own time may be earlier: a cached position), or none
\* that is valid and at the facility.
Fix(f) ==
    /\ flow[f].pc = "fix"
    /\ \/ \E S \in SUBSET {c \in Received(f) : ~chal[c].lapsed} :
              flow' = [flow EXCEPT
                         ![f].covered = S,
                         ![f].pc = CASE flow[f].kind = "play" -> "enqueue"
                                     [] flow[f].kind = "marker" -> "reserve"
                                     [] flow[f].kind = "scan" -> "live"]
       \/ GiveUp(f)
    /\ UNCHANGED <<user, server, pool, records, deletion, fill>>

\* A check-in, once the manifest has been read: the owner's second check, and
\* enqueueEvidence's in the same turn.  The live challenge is used if it
\* covers the fix.
BeginEnqueue(f) ==
    /\ flow[f].pc = "enqueue"
    /\ IF user # flow[f].owner THEN GiveUp(f)
       ELSE IF flow[f].live \in flow[f].covered
       THEN flow' = [flow EXCEPT ![f].ch = flow[f].live, ![f].pc = "insert"]
       ELSE Goto(f, "consume")
    /\ UNCHANGED <<user, server, pool, records, deletion, fill>>

\* A marker capture: the reserve again (nothing is usable for another user).
RecheckReserve(f) ==
    /\ flow[f].pc = "reserve"
    /\ IF user = flow[f].owner /\ Cardinality(Usable(user)) > Reserve
       THEN Goto(f, "consume") ELSE GiveUp(f)
    /\ UNCHANGED <<user, server, pool, records, deletion, fill>>

\* acquireForFix from the pool, when the owner is still signed in: one
\* challenge that qualifies, or none, with which only a check-in goes on.
Consume(f) ==
    /\ flow[f].pc = "consume"
    /\ \/ \E c \in Chals :
              /\ Qualifies(f, c)
              /\ Take(c)
              /\ flow' = [flow EXCEPT ![f].ch = c, ![f].pc = "insert"]
       \/ /\ user # flow[f].owner \/ \A c \in Chals : ~Qualifies(f, c)
          /\ IF flow[f].kind = "play" THEN Goto(f, "insert") ELSE GiveUp(f)
          /\ UNCHANGED pool
    /\ UNCHANGED <<user, server, records, deletion, fill>>

Rec(f, u) == [flow |-> f, owner |-> u, ch |-> flow[f].ch]

\* Mutant: the row is written for the user who tapped, without the session.
EnqueueForTapper(f) == flow' = [flow EXCEPT ![f].row = flow[f].owner, ![f].pc = "store"]

\* enqueueOutboxItem: the owner is the user signed in now; nobody: no row.
EnqueueItem(f) ==
    IF user = Nobody THEN GiveUp(f)
    ELSE flow' = [flow EXCEPT ![f].row = user, ![f].pc = "store"]

Enqueue(f) ==
    /\ flow[f].pc = "insert" /\ flow[f].kind = "play"
    /\ EnqueueItem(f)
    /\ UNCHANGED <<user, server, pool, records, deletion, fill>>

\* insertIfAbsent: the transaction that writes the row commits, whoever is signed
\* in by then and whatever has been wiped; or it fails.
InsertItem(f) ==
    /\ flow[f].pc = "store"
    /\ \/ /\ items' = items \cup {Rec(f, flow[f].row)}
          /\ flow' = [flow EXCEPT ![f].row = Nobody, ![f].pc = "over"]
       \/ UNCHANGED items /\ GiveUp(f)
    /\ UNCHANGED <<user, server, pool, markers, scans, deletion, fill>>

\* A marker co-signal, of the user who tapped.
InsertMarker(f) ==
    /\ flow[f].pc = "insert" /\ flow[f].kind = "marker"
    /\ markers' = markers \cup {Rec(f, flow[f].owner)}
    /\ Goto(f, "over")
    /\ UNCHANGED <<user, server, pool, items, scans, deletion, fill>>

\* A scan redeems a challenge of the pool and posts, or fails.
PostScan(f) ==
    /\ flow[f].pc = "insert" /\ flow[f].kind = "scan"
    /\ LET c == IF flow[f].live # NoChal THEN flow[f].live ELSE flow[f].ch
       IN  \/ /\ chal[c].st # "dead"
              /\ chal' = [chal EXCEPT ![c].st = "used"]
              /\ scans' = scans \cup {[flow |-> f, owner |-> flow[f].owner, ch |-> c]}
              /\ Goto(f, "over")
           \/ UNCHANGED <<chal, scans>> /\ GiveUp(f)
    /\ UNCHANGED <<user, gone, pool, items, markers, deletion, fill>>

-----------------------------------------------------------------------------
(* Account deletion (account/delete.ts).                                   *)

\* DELETE me is applied: the account's challenges are gone at the server (what the
\* device keeps of one is its owner and its expiry).
DeleteAtServer ==
    /\ wipe = "idle" /\ user \in Leavers \ gone
    /\ gone' = gone \cup {user} /\ doomed' = user /\ wipe' = "session"
    /\ chal' = [c \in Chals |-> IF chal[c].to = user
                                THEN [chal[c] EXCEPT !.st = "dead", !.prefetched = FALSE]
                                ELSE chal[c]]
    /\ UNCHANGED <<user, pool, records, wiped, racing, fill, flow>>

\* The answer: first the session, then one store after the other.
WipeSession ==
    /\ wipe = "session" /\ wipe' = "outbox"
    /\ user' = Nobody
    /\ racing' = racing \cup {f \in Flows : flow[f].row = doomed}
    /\ UNCHANGED <<server, pool, records, doomed, wiped, fill, flow>>

WipeOutbox ==
    /\ wipe = "outbox" /\ wipe' = "challenges"
    /\ items' = {i \in items : i.owner # doomed}
    /\ UNCHANGED <<user, server, pool, markers, scans, doomed, wiped, racing, fill, flow>>

WipeChallenges ==
    /\ wipe = "challenges" /\ wipe' = "markers"
    /\ pool' = [c \in Chals |-> IF chal[c].to = doomed THEN "absent" ELSE pool[c]]
    /\ UNCHANGED <<user, server, records, doomed, wiped, racing, fill, flow>>

WipeMarkers ==
    /\ wipe = "markers" /\ wipe' = "idle" /\ doomed' = Nobody
    /\ markers' = {m \in markers : m.owner # doomed}
    /\ wiped' = wiped \cup {doomed}
    /\ UNCHANGED <<user, server, pool, items, scans, racing, fill, flow>>

\* A step that fails is noted, and the others are taken: the wipe is partial, and
\* nothing is promised of it.  (Its steps are taken at once here.)
WipePartly ==
    /\ wipe = "session" /\ wipe' = "idle" /\ doomed' = Nobody
    /\ user' \in {user, Nobody}
    /\ items' \in {items, {i \in items : i.owner # doomed}}
    /\ pool' \in {pool, [c \in Chals |-> IF chal[c].to = doomed THEN "absent" ELSE pool[c]]}
    /\ markers' \in {markers, {m \in markers : m.owner # doomed}}
    /\ UNCHANGED <<server, scans, wiped, racing, fill, flow>>

-----------------------------------------------------------------------------
(* Everything else that happens.                                           *)

SignIn(u) ==
    /\ user # u /\ u \notin gone
    /\ user' = u
    /\ UNCHANGED <<server, pool, records, deletion, fill, flow>>

\* A challenge expires (left out where nothing looks at its expiry any more).
Lapse(c) ==
    /\ chal[c].st # "none" /\ ~chal[c].lapsed
    /\ \/ chal[c].st = "open" \/ pool[c] = "usable"
       \/ \E u \in Users : c \in fill[u].got
       \/ \E m \in markers : m.ch = c
       \/ \E f \in Flows : flow[f].pc = "fix" /\ flow[f].live = c
    /\ chal' = [chal EXCEPT ![c].lapsed = TRUE]
    /\ UNCHANGED <<user, gone, pool, records, deletion, fill, flow>>

\* The outbox (Outbox.tla) and the marker drain redeem what their records hold,
\* as the record's owner, who may have signed out since they started.
RedeemHeld(r) ==
    /\ r.ch # NoChal
    /\ chal[r.ch].st = "open" /\ chal[r.ch].to = r.owner /\ ~chal[r.ch].lapsed
    /\ chal' = [chal EXCEPT ![r.ch].st = "used"]
    /\ UNCHANGED <<user, gone, pool, records, deletion, fill, flow>>

\* sendMarkerCoSignal is over: the record was scanned, or dropped (expired,
\* refused, past its retries, or deferred too often, the challenge still open).
MarkerDone(m) ==
    /\ markers' = markers \ {m}
    /\ UNCHANGED <<user, server, pool, items, scans, deletion, fill, flow>>

-----------------------------------------------------------------------------

Next ==
    \/ TopUp \/ DeleteAtServer \/ WipeSession \/ WipeOutbox \/ WipeChallenges
    \/ WipeMarkers \/ WipePartly
    \/ \E u \in Users : \/ AskChallenges(u) \/ AnswerChallenges(u)
                        \/ LoseChallenges(u) \/ StoreChallenges(u)
    \/ \E f \in Flows : \/ Tap(f) \/ AcquireLive(f) \/ Fix(f) \/ BeginEnqueue(f)
                        \/ RecheckReserve(f) \/ Consume(f) \/ Enqueue(f)
                        \/ InsertItem(f) \/ InsertMarker(f) \/ PostScan(f)
    \/ \E u \in Users \cup {Nobody} : SignIn(u)
    \/ \E c \in Chals : Lapse(c)
    \/ \E r \in items \cup markers : RedeemHeld(r)
    \/ \E m \in markers : MarkerDone(m)

Spec == Init /\ [][Next]_vars

-----------------------------------------------------------------------------
(* Properties.                                                             *)

Records == items \cup markers \cup scans

\* A challenge is spent on one fix: no two records hold the same one, and none
\* is offered again, whoever consumes, tops up, crashes out or switches user
\* (store.ts:9-11).
SpentOnce ==
    /\ \A r, s \in Records : r.ch # NoChal /\ r.ch = s.ch => r.flow = s.flow
    /\ \A r \in Records : r.ch # NoChal => pool[r.ch] # "usable"

\* The device never holds more than Cap open prefetched challenges at the
\* server, whatever it consumed, kept for a marker or lost (challenge-handler.ts).
OpenCapKept ==
    \A u \in Users : Cardinality({c \in Open(u) : chal[c].prefetched}) <= Cap

\* The challenge a record carries was issued to the player who tapped, and the
\* fix lies in its window: the server can count it (consumeForFix).  Only a scan
\* may carry the live challenge it asked for after its fix.
ChallengeCoversFix ==
    \A r \in Records : r.ch # NoChal =>
        /\ chal[r.ch].to = flow[r.flow].owner
        /\ \/ r.ch \in flow[r.flow].covered
           \/ r \in scans /\ r.ch = flow[r.flow].live

\* After a complete local wipe no play of the deleted account is in the outbox,
\* and none gets there, whatever flow of that account was still running
\* (delete.ts:10-13); except the row whose insert (enqueue.ts:38) was already
\* under way when the session was cleared: it may commit after the outbox wipe.
NoPlayOfDeletedAccount ==
    \A u \in wiped : \A i \in items : i.owner = u => i.flow \in racing

\* test/checkin-owner.test.ts:2: "a user switch during a check-in must never
\* book the play (or A's live token) to the other account".
BookedToItsPlayer ==
    \A i \in items : i.owner = flow[i.flow].owner
=============================================================================
