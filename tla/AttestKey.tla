----------------------------- MODULE AttestKey -----------------------------
(***************************************************************************)
(* What one install remembers of its own attestation for one account, and  *)
(* what the server remembers of it: the App Attest key record of iOS and   *)
(* the "attested before" mark of Android (apps/mobile/src/attest/          *)
(* state-store.ts), the check-in redemption and the reward activation that *)
(* read and write them (redeemer.ts, activator.ts), and the server's key   *)
(* registration and grading (rewards/attest-key-handler.ts,                *)
(* rewards/app-attest.ts, rewards/attestation-evidence.ts,                 *)
(* checkin/token-handler.ts).                                              *)
(*                                                                         *)
(* Both flows run under the assertion lock (module KeyedMutex), so one     *)
(* flow runs at a time: `flow` is the holder.  It may stop at any await:   *)
(* a native call or a store fails or hangs, the hold timer aborts it, or   *)
(* the app dies.  A request that is not answered in time may still reach   *)
(* the server later, and a write of the holder that was begun before the   *)
(* lock was released may still land under a later one: the lock is not     *)
(* kept under a plain write, nor under a `settle` write for longer than    *)
(* its bound (mutex.ts).                                                   *)
(***************************************************************************)
EXTENDS Naturals, FiniteSets

CONSTANTS
    Keys, NoKey, Integrity,  \* App Attest keys; Integrity: a Play Integrity token
    Chals, Rewards, NoWork,  \* what is redeemed, what is activated
    Platforms,               \* \subseteq {"ios", "android"}
    MaxFaults                \* bound on everything that goes wrong

ASSUME NamesAssumption == NoKey \notin Keys /\ Integrity \notin Keys
                          /\ NoKey # Integrity /\ NoWork \notin Chals \cup Rewards
ASSUME WorksAssumption == Chals \cap Rewards = {}
ASSUME PlatformsAssumption == Platforms \subseteq {"ios", "android"}
ASSUME FaultsAssumption == MaxFaults \in Nat

VARIABLES
    platform,
    \* the secure store of the device
    rec,        \* the iOS key record
    unattested, \* a key generateKey made and attestKey has not attested
    backoff,    \* a registration must not be attempted (an hour)
    cooldown,   \* a recovery must not be attempted (an hour)
    mark,       \* Android: a token was graded attested, or may have been
    enclave,    \* the keys the Secure Enclave holds
    \* the server
    skey,       \* attest_key_id of the device row
    retired,    \* the keys it remembers as replaced
    shown,      \* a token or an activation of this device was `attested`
    token,      \* token[w]: the grade recorded for w
    answered,   \* what the device has an answer for
    \* what runs
    flow,       \* the holder of the assertion lock
    late,       \* requests given up on that may still reach the server
    limbo,      \* writes begun by an abandoned holder that may still land
    recoveries, \* recovering flows that registered in this cooldown
    forgot,     \* history: the device lost what it knew; see NeverTokenLess
    faults

store == <<rec, unattested, backoff, cooldown, mark>>
server == <<skey, retired, shown, token>>
other == <<late, limbo, recoveries, forgot>>
vars == <<platform, store, enclave, server, answered, flow, other, faults>>

Works == Chals \cup Rewards
Grades == {"attested", "failed", "unattestable"}
Registration(k) == [work |-> NoWork, key |-> k]
Redemption(w, k) == [work |-> w, key |-> k]
Requests == [work : Works \cup {NoWork}, key : Keys \cup {NoKey, Integrity}]
NoRequest == Registration(NoKey)
Waiting == {"registering", "posting"}
PCs == {"idle", "read", "key", "attest", "note", "registering", "forget", "refused",
        "record", "backoff", "assert", "renote", "token", "posting", "stale", "clear",
        "mark"}
NoFlow == [pc |-> "idle", work |-> NoWork, key |-> NoKey, had |-> FALSE,
           recovering |-> FALSE, again |-> FALSE, redone |-> FALSE, req |-> NoRequest]
Flow == [pc : PCs, work : Works \cup {NoWork}, key : Keys \cup {NoKey},
         had : BOOLEAN,         \* `hadKey`: the server may hold a key
         recovering : BOOLEAN,  \* the record was `stale`
         again : BOOLEAN,       \* the one more key after key_previously_retired
         redone : BOOLEAN,      \* `reregistered`
         req : Requests]
\* A write of an abandoned flow, by the await it was pending at.
Write(op, k) == [op |-> op, key |-> k]
Writes == [op : {"pending", "cooldown", "forget", "backoff", "clear", "mark"},
           key : {NoKey}]
          \cup [op : {"record", "stale"}, key : Keys]
NoRecord == [st |-> "none", key |-> NoKey]
Pending == [st |-> "pending", key |-> NoKey]

TypeOK == /\ platform \in Platforms
          /\ rec \in {NoRecord, Pending} \cup [st : {"registered", "stale"}, key : Keys]
          /\ unattested \in Keys \cup {NoKey} /\ skey \in Keys \cup {NoKey}
          /\ backoff \in BOOLEAN /\ cooldown \in BOOLEAN /\ mark \in BOOLEAN
          /\ enclave \in [Keys -> {"none", "made", "attested"}]
          /\ retired \in SUBSET Keys /\ shown \in BOOLEAN
          /\ token \in [Works -> Grades \cup {"none"}] /\ answered \in SUBSET Works
          /\ flow \in Flow /\ late \in SUBSET Requests
          /\ limbo \in SUBSET Writes
          /\ recoveries \in Nat /\ forgot \in BOOLEAN /\ faults \in 0..MaxFaults

Init == /\ platform \in Platforms
        /\ rec = NoRecord /\ unattested = NoKey
        /\ backoff = FALSE /\ cooldown = FALSE /\ mark = FALSE
        /\ enclave = [k \in Keys |-> "none"]
        /\ skey = NoKey /\ retired = {} /\ shown = FALSE
        /\ token = [w \in Works |-> "none"] /\ answered = {}
        /\ flow = NoFlow /\ late = {} /\ limbo = {}
        /\ recoveries = 0 /\ forgot = FALSE /\ faults = 0

Fault == faults < MaxFaults /\ faults' = faults + 1

\* A key identifier nothing refers to stands for a new one, whichever it is.
Unused == {k \in Keys : /\ k \notin {rec.key, unattested, skey, flow.key}
                        /\ \A r \in late \cup limbo : r.key # k}

-----------------------------------------------------------------------------
(* The server.                                                             *)

\* deviceHasShownAttestation
HasShown == skey # NoKey \/ shown

\* What handleAttestKey and app.register_attest_key answer to the key k.
RegisterAnswer(k) == IF k = skey THEN "already_registered"
                     ELSE IF k \in retired THEN "previously_retired" ELSE "registered"

\* Mutant: a key-identity refusal grades, and gives no hint.
GradesWithoutHint(k) ==
    IF k = NoKey THEN {[grade |-> IF HasShown THEN "failed" ELSE "unattestable", rekey |-> FALSE]}
    ELSE IF k = Integrity THEN {[grade |-> g, rekey |-> FALSE] : g \in {"attested", "failed"}}
    ELSE {[grade |-> IF k = skey THEN "attested" ELSE "failed", rekey |-> FALSE]}

\* The grade of a request that carries k: no attestation at all, a Play
\* Integrity token, or an assertion with a key (its counter is in order).
GradesOf(k) ==
    IF k = NoKey THEN {[grade |-> IF HasShown THEN "failed" ELSE "unattestable", rekey |-> FALSE]}
    ELSE IF k = Integrity THEN {[grade |-> g, rekey |-> FALSE] : g \in {"attested", "failed"}}
    ELSE {[grade |-> IF k = skey THEN "attested"
                     ELSE IF skey = NoKey THEN "unattestable" ELSE "failed",
           rekey |-> k # skey]}

\* The request r reaches the server, which answers a.  A repeat of a redemption
\* answers the original grade and no hint while the token lives (a refusal after
\* that), a repeat of an activation a replay.
Apply(r, a) ==
    IF r.work = NoWork
    THEN /\ a = [grade |-> RegisterAnswer(r.key), rekey |-> FALSE]
         /\ IF a.grade = "registered"
            THEN skey' = r.key /\ retired' = retired \cup ({skey} \ {NoKey})
            ELSE UNCHANGED <<skey, retired>>
         /\ UNCHANGED <<shown, token>>
    ELSE IF token[r.work] # "none"
    THEN /\ a \in {[grade |-> g, rekey |-> FALSE] :
                     g \in IF r.work \in Rewards THEN {"replay"}
                           ELSE {token[r.work], "refused"}}
         /\ UNCHANGED server
    ELSE /\ a \in GradesOf(r.key)
         /\ token' = [token EXCEPT ![r.work] = a.grade]
         /\ shown' = (shown \/ a.grade = "attested")
         /\ UNCHANGED <<skey, retired>>

Answers == [grade : Grades \cup {"already_registered", "previously_retired", "registered",
                                 "replay", "refused", "unknown"},
            rekey : BOOLEAN]
Refused == [grade |-> "refused", rekey |-> FALSE]
Retired == [grade |-> "previously_retired", rekey |-> FALSE]
Unknown == [grade |-> "unknown", rekey |-> FALSE]

-----------------------------------------------------------------------------
(* The flows.                                                              *)

Go(pc) == flow' = [flow EXCEPT !.pc = pc]
Send(r, pc) == flow' = [flow EXCEPT !.pc = pc, !.req = r]
Defer == flow' = NoFlow
SendTokenLess == Send(Redemption(flow.work, NoKey), "posting")

\* redeem, activate: the lock is taken.
Start(w) ==
    /\ flow.pc = "idle"
    /\ w \notin answered
    /\ flow' = [NoFlow EXCEPT !.pc = IF platform = "ios" THEN "read" ELSE "token", !.work = w]
    /\ UNCHANGED <<platform, store, enclave, server, answered, other, faults>>

\* "refused": the caller of registerKey, when the server holds no key for this
\* device and cannot take one, goes token-less; else it defers.
RefusedStep == IF flow.had THEN Defer ELSE SendTokenLess

\* Mutant: the recovery cooldown is not looked at.
ReadKeyNoCooldown ==
    /\ flow.pc = "read"
    /\ \/ rec.st = "registered" /\ flow' = [flow EXCEPT !.pc = "assert", !.key = rec.key]
       \/ /\ rec.st # "registered"
          /\ \/ backoff /\ IF rec.st = "none" THEN SendTokenLess ELSE Defer
             \/ ~backoff /\ flow' = [flow EXCEPT !.pc = "key", !.had = (rec.st # "none"),
                                                !.recovering = (rec.st = "stale")]
    /\ UNCHANGED <<platform, store, enclave, server, answered, other, faults>>

\* obtainIosAssertion up to registerKey: the record, then backoff and cooldown.
ReadKey ==
    /\ flow.pc = "read"
    /\ \/ rec.st = "registered" /\ flow' = [flow EXCEPT !.pc = "assert", !.key = rec.key]
       \/ rec.st = "stale" /\ cooldown /\ Defer
       \/ /\ rec.st # "registered" /\ ~(rec.st = "stale" /\ cooldown)
          /\ \/ backoff /\ IF rec.st = "none" THEN SendTokenLess ELSE Defer
             \/ ~backoff /\ flow' = [flow EXCEPT !.pc = "key", !.had = (rec.st # "none"),
                                                !.recovering = (rec.st = "stale")]
    /\ UNCHANGED <<platform, store, enclave, server, answered, other, faults>>

\* registerOnce, the key: the unattested one of an earlier try, or a new one.
\* Then the live challenge (a failure of it is a Stop).
MakeKey ==
    /\ flow.pc = "key"
    /\ \/ /\ unattested # NoKey
          /\ flow' = [flow EXCEPT !.pc = "attest", !.key = unattested]
          /\ UNCHANGED <<enclave, unattested, retired>>
       \/ /\ unattested = NoKey
          /\ Unused # {}
          /\ LET k == CHOOSE k \in Unused : TRUE
             IN  /\ enclave' = [enclave EXCEPT ![k] = "made"]
                 /\ unattested' = k /\ retired' = retired \ {k}
                 /\ flow' = [flow EXCEPT !.pc = "attest", !.key = k]
    /\ UNCHANGED <<platform, rec, backoff, cooldown, mark, skey,
                   shown, token, other, answered, faults>>

\* The device says it cannot do App Attest at all (generateKey, attestKey).
Unattestable ==
    /\ flow.pc \in {"key", "attest"} /\ Fault
    /\ unattested' = IF flow.pc = "attest" THEN NoKey ELSE unattested
    /\ backoff' = TRUE
    /\ RefusedStep
    /\ UNCHANGED <<platform, rec, cooldown, mark, enclave, server, answered, other>>

\* attestKey: a key is attested once; a failure other than `unavailable` burns it.
AttestNative ==
    /\ flow.pc = "attest"
    /\ unattested' = NoKey
    /\ \/ /\ enclave[flow.key] = "made"
          /\ enclave' = [enclave EXCEPT ![flow.key] = "attested"]
          /\ Go("note") /\ UNCHANGED faults
       \/ /\ enclave[flow.key] # "made"
          /\ Defer /\ UNCHANGED <<enclave, faults>>
       \/ /\ enclave[flow.key] = "made"
          /\ Defer /\ Fault /\ UNCHANGED enclave
    /\ UNCHANGED <<platform, rec, backoff, cooldown, mark, server, answered, other>>

\* Mutant: no `pending` before the request.
NoteNothing ==
    /\ flow.pc = "note"
    /\ cooldown' = (cooldown \/ flow.recovering)
    /\ recoveries' = IF flow.recovering /\ ~flow.again THEN recoveries + 1 ELSE recoveries
    /\ Send(Registration(flow.key), "registering")
    /\ UNCHANGED <<platform, rec, unattested, backoff, mark, enclave,
                   server, answered, late, limbo, forgot, faults>>

\* `pending`, or in a recovery the cooldown, and then the registration request.
NoteAndRegister ==
    /\ flow.pc = "note"
    /\ IF flow.recovering
       THEN /\ cooldown' = TRUE /\ UNCHANGED rec
            /\ recoveries' = IF flow.again THEN recoveries ELSE recoveries + 1
       ELSE rec' = Pending /\ UNCHANGED <<cooldown, recoveries>>
    /\ Send(Registration(flow.key), "registering")
    /\ UNCHANGED <<platform, unattested, backoff, mark, enclave, server,
                   answered, late, limbo, forgot, faults>>

\* What the flow does with the answer a to its request.
AfterRegistration(a) ==
    CASE a.grade \in {"registered", "already_registered"} -> Go("record")
      [] a.grade = "previously_retired" /\ ~flow.again ->
             flow' = [flow EXCEPT !.pc = "key", !.again = TRUE]
      [] a.grade = "previously_retired" /\ flow.again -> Go("backoff")
      [] a.grade = "refused" -> Go(IF flow.had THEN "refused" ELSE "forget")
      [] OTHER -> Defer

\* iOS: the hint makes the record stale, `unattestable` without it clears it
\* (a check-in only).  Android: the mark follows a token that was, or may have
\* been, graded `attested`.
AfterRedemption(a) ==
    IF platform = "ios"
    THEN IF flow.work \in Chals /\ flow.req.key # NoKey /\ a.rekey THEN Go("stale")
         ELSE IF flow.work \in Chals /\ flow.req.key # NoKey /\ a.grade = "unattestable"
              THEN Go("clear") ELSE Defer
    ELSE IF flow.req.key = Integrity
            /\ (a.grade \in {"attested", "unknown"}
                \/ (flow.work \in Rewards /\ a.grade \in Grades))
         THEN Go("mark") ELSE Defer

After(a) == IF flow.pc = "registering" THEN AfterRegistration(a) ELSE AfterRedemption(a)

\* The request is answered; or its answer is lost.
Answered ==
    /\ flow.pc \in Waiting
    /\ \E a \in Answers : /\ Apply(flow.req, a)
                          /\ After(a)
    /\ answered' = answered \cup (IF flow.pc = "posting" THEN {flow.work} ELSE {})
    /\ UNCHANGED <<platform, store, enclave, other, faults>>
AnswerLost ==
    /\ flow.pc \in Waiting /\ Fault
    /\ \E a \in Answers : Apply(flow.req, a)
    /\ After(Unknown)
    /\ UNCHANGED <<platform, store, enclave, answered, other>>
\* It is refused before anything is applied: the key, the deployment or the
\* request (422, 503, a 4xx, 429), or the key as one that was retired.
RefusedAnswer ==
    /\ flow.pc \in Waiting /\ Fault
    /\ \/ After(Refused)
       \/ flow.pc = "registering" /\ After(Retired)
    /\ UNCHANGED <<platform, store, enclave, server, answered, other>>
\* The client gives up on it before it reaches the server.
TimedOut ==
    /\ flow.pc \in Waiting /\ Fault
    /\ late' = late \cup {flow.req}
    /\ After(Unknown)
    /\ UNCHANGED <<platform, store, enclave, server, answered, limbo, recoveries, forgot>>

\* The key was refused: without an earlier one the `pending` is taken back, and
\* then registration backs off (a failed write of either is swallowed).
ForgetKey ==
    /\ flow.pc = "forget"
    /\ \/ rec' = NoRecord /\ UNCHANGED faults
       \/ UNCHANGED rec /\ Fault
    /\ Go("refused")
    /\ UNCHANGED <<platform, unattested, backoff, cooldown, mark, enclave,
                   server, answered, other>>
RefusedKey ==
    /\ flow.pc = "refused"
    /\ \/ backoff' = TRUE /\ UNCHANGED faults
       \/ UNCHANGED backoff /\ Fault
    /\ RefusedStep
    /\ UNCHANGED <<platform, rec, unattested, cooldown, mark, enclave,
                   server, answered, other>>

\* key_previously_retired twice.
RetiredTwice ==
    /\ flow.pc = "backoff"
    /\ backoff' = TRUE /\ Defer
    /\ UNCHANGED <<platform, rec, unattested, cooldown, mark, enclave,
                   server, answered, other, faults>>

\* Mutant: what is recorded is the key that waits to be attested.
RecordWaitingKey ==
    /\ flow.pc = "record"
    /\ rec' = [st |-> "registered", key |-> unattested]
    /\ backoff' = FALSE
    /\ flow' = [flow EXCEPT !.pc = "assert", !.redone = TRUE] /\ forgot' = FALSE
    /\ UNCHANGED <<platform, unattested, cooldown, mark, enclave,
                   server, answered, late, limbo, recoveries, faults>>

\* The registration took effect: the record, then the backoff is cleared.
RecordKey ==
    /\ flow.pc = "record"
    /\ rec' = [st |-> "registered", key |-> flow.key]
    /\ \/ backoff' = FALSE /\ UNCHANGED faults
       \/ UNCHANGED backoff /\ Fault
    /\ flow' = [flow EXCEPT !.pc = "assert", !.redone = TRUE] /\ forgot' = FALSE
    /\ UNCHANGED <<platform, unattested, cooldown, mark, enclave,
                   server, answered, late, limbo, recoveries>>

\* assertOnce and the request that carries the assertion; or invalidKey.
PresentAssertion ==
    /\ flow.pc = "assert"
    /\ \/ enclave[flow.key] = "attested" /\ Send(Redemption(flow.work, flow.key), "posting")
       \/ /\ enclave[flow.key] # "attested"
          /\ IF flow.redone THEN Defer ELSE Go("renote")
    /\ UNCHANGED <<platform, store, enclave, server, answered, other, faults>>

\* The key is gone: `pending`, and one fresh registration.
NoteInvalid ==
    /\ flow.pc = "renote"
    /\ rec' = Pending
    /\ flow' = [flow EXCEPT !.pc = "key", !.had = TRUE, !.redone = TRUE]
    /\ UNCHANGED <<platform, unattested, backoff, cooldown, mark, enclave,
                   server, answered, other, faults>>

\* The settle writes after a redemption.
SettleRecord ==
    /\ flow.pc \in {"stale", "clear"}
    /\ rec' = IF flow.pc = "stale" THEN [st |-> "stale", key |-> flow.key] ELSE NoRecord
    /\ forgot' = (forgot \/ flow.pc = "clear")
    /\ Defer
    /\ UNCHANGED <<platform, unattested, backoff, cooldown, mark, enclave,
                   server, answered, late, limbo, recoveries, faults>>
SettleMark ==
    /\ flow.pc = "mark"
    /\ mark' = TRUE /\ forgot' = FALSE /\ Defer
    /\ UNCHANGED <<platform, rec, unattested, backoff, cooldown, enclave,
                   server, answered, late, limbo, recoveries, faults>>

\* Android: the integrity token and the request that carries it; or a local
\* failure, which goes token-less on a device without the mark: every failure
\* for a check-in, `unattestable` for an activation (any other is a Stop).
IntegrityToken ==
    /\ flow.pc = "token"
    /\ \/ /\ Send(Redemption(flow.work, Integrity), "posting")
          /\ UNCHANGED faults
       \/ /\ Fault
          /\ IF mark THEN Defer ELSE SendTokenLess
    /\ UNCHANGED <<platform, store, enclave, server, answered, other>>

\* The write that is pending where the flow stops: a plain one before its
\* request, or a settle write after it.
Begun == CASE flow.pc \in {"note", "renote"} ->
                  {Write(IF flow.recovering THEN "cooldown" ELSE "pending", NoKey)}
           [] flow.pc \in {"record", "stale"} -> {Write(flow.pc, flow.key)}
           [] flow.pc \in {"refused", "backoff"} -> {Write("backoff", NoKey)}
           [] flow.pc \in {"forget", "clear", "mark"} -> {Write(flow.pc, NoKey)}
           [] OTHER -> {}

\* The flow stops: a deferral, the hold timer (for a settle write, once its bound
\* has passed too), or the death of the app.  A request already sent may still
\* arrive, a write already begun may still land.
Stop ==
    /\ flow.pc # "idle" /\ Fault
    /\ forgot' = (forgot \/ flow.pc = "mark" \/ (flow.pc = "posting" /\ flow.req.key = Integrity))
    /\ late' = IF flow.pc \in Waiting THEN late \cup {flow.req} ELSE late
    /\ answered' = IF flow.pc \in {"stale", "clear", "mark"} THEN answered \ {flow.work} ELSE answered
    /\ limbo' = limbo \cup Begun
    /\ Defer
    /\ UNCHANGED <<platform, store, enclave, server, recoveries>>

-----------------------------------------------------------------------------
(* What happens around the flows.                                          *)

\* A request given up on reaches the server, or never does.
ArrivesLate == \E r \in late :
    /\ late' = late \ {r}
    /\ \/ \E a \in Answers : Apply(r, a)
       \/ UNCHANGED server
    /\ UNCHANGED <<platform, store, enclave, answered, flow,
                   limbo, recoveries, forgot, faults>>

\* What the abandoned flow goes on to write: after the clear of a refused key,
\* the backoff (settle looks at no abort).  The clear of the backoff that follows
\* a late record is a BackoffEnds.
Follows(x) == IF x.op = "forget" THEN {Write("backoff", NoKey)} ELSE {}

\* The write x takes effect: one that empties the record may take back what a
\* later flow has written.
Land(x) ==
    /\ rec' = CASE x.op = "pending" -> Pending
                [] x.op = "record" -> [st |-> "registered", key |-> x.key]
                [] x.op = "stale" -> [st |-> "stale", key |-> x.key]
                [] x.op \in {"forget", "clear"} -> NoRecord
                [] OTHER -> rec
    /\ cooldown' = (cooldown \/ x.op = "cooldown")
    /\ backoff' = (backoff \/ x.op = "backoff")
    /\ mark' = (mark \/ x.op = "mark")
    /\ forgot' = (forgot \/ (x.op \in {"forget", "clear"} /\ rec.st # "none"))

\* A write of an abandoned flow lands, or fails, or never settles.
LandsLate == \E x \in limbo :
    /\ \/ /\ limbo' = (limbo \ {x}) \cup Follows(x)
          /\ Land(x) \/ UNCHANGED <<rec, cooldown, backoff, mark, forgot>>
       \/ /\ limbo' = limbo \ {x}
          /\ UNCHANGED <<rec, cooldown, backoff, mark, forgot>>
    /\ UNCHANGED <<platform, unattested, enclave, server, answered, flow, late,
                   recoveries, faults>>

BackoffEnds ==
    /\ backoff /\ backoff' = FALSE
    /\ UNCHANGED <<platform, rec, unattested, cooldown, mark, enclave,
                   server, answered, flow, other, faults>>
CooldownEnds ==
    /\ cooldown /\ cooldown' = FALSE /\ recoveries' = 0
    /\ UNCHANGED <<platform, rec, unattested, backoff, mark, enclave, server,
                   answered, flow, late, limbo, forgot, faults>>

\* A reinstall destroys the keys of the enclave; the Keychain items survive.
Reinstall ==
    /\ platform = "ios" /\ flow.pc = "idle" /\ Fault
    /\ enclave' = [k \in Keys |-> "none"]
    /\ UNCHANGED <<platform, store, server, answered, flow, other>>

\* A database restore, or a reset of the key by an administrator.
ServerForgets ==
    /\ skey # NoKey /\ Fault
    /\ skey' = NoKey /\ shown' \in {shown, FALSE}
    /\ UNCHANGED <<platform, store, enclave, retired, token, answered, flow, other>>

\* w stands for another challenge, or another reward.
Renew(w) ==
    /\ token[w] # "none" /\ flow.work # w /\ \A r \in late : r.work # w
    /\ token' = [token EXCEPT ![w] = "none"] /\ answered' = answered \ {w}
    /\ UNCHANGED <<platform, store, enclave, skey, retired,
                   shown, flow, other, faults>>

FlowStep == \/ ReadKey \/ MakeKey \/ AttestNative \/ NoteAndRegister \/ ForgetKey
            \/ RefusedKey \/ RetiredTwice \/ RecordKey \/ PresentAssertion \/ NoteInvalid \/ SettleRecord
            \/ SettleMark \/ IntegrityToken \/ Answered

Next == \/ \E w \in Works : Start(w) \/ Renew(w)
        \/ FlowStep
        \/ Unattestable \/ AnswerLost \/ RefusedAnswer \/ TimedOut \/ Stop
        \/ ArrivesLate \/ LandsLate \/ BackoffEnds \/ CooldownEnds
        \/ Reinstall \/ ServerForgets

\* The device keeps working on what it has begun, the hours pass, and its player
\* keeps checking in with new challenges; no request is in transit for ever.
Fairness == /\ WF_vars(FlowStep) /\ WF_vars(ArrivesLate) /\ WF_vars(BackoffEnds) /\ WF_vars(CooldownEnds)
            /\ \A c \in Chals : SF_vars(Renew(c))
            /\ SF_vars(\E c \in Chals : token[c] = "none" /\ Start(c))

Spec == Init /\ [][Next]_vars /\ Fairness

-----------------------------------------------------------------------------
(* Properties.                                                             *)

\* Rule 2 of redeemer.ts: a request without an attestation, which the server
\* would grade `failed` and answer with a fraud signal, is never sent once the
\* server has seen this device attest, or holds a key for it.  Except by a device
\* that lost what it knew (`forgot`): an Android flow ended between its token and
\* the mark; the repeat of a redemption once graded `unattestable` cleared the
\* record; or a clear of an abandoned flow landed late, on the record of a later
\* one (the race mutex.ts:59-61 accepts).
NeverTokenLess ==
    [][(/\ flow'.pc = "posting" /\ flow.pc # "posting"
         /\ flow'.req.key = NoKey) => ~HasShown \/ forgot]_vars

\* Rule 6: no loop of recoveries.  Within one cooldown at most one flow
\* registers a key in place of a stale one.
OneRecoveryPerCooldown == recoveries <= 1

\* Whatever was lost, forgotten, reinstalled or registered late: once nothing
\* more goes wrong, the device comes to hold the key the server holds, and
\* keeps it.
ComesToAgree ==
    platform = "ios" =>
        <>[](rec.st = "registered" /\ rec.key = skey /\ enclave[rec.key] = "attested")
=============================================================================
