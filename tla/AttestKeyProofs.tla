-------------------------- MODULE AttestKeyProofs --------------------------
(***************************************************************************)
(* For every set of keys, challenges and rewards and any number of faults: *)
(* a device that has forgotten nothing sends no request without an         *)
(* attestation once the server has seen it attest (NeverTokenLess), and    *)
(* one cooldown sees one recovery (OneRecoveryPerCooldown).                *)
(*                                                                         *)
(* The argument is about what the device knows.  From the moment a         *)
(* registration may reach the server, even late, the record of an iOS      *)
(* device is not empty (KnowInv), because `pending` is written first; the  *)
(* record is emptied only by a flow that read it empty, whose key the      *)
(* server refused (HadInv), or by a step that says so in `forgot`: the     *)
(* clear after a repeated redemption, and a clear of an abandoned flow     *)
(* that lands on the record of a later one.  On Android the mark, or the   *)
(* flow about to write it, has the same part.                              *)
(***************************************************************************)
EXTENDS AttestKey, TLAPS

-----------------------------------------------------------------------------
(* The invariant. *)

\* A request that registers a key.
Registers(r) == r.work = NoWork

\* iOS presents keys, Android integrity tokens.
PlatformInv ==
    /\ platform = "ios" => /\ flow.pc \notin {"token", "mark"}
                           /\ flow.pc = "posting" => flow.req.key # Integrity
                           /\ \A r \in late : r.key # Integrity
    /\ platform # "ios" => /\ flow.pc \in {"idle", "token", "posting", "mark"}
                           /\ skey = NoKey
                           /\ flow.pc = "posting" => flow.req.key \notin Keys
                           /\ \A r \in late : ~Registers(r) /\ r.key \notin Keys

\* What a flow works with at each of its awaits.
FlowInv ==
    /\ flow.pc # "idle" => flow.work \in Works
    /\ flow.pc \in {"attest", "note", "registering", "record", "assert", "stale"}
           => flow.key \in Keys
    /\ flow.pc = "registering" => flow.req = Registration(flow.key)
    /\ flow.pc = "posting" => /\ flow.req.work = flow.work
                              /\ flow.req.key \in Keys => flow.key = flow.req.key
    /\ \A r \in late : Registers(r) => r.key \in Keys

\* The server has seen an attestation, or may yet register a key.
MayHold == HasShown \/ \E r \in late : Registers(r)

\* A device that forgot nothing knows when the server may hold a key of it.
KnowInv ==
    /\ platform = "ios" /\ MayHold => rec.st # "none" \/ forgot
    /\ platform # "ios" /\ (HasShown \/ \E r \in late : r.key = Integrity)
           => mark \/ flow.pc = "mark" \/ forgot

\* So does a flow that has read it: there was no key, and there is none.
HadInv ==
    /\ flow.pc \in {"key", "attest", "note", "registering", "forget", "refused"} /\ ~flow.had
           => ~MayHold \/ forgot
    /\ flow.pc = "forget" => ~flow.had
    /\ flow.pc \in {"registering", "record"} => rec.st # "none" \/ forgot
    /\ flow.pc \in {"key", "attest", "note"} /\ flow.recovering
           => rec.st # "none" \/ forgot

\* A recovery begins with no other in the same cooldown.
RecoverInv ==
    /\ recoveries <= 1
    /\ recoveries > 0 => cooldown
    /\ flow.pc \in {"key", "attest", "note"} /\ flow.recovering /\ ~flow.again
           => recoveries = 0
    /\ flow.pc \in {"idle", "read"} => ~flow.recovering /\ ~flow.again
    /\ flow.pc = "assert" /\ ~flow.redone => ~flow.recovering
    /\ flow.pc = "renote" => ~flow.recovering

Inv == TypeOK /\ PlatformInv /\ FlowInv /\ KnowInv /\ HadInv /\ RecoverInv

\* A request without an attestation goes out (the case of NeverTokenLess).
GoesTokenLess == /\ flow'.pc = "posting" /\ flow.pc # "posting"
                 /\ flow'.req.key = NoKey
Safe == GoesTokenLess => ~HasShown \/ forgot

-----------------------------------------------------------------------------
(* The records of the model. *)

LEMMA NoFlowFields ==
    /\ NoFlow \in Flow /\ NoFlow.pc = "idle"
    /\ NoFlow.recovering = FALSE /\ NoFlow.again = FALSE
  <1>1. NoRequest \in Requests
    BY DEF NoRequest, Registration, Requests
  <1> QED
    BY <1>1 DEF NoFlow, Flow, PCs

LEMMA RecordFields ==
    /\ NoRecord.st = "none" /\ Pending.st = "pending"
    /\ \A k : [st |-> "registered", key |-> k].st = "registered"
    /\ \A k : [st |-> "stale", key |-> k].st = "stale"
  BY DEF NoRecord, Pending

\* What the requests of a flow are.
LEMMA RequestFields ==
  ASSUME NEW k \in Keys \cup {NoKey, Integrity}, NEW w \in Works
  PROVE  /\ Registration(k) \in Requests /\ Redemption(w, k) \in Requests
         /\ Registration(k).work = NoWork /\ Registration(k).key = k
         /\ Redemption(w, k).work = w /\ Redemption(w, k).key = k
         /\ w # NoWork
  BY NamesAssumption DEF Registration, Redemption, Requests, Works

\* A flow goes on: every edit of its record.
LEMMA FlowMoves ==
  ASSUME NEW f \in Flow, NEW pc \in PCs
  PROVE  /\ [f EXCEPT !.pc = pc] \in Flow
         /\ \A w \in Works : [f EXCEPT !.pc = pc, !.work = w] \in Flow
         /\ \A k \in Keys : [f EXCEPT !.pc = pc, !.key = k] \in Flow
         /\ \A r \in Requests : [f EXCEPT !.pc = pc, !.req = r] \in Flow
         /\ \A b, c \in BOOLEAN :
              /\ [f EXCEPT !.pc = pc, !.had = b, !.recovering = c] \in Flow
              /\ [f EXCEPT !.pc = pc, !.had = b, !.redone = c] \in Flow
              /\ [f EXCEPT !.pc = pc, !.redone = b] \in Flow
  <1>1. Works \subseteq Works \cup {NoWork} /\ Keys \subseteq Keys \cup {NoKey}
    OBVIOUS
  <1>2. [f EXCEPT !.pc = pc] \in Flow
    BY DEF Flow
  <1>3. ASSUME NEW w \in Works PROVE [f EXCEPT !.pc = pc, !.work = w] \in Flow
    BY <1>1 DEF Flow
  <1>4. ASSUME NEW k \in Keys PROVE [f EXCEPT !.pc = pc, !.key = k] \in Flow
    BY <1>1 DEF Flow
  <1>5. ASSUME NEW r \in Requests PROVE [f EXCEPT !.pc = pc, !.req = r] \in Flow
    BY DEF Flow
  <1>6. ASSUME NEW b \in BOOLEAN, NEW c \in BOOLEAN
        PROVE  /\ [f EXCEPT !.pc = pc, !.had = b, !.recovering = c] \in Flow
               /\ [f EXCEPT !.pc = pc, !.had = b, !.redone = c] \in Flow
               /\ [f EXCEPT !.pc = pc, !.redone = b] \in Flow
    BY DEF Flow
  <1> QED
    BY <1>2, <1>3, <1>4, <1>5, <1>6

LEMMA TokenLessFields ==
  ASSUME flow \in Flow, SendTokenLess
  PROVE  /\ flow'.pc = "posting" /\ flow'.req = Redemption(flow.work, NoKey)
         /\ flow'.work = flow.work
  <1>1. flow' = [flow EXCEPT !.pc = "posting", !.req = Redemption(flow.work, NoKey)]
    BY DEF SendTokenLess, Send
  <1> QED
    BY <1>1 DEF Flow

-----------------------------------------------------------------------------
(* The server. *)

LEMMA AppliedFacts ==
  ASSUME TypeOK, NEW r \in Requests, NEW a \in Answers, Apply(r, a),
         Registers(r) => r.key \in Keys,
         platform = "ios" => r.key # Integrity,
         platform # "ios" => ~Registers(r) /\ r.key \notin Keys /\ skey = NoKey
  PROVE  /\ skey' \in Keys \cup {NoKey} /\ retired' \in SUBSET Keys
         /\ shown' \in BOOLEAN /\ token' \in [Works -> Grades \cup {"none"}]
         /\ platform # "ios" => skey' = NoKey
         /\ HasShown' => HasShown \/ Registers(r)
                         \/ (r.key = Integrity /\ a.grade = "attested" /\ r.work \in Works)
         /\ Registers(r) => /\ a.grade \in {"already_registered", "registered",
                                            "previously_retired"}
                            /\ a.grade = "previously_retired" => UNCHANGED server
  <1>1. CASE r.work = NoWork
    <2>1. a.grade = RegisterAnswer(r.key)
          /\ (IF a.grade = "registered"
              THEN skey' = r.key /\ retired' = retired \cup ({skey} \ {NoKey})
              ELSE UNCHANGED <<skey, retired>>)
          /\ UNCHANGED <<shown, token>>
      BY <1>1 DEF Apply
    <2>2. RegisterAnswer(r.key) \in {"already_registered", "registered", "previously_retired"}
      BY DEF RegisterAnswer
    <2> QED
      BY <1>1, <2>1, <2>2 DEF TypeOK, Registers, server
  <1>2. CASE r.work # NoWork /\ token[r.work] # "none"
    BY <1>2 DEF Apply, server, TypeOK, HasShown, Registers
  <1>3. CASE r.work # NoWork /\ token[r.work] = "none"
    <2>1. /\ a \in GradesOf(r.key)
          /\ token' = [token EXCEPT ![r.work] = a.grade]
          /\ shown' = (shown \/ a.grade = "attested")
          /\ skey' = skey /\ retired' = retired
      BY <1>3 DEF Apply
    <2>2. r.work \in Works /\ r.key \in Keys \cup {NoKey, Integrity}
      BY <1>3 DEF Requests
    <2>3. /\ a.grade \in Grades
          /\ a.grade = "attested" => r.key = Integrity \/ HasShown
      <3>1. CASE r.key = NoKey
        BY <2>1, <3>1 DEF GradesOf, Grades
      <3>2. CASE r.key = Integrity
        BY <2>1, <3>2, NamesAssumption DEF GradesOf, Grades
      <3>3. CASE r.key \in Keys
        BY <2>1, <3>3, NamesAssumption DEF GradesOf, Grades, HasShown
      <3> QED
        BY <2>2, <3>1, <3>2, <3>3
    <2>4. token' \in [Works -> Grades \cup {"none"}]
      BY <2>1, <2>3 DEF TypeOK
    <2> QED
      BY <1>3, <2>1, <2>2, <2>3, <2>4 DEF TypeOK, HasShown, Registers
  <1> QED
    BY <1>1, <1>2, <1>3

\* What a flow does with an answer.
LEMMA AfterFacts ==
  ASSUME TypeOK, PlatformInv, FlowInv, HadInv, flow.pc \in Waiting,
         NEW a \in Answers, After(a)
  PROVE  /\ flow' \in Flow
         /\ \/ flow' = NoFlow
            \/ /\ flow'.work = flow.work /\ flow'.key = flow.key
               /\ flow'.had = flow.had /\ flow'.recovering = flow.recovering
               /\ flow'.req = flow.req
               /\ \/ /\ flow.pc = "registering" /\ flow'.pc = "record"
                     /\ a.grade \in {"registered", "already_registered"}
                  \/ /\ flow.pc = "registering" /\ flow'.pc = "key" /\ flow'.again
                     /\ a.grade = "previously_retired"
                  \/ /\ flow.pc = "registering" /\ flow'.pc = "backoff"
                     /\ a.grade = "previously_retired"
                  \/ /\ flow.pc = "registering" /\ a.grade = "refused"
                     /\ flow'.pc = IF flow.had THEN "refused" ELSE "forget"
                  \/ /\ flow.pc = "posting" /\ flow'.pc \in {"stale", "clear"}
                     /\ platform = "ios" /\ flow.key \in Keys
                  \/ /\ flow.pc = "posting" /\ flow'.pc = "mark"
                     /\ platform # "ios" /\ flow.req.key = Integrity
         /\ (/\ flow.pc = "posting" /\ platform # "ios" /\ flow.req.key = Integrity
             /\ a.grade \in {"attested", "unknown"}) => flow'.pc = "mark"
  <1> DEFINE to(pc) == [flow EXCEPT !.pc = pc]
  <1>1. flow \in Flow
    BY DEF TypeOK
  <1>2. \A pc \in PCs :
          /\ to(pc) \in Flow /\ to(pc).pc = pc
          /\ to(pc).work = flow.work /\ to(pc).key = flow.key
          /\ to(pc).had = flow.had /\ to(pc).recovering = flow.recovering
          /\ to(pc).again = flow.again /\ to(pc).req = flow.req
    BY <1>1 DEF Flow
  <1>3. {"record", "key", "backoff", "refused", "forget", "stale", "clear", "mark"} \subseteq PCs
    BY DEF PCs
  <1>4. /\ [flow EXCEPT !.pc = "key", !.again = TRUE] \in Flow
        /\ [flow EXCEPT !.pc = "key", !.again = TRUE].pc = "key"
        /\ [flow EXCEPT !.pc = "key", !.again = TRUE].again = TRUE
        /\ [flow EXCEPT !.pc = "key", !.again = TRUE].work = flow.work
        /\ [flow EXCEPT !.pc = "key", !.again = TRUE].key = flow.key
        /\ [flow EXCEPT !.pc = "key", !.again = TRUE].had = flow.had
        /\ [flow EXCEPT !.pc = "key", !.again = TRUE].recovering = flow.recovering
        /\ [flow EXCEPT !.pc = "key", !.again = TRUE].req = flow.req
    BY <1>1, <1>3 DEF Flow
  <1> HIDE DEF to
  <1>5. CASE flow.pc = "registering"
    <2>1. AfterRegistration(a)
      BY <1>5 DEF After
    <2>2. CASE a.grade \in {"registered", "already_registered"}
      <3>1. flow' = to("record")
        BY <2>1, <2>2 DEF AfterRegistration, Go, to
      <3> QED
        BY <1>2, <1>3, <1>5, <2>2, <3>1
    <2>3. CASE a.grade = "previously_retired" /\ ~flow.again
      <3>1. flow' = [flow EXCEPT !.pc = "key", !.again = TRUE]
        BY <2>1, <2>3 DEF AfterRegistration
      <3> QED
        BY <1>4, <1>5, <2>3, <3>1
    <2>4. CASE a.grade = "previously_retired" /\ flow.again
      <3>1. flow' = to("backoff")
        BY <2>1, <2>4 DEF AfterRegistration, Go, to
      <3> QED
        BY <1>2, <1>3, <1>5, <2>4, <3>1
    <2>5. CASE a.grade = "refused"
      <3>1. flow' = to(IF flow.had THEN "refused" ELSE "forget")
        BY <2>1, <2>5 DEF AfterRegistration, Go, to
      <3> QED
        BY <1>2, <1>3, <1>5, <2>5, <3>1
    <2>6. CASE a.grade \notin {"registered", "already_registered", "previously_retired", "refused"}
      <3>1. flow' = NoFlow
        BY <2>1, <2>6 DEF AfterRegistration, Defer
      <3> QED
        BY <1>5, <3>1, NoFlowFields
    <2>7. flow.again \in BOOLEAN
      BY <1>1 DEF Flow
    <2> QED
      BY <2>2, <2>3, <2>4, <2>5, <2>6, <2>7
  <1>6. CASE flow.pc = "posting"
    <2>1. AfterRedemption(a)
      BY <1>6 DEF After
    <2>2. flow.req.key \in Keys \cup {NoKey, Integrity}
      BY <1>1 DEF Flow, Requests
    <2>3. CASE platform = "ios"
      <3>1. flow' = NoFlow \/ (flow' \in {to("stale"), to("clear")} /\ flow.req.key # NoKey)
        BY <2>1, <2>3 DEF AfterRedemption, Go, Defer, to
      <3>2. flow.req.key # NoKey => flow.key \in Keys
        BY <1>6, <2>2, <2>3 DEF PlatformInv, FlowInv
      <3> QED
        BY <1>2, <1>3, <1>6, <2>3, <3>1, <3>2, NoFlowFields
    <2>4. CASE platform # "ios"
      <3>1. \/ flow' = NoFlow
            \/ flow' = to("mark") /\ flow.req.key = Integrity
        BY <2>1, <2>4 DEF AfterRedemption, Go, Defer, to
      <3>2. flow.req.key = Integrity /\ a.grade \in {"attested", "unknown"}
              => flow' = to("mark")
        BY <2>1, <2>4 DEF AfterRedemption, Go, Defer, to
      <3> QED
        BY <1>2, <1>3, <1>6, <2>4, <3>1, <3>2, NoFlowFields
    <2> QED
      BY <2>3, <2>4
  <1> QED
    BY <1>5, <1>6 DEF Waiting

-----------------------------------------------------------------------------
(* The steps that do not move the flow. *)

\* The flow as it was, a server that holds a key only if it held one or a late
\* request has brought it, and a device that knows no less.
LEMMA FlowStays ==
  ASSUME Inv, TypeOK', UNCHANGED <<platform, flow>>,
         late' \subseteq late,
         platform # "ios" => skey' = NoKey,
         HasShown' => HasShown \/ (\E r \in late : Registers(r) \/ r.key = Integrity),
         rec.st # "none" => rec'.st # "none" \/ forgot',
         mark => mark', forgot => forgot',
         (recoveries' = recoveries /\ (cooldown => cooldown')) \/ recoveries' = 0
  PROVE  Inv' /\ Safe
  <1>1. PlatformInv'
    BY DEF Inv, PlatformInv, Registers
  <1>2. FlowInv'
    BY DEF Inv, FlowInv, Registers
  <1>3. /\ platform = "ios" /\ MayHold' => MayHold
        /\ platform # "ios" /\ HasShown' => HasShown \/ \E r \in late : r.key = Integrity
    BY DEF Inv, PlatformInv, MayHold, Registers
  <1>4. KnowInv'
    BY <1>3 DEF Inv, KnowInv
  <1>5. HadInv'
    <2>1. platform # "ios" => flow.pc \in {"idle", "token", "posting", "mark"}
      BY DEF Inv, PlatformInv
    <2> QED
      BY <1>3, <2>1 DEF Inv, HadInv
  <1>6. RecoverInv'
    BY DEF Inv, RecoverInv, TypeOK
  <1>7. Safe
    BY DEF Safe, GoesTokenLess
  <1> QED
    BY <1>1, <1>2, <1>4, <1>5, <1>6, <1>7 DEF Inv

LEMMA FaultCounts ==
  ASSUME TypeOK, Fault
  PROVE  faults' \in 0..MaxFaults
  BY FaultsAssumption DEF TypeOK, Fault

LEMMA ArrivesLateKeeps ==
  ASSUME Inv, ArrivesLate
  PROVE  Inv' /\ Safe
  <1>1. PICK r \in late : /\ late' = late \ {r}
                          /\ \/ \E a \in Answers : Apply(r, a)
                             \/ UNCHANGED server
                          /\ UNCHANGED <<platform, store, enclave, answered, flow,
                                         limbo, recoveries, forgot, faults>>
    BY DEF ArrivesLate
  <1>2. /\ skey' \in Keys \cup {NoKey} /\ retired' \in SUBSET Keys
        /\ shown' \in BOOLEAN /\ token' \in [Works -> Grades \cup {"none"}]
        /\ platform # "ios" => skey' = NoKey
        /\ HasShown' => HasShown \/ Registers(r) \/ r.key = Integrity
    <2>1. CASE \E a \in Answers : Apply(r, a)
      <3>1. PICK a \in Answers : Apply(r, a)
        BY <2>1
      <3>2. /\ r \in Requests /\ TypeOK
            /\ Registers(r) => r.key \in Keys
            /\ platform = "ios" => r.key # Integrity
            /\ platform # "ios" => ~Registers(r) /\ r.key \notin Keys /\ skey = NoKey
        BY DEF Inv, TypeOK, FlowInv, PlatformInv
      <3> QED
        BY <3>1, <3>2, AppliedFacts
    <2>2. CASE UNCHANGED server
      BY <2>2 DEF server, Inv, TypeOK, PlatformInv, HasShown
    <2> QED
      BY <1>1, <2>1, <2>2
  <1>3. TypeOK'
    BY <1>1, <1>2 DEF Inv, TypeOK, store
  <1> QED
    BY <1>1, <1>2, <1>3, FlowStays DEF store

\* A late write leaves a record the type allows, and one that empties it is
\* remembered in `forgot`.
LEMMA LandFacts ==
  ASSUME TypeOK, NEW x \in Writes, Land(x)
  PROVE  /\ rec' \in {NoRecord, Pending} \cup [st : {"registered", "stale"}, key : Keys]
         /\ rec.st # "none" => rec'.st # "none" \/ forgot'
         /\ cooldown' \in BOOLEAN /\ (cooldown => cooldown')
         /\ backoff' \in BOOLEAN
         /\ mark' \in BOOLEAN /\ (mark => mark')
         /\ forgot' \in BOOLEAN /\ (forgot => forgot')
  <1>1. /\ cooldown' \in BOOLEAN /\ (cooldown => cooldown')
        /\ backoff' \in BOOLEAN
        /\ mark' \in BOOLEAN /\ (mark => mark')
        /\ forgot' \in BOOLEAN /\ (forgot => forgot')
    BY DEF Land, TypeOK
  <1>2. CASE x.op = "pending"
    BY <1>2, RecordFields DEF Land
  <1>3. CASE x.op = "record"
    <2>1. x.key \in Keys
      BY <1>3 DEF Writes
    <2> QED
      BY <1>3, <2>1 DEF Land
  <1>4. CASE x.op = "stale"
    <2>1. x.key \in Keys
      BY <1>4 DEF Writes
    <2> QED
      BY <1>4, <2>1 DEF Land
  <1>5. CASE x.op \in {"forget", "clear"}
    <2>1. rec' = NoRecord /\ forgot' = (forgot \/ rec.st # "none")
      BY <1>5 DEF Land
    <2> QED
      BY <1>1, <2>1
  <1>6. CASE x.op \notin {"pending", "record", "stale", "forget", "clear"}
    <2>1. rec' = rec
      BY <1>6 DEF Land
    <2> QED
      BY <1>1, <2>1 DEF TypeOK
  <1> QED
    BY <1>1, <1>2, <1>3, <1>4, <1>5, <1>6

LEMMA LandsLateKeeps ==
  ASSUME Inv, LandsLate
  PROVE  Inv' /\ Safe
  <1>1. PICK x \in limbo :
          /\ limbo' \subseteq limbo \cup {Write("backoff", NoKey)}
          /\ Land(x) \/ UNCHANGED <<rec, cooldown, backoff, mark, forgot>>
          /\ UNCHANGED <<platform, unattested, enclave, server, answered, flow, late,
                         recoveries, faults>>
    BY DEF LandsLate, Follows
  <1>2. x \in Writes /\ Write("backoff", NoKey) \in Writes /\ TypeOK
    BY DEF Inv, TypeOK, Write, Writes
  <1>3. /\ rec' \in {NoRecord, Pending} \cup [st : {"registered", "stale"}, key : Keys]
        /\ rec.st # "none" => rec'.st # "none" \/ forgot'
        /\ cooldown' \in BOOLEAN /\ (cooldown => cooldown')
        /\ backoff' \in BOOLEAN
        /\ mark' \in BOOLEAN /\ (mark => mark')
        /\ forgot' \in BOOLEAN /\ (forgot => forgot')
    <2>1. CASE Land(x)
      BY <1>2, <2>1, LandFacts
    <2>2. CASE UNCHANGED <<rec, cooldown, backoff, mark, forgot>>
      BY <1>2, <2>2 DEF TypeOK
    <2> QED
      BY <1>1, <2>1, <2>2
  <1>4. TypeOK'
    <2>1. limbo' \in SUBSET Writes
      BY <1>1, <1>2 DEF TypeOK
    <2> QED
      BY <1>1, <1>2, <1>3, <2>1 DEF TypeOK, server
  <1>5. /\ platform # "ios" => skey' = NoKey
        /\ HasShown' => HasShown
        /\ late' \subseteq late
    BY <1>1 DEF server, Inv, PlatformInv, HasShown
  <1> QED
    BY <1>1, <1>3, <1>4, <1>5, FlowStays

LEMMA SurroundingsKeep ==
  ASSUME Inv, BackoffEnds \/ CooldownEnds \/ Reinstall \/ ServerForgets
              \/ \E w \in Works : Renew(w)
  PROVE  Inv' /\ Safe
  <1>1. CASE BackoffEnds
    <2>1. TypeOK'
      BY <1>1 DEF BackoffEnds, Inv, TypeOK, server, other
    <2> QED
      BY <1>1, <2>1, FlowStays DEF BackoffEnds, Inv, PlatformInv, HasShown, server, other
  <1>2. CASE CooldownEnds
    <2>1. TypeOK'
      BY <1>2 DEF CooldownEnds, Inv, TypeOK, server
    <2> QED
      BY <1>2, <2>1, FlowStays DEF CooldownEnds, Inv, PlatformInv, HasShown, server
  <1>3. CASE Reinstall
    <2>1. TypeOK'
      BY <1>3, FaultCounts DEF Reinstall, Inv, TypeOK, server, store, other
    <2> QED
      BY <1>3, <2>1, FlowStays DEF Reinstall, Inv, PlatformInv, HasShown, server, store, other
  <1>4. CASE ServerForgets
    <2>1. TypeOK'
      BY <1>4, FaultCounts DEF ServerForgets, Inv, TypeOK, store, other
    <2>2. HasShown' => HasShown
      BY <1>4 DEF ServerForgets, HasShown
    <2> QED
      BY <1>4, <2>1, <2>2, FlowStays DEF ServerForgets, store, other
  <1>5. CASE \E w \in Works : Renew(w)
    <2>1. PICK w \in Works : Renew(w)
      BY <1>5
    <2>2. TypeOK'
      BY <2>1 DEF Renew, Inv, TypeOK, store, other
    <2> QED
      BY <2>1, <2>2, FlowStays DEF Renew, Inv, PlatformInv, HasShown, store, other
  <1> QED
    BY <1>1, <1>2, <1>3, <1>4, <1>5

-----------------------------------------------------------------------------
(* The steps of a flow that leave the server alone. *)

LEMMA SameKnowledge ==
  ASSUME UNCHANGED <<skey, shown, late>>
  PROVE  (HasShown' <=> HasShown) /\ (MayHold' <=> MayHold)
  BY DEF HasShown, MayHold, Registers

\* A deferral: the lock is released, and nothing is sent.
LEMMA Defers ==
  ASSUME Inv, TypeOK', Defer, UNCHANGED <<platform, skey, shown, late>>,
         platform = "ios" /\ (rec.st # "none" \/ forgot) => rec'.st # "none" \/ forgot',
         platform # "ios" /\ (mark \/ flow.pc = "mark" \/ forgot) => mark' \/ forgot',
         recoveries' = recoveries, cooldown => cooldown'
  PROVE  Inv' /\ Safe
  <1>1. flow'.pc = "idle" /\ ~flow'.recovering /\ ~flow'.again
    BY NoFlowFields DEF Defer
  <1>2. PlatformInv'
    BY <1>1 DEF Inv, PlatformInv, Registers
  <1>3. FlowInv'
    BY <1>1 DEF Inv, FlowInv, Registers
  <1>4. KnowInv'
    BY <1>1, SameKnowledge DEF Inv, KnowInv
  <1>5. HadInv'
    BY <1>1 DEF HadInv
  <1>6. RecoverInv'
    BY <1>1 DEF Inv, RecoverInv
  <1>7. Safe
    BY <1>1 DEF Safe, GoesTokenLess
  <1> QED
    BY <1>2, <1>3, <1>4, <1>5, <1>6, <1>7 DEF Inv

\* A request without an attestation, sent where the device may.
LEMMA SendsTokenLess ==
  ASSUME Inv, TypeOK', SendTokenLess, UNCHANGED <<platform, skey, shown, late, mark, forgot>>,
         flow.pc \notin {"idle", "posting", "mark"},
         ~HasShown \/ forgot,
         rec.st # "none" => rec'.st # "none" \/ ~MayHold \/ forgot,
         UNCHANGED <<recoveries, cooldown>>
  PROVE  Inv' /\ Safe
  <1>1. /\ flow'.pc = "posting" /\ flow'.req = Redemption(flow.work, NoKey)
        /\ flow'.work = flow.work /\ flow.work \in Works
    <2>1. flow \in Flow /\ flow.work \in Works
      BY DEF Inv, TypeOK, FlowInv
    <2> QED
      BY <2>1, TokenLessFields
  <1>2. flow'.req.work = flow.work /\ flow'.req.key = NoKey
    BY <1>1 DEF Redemption
  <1>3. PlatformInv'
    BY <1>1, <1>2, NamesAssumption DEF Inv, PlatformInv, Registers
  <1>4. FlowInv'
    BY <1>1, <1>2, NamesAssumption DEF Inv, FlowInv, Registers
  <1>5. KnowInv'
    BY <1>1, SameKnowledge DEF Inv, KnowInv
  <1>6. HadInv'
    BY <1>1 DEF HadInv
  <1>7. RecoverInv'
    BY <1>1 DEF Inv, RecoverInv
  <1>8. Safe
    BY DEF Safe
  <1> QED
    BY <1>3, <1>4, <1>5, <1>6, <1>7, <1>8 DEF Inv

LEMMA StartKeeps ==
  ASSUME Inv, NEW w \in Works, Start(w)
  PROVE  Inv' /\ Safe
  <1> DEFINE pc == IF platform = "ios" THEN "read" ELSE "token"
  <1>1. /\ flow.pc = "idle" /\ flow' = [NoFlow EXCEPT !.pc = pc, !.work = w]
        /\ UNCHANGED <<platform, store, enclave, server, answered, other, faults>>
    BY DEF Start
  <1>2. pc \in PCs
    BY DEF PCs
  <1>3. flow' \in Flow
    BY <1>1, <1>2, NoFlowFields, FlowMoves
  <1>4. /\ flow'.pc = pc /\ flow'.work = w /\ ~flow'.recovering /\ ~flow'.again
    BY <1>1, NoFlowFields DEF Flow
  <1>5. TypeOK'
    BY <1>1, <1>3 DEF Inv, TypeOK, store, server, other
  <1>6. PlatformInv'
    BY <1>1, <1>4 DEF Inv, PlatformInv, Registers, server, other
  <1>7. FlowInv'
    BY <1>1, <1>4 DEF Inv, FlowInv, Registers, other
  <1>8. KnowInv'
    BY <1>1, SameKnowledge DEF Inv, KnowInv, store, server, other
  <1>9. HadInv'
    BY <1>4 DEF HadInv
  <1>10. RecoverInv'
    BY <1>1, <1>4 DEF Inv, RecoverInv, other, store
  <1>11. Safe
    BY <1>4 DEF Safe, GoesTokenLess
  <1> QED
    BY <1>5, <1>6, <1>7, <1>8, <1>9, <1>10, <1>11 DEF Inv

\* What the invariant asks of a flow that is under way on iOS, in its new place.
Place ==
    /\ flow'.pc \notin {"idle", "posting", "token", "mark", "read", "forget", "refused"}
    /\ flow'.work = flow.work
    /\ flow'.pc \in {"attest", "note", "registering", "record", "assert", "stale"}
           => flow'.key \in Keys
    /\ flow'.pc = "registering" => flow'.req = Registration(flow'.key)
    /\ flow'.pc \in {"key", "attest", "note", "registering"} /\ ~flow'.had
           => ~MayHold \/ forgot
    /\ flow'.pc \in {"registering", "record"} => rec'.st # "none" \/ forgot
    /\ flow'.pc \in {"key", "attest", "note"} /\ flow'.recovering
           => (rec'.st # "none" \/ forgot) /\ (flow'.again \/ recoveries' = 0)
    /\ flow'.pc = "assert" /\ ~flow'.redone => ~flow'.recovering
    /\ flow'.pc = "renote" => ~flow'.recovering
    /\ recoveries' <= 1 /\ (recoveries' > 0 => cooldown')

LEMMA MovesOn ==
  ASSUME Inv, TypeOK', Place, platform = "ios", flow.pc # "idle",
         UNCHANGED <<platform, skey, shown, late, mark>>,
         rec.st # "none" => rec'.st # "none",
         forgot' = forgot \/ (rec'.st # "none" /\ flow'.pc = "assert")
  PROVE  Inv' /\ Safe
  <1>1. flow.work \in Works /\ flow.pc # "mark"
    BY DEF Inv, FlowInv, PlatformInv
  <1>2. PlatformInv'
    BY DEF Place, Inv, PlatformInv, Registers
  <1>3. FlowInv'
    BY <1>1 DEF Place, Inv, FlowInv, Registers
  <1>4. KnowInv'
    BY SameKnowledge DEF Inv, KnowInv
  <1>5. HadInv'
    BY SameKnowledge DEF Place, HadInv
  <1>6. RecoverInv'
    BY DEF Place, RecoverInv
  <1>7. Safe
    BY DEF Place, Safe, GoesTokenLess
  <1> QED
    BY <1>2, <1>3, <1>4, <1>5, <1>6, <1>7 DEF Inv

LEMMA ReadKeyKeeps ==
  ASSUME Inv, ReadKey
  PROVE  Inv' /\ Safe
  <1>1. /\ flow.pc = "read" /\ platform = "ios" /\ flow \in Flow
        /\ ~flow.recovering /\ ~flow.again /\ flow.work \in Works
        /\ UNCHANGED <<platform, store, enclave, server, answered, other, faults>>
    BY DEF ReadKey, Inv, PlatformInv, RecoverInv, FlowInv, TypeOK
  <1>2. rec.st \in {"none", "pending", "registered", "stale"}
        /\ rec.st = "registered" => rec.key \in Keys
    BY RecordFields DEF Inv, TypeOK
  <1>3. ASSUME flow' \in Flow PROVE TypeOK'
    BY <1>1, <1>3 DEF Inv, TypeOK, store, server, other
  <1>4. CASE Defer
    <2>1. TypeOK'
      BY <1>3, <1>4, NoFlowFields DEF Defer
    <2> QED
      BY <1>1, <1>4, <2>1, Defers DEF store, server, other
  <1>5. CASE rec.st = "none" /\ SendTokenLess
    <2>1. TypeOK'
      BY <1>1, <1>3, <1>5, FlowMoves, RequestFields DEF SendTokenLess, Send, PCs
    <2>2. ~HasShown \/ forgot
      BY <1>1, <1>5 DEF Inv, KnowInv, MayHold
    <2> QED
      BY <1>1, <1>5, <2>1, <2>2, SendsTokenLess DEF store, server, other
  <1>6. CASE rec.st = "registered" /\ flow' = [flow EXCEPT !.pc = "assert", !.key = rec.key]
    <2>1. flow' \in Flow
      BY <1>1, <1>2, <1>6, FlowMoves DEF PCs
    <2>2. /\ flow'.pc = "assert" /\ flow'.work = flow.work /\ flow'.key = rec.key
          /\ flow'.recovering = flow.recovering
      BY <1>1, <1>6 DEF Flow
    <2>3. recoveries <= 1 /\ (recoveries > 0 => cooldown)
      BY DEF Inv, RecoverInv
    <2>4. Place
      BY <1>1, <1>2, <1>6, <2>2, <2>3 DEF Place, store, other
    <2> QED
      BY <1>1, <1>3, <2>1, <2>4, MovesOn DEF store, server, other
  <1>7. CASE /\ ~(rec.st = "stale" /\ cooldown)
             /\ flow' = [flow EXCEPT !.pc = "key", !.had = (rec.st # "none"),
                                     !.recovering = (rec.st = "stale")]
    <2>1. flow' \in Flow
      BY <1>1, <1>7, FlowMoves DEF PCs
    <2>2. /\ flow'.pc = "key" /\ flow'.work = flow.work /\ flow'.had = (rec.st # "none")
          /\ flow'.recovering = (rec.st = "stale")
      BY <1>1, <1>7 DEF Flow
    <2>3. rec.st = "none" => ~MayHold \/ forgot
      BY <1>1 DEF Inv, KnowInv
    <2>4. /\ rec.st = "stale" => recoveries = 0
          /\ recoveries <= 1 /\ (recoveries > 0 => cooldown)
      BY <1>7 DEF Inv, RecoverInv, TypeOK
    <2>5. Place
      BY <1>1, <2>2, <2>3, <2>4 DEF Place, store, other
    <2> QED
      BY <1>1, <1>3, <2>1, <2>5, MovesOn DEF store, server, other
  <1> QED
    BY <1>4, <1>5, <1>6, <1>7 DEF ReadKey

LEMMA MakeKeyKeeps ==
  ASSUME Inv, MakeKey
  PROVE  Inv' /\ Safe
  <1>1. /\ flow.pc = "key" /\ platform = "ios" /\ flow \in Flow /\ flow.work \in Works
        /\ UNCHANGED <<platform, rec, backoff, cooldown, mark, skey,
                       shown, token, other, answered, faults>>
    BY DEF MakeKey, Inv, PlatformInv, FlowInv, TypeOK
  <1>2. PICK k \in Keys :
          /\ flow' = [flow EXCEPT !.pc = "attest", !.key = k]
          /\ unattested' \in Keys \cup {NoKey} /\ retired' \subseteq retired
          /\ enclave' = enclave \/ enclave' = [enclave EXCEPT ![k] = "made"]
    <2>1. CASE unattested # NoKey
      BY <2>1 DEF MakeKey, Inv, TypeOK
    <2>2. CASE unattested = NoKey
      <3>1. (CHOOSE k \in Unused : TRUE) \in Keys
        BY <2>2 DEF MakeKey, Unused
      <3> QED
        BY <2>2, <3>1 DEF MakeKey
    <2> QED
      BY <2>1, <2>2
  <1>3. flow' \in Flow
    BY <1>1, <1>2, FlowMoves DEF PCs
  <1>4. /\ flow'.pc = "attest" /\ flow'.work = flow.work /\ flow'.key = k
        /\ flow'.had = flow.had /\ flow'.recovering = flow.recovering
        /\ flow'.again = flow.again
    BY <1>1, <1>2 DEF Flow
  <1>5. TypeOK'
    BY <1>1, <1>2, <1>3 DEF Inv, TypeOK, other
  <1>6. /\ ~flow.had => ~MayHold \/ forgot
        /\ flow.recovering => (rec.st # "none" \/ forgot) /\ (flow.again \/ recoveries = 0)
        /\ recoveries <= 1 /\ (recoveries > 0 => cooldown)
    BY <1>1 DEF Inv, HadInv, RecoverInv, TypeOK, Flow
  <1>7. Place
    BY <1>1, <1>4, <1>6 DEF Place, other
  <1> QED
    BY <1>1, <1>5, <1>7, MovesOn DEF other

\* The refusal of a key: a flow that had none goes on without one.
LEMMA Refusals ==
  ASSUME Inv, TypeOK', RefusedStep, platform = "ios",
         UNCHANGED <<platform, skey, shown, late, mark, forgot, recoveries, cooldown>>,
         flow.pc \in {"key", "attest", "refused"},
         rec' = rec
  PROVE  Inv' /\ Safe
  <1>1. CASE flow.had
    BY <1>1, Defers DEF RefusedStep
  <1>2. CASE ~flow.had
    <2>1. ~MayHold \/ forgot
      BY <1>2 DEF Inv, HadInv
    <2> QED
      BY <1>2, <2>1, SendsTokenLess DEF RefusedStep, MayHold
  <1> QED
    BY <1>1, <1>2

LEMMA RefusedFlow ==
  ASSUME TypeOK, FlowInv, flow.pc # "idle", RefusedStep
  PROVE  flow' \in Flow
  <1>1. CASE Defer
    BY <1>1, NoFlowFields DEF Defer
  <1>2. CASE SendTokenLess
    BY <1>2, FlowMoves, RequestFields DEF SendTokenLess, Send, TypeOK, FlowInv, PCs
  <1> QED
    BY <1>1, <1>2 DEF RefusedStep

LEMMA UnattestableKeeps ==
  ASSUME Inv, Unattestable
  PROVE  Inv' /\ Safe
  <1>1. flow' \in Flow
    BY RefusedFlow DEF Unattestable, Inv
  <1>2. TypeOK'
    BY <1>1, FaultCounts DEF Unattestable, Inv, TypeOK, server, other
  <1>3. platform = "ios"
    BY DEF Unattestable, Inv, PlatformInv
  <1> QED
    BY <1>2, <1>3, Refusals DEF Unattestable, server, other

\* The `pending` of a flow that read no record is taken back: the server holds
\* no key for this device, now or later.
LEMMA ForgetKeyKeeps ==
  ASSUME Inv, ForgetKey
  PROVE  Inv' /\ Safe
  <1>1. /\ flow.pc = "forget" /\ flow \in Flow /\ ~flow.had /\ flow.work \in Works
        /\ ~MayHold \/ forgot
        /\ platform = "ios"
        /\ flow' = [flow EXCEPT !.pc = "refused"]
        /\ rec' \in {rec, NoRecord} /\ faults' \in 0..MaxFaults
        /\ UNCHANGED <<platform, unattested, backoff, cooldown, mark, enclave,
                       server, answered, other>>
    BY FaultCounts DEF ForgetKey, Go, Inv, HadInv, PlatformInv, FlowInv, TypeOK
  <1>2. flow' \in Flow
    BY <1>1, FlowMoves DEF PCs
  <1>3. flow'.pc = "refused" /\ flow'.work = flow.work
    BY <1>1 DEF Flow
  <1>4. TypeOK'
    BY <1>1, <1>2 DEF Inv, TypeOK, server, other
  <1>5. UNCHANGED <<skey, shown, late, forgot, recoveries, cooldown>>
    BY <1>1 DEF server, other
  <1>6. PlatformInv'
    BY <1>1, <1>3, <1>5 DEF Inv, PlatformInv, Registers
  <1>7. FlowInv'
    BY <1>1, <1>3, <1>5 DEF Inv, FlowInv, Registers
  <1>8. KnowInv' /\ HadInv'
    BY <1>1, <1>3, <1>5, SameKnowledge DEF KnowInv, HadInv
  <1>9. RecoverInv'
    BY <1>3, <1>5 DEF Inv, RecoverInv
  <1>10. Safe
    BY <1>3 DEF Safe, GoesTokenLess
  <1> QED
    BY <1>4, <1>6, <1>7, <1>8, <1>9, <1>10 DEF Inv

LEMMA RefusedKeyKeeps ==
  ASSUME Inv, RefusedKey
  PROVE  Inv' /\ Safe
  <1>1. flow' \in Flow
    BY RefusedFlow DEF RefusedKey, Inv
  <1>2. faults' \in 0..MaxFaults /\ backoff' \in BOOLEAN
    BY FaultCounts DEF RefusedKey, Inv, TypeOK
  <1>3. TypeOK'
    BY <1>1, <1>2 DEF RefusedKey, Inv, TypeOK, server, other
  <1>4. platform = "ios"
    BY DEF RefusedKey, Inv, PlatformInv
  <1> QED
    BY <1>3, <1>4, Refusals DEF RefusedKey, server, other

LEMMA AttestNativeKeeps ==
  ASSUME Inv, AttestNative
  PROVE  Inv' /\ Safe
  <1>1. /\ flow.pc = "attest" /\ platform = "ios" /\ flow \in Flow
        /\ flow.work \in Works /\ flow.key \in Keys
        /\ unattested' = NoKey
        /\ UNCHANGED <<platform, rec, backoff, cooldown, mark, server, answered, other>>
    BY DEF AttestNative, Inv, PlatformInv, FlowInv, TypeOK
  <1>2. CASE Defer /\ UNCHANGED enclave /\ faults' \in 0..MaxFaults
    <2>1. TypeOK'
      BY <1>1, <1>2, NoFlowFields DEF Defer, Inv, TypeOK, server, other
    <2> QED
      BY <1>1, <1>2, <2>1, Defers DEF server, other
  <1>3. CASE /\ enclave' = [enclave EXCEPT ![flow.key] = "attested"]
             /\ Go("note") /\ UNCHANGED faults
    <2>1. flow' \in Flow
      BY <1>1, <1>3, FlowMoves DEF Go, PCs
    <2>2. /\ flow'.pc = "note" /\ flow'.work = flow.work /\ flow'.key = flow.key
          /\ flow'.had = flow.had /\ flow'.recovering = flow.recovering
          /\ flow'.again = flow.again
      BY <1>1, <1>3 DEF Go, Flow
    <2>3. TypeOK'
      BY <1>1, <1>3, <2>1 DEF Inv, TypeOK, server, other
    <2>4. /\ ~flow.had => ~MayHold \/ forgot
          /\ flow.recovering => (rec.st # "none" \/ forgot) /\ (flow.again \/ recoveries = 0)
          /\ recoveries <= 1 /\ (recoveries > 0 => cooldown)
      BY <1>1 DEF Inv, HadInv, RecoverInv, TypeOK, Flow
    <2>5. Place
      BY <1>1, <2>2, <2>4 DEF Place, other
    <2> QED
      BY <1>1, <2>3, <2>5, MovesOn DEF server, other
  <1>4. faults \in 0..MaxFaults /\ (Fault => faults' \in 0..MaxFaults)
    BY FaultCounts DEF Inv, TypeOK
  <1> QED
    BY <1>2, <1>3, <1>4 DEF AttestNative

LEMMA NoteAndRegisterKeeps ==
  ASSUME Inv, NoteAndRegister
  PROVE  Inv' /\ Safe
  <1>1. /\ flow.pc = "note" /\ platform = "ios" /\ flow \in Flow
        /\ flow.work \in Works /\ flow.key \in Keys
        /\ flow' = [flow EXCEPT !.pc = "registering", !.req = Registration(flow.key)]
        /\ UNCHANGED <<platform, unattested, backoff, mark, enclave, server,
                       answered, late, limbo, forgot, faults>>
    BY DEF NoteAndRegister, Send, Inv, PlatformInv, FlowInv, TypeOK
  <1>2. flow' \in Flow
    <2>1. Registration(flow.key) \in Requests /\ "registering" \in PCs
      BY <1>1 DEF Registration, Requests, PCs
    <2> QED
      BY <1>1, <2>1, FlowMoves
  <1>3. /\ flow'.pc = "registering" /\ flow'.work = flow.work /\ flow'.key = flow.key
        /\ flow'.had = flow.had /\ flow'.req = Registration(flow.key)
    BY <1>1 DEF Flow
  <1>4. /\ flow.recovering \in BOOLEAN /\ flow.again \in BOOLEAN
        /\ ~flow.had => ~MayHold \/ forgot
        /\ flow.recovering => (rec.st # "none" \/ forgot) /\ (flow.again \/ recoveries = 0)
        /\ recoveries \in Nat /\ recoveries <= 1 /\ (recoveries > 0 => cooldown)
    BY <1>1 DEF Inv, HadInv, RecoverInv, TypeOK, Flow
  <1>5. /\ rec' \in {rec, Pending} /\ (rec'.st # "none" \/ forgot)
        /\ rec.st # "none" => rec'.st # "none"
        /\ cooldown' \in BOOLEAN /\ recoveries' \in Nat
        /\ recoveries' <= 1 /\ (recoveries' > 0 => cooldown')
    <2>1. CASE flow.recovering
      BY <1>4, <2>1 DEF NoteAndRegister
    <2>2. CASE ~flow.recovering
      BY <1>4, <2>2, RecordFields DEF NoteAndRegister, Inv, TypeOK
    <2> QED
      BY <1>4, <2>1, <2>2
  <1>6. TypeOK'
    BY <1>1, <1>2, <1>5 DEF Inv, TypeOK, server
  <1>7. Place
    BY <1>1, <1>3, <1>4, <1>5 DEF Place
  <1> QED
    BY <1>1, <1>5, <1>6, <1>7, MovesOn DEF server

\* A request with an attestation goes out.
LEMMA Presents ==
  ASSUME Inv, NEW k, Send(Redemption(flow.work, k), "posting"),
         \/ platform = "ios" /\ flow.pc = "assert" /\ k = flow.key
         \/ platform # "ios" /\ flow.pc = "token" /\ k = Integrity,
         UNCHANGED <<platform, store, enclave, server, answered, other, faults>>
  PROVE  Inv' /\ Safe
  <1>1. /\ flow \in Flow /\ flow.work \in Works
        /\ flow.pc = "assert" => flow.key \in Keys
        /\ k \in Keys \cup {Integrity}
    BY DEF Inv, TypeOK, FlowInv
  <1>2. /\ Redemption(flow.work, k) \in Requests
        /\ Redemption(flow.work, k).work = flow.work
        /\ Redemption(flow.work, k).key = k
    BY <1>1, RequestFields
  <1>3. flow' = [flow EXCEPT !.pc = "posting", !.req = Redemption(flow.work, k)]
    BY DEF Send
  <1>4. "posting" \in PCs
    BY DEF PCs
  <1>5. flow' \in Flow
    BY <1>1, <1>2, <1>3, <1>4, FlowMoves
  <1>6. /\ flow'.pc = "posting" /\ flow'.work = flow.work /\ flow'.key = flow.key
        /\ flow'.req = Redemption(flow.work, k)
    BY <1>1, <1>3 DEF Flow
  <1>7. TypeOK'
    BY <1>5 DEF Inv, TypeOK, store, server, other
  <1>8. PlatformInv'
    BY <1>1, <1>2, <1>6, NamesAssumption DEF Inv, PlatformInv, Registers, server, other
  <1>9. FlowInv'
    BY <1>1, <1>2, <1>6, NamesAssumption DEF Inv, FlowInv, Registers, other
  <1>10. KnowInv'
    BY <1>6, SameKnowledge DEF Inv, KnowInv, store, server, other
  <1>11. HadInv'
    BY <1>6 DEF HadInv
  <1>12. RecoverInv'
    BY <1>6 DEF Inv, RecoverInv, store, other
  <1>13. Safe
    BY <1>1, <1>2, <1>6, NamesAssumption DEF Safe, GoesTokenLess
  <1> QED
    BY <1>7, <1>8, <1>9, <1>10, <1>11, <1>12, <1>13 DEF Inv

LEMMA RecordKeyKeeps ==
  ASSUME Inv, RecordKey
  PROVE  Inv' /\ Safe
  <1>1. /\ flow.pc = "record" /\ platform = "ios" /\ flow \in Flow /\ flow.key \in Keys
        /\ rec' = [st |-> "registered", key |-> flow.key]
        /\ flow' = [flow EXCEPT !.pc = "assert", !.redone = TRUE] /\ forgot' = FALSE
        /\ UNCHANGED <<platform, unattested, cooldown, mark, enclave,
                       server, answered, late, limbo, recoveries>>
    BY DEF RecordKey, Inv, PlatformInv, FlowInv, TypeOK
  <1>2. flow' \in Flow
    BY <1>1, FlowMoves DEF PCs
  <1>3. /\ flow'.pc = "assert" /\ flow'.work = flow.work /\ flow'.key = flow.key
        /\ flow'.redone = TRUE
    BY <1>1 DEF Flow
  <1>4. faults' \in 0..MaxFaults /\ backoff' \in BOOLEAN
    BY FaultCounts DEF RecordKey, Inv, TypeOK
  <1>5. /\ rec' \in [st : {"registered", "stale"}, key : Keys]
        /\ rec'.st # "none"
    BY <1>1
  <1>6. TypeOK'
    BY <1>1, <1>2, <1>4, <1>5 DEF Inv, TypeOK, server
  <1>7. recoveries <= 1 /\ (recoveries > 0 => cooldown)
    BY DEF Inv, RecoverInv
  <1>8. Place
    BY <1>1, <1>3, <1>7 DEF Place
  <1> QED
    BY <1>1, <1>3, <1>5, <1>6, <1>8, MovesOn DEF server

LEMMA PresentAssertionKeeps ==
  ASSUME Inv, PresentAssertion
  PROVE  Inv' /\ Safe
  <1>1. /\ flow.pc = "assert" /\ platform = "ios" /\ flow \in Flow
        /\ UNCHANGED <<platform, store, enclave, server, answered, other, faults>>
    BY DEF PresentAssertion, Inv, PlatformInv, TypeOK
  <1>2. ASSUME flow' \in Flow PROVE TypeOK'
    BY <1>1, <1>2 DEF Inv, TypeOK, store, server, other
  <1>3. CASE Send(Redemption(flow.work, flow.key), "posting")
    BY <1>1, <1>3, Presents
  <1>4. CASE Defer
    <2>1. TypeOK'
      BY <1>2, <1>4, NoFlowFields DEF Defer
    <2> QED
      BY <1>1, <1>4, <2>1, Defers DEF store, server, other
  <1>5. CASE ~flow.redone /\ Go("renote")
    <2>1. flow' \in Flow
      BY <1>1, <1>5, FlowMoves DEF Go, PCs
    <2>2. /\ flow'.pc = "renote" /\ flow'.work = flow.work
          /\ flow'.recovering = flow.recovering
      BY <1>1, <1>5 DEF Go, Flow
    <2>3. ~flow.recovering /\ recoveries <= 1 /\ (recoveries > 0 => cooldown)
      BY <1>1, <1>5 DEF Inv, RecoverInv
    <2>4. Place
      BY <2>2, <2>3, <1>1 DEF Place, store, other
    <2> QED
      BY <1>1, <1>2, <2>1, <2>4, MovesOn DEF store, server, other
  <1> QED
    BY <1>3, <1>4, <1>5 DEF PresentAssertion

LEMMA NoteInvalidKeeps ==
  ASSUME Inv, NoteInvalid
  PROVE  Inv' /\ Safe
  <1>1. /\ flow.pc = "renote" /\ platform = "ios" /\ flow \in Flow
        /\ rec' = Pending
        /\ flow' = [flow EXCEPT !.pc = "key", !.had = TRUE, !.redone = TRUE]
        /\ UNCHANGED <<platform, unattested, backoff, cooldown, mark, enclave,
                       server, answered, other, faults>>
    BY DEF NoteInvalid, Inv, PlatformInv, TypeOK
  <1>2. flow' \in Flow
    BY <1>1, FlowMoves DEF PCs
  <1>3. /\ flow'.pc = "key" /\ flow'.work = flow.work /\ flow'.had = TRUE
        /\ flow'.recovering = flow.recovering
    BY <1>1 DEF Flow
  <1>4. TypeOK'
    BY <1>1, <1>2 DEF Inv, TypeOK, server, other
  <1>5. ~flow.recovering /\ recoveries <= 1 /\ (recoveries > 0 => cooldown)
    BY <1>1 DEF Inv, RecoverInv
  <1>6. Place
    BY <1>1, <1>3, <1>5 DEF Place, other
  <1> QED
    BY <1>1, <1>4, <1>6, RecordFields, MovesOn DEF server, other

LEMMA SettlesKeep ==
  ASSUME Inv, RetiredTwice \/ SettleRecord \/ SettleMark
  PROVE  Inv' /\ Safe
  <1>1. Defer /\ flow' \in Flow
    BY NoFlowFields DEF RetiredTwice, SettleRecord, SettleMark, Defer
  <1>2. CASE RetiredTwice
    <2>1. TypeOK'
      BY <1>1, <1>2 DEF RetiredTwice, Inv, TypeOK, server, other
    <2>2. platform = "ios" /\ flow.pc # "mark"
      BY <1>2 DEF RetiredTwice, Inv, PlatformInv
    <2> QED
      BY <1>1, <1>2, <2>1, <2>2, Defers DEF RetiredTwice, server, other
  <1>3. CASE SettleRecord
    <2>1. flow.pc = "stale" => flow.key \in Keys
      BY DEF Inv, FlowInv
    <2>2. /\ rec' \in {NoRecord, Pending} \cup [st : {"registered", "stale"}, key : Keys]
          /\ flow.pc = "stale" => rec'.st # "none"
          /\ flow.pc # "stale" => flow.pc = "clear"
      BY <1>3, <2>1 DEF SettleRecord
    <2>3. forgot' \in BOOLEAN /\ (flow.pc = "clear" => forgot') /\ (forgot => forgot')
      BY <1>3 DEF SettleRecord, Inv, TypeOK
    <2>4. TypeOK'
      BY <1>1, <1>3, <2>2, <2>3 DEF SettleRecord, Inv, TypeOK, server
    <2>5. platform = "ios"
      BY <1>3 DEF SettleRecord, Inv, PlatformInv
    <2> QED
      BY <1>1, <1>3, <2>2, <2>3, <2>4, <2>5, Defers DEF SettleRecord, server
  <1>4. CASE SettleMark
    <2>1. TypeOK'
      BY <1>1, <1>4 DEF SettleMark, Inv, TypeOK, server
    <2>2. platform # "ios"
      BY <1>4 DEF SettleMark, Inv, PlatformInv
    <2> QED
      BY <1>1, <1>4, <2>1, <2>2, Defers DEF SettleMark, server
  <1> QED
    BY <1>2, <1>3, <1>4

LEMMA IntegrityTokenKeeps ==
  ASSUME Inv, IntegrityToken
  PROVE  Inv' /\ Safe
  <1>1. /\ flow.pc = "token" /\ platform # "ios" /\ flow \in Flow /\ flow.work \in Works
        /\ UNCHANGED <<platform, store, enclave, server, answered, other>>
    BY DEF IntegrityToken, Inv, PlatformInv, FlowInv, TypeOK
  <1>2. CASE Send(Redemption(flow.work, Integrity), "posting") /\ UNCHANGED faults
    BY <1>1, <1>2, Presents
  <1>3. CASE mark /\ Defer /\ Fault
    <2>1. TypeOK'
      BY <1>1, <1>3, NoFlowFields, FaultCounts DEF Defer, Inv, TypeOK, store, server, other
    <2> QED
      BY <1>1, <1>3, <2>1, Defers DEF store, server, other
  <1>4. CASE ~mark /\ SendTokenLess /\ Fault
    <2>1. "posting" \in PCs /\ Redemption(flow.work, NoKey) \in Requests
      BY <1>1, RequestFields DEF PCs
    <2>2. flow' \in Flow
      BY <1>1, <1>4, <2>1, FlowMoves DEF SendTokenLess, Send
    <2>3. TypeOK'
      BY <1>1, <1>4, <2>2, FaultCounts DEF Inv, TypeOK, store, server, other
    <2>4. ~HasShown \/ forgot
      BY <1>1, <1>4 DEF Inv, KnowInv
    <2> QED
      BY <1>1, <1>4, <2>3, <2>4, SendsTokenLess DEF store, server, other
  <1> QED
    BY <1>2, <1>3, <1>4 DEF IntegrityToken

-----------------------------------------------------------------------------
(* The request of a flow is answered, or given up on. *)

\* What a step does with the request that the flow waits for.  What it makes
\* the server hold is covered by what the device has written down before.
Ends ==
    /\ UNCHANGED <<platform, store, recoveries>>
    /\ HasShown' => HasShown \/ flow.pc = "registering" \/ flow'.pc = "mark"
    /\ \/ late' = late
       \/ late' = late \cup {flow.req} /\ (flow' = NoFlow \/ flow'.pc = "mark")
    /\ late' # late /\ flow.req.key = Integrity => flow'.pc = "mark" \/ forgot'
    /\ flow'.pc \in {"key", "forget"} => UNCHANGED <<skey, shown, late>>
    /\ forgot => forgot'
    /\ platform # "ios" => skey' = NoKey

\* Where a flow goes from there (AfterFacts).
Goes ==
    \/ flow' = NoFlow
    \/ /\ flow'.work = flow.work /\ flow'.key = flow.key
       /\ flow'.had = flow.had /\ flow'.recovering = flow.recovering
       /\ \/ /\ flow.pc = "registering"
             /\ \/ flow'.pc \in {"record", "backoff"}
                \/ flow'.pc = "key" /\ flow'.again
                \/ flow'.pc = IF flow.had THEN "refused" ELSE "forget"
          \/ /\ flow.pc = "posting" /\ flow'.pc \in {"stale", "clear"}
             /\ platform = "ios" /\ flow.key \in Keys
          \/ /\ flow.pc = "posting" /\ flow'.pc = "mark" /\ platform # "ios"

LEMMA EndsKeep ==
  ASSUME Inv, TypeOK', flow.pc \in Waiting, Ends, Goes
  PROVE  Inv' /\ Safe
  <1>1. /\ flow.work \in Works /\ NoWork \notin Works /\ flow \in Flow
        /\ flow.pc = "posting" => flow.req.work = flow.work
        /\ flow.pc = "registering" => /\ flow.req.key \in Keys /\ flow.key \in Keys
                                      /\ platform = "ios" /\ (rec.st # "none" \/ forgot)
        /\ platform # "ios" => flow.pc = "posting" /\ flow.req.key \notin Keys
        /\ platform = "ios" => flow.req.key # Integrity
    <2>1. /\ flow.work \in Works /\ NoWork \notin Works /\ flow \in Flow
          /\ flow.pc = "posting" => flow.req.work = flow.work
      BY NamesAssumption DEF Waiting, Inv, TypeOK, FlowInv, Works
    <2>2. flow.pc = "registering" => /\ flow.req.key \in Keys /\ flow.key \in Keys
                                     /\ platform = "ios" /\ (rec.st # "none" \/ forgot)
      BY DEF Inv, FlowInv, HadInv, PlatformInv, Registration
    <2>3. /\ platform # "ios" => flow.pc = "posting" /\ flow.req.key \notin Keys
          /\ platform = "ios" => flow.req.key # Integrity
      BY <2>2, NamesAssumption DEF Waiting, Inv, PlatformInv
    <2> QED
      BY <2>1, <2>2, <2>3
  <1>2. /\ flow' # NoFlow => flow'.pc \in {"record", "backoff", "key", "refused", "forget",
                                           "stale", "clear", "mark"}
        /\ flow' = NoFlow => /\ flow'.pc = "idle"
                             /\ ~flow'.recovering /\ ~flow'.again
    BY NoFlowFields DEF Goes
  <1>3. \A r \in late' : r \in late \/ r = flow.req
    BY DEF Ends
  <1>4. Registers(flow.req) => flow.pc = "registering"
    BY <1>1 DEF Registers, Waiting
  <1>5. PlatformInv'
    <2>1. CASE platform = "ios"
      <3>1. \A r \in late' : r.key # Integrity
        BY <1>1, <1>3, <2>1 DEF Inv, PlatformInv
      <3>2. flow'.pc \notin {"token", "mark", "posting"}
        BY <1>1, <1>2, <2>1 DEF Goes
      <3> QED
        BY <2>1, <3>1, <3>2 DEF PlatformInv, Ends
    <2>2. CASE platform # "ios"
      <3>1. \A r \in late' : ~Registers(r) /\ r.key \notin Keys
        BY <1>1, <1>3, <1>4, <2>2 DEF Inv, PlatformInv
      <3>2. flow'.pc \in {"idle", "mark"} /\ flow.pc = "posting"
        BY <1>1, <1>2, <2>2 DEF Goes
      <3> QED
        BY <2>2, <3>1, <3>2 DEF PlatformInv, Ends, Registers
    <2> QED
      BY <2>1, <2>2
  <1>6. FlowInv'
    <2>1. \A r \in late' : Registers(r) => r.key \in Keys
      BY <1>1, <1>3, <1>4 DEF Inv, FlowInv
    <2>2. flow' # NoFlow => flow'.work \in Works
      BY <1>1 DEF Goes
    <2>3. flow'.pc \in {"record", "stale"} => flow'.key \in Keys
      BY <1>1, <1>2 DEF Goes
    <2> QED
      BY <1>2, <2>1, <2>2, <2>3 DEF FlowInv, Registers
  <1>7. KnowInv'
    <2>1. CASE platform = "ios"
      <3>1. flow'.pc # "mark"
        BY <1>1, <1>2, <2>1 DEF Goes
      <3>2. MayHold' => MayHold \/ flow.pc = "registering"
        BY <1>3, <1>4, <3>1 DEF Ends, MayHold, Registers
      <3> QED
        BY <1>1, <2>1, <3>2 DEF Inv, KnowInv, Ends, store
    <2>2. CASE platform # "ios"
      <3>1. flow.pc = "posting"
        BY <1>1, <2>2
      <3>2. (\E r \in late' : r.key = Integrity)
              => (\E r \in late : r.key = Integrity) \/ flow'.pc = "mark" \/ forgot'
        BY <1>3 DEF Ends
      <3> QED
        BY <2>2, <3>1, <3>2 DEF Inv, KnowInv, Ends, store
    <2> QED
      BY <2>1, <2>2
  <1>8. HadInv'
    <2>1. flow'.pc \in {"key", "forget", "refused"} /\ ~flow'.had => ~MayHold' \/ forgot'
      <3>1. CASE flow'.pc \in {"key", "forget", "refused"} /\ ~flow'.had
        <4>1. /\ flow.pc = "registering" /\ ~flow.had
              /\ flow'.pc \in {"key", "forget"}
          BY <1>2, <3>1 DEF Goes, Waiting
        <4>2. ~MayHold \/ forgot
          BY <4>1 DEF Inv, HadInv
        <4> QED
          BY <4>1, <4>2, SameKnowledge DEF Ends
      <3> QED
        BY <3>1
    <2>2. /\ flow'.pc = "forget" => ~flow'.had
          /\ flow'.pc \in {"record", "key"} => rec'.st # "none" \/ forgot'
      BY <1>1, <1>2 DEF Goes, Ends, store
    <2> QED
      BY <1>2, <2>1, <2>2 DEF HadInv
  <1>9. RecoverInv'
    <2>1. flow'.pc = "key" => flow'.again
      BY <1>2 DEF Goes
    <2> QED
      BY <1>2, <2>1 DEF Inv, RecoverInv, Ends, store
  <1>10. Safe
    BY <1>2 DEF Safe, GoesTokenLess
  <1> QED
    BY <1>5, <1>6, <1>7, <1>8, <1>9, <1>10 DEF Inv

\* The server applies the request of the flow.
LEMMA OwnApplied ==
  ASSUME Inv, flow.pc \in Waiting, NEW a \in Answers, Apply(flow.req, a)
  PROVE  /\ skey' \in Keys \cup {NoKey} /\ retired' \in SUBSET Keys
         /\ shown' \in BOOLEAN /\ token' \in [Works -> Grades \cup {"none"}]
         /\ platform # "ios" => skey' = NoKey
         /\ HasShown' => \/ HasShown \/ flow.pc = "registering"
                         \/ /\ platform # "ios" /\ flow.pc = "posting"
                            /\ flow.req.key = Integrity /\ a.grade = "attested"
         /\ flow.pc = "registering" => /\ a.grade # "refused"
                                       /\ a.grade = "previously_retired" => UNCHANGED server
  <1>1. /\ flow.req \in Requests /\ TypeOK /\ flow.work \in Works /\ NoWork \notin Works
        /\ flow.pc = "posting" => flow.req.work = flow.work
        /\ flow.pc = "registering" => /\ flow.req.key \in Keys /\ flow.req.work = NoWork
                                      /\ platform = "ios"
    BY NamesAssumption
       DEF Inv, TypeOK, Flow, FlowInv, PlatformInv, Waiting, Registration, Works
  <1>2. /\ Registers(flow.req) => flow.req.key \in Keys
        /\ platform = "ios" => flow.req.key # Integrity
        /\ platform # "ios" => ~Registers(flow.req) /\ flow.req.key \notin Keys /\ skey = NoKey
    BY <1>1, NamesAssumption DEF Inv, PlatformInv, Waiting, Registers
  <1>3. Registers(flow.req) <=> flow.pc = "registering"
    BY <1>1 DEF Registers, Waiting
  <1> QED
    BY <1>1, <1>2, <1>3, AppliedFacts DEF Waiting

LEMMA AnsweredKeeps ==
  ASSUME Inv, Answered
  PROVE  Inv' /\ Safe
  <1>1. PICK a \in Answers : Apply(flow.req, a) /\ After(a)
    BY DEF Answered
  <1>2. /\ flow.pc \in Waiting
        /\ answered' = answered \cup (IF flow.pc = "posting" THEN {flow.work} ELSE {})
        /\ UNCHANGED <<platform, store, enclave, other, faults>>
    BY DEF Answered
  <1>3. flow.work \in Works
    BY <1>2 DEF Inv, FlowInv, Waiting
  <1>4. flow' \in Flow /\ Goes
    BY <1>1, <1>2, AfterFacts DEF Inv, Goes
  <1>5. TypeOK'
    BY <1>1, <1>2, <1>3, <1>4, OwnApplied DEF Inv, TypeOK, store, other
  <1>6. Ends
    <2>1. HasShown' => HasShown \/ flow.pc = "registering" \/ flow'.pc = "mark"
      BY <1>1, <1>2, OwnApplied, AfterFacts DEF Inv
    <2>2. flow'.pc \in {"key", "forget"} => UNCHANGED <<skey, shown>>
      BY <1>1, <1>2, OwnApplied, AfterFacts, NoFlowFields DEF Inv, server
    <2>3. platform # "ios" => skey' = NoKey
      BY <1>1, <1>2, OwnApplied
    <2> QED
      BY <1>2, <2>1, <2>2, <2>3 DEF Ends, other
  <1> QED
    BY <1>2, <1>4, <1>5, <1>6, EndsKeep

LEMMA UnknownAnswer ==
  ASSUME Inv, flow.pc \in Waiting, After(Unknown)
  PROVE  /\ flow' \in Flow /\ Goes
         /\ flow' = NoFlow \/ flow'.pc \in {"mark", "stale", "clear"}
         /\ flow.req.key = Integrity => flow'.pc = "mark"
  <1>1. Unknown \in Answers /\ Unknown.grade = "unknown" /\ Unknown.rekey = FALSE
    BY DEF Unknown, Answers
  <1>2. flow.req.key = Integrity => platform # "ios" /\ flow.pc = "posting"
    BY NamesAssumption
       DEF Inv, PlatformInv, FlowInv, Waiting, Registration
  <1> QED
    BY <1>1, <1>2, AfterFacts DEF Inv, Goes

LEMMA AnswerLostKeeps ==
  ASSUME Inv, AnswerLost
  PROVE  Inv' /\ Safe
  <1>1. PICK a \in Answers : Apply(flow.req, a)
    BY DEF AnswerLost
  <1>2. /\ flow.pc \in Waiting /\ After(Unknown) /\ Fault
        /\ UNCHANGED <<platform, store, enclave, answered, other>>
    BY DEF AnswerLost
  <1>3. TypeOK'
    BY <1>1, <1>2, OwnApplied, UnknownAnswer, FaultCounts DEF Inv, TypeOK, store, other
  <1>4. Ends
    <2>1. HasShown' => HasShown \/ flow.pc = "registering" \/ flow'.pc = "mark"
      BY <1>1, <1>2, OwnApplied, UnknownAnswer
    <2>2. flow'.pc \notin {"key", "forget"}
      BY <1>2, UnknownAnswer, NoFlowFields
    <2>3. platform # "ios" => skey' = NoKey
      BY <1>1, <1>2, OwnApplied
    <2> QED
      BY <1>2, <2>1, <2>2, <2>3 DEF Ends, other
  <1> QED
    BY <1>2, <1>3, <1>4, UnknownAnswer, EndsKeep

LEMMA RefusedAnswerKeeps ==
  ASSUME Inv, RefusedAnswer
  PROVE  Inv' /\ Safe
  <1>1. PICK a \in {Refused, Retired} : After(a)
    BY DEF RefusedAnswer
  <1>2. /\ flow.pc \in Waiting /\ Fault
        /\ UNCHANGED <<platform, store, enclave, server, answered, other>>
    BY DEF RefusedAnswer
  <1>3. a \in Answers
    <2>1. Refused \in Answers
      BY DEF Refused, Answers
    <2>2. Retired \in Answers
      BY DEF Retired, Answers
    <2> QED
      BY <1>1, <2>1, <2>2
  <1>4. flow' \in Flow /\ Goes
    BY <1>1, <1>2, <1>3, AfterFacts DEF Inv, Goes
  <1>5. TypeOK'
    BY <1>2, <1>4, FaultCounts DEF Inv, TypeOK, store, server, other
  <1>6. Ends
    BY <1>2 DEF Ends, HasShown, server, other, Inv, PlatformInv
  <1> QED
    BY <1>2, <1>4, <1>5, <1>6, EndsKeep

LEMMA TimedOutKeeps ==
  ASSUME Inv, TimedOut
  PROVE  Inv' /\ Safe
  <1>1. /\ flow.pc \in Waiting /\ After(Unknown) /\ Fault
        /\ late' = late \cup {flow.req}
        /\ UNCHANGED <<platform, store, enclave, server, answered, limbo, recoveries, forgot>>
    BY DEF TimedOut
  <1>2. flow.req \in Requests
    BY DEF Inv, TypeOK, Flow
  <1>3. TypeOK'
    BY <1>1, <1>2, UnknownAnswer, FaultCounts DEF Inv, TypeOK, store, server
  <1>4. flow' = NoFlow \/ flow'.pc = "mark"
    <2>1. CASE flow.pc = "registering"
      BY <1>1, <2>1 DEF After, AfterRegistration, Unknown, Defer
    <2>2. CASE flow.pc = "posting"
      <3>1. flow' = NoFlow \/ Go("mark")
        BY <1>1, <2>2 DEF After, AfterRedemption, Unknown, Defer
      <3> QED
        BY <3>1 DEF Go, Inv, TypeOK, Flow
    <2> QED
      BY <1>1, <2>1, <2>2 DEF Waiting
  <1>5. Ends
    <2>1. flow.req.key = Integrity => flow'.pc = "mark"
      BY <1>1, UnknownAnswer
    <2>2. flow'.pc \notin {"key", "forget"}
      BY <1>4, NoFlowFields
    <2> QED
      BY <1>1, <1>4, <2>1, <2>2 DEF Ends, HasShown, server, Inv, PlatformInv
  <1> QED
    BY <1>1, <1>3, <1>5, UnknownAnswer, EndsKeep

LEMMA StopKeeps ==
  ASSUME Inv, Stop
  PROVE  Inv' /\ Safe
  <1>1. /\ flow.pc # "idle" /\ Fault /\ flow' = NoFlow
        /\ forgot' = (forgot \/ flow.pc = "mark"
                      \/ (flow.pc = "posting" /\ flow.req.key = Integrity))
        /\ late' = IF flow.pc \in Waiting THEN late \cup {flow.req} ELSE late
        /\ UNCHANGED <<platform, store, enclave, server, recoveries>>
    BY DEF Stop, Defer
  <1>2. /\ limbo' \in SUBSET Writes
        /\ answered' \in SUBSET Works
    <2>1. flow.pc \in {"record", "stale"} => flow.key \in Keys
      BY DEF Inv, FlowInv
    <2>2. ASSUME flow.pc \in {"record", "stale"} PROVE Begun \subseteq Writes
      <3>1. Begun = {Write(flow.pc, flow.key)}
        BY <2>2 DEF Begun
      <3>2. Write(flow.pc, flow.key) \in Writes
        BY <2>1, <2>2 DEF Write, Writes
      <3> QED
        BY <3>1, <3>2
    <2>3. ASSUME flow.pc \notin {"record", "stale"} PROVE Begun \subseteq Writes
      <3>1. \A op \in {"pending", "cooldown", "forget", "backoff", "clear", "mark"} :
               Write(op, NoKey) \in Writes
        BY DEF Write, Writes
      <3>2. \/ Begun = {}
            \/ \E op \in {"pending", "cooldown", "forget", "backoff", "clear", "mark"} :
                  Begun = {Write(op, NoKey)}
        BY <2>3 DEF Begun
      <3> QED
        BY <3>1, <3>2
    <2>4. Begun \subseteq Writes
      BY <2>2, <2>3
    <2> QED
      BY <2>4 DEF Stop, Inv, TypeOK
  <1>3. flow.req \in Requests /\ NoFlow \in Flow
    BY NoFlowFields DEF Inv, TypeOK, Flow
  <1>4. late' \in SUBSET Requests
    BY <1>1, <1>3 DEF Inv, TypeOK
  <1>5. TypeOK'
    BY <1>1, <1>2, <1>3, <1>4, FaultCounts DEF Inv, TypeOK, store, server
  <1>6. CASE flow.pc \in Waiting
    <2>1. flow.req.key = Integrity => forgot'
      <3>1. flow.pc = "registering" => flow.req.key \in Keys
        BY DEF Inv, FlowInv, Registration
      <3>2. flow.req.key = Integrity => flow.pc = "posting"
        BY <1>6, <3>1, NamesAssumption DEF Waiting
      <3> QED
        BY <1>1, <3>2
    <2>2. Ends
      BY <1>1, <1>6, <2>1, NoFlowFields DEF Ends, HasShown, server, Inv, PlatformInv
    <2>3. Goes
      BY <1>1 DEF Goes
    <2> QED
      BY <1>5, <1>6, <2>2, <2>3, EndsKeep
  <1>7. CASE flow.pc \notin Waiting
    <2>1. Defer /\ UNCHANGED <<platform, skey, shown, late, recoveries, cooldown, rec, mark>>
      BY <1>1, <1>7 DEF Defer, store, server
    <2>2. (forgot \/ flow.pc = "mark") => forgot'
      BY <1>1
    <2> QED
      BY <1>5, <2>1, <2>2, Defers
  <1> QED
    BY <1>6, <1>7

-----------------------------------------------------------------------------
(* The theorems. *)

LEMMA InitInv == Init => Inv
  <1> SUFFICES ASSUME Init PROVE Inv
    OBVIOUS
  <1>1. /\ NoFlow \in Flow /\ flow.pc = "idle" /\ ~flow.recovering /\ ~flow.again
    BY NoFlowFields DEF Init
  <1>2. TypeOK
    <2>1. faults \in 0..MaxFaults /\ recoveries \in Nat
      BY FaultsAssumption DEF Init
    <2>2. /\ platform \in Platforms /\ rec = NoRecord
          /\ unattested \in Keys \cup {NoKey} /\ skey \in Keys \cup {NoKey}
          /\ backoff \in BOOLEAN /\ cooldown \in BOOLEAN /\ mark \in BOOLEAN
          /\ retired \in SUBSET Keys /\ shown \in BOOLEAN /\ answered \in SUBSET Works
          /\ late \in SUBSET Requests /\ limbo \in SUBSET Writes
          /\ forgot \in BOOLEAN /\ flow \in Flow
      BY <1>1 DEF Init
    <2>3. /\ enclave \in [Keys -> {"none", "made", "attested"}]
          /\ token \in [Works -> Grades \cup {"none"}]
      BY DEF Init
    <2> QED
      BY <2>1, <2>2, <2>3 DEF TypeOK
  <1>3. PlatformInv /\ FlowInv
    BY <1>1 DEF Init, PlatformInv, FlowInv
  <1>4. ~HasShown /\ ~MayHold
    BY DEF Init, HasShown, MayHold
  <1>5. KnowInv /\ HadInv
    BY <1>1, <1>4 DEF Init, KnowInv, HadInv
  <1>6. RecoverInv
    BY <1>1 DEF Init, RecoverInv
  <1> QED
    BY <1>2, <1>3, <1>5, <1>6 DEF Inv

LEMMA NextKeeps ==
  ASSUME Inv, [Next]_vars
  PROVE  Inv' /\ Safe
  <1>1. CASE \E w \in Works : Start(w)
    BY <1>1, StartKeeps
  <1>2. CASE \/ BackoffEnds \/ CooldownEnds \/ Reinstall \/ ServerForgets
             \/ \E w \in Works : Renew(w)
    BY <1>2, SurroundingsKeep
  <1>3. CASE FlowStep
    BY <1>3, ReadKeyKeeps, MakeKeyKeeps, AttestNativeKeeps, NoteAndRegisterKeeps,
       ForgetKeyKeeps, RefusedKeyKeeps, SettlesKeep, RecordKeyKeeps, PresentAssertionKeeps,
       NoteInvalidKeeps, IntegrityTokenKeeps, AnsweredKeeps
    DEF FlowStep
  <1>4. CASE \/ Unattestable \/ AnswerLost \/ RefusedAnswer \/ TimedOut \/ Stop
             \/ ArrivesLate \/ LandsLate
    BY <1>4, UnattestableKeeps, AnswerLostKeeps, RefusedAnswerKeeps, TimedOutKeeps,
       StopKeeps, ArrivesLateKeeps, LandsLateKeeps
  <1>5. CASE UNCHANGED vars
    <2>1. TypeOK' /\ UNCHANGED <<platform, flow, skey, shown, late, rec, mark, forgot,
                                 recoveries, cooldown>>
      BY <1>5 DEF vars, store, server, other, Inv, TypeOK
    <2>2. HasShown' => HasShown
      BY <2>1, SameKnowledge
    <2>3. platform # "ios" => skey' = NoKey
      BY <2>1 DEF Inv, PlatformInv
    <2> QED
      BY <2>1, <2>2, <2>3, FlowStays
  <1> QED
    BY <1>1, <1>2, <1>3, <1>4, <1>5 DEF Next

\* The invariant holds in every reachable state.
THEOREM InvHolds == Spec => []Inv
  <1>1. Inv /\ [Next]_vars => Inv'
    BY NextKeeps
  <1> QED
    BY InitInv, <1>1, PTL DEF Spec

\* Every variable keeps its type: the record the device keeps is one of the
\* four of state-store.ts, and a key where it names one.
THEOREM KeysAreTyped == Spec => []TypeOK
  <1>1. Inv => TypeOK
    BY DEF Inv
  <1> QED
    BY InvHolds, <1>1, PTL

\* Whatever faults, late answers and late writes there are, one cooldown sees
\* one flow register a key in place of a stale one (redeemer.ts, rule 6).
THEOREM RecoveriesDoNotLoop == Spec => []OneRecoveryPerCooldown
  <1>1. Inv => OneRecoveryPerCooldown
    BY DEF Inv, RecoverInv, OneRecoveryPerCooldown
  <1> QED
    BY InvHolds, <1>1, PTL

\* A device that lost nothing of what it knew (`forgot`: the mark of an Android
\* flow cut short, the clear after a repeated redemption, a clear that lands late
\* on a later flow's record) sends no request without an attestation once the
\* server has seen it attest or holds a key of it (redeemer.ts, rule 2), however
\* late its registration or any other of its writes arrived.
THEOREM AttestedDevicesAttest == Spec => NeverTokenLess
  <1>1. Inv /\ [Next]_vars
          => [(/\ flow'.pc = "posting" /\ flow.pc # "posting"
               /\ flow'.req.key = NoKey) => ~HasShown \/ forgot]_vars
    BY NextKeeps DEF Safe, GoesTokenLess
  <1> QED
    BY InvHolds, <1>1, PTL DEF Spec, NeverTokenLess
=============================================================================
