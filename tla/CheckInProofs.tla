--------------------------- MODULE CheckInProofs ---------------------------
(***************************************************************************)
(* For every set of users, flows, courses and challenges and every cap: a  *)
(* challenge is spent once, no device has more open prefetched challenges  *)
(* than the cap, no play of a deleted account is left after its wipe (but  *)
(* one whose insert was under way), and the challenge of a record covers   *)
(* its fix (or is the live one of a scan).                                 *)
(***************************************************************************)
EXTENDS CheckIn, FiniteSetTheorems, TLAPS

-----------------------------------------------------------------------------
(* Type correctness.                                                       *)

\* TopUp counts the records of the marker store, so there are finitely many; a
\* record is written for the owner of a flow, who is a user once it has begun, or
\* of a row, who is one when it is inserted; and so is the one whose stores are
\* wiped.
TypeInv == /\ TypeOK
           /\ IsFiniteSet(markers)
           /\ \A f \in Flows : flow[f].pc # "idle" => flow[f].owner \in Users
           /\ \A f \in Flows : flow[f].pc = "store" => flow[f].row \in Users
           /\ wipe # "idle" => doomed \in Users

USE DEF PCs, server, records, deletion

LEMMA InitType == Init => TypeInv
  BY FS_EmptySet, NobodyAssumption, KindsAssumption
  DEF Init, TypeInv, TypeOK, Challenge, Flow, Fill, NoFill

\* What is left to show where the flows do not change.
LEMMA ShortfallType ==
    ASSUME TypeInv, NEW u \in Users,
           Cardinality(Usable(u)) + Cardinality(HeldByMarkers(u)) < Cap
    PROVE  Cap - Cardinality(Usable(u)) - Cardinality(HeldByMarkers(u)) \in 1..Cap
  <1>1. IsFiniteSet(Usable(u)) /\ IsFiniteSet(HeldByMarkers(u))
    BY FS_Subset, ChalsAssumption DEF TypeInv, Usable, HeldByMarkers
  <1>2. Cardinality(Usable(u)) \in Nat /\ Cardinality(HeldByMarkers(u)) \in Nat
    BY <1>1, FS_CardinalityType
  <1> QED
    BY <1>2, LimitsAssumption

LEMMA FillStepType ==
    ASSUME TypeInv, NEW u \in Users,
           \/ AskChallenges(u) \/ AnswerChallenges(u)
           \/ LoseChallenges(u) \/ StoreChallenges(u)
    PROVE  TypeInv'
  <1> USE DEF TypeInv, TypeOK, Fill, NoFill
  <1>1. CASE AskChallenges(u)
    BY <1>1 DEF AskChallenges
  <1>2. CASE AnswerChallenges(u)
    <2>1. PICK S \in SUBSET Chals :
              /\ chal' = Issued(S, u, "open", TRUE)
              /\ fill' = [fill EXCEPT ![u].at = "answered", ![u].got = S]
      BY <1>2 DEF AnswerChallenges, IssuePrefetched, Pick, Fresh
    <2>2. chal' \in [Chals -> Challenge]
      BY <2>1 DEF Issued, Challenge
    <2>3. fill[u] \in Fill /\ fill[u].at = "asked"
      BY <1>2 DEF AnswerChallenges, IssuePrefetched
    <2>4. fill[u] \in [at : {"token", "asked", "answered"}, want : 1..Cap,
                       got : SUBSET Chals]
      BY <2>3
    <2>6. [fill[u] EXCEPT !.at = "answered", !.got = S] \in Fill
      BY <2>4
    <2>5. fill' \in [Users -> Fill]
      BY <2>1, <2>6
    <2> QED
      BY <1>2, <2>2, <2>5 DEF AnswerChallenges
  <1>3. CASE LoseChallenges(u)
    BY <1>3 DEF LoseChallenges
  <1>4. CASE StoreChallenges(u)
    BY <1>4 DEF StoreChallenges
  <1> QED
    BY <1>1, <1>2, <1>3, <1>4

\* A flow that only moves on, or gives up, keeps its type.
LEMMA GotoType ==
    ASSUME TypeInv, NEW f \in Flows, flow[f].pc # "idle",
           GiveUp(f) \/ \E p \in PCs \ {"store"} : Goto(f, p)
    PROVE  /\ flow' \in [Flows -> Flow]
           /\ \A g \in Flows : flow'[g].pc # "idle" => flow'[g].owner \in Users
           /\ \A g \in Flows : flow'[g].pc = "store" => flow'[g].row \in Users
  <1>1. CASE GiveUp(f)
    <2>1. flow' = [flow EXCEPT ![f] = [flow[f] EXCEPT !.pc = "over", !.live = NoChal,
                                           !.covered = {}, !.ch = NoChal, !.row = Nobody]]
      BY <1>1 DEF GiveUp
    <2>2. [flow[f] EXCEPT !.pc = "over", !.live = NoChal, !.covered = {}, !.ch = NoChal,
                          !.row = Nobody] \in Flow
      <3>1. flow[f] \in Flow /\ "over" \in PCs
        BY DEF TypeInv, TypeOK
      <3>2. /\ NoChal \in Chals \cup {NoChal} /\ Nobody \in Users \cup {Nobody}
            /\ {} \in SUBSET Chals
        OBVIOUS
      <3> HIDE DEF PCs
      <3> QED
        BY <3>1, <3>2, ZenonT(60) DEF Flow
    <2> QED
      BY <2>1, <2>2 DEF TypeInv, TypeOK, Flow
  <1>2. ASSUME NEW p \in PCs \ {"store"}, Goto(f, p)
        PROVE  /\ flow' \in [Flows -> Flow]
               /\ \A g \in Flows : flow'[g].pc # "idle" => flow'[g].owner \in Users
               /\ \A g \in Flows : flow'[g].pc = "store" => flow'[g].row \in Users
    BY <1>2 DEF TypeInv, TypeOK, Flow, Goto
  <1> QED
    BY <1>1, <1>2

LEMMA FlowStepType ==
    ASSUME TypeInv, NEW f \in Flows,
           \/ Tap(f) \/ AcquireLive(f) \/ Fix(f) \/ BeginEnqueue(f)
           \/ RecheckReserve(f) \/ Consume(f) \/ Enqueue(f) \/ InsertItem(f)
           \/ InsertMarker(f) \/ PostScan(f)
    PROVE  TypeInv'
  <1> DEFINE FlowOK ==
               /\ flow \in [Flows -> Flow]
               /\ \A g \in Flows : flow[g].pc # "idle" => flow[g].owner \in Users
               /\ \A g \in Flows : flow[g].pc = "store" => flow[g].row \in Users
  <1> USE DEF TypeInv, TypeOK
  <1>1. CASE Tap(f)
    BY <1>1 DEF Tap, Flow
  <1>2. CASE AcquireLive(f)
    <2>1. ASSUME NEW p \in PCs \ {"store"}, NEW q \in PCs \ {"store"}, TryLive(f, p, q)
          PROVE  FlowOK' /\ chal' \in [Chals -> Challenge]
      <3>1. flow[f].pc # "idle" /\ flow[f].owner \in Users
        BY <1>2 DEF AcquireLive
      <3>2. ASSUME NEW c \in Fresh, NEW st \in {"open", "used"}
            PROVE  Issued({c}, flow[f].owner, st, FALSE) \in [Chals -> Challenge]
        BY <3>1 DEF Issued, Challenge
      <3>3. ASSUME NEW c \in Fresh,
                   flow' = [flow EXCEPT ![f].live = c, ![f].pc = p]
            PROVE  FlowOK'
        <4>1. flow' = [flow EXCEPT ![f] = [flow[f] EXCEPT !.live = c, !.pc = p]]
          BY <3>3
        <4>2. [flow[f] EXCEPT !.live = c, !.pc = p] \in Flow
          BY ZenonT(60) DEF Flow, Fresh
        <4> QED
          BY <3>1, <4>1, <4>2 DEF Flow
      <3> QED
        BY <2>1, <3>1, <3>2, <3>3, GotoType DEF TryLive
    <2> QED
      BY <1>2, <2>1 DEF AcquireLive
  <1>3. CASE Fix(f)
    <2>1. /\ flow[f].pc # "idle" /\ flow[f].owner \in Users
          /\ UNCHANGED <<user, server, pool, records, deletion, fill>>
      BY <1>3 DEF Fix
    <2>2. CASE GiveUp(f)
      BY <2>1, <2>2, GotoType
    <2>3. CASE ~GiveUp(f)
      <3> DEFINE p == CASE flow[f].kind = "play" -> "enqueue"
                        [] flow[f].kind = "marker" -> "reserve"
                        [] flow[f].kind = "scan" -> "live"
      <3>1. p \in PCs \ {"store"}
        BY DEF Flow
      <3>2. PICK S \in SUBSET Chals :
                flow' = [flow EXCEPT ![f].covered = S, ![f].pc = p]
        BY <1>3, <2>3 DEF Fix, Received
      <3> HIDE DEF p
      <3>3. flow' = [flow EXCEPT ![f] = [flow[f] EXCEPT !.covered = S, !.pc = p]]
        BY <3>2
      <3>4. [flow[f] EXCEPT !.covered = S, !.pc = p] \in Flow
        BY <3>1, ZenonT(60) DEF Flow
      <3>5. flow'[f].pc = p /\ flow'[f].owner = flow[f].owner
        BY <3>3 DEF Flow
      <3>6. FlowOK'
        BY <2>1, <3>1, <3>3, <3>4, <3>5
      <3> QED
        BY <2>1, <3>6
    <2> QED
      BY <2>2, <2>3
  <1>4. CASE BeginEnqueue(f)
    <2>1. flow[f].pc # "idle" /\ UNCHANGED <<user, server, pool, records, deletion, fill>>
      BY <1>4 DEF BeginEnqueue
    <2>2. CASE flow' = [flow EXCEPT ![f].ch = flow[f].live, ![f].pc = "insert"]
      <3>1. [flow[f] EXCEPT !.ch = flow[f].live, !.pc = "insert"] \in Flow
        BY DEF Flow
      <3> QED
        BY <2>1, <2>2, <3>1 DEF Flow
    <2> QED
      BY <1>4, <2>1, <2>2, GotoType DEF BeginEnqueue
  <1>5. CASE RecheckReserve(f)
    BY <1>5, GotoType DEF RecheckReserve
  <1>6. CASE Consume(f)
    <2>1. flow[f].pc # "idle" /\ UNCHANGED <<user, server, records, deletion, fill>>
      BY <1>6 DEF Consume
    <2>2. CASE \E c \in Chals :
                   /\ Take(c)
                   /\ flow' = [flow EXCEPT ![f].ch = c, ![f].pc = "insert"]
      <3>1. PICK c \in Chals :
                /\ Take(c)
                /\ flow' = [flow EXCEPT ![f].ch = c, ![f].pc = "insert"]
        BY <2>2
      <3>2. flow' = [flow EXCEPT ![f] = [flow[f] EXCEPT !.ch = c, !.pc = "insert"]]
        BY <3>1
      <3>3. [flow[f] EXCEPT !.ch = c, !.pc = "insert"] \in Flow
        BY ZenonT(60) DEF Flow
      <3>4. FlowOK'
        BY <2>1, <3>2, <3>3 DEF Flow
      <3> QED
        BY <2>1, <3>1, <3>4 DEF Take
    <2>3. CASE UNCHANGED pool /\ (Goto(f, "insert") \/ GiveUp(f))
      BY <2>1, <2>3, GotoType
    <2> QED
      BY <1>6, <2>2, <2>3 DEF Consume
  <1>7. CASE Enqueue(f)
    <2>1. /\ flow[f].pc # "idle" /\ user \in Users \cup {Nobody}
          /\ UNCHANGED <<user, server, pool, records, deletion, fill>>
      BY <1>7 DEF Enqueue
    <2>2. CASE GiveUp(f)
      BY <2>1, <2>2, GotoType
    <2>3. CASE user # Nobody /\ flow' = [flow EXCEPT ![f].row = user, ![f].pc = "store"]
      <3>1. [flow[f] EXCEPT !.row = user, !.pc = "store"] \in Flow
        BY DEF Flow
      <3> QED
        BY <2>1, <2>3, <3>1 DEF Flow
    <2> QED
      BY <1>7, <2>2, <2>3 DEF Enqueue, EnqueueItem
  <1>8. CASE InsertItem(f)
    <2>1. /\ flow[f].pc = "store" /\ Rec(f, flow[f].row) \in Record
          /\ UNCHANGED <<user, server, pool, markers, scans, deletion, fill>>
      BY <1>8 DEF InsertItem, Rec, Record, Flow
    <2>2. CASE flow' = [flow EXCEPT ![f].row = Nobody, ![f].pc = "over"]
      <3>1. [flow[f] EXCEPT !.row = Nobody, !.pc = "over"] \in Flow
        BY DEF Flow
      <3>2. FlowOK'
        BY <2>1, <2>2, <3>1 DEF Flow
      <3>3. items' \in SUBSET Record
        BY <1>8, <2>1 DEF InsertItem
      <3> QED
        BY <2>1, <3>2, <3>3
    <2>3. CASE UNCHANGED items /\ GiveUp(f)
      BY <2>1, <2>3, GotoType
    <2> QED
      BY <1>8, <2>2, <2>3 DEF InsertItem
  <1>9. CASE InsertMarker(f)
    <2>1. flow[f] \in Flow /\ flow[f].owner \in Users /\ FlowOK'
      <3>1. flow[f].pc # "idle" /\ Goto(f, "over")
        BY <1>9 DEF InsertMarker
      <3> QED
        BY <3>1, GotoType
    <2>2. Rec(f, flow[f].owner) \in Record /\ markers' = markers \cup {Rec(f, flow[f].owner)}
      BY <1>9, <2>1 DEF InsertMarker, Rec, Record, Flow
    <2>3. IsFiniteSet(markers')
      BY <2>2, FS_AddElement
    <2> QED
      BY <1>9, <2>1, <2>2, <2>3 DEF InsertMarker
  <1>10. CASE PostScan(f)
    <2>1. flow[f] \in Flow /\ flow[f].owner \in Users /\ FlowOK'
      <3>1. flow[f].pc # "idle" /\ (Goto(f, "over") \/ GiveUp(f))
        BY <1>10 DEF PostScan
      <3> QED
        BY <3>1, GotoType
    <2> DEFINE c == IF flow[f].live # NoChal THEN flow[f].live ELSE flow[f].ch
    <2>2. [flow |-> f, owner |-> flow[f].owner, ch |-> c] \in Record
      BY <2>1 DEF Flow, Record
    <2>3. [chal EXCEPT ![c].st = "used"] \in [Chals -> Challenge]
      <3> HIDE DEF c
      <3>1. ASSUME c \in Chals PROVE [chal[c] EXCEPT !.st = "used"] \in Challenge
        BY <3>1 DEF Challenge
      <3> QED
        BY <3>1
    <2> QED
      BY <1>10, <2>1, <2>2, <2>3 DEF PostScan
  <1> QED
    BY <1>1, <1>2, <1>3, <1>4, <1>5, <1>6, <1>7, <1>8, <1>9, <1>10

\* The rest of Next.
LEMMA OtherStepType ==
    ASSUME TypeInv,
           \/ TopUp \/ DeleteAtServer \/ WipeSession \/ WipeOutbox \/ WipeChallenges
           \/ WipeMarkers \/ WipePartly
           \/ \E u \in Users \cup {Nobody} : SignIn(u)
           \/ \E c \in Chals : Lapse(c)
           \/ \E r \in items \cup markers : RedeemHeld(r)
           \/ \E m \in markers : MarkerDone(m)
    PROVE  TypeInv'
  <1> USE DEF TypeInv, TypeOK
  <1>1. CASE TopUp
    <2>1. user \in Users
      BY <1>1 DEF TopUp
    <2>2. [at |-> "token", got |-> {},
           want |-> Cap - Cardinality(Usable(user)) - Cardinality(HeldByMarkers(user))]
              \in Fill
      BY <1>1, <2>1, ShortfallType DEF TopUp, Fill
    <2> QED
      BY <1>1, <2>2 DEF TopUp
  <1>2. CASE DeleteAtServer
    <2>1. chal' \in [Chals -> Challenge]
      <3>1. \A c \in Chals : [chal[c] EXCEPT !.st = "dead", !.prefetched = FALSE] \in Challenge
        BY DEF Challenge
      <3> QED
        BY <1>2, <3>1 DEF DeleteAtServer
    <2>2. user \in Users
      BY <1>2, LeaversAssumption DEF DeleteAtServer
    <2> QED
      BY <1>2, <2>1, <2>2 DEF DeleteAtServer
  <1>3. CASE WipeSession
    BY <1>3 DEF WipeSession
  <1>4. CASE WipeOutbox
    BY <1>4 DEF WipeOutbox
  <1>5. CASE WipeChallenges
    BY <1>5 DEF WipeChallenges
  <1>6. CASE WipeMarkers
    <2>1. IsFiniteSet(markers')
      BY <1>6, FS_Subset DEF WipeMarkers
    <2>2. doomed \in Users /\ wiped' = wiped \cup {doomed}
      BY <1>6 DEF WipeMarkers
    <2> QED
      BY <1>6, <2>1, <2>2 DEF WipeMarkers
  <1>7. CASE \E u \in Users \cup {Nobody} : SignIn(u)
    BY <1>7 DEF SignIn
  <1>8. CASE \E c \in Chals : Lapse(c)
    <2>1. PICK c \in Chals : Lapse(c)
      BY <1>8
    <2>2. [chal[c] EXCEPT !.lapsed = TRUE] \in Challenge
      BY DEF Challenge
    <2> QED
      BY <2>1, <2>2 DEF Lapse
  <1>9. CASE \E r \in items \cup markers : RedeemHeld(r)
    BY <1>9 DEF RedeemHeld, Challenge, Record
  <1>10. CASE \E m \in markers : MarkerDone(m)
    BY <1>10, FS_Subset DEF MarkerDone
  <1>11. CASE WipePartly
    BY <1>11, FS_Subset DEF WipePartly
  <1> QED
    BY <1>1, <1>2, <1>3, <1>4, <1>5, <1>6, <1>7, <1>8, <1>9, <1>10, <1>11

LEMMA NextType == TypeInv /\ [Next]_vars => TypeInv'
  <1> SUFFICES ASSUME TypeInv, [Next]_vars PROVE TypeInv'
    OBVIOUS
  <1>1. CASE UNCHANGED vars
    BY <1>1 DEF vars, TypeInv, TypeOK
  <1>2. CASE Next
    BY <1>2, FillStepType, FlowStepType, OtherStepType DEF Next
  <1> QED
    BY <1>1, <1>2

LEMMA TypeInvariant == Spec => []TypeInv
  BY InitType, NextType, PTL DEF Spec

\* The check-in keeps its types: no flow writes a record without an owner, and
\* no top-up asks for fewer than one challenge or for more than the cap.
THEOREM TypeCorrect == Spec => []TypeOK
  BY TypeInvariant, PTL DEF TypeInv

-----------------------------------------------------------------------------
(* No play of a deleted account.                                           *)

\* The accounts whose session is cleared, and whose rows are gone too: the one
\* being wiped, from the step that did it on, and those wiped before.
Cleared == wiped \cup (IF wipe \in {"outbox", "challenges", "markers"} THEN {doomed} ELSE {})
Emptied == wiped \cup (IF wipe \in {"challenges", "markers"} THEN {doomed} ELSE {})

\* Once its session is cleared a deleted account is signed in no more, so whatever
\* a flow enqueues after that is not its play: of the inserts for it only those
\* that had begun before are left, and they are the only way into its empty outbox.
WipeInv ==
    /\ wiped \subseteq gone
    /\ wipe # "idle" => doomed \in gone /\ doomed \notin wiped
    /\ user \notin Cleared
    /\ \A f \in Flows : flow[f].row \in Cleared => f \in racing
    /\ \A i \in items : i.owner \in Emptied => i.flow \in racing

\* A step that neither signs in nor deletes, and by which no flow sets out to
\* write a row for somebody else.
LEMMA QuietForWipe ==
    ASSUME WipeInv, UNCHANGED <<user, gone, deletion>>, items' \subseteq items,
           \A f \in Flows : flow'[f].row \in {flow[f].row, Nobody},
           Nobody \notin gone
    PROVE  WipeInv'
  <1>1. Cleared' = Cleared /\ Emptied' = Emptied /\ Nobody \notin Cleared
    BY DEF Cleared, Emptied, WipeInv
  <1> QED
    BY <1>1 DEF WipeInv

\* Only the enqueuing of a play chooses whose row it is.
LEMMA RowKept ==
    ASSUME TypeInv, NEW f \in Flows,
           \/ Tap(f) \/ AcquireLive(f) \/ Fix(f) \/ BeginEnqueue(f)
           \/ RecheckReserve(f) \/ Consume(f) \/ InsertMarker(f) \/ PostScan(f)
    PROVE  \A g \in Flows : flow'[g].row \in {flow[g].row, Nobody}
  <1>1. flow \in [Flows -> Flow]
    BY DEF TypeInv, TypeOK
  <1>2. CASE GiveUp(f) \/ \E p : Goto(f, p)
    BY <1>1, <1>2 DEF GiveUp, Goto, Flow
  <1>3. ASSUME NEW c, NEW p, flow' = [flow EXCEPT ![f].live = c, ![f].pc = p]
        PROVE  \A g \in Flows : flow'[g].row = flow[g].row
    BY <1>1, <1>3 DEF Flow
  <1>4. ASSUME NEW S, NEW p, flow' = [flow EXCEPT ![f].covered = S, ![f].pc = p]
        PROVE  \A g \in Flows : flow'[g].row = flow[g].row
    BY <1>1, <1>4 DEF Flow
  <1>5. ASSUME NEW c, NEW p, flow' = [flow EXCEPT ![f].ch = c, ![f].pc = p]
        PROVE  \A g \in Flows : flow'[g].row = flow[g].row
    BY <1>1, <1>5 DEF Flow
  <1>6. ASSUME NEW p, flow' = [flow EXCEPT ![f].owner = user, ![f].pc = p]
        PROVE  \A g \in Flows : flow'[g].row = flow[g].row
    BY <1>1, <1>6 DEF Flow
  <1>7. CASE Tap(f)
    BY <1>6, <1>7 DEF Tap
  <1>8. CASE AcquireLive(f)
    <2>1. \E p, q : TryLive(f, p, q)
      BY <1>8 DEF AcquireLive
    <2> QED
      BY <1>2, <1>3, <2>1 DEF TryLive
  <1>9. CASE Fix(f)
    BY <1>2, <1>4, <1>9 DEF Fix
  <1>10. CASE BeginEnqueue(f) \/ RecheckReserve(f)
    BY <1>2, <1>5, <1>10 DEF BeginEnqueue, RecheckReserve
  <1>11. CASE Consume(f)
    BY <1>2, <1>5, <1>11 DEF Consume
  <1>12. CASE InsertMarker(f) \/ PostScan(f)
    BY <1>2, <1>12 DEF InsertMarker, PostScan
  <1> QED
    BY <1>7, <1>8, <1>9, <1>10, <1>11, <1>12

LEMMA NextWipe == TypeInv /\ WipeInv /\ [Next]_vars => WipeInv'
  <1> SUFFICES ASSUME TypeInv, WipeInv, [Next]_vars PROVE WipeInv'
    OBVIOUS
  <1>1. /\ user \in Users \cup {Nobody} /\ gone \subseteq Users /\ Nobody \notin gone
        /\ Cleared \subseteq gone /\ Emptied \subseteq Cleared
    BY NobodyAssumption DEF TypeInv, TypeOK, WipeInv, Cleared, Emptied
  <1>2. CASE UNCHANGED <<user, gone, deletion, flow>> /\ items' \subseteq items
    BY <1>1, <1>2, QuietForWipe
  <1>3. ASSUME NEW f \in Flows, Enqueue(f) PROVE WipeInv'
    <2>1. UNCHANGED <<user, gone, deletion, items>>
      BY <1>3 DEF Enqueue
    <2>2. \A g \in Flows : flow'[g].row \in {flow[g].row, Nobody, user}
      BY <1>3 DEF Enqueue, EnqueueItem, GiveUp, TypeInv, TypeOK, Flow
    <2>3. user \notin Cleared /\ Nobody \notin Cleared /\ Cleared' = Cleared
          /\ Emptied' = Emptied
      BY <1>1, <2>1 DEF WipeInv, Cleared, Emptied
    <2> QED
      BY <2>1, <2>2, <2>3 DEF WipeInv
  <1>4. ASSUME NEW f \in Flows, InsertItem(f) PROVE WipeInv'
    <2>1. UNCHANGED <<user, gone, deletion>>
      BY <1>4 DEF InsertItem
    <2>2. \A g \in Flows : flow'[g].row \in {flow[g].row, Nobody}
      BY <1>4 DEF InsertItem, GiveUp, TypeInv, TypeOK, Flow
    <2>3. \A i \in items' : i \in items \/ (i.flow = f /\ i.owner = flow[f].row)
      BY <1>4 DEF InsertItem, Rec
    <2>4. flow[f].row \in Cleared => f \in racing
      BY DEF WipeInv
    <2>5. Cleared' = Cleared /\ Emptied' = Emptied /\ Nobody \notin Cleared
      BY <1>1, <2>1 DEF Cleared, Emptied
    <2> QED
      BY <1>1, <2>1, <2>2, <2>3, <2>4, <2>5 DEF WipeInv
  <1>5. CASE DeleteAtServer
    <2>1. /\ wipe = "idle" /\ gone' = gone \cup {user} /\ doomed' = user /\ wipe' = "session"
          /\ UNCHANGED <<user, items, wiped, racing, flow>>
      BY <1>5 DEF DeleteAtServer
    <2>2. Cleared = wiped /\ Cleared' = wiped /\ Emptied = wiped /\ Emptied' = wiped
      BY <2>1 DEF Cleared, Emptied
    <2> QED
      BY <2>1, <2>2 DEF WipeInv
  <1>6. CASE WipeSession
    <2>1. /\ wipe = "session" /\ wipe' = "outbox" /\ user' = Nobody
          /\ racing' = racing \cup {f \in Flows : flow[f].row = doomed}
          /\ UNCHANGED <<gone, items, doomed, wiped, flow>>
      BY <1>6 DEF WipeSession
    <2>2. /\ Cleared = wiped /\ Cleared' = wiped \cup {doomed}
          /\ Emptied = wiped /\ Emptied' = wiped
      BY <2>1 DEF Cleared, Emptied
    <2>3. doomed \in gone
      BY <2>1 DEF WipeInv
    <2> QED
      BY <1>1, <2>1, <2>2, <2>3 DEF WipeInv
  <1>7. CASE WipeOutbox
    <2>1. /\ wipe = "outbox" /\ wipe' = "challenges"
          /\ items' = {i \in items : i.owner # doomed}
          /\ UNCHANGED <<user, gone, doomed, wiped, racing, flow>>
      BY <1>7 DEF WipeOutbox
    <2>2. /\ Cleared = wiped \cup {doomed} /\ Cleared' = wiped \cup {doomed}
          /\ Emptied = wiped /\ Emptied' = wiped \cup {doomed}
      BY <2>1 DEF Cleared, Emptied
    <2> QED
      BY <2>1, <2>2 DEF WipeInv
  <1>8. CASE WipeChallenges
    <2>1. /\ wipe = "challenges" /\ wipe' = "markers"
          /\ UNCHANGED <<user, gone, items, doomed, wiped, racing, flow>>
      BY <1>8 DEF WipeChallenges
    <2>2. Cleared' = Cleared /\ Emptied' = Emptied
      BY <2>1 DEF Cleared, Emptied
    <2> QED
      BY <2>1, <2>2 DEF WipeInv
  <1>9. CASE WipeMarkers
    <2>1. /\ wipe = "markers" /\ wipe' = "idle" /\ wiped' = wiped \cup {doomed}
          /\ UNCHANGED <<user, gone, items, racing, flow>>
      BY <1>9 DEF WipeMarkers
    <2>2. Cleared' = Cleared /\ Emptied' = Emptied
      BY <2>1 DEF Cleared, Emptied
    <2> QED
      BY <2>1, <2>2 DEF WipeInv
  <1>10. CASE WipePartly
    <2>1. /\ wipe = "session" /\ wipe' = "idle" /\ user' \in {user, Nobody}
          /\ items' \subseteq items /\ UNCHANGED <<gone, wiped, racing, flow>>
      BY <1>10 DEF WipePartly
    <2>2. Cleared = wiped /\ Cleared' = wiped /\ Emptied = wiped /\ Emptied' = wiped
      BY <2>1 DEF Cleared, Emptied
    <2> QED
      BY <1>1, <2>1, <2>2 DEF WipeInv
  <1>11. ASSUME NEW u \in Users \cup {Nobody}, SignIn(u) PROVE WipeInv'
    <2>1. u \notin gone /\ user' = u /\ UNCHANGED <<gone, items, deletion, flow>>
      BY <1>11 DEF SignIn
    <2>2. Cleared' = Cleared /\ Emptied' = Emptied
      BY <2>1 DEF Cleared, Emptied
    <2> QED
      BY <1>1, <2>1, <2>2 DEF WipeInv
  <1>12. CASE Next
    <2>1. ASSUME NEW u \in Users,
                 \/ AskChallenges(u) \/ AnswerChallenges(u)
                 \/ LoseChallenges(u) \/ StoreChallenges(u)
          PROVE  WipeInv'
      BY <1>2, <2>1
      DEF AskChallenges, AnswerChallenges, LoseChallenges, StoreChallenges
    <2>2. ASSUME NEW f \in Flows,
                 \/ Tap(f) \/ AcquireLive(f) \/ Fix(f) \/ BeginEnqueue(f)
                 \/ RecheckReserve(f) \/ Consume(f) \/ InsertMarker(f) \/ PostScan(f)
          PROVE  WipeInv'
      <3>1. UNCHANGED <<user, gone, deletion, items>>
        BY <2>2 DEF Tap, AcquireLive, Fix, BeginEnqueue, RecheckReserve, Consume,
                    InsertMarker, PostScan
      <3>2. \A g \in Flows : flow'[g].row \in {flow[g].row, Nobody}
        BY <2>2, RowKept
      <3> QED
        BY <1>1, <3>1, <3>2, QuietForWipe
    <2>3. ASSUME \/ TopUp \/ \E c \in Chals : Lapse(c)
                 \/ \E r \in items \cup markers : RedeemHeld(r)
                 \/ \E m \in markers : MarkerDone(m)
          PROVE  WipeInv'
      BY <1>2, <2>3 DEF TopUp, Lapse, RedeemHeld, MarkerDone
    <2>4. ASSUME \/ DeleteAtServer \/ WipeSession \/ WipeOutbox \/ WipeChallenges
                 \/ WipeMarkers \/ WipePartly
                 \/ \E f \in Flows : Enqueue(f) \/ InsertItem(f)
                 \/ \E u \in Users \cup {Nobody} : SignIn(u)
          PROVE  WipeInv'
      BY <1>3, <1>4, <1>5, <1>6, <1>7, <1>8, <1>9, <1>10, <1>11, <2>4
    <2> HIDE DEF WipeInv
    <2> QED
      BY <1>12, <2>1, <2>2, <2>3, <2>4 DEF Next
  <1> QED
    BY <1>2, <1>12 DEF vars

\* After the complete local wipe of a deleted account no play of it is in the
\* outbox or gets there (delete.ts:10-13), for any users, flows and sign-ins,
\* except a row whose insert was under way when the session was cleared.
THEOREM DeletedAccountHasNoPlay == Spec => []NoPlayOfDeletedAccount
  <1>1. Init => WipeInv
    BY NobodyAssumption DEF Init, WipeInv, Cleared, Emptied
  <1>2. WipeInv => NoPlayOfDeletedAccount
    BY DEF WipeInv, Emptied, NoPlayOfDeletedAccount
  <1> QED
    BY <1>1, <1>2, TypeInvariant, NextWipe, PTL DEF Spec

-----------------------------------------------------------------------------
(* A challenge is spent once.                                              *)

\* The challenges a flow has taken: it puts one of them into its record.
Holds(f, c) == c # NoChal /\ (flow[f].ch = c \/ flow[f].live = c)

\* A challenge is at one place: not issued yet, on its way in one top-up, in
\* the pool, or in one flow.  A flow that has made a record is over, and keeps
\* what it holds.
RecordsKept == \A r \in Records : /\ flow[r.flow].pc = "over"
                                  /\ r.ch # NoChal => Holds(r.flow, r.ch)
HeldOnce == \A f, g \in Flows, c \in Chals : Holds(f, c) /\ Holds(g, c) => f = g
HeldIsGone == \A f \in Flows, c \in Chals : Holds(f, c) =>
                  /\ pool[c] # "usable" /\ chal[c].st # "none"
                  /\ \A u \in Users : c \notin fill[u].got
UnissuedIsNowhere == \A c \in Chals : chal[c].st = "none" =>
                         /\ pool[c] # "usable"
                         /\ \A u \in Users : c \notin fill[u].got
OnItsWay == \A u \in Users : \A c \in fill[u].got :
                chal[c].to = u /\ pool[c] # "usable"
Places == HeldOnce /\ HeldIsGone /\ UnissuedIsNowhere /\ OnItsWay
SpentInv == RecordsKept /\ Places

\* A step by which no flow takes a challenge.  Challenges may be issued to
\* nobody, and a flow that is over may leave a record of what it holds.
LEMMA QuietStep ==
    ASSUME TypeInv, SpentInv,
           \A f \in Flows, c \in Chals : Holds(f, c)' => Holds(f, c),
           \A f \in Flows : flow[f].pc = "over" => flow'[f] = flow[f],
           \A r \in Records' : \/ r \in Records
                               \/ /\ flow'[r.flow].pc = "over"
                                  /\ r.ch # NoChal => Holds(r.flow, r.ch)',
           \A c \in Chals : /\ \/ chal[c].st = "none"
                               \/ chal'[c].st # "none" /\ chal'[c].to = chal[c].to
                            /\ pool'[c] = "usable" => pool[c] = "usable",
           \A u \in Users : fill'[u].got \subseteq fill[u].got
    PROVE  SpentInv'
  <1>1. \A r \in Records : r.flow \in Flows
    BY DEF TypeInv, TypeOK, Records, Record
  <1>2. RecordsKept'
    BY <1>1 DEF SpentInv, RecordsKept, Holds
  <1>3. \A u \in Users : fill[u].got \subseteq Chals
    BY DEF TypeInv, TypeOK, Fill, NoFill
  <1>4. HeldOnce'
    BY DEF SpentInv, Places, HeldOnce
  <1>5. HeldIsGone'
    BY DEF SpentInv, Places, HeldIsGone
  <1>6. UnissuedIsNowhere'
    BY DEF SpentInv, Places, UnissuedIsNowhere
  <1>7. OnItsWay'
    BY <1>3 DEF SpentInv, Places, UnissuedIsNowhere, OnItsWay
  <1> QED
    BY <1>2, <1>4, <1>5, <1>6, <1>7 DEF SpentInv, Places

LEMMA SpentImplies == TypeInv /\ SpentInv => SpentOnce
  <1> SUFFICES ASSUME TypeInv, SpentInv PROVE SpentOnce
    OBVIOUS
  <1>1. \A r \in Records : r.flow \in Flows /\ r.ch \in Chals \cup {NoChal}
    BY DEF TypeInv, TypeOK, Records, Record
  <1> QED
    BY <1>1 DEF SpentInv, RecordsKept, Places, HeldOnce, HeldIsGone, SpentOnce

\* A flow takes c, which nobody else has; its record is still to come.
LEMMA TakeStep ==
    ASSUME TypeInv, SpentInv, NEW f \in Flows, NEW c \in Chals,
           flow[f].pc # "over",
           \A g \in Flows : ~Holds(g, c),
           \A u \in Users : c \notin fill[u].got,
           \/ flow'[f].ch = c /\ flow'[f].live = flow[f].live
           \/ flow'[f].live = c /\ flow'[f].ch = flow[f].ch,
           \A g \in Flows \ {f} : flow'[g] = flow[g],
           pool'[c] # "usable", chal'[c].st # "none",
           \A d \in Chals \ {c} : chal'[d] = chal[d] /\ pool'[d] = pool[d],
           UNCHANGED <<records, fill>>
    PROVE  SpentInv'
  <1>1. \A r \in Records : r.flow \in Flows \ {f}
    BY DEF TypeInv, TypeOK, Records, Record, SpentInv, RecordsKept
  <1>2. RecordsKept'
    BY <1>1 DEF SpentInv, RecordsKept, Holds, Records
  <1>3. \A u \in Users : fill[u].got \subseteq Chals
    BY DEF TypeInv, TypeOK, Fill, NoFill
  <1>4. \A g \in Flows, d \in Chals : Holds(g, d)' => Holds(g, d) \/ (g = f /\ d = c)
    BY DEF Holds
  <1>5. HeldOnce'
    BY <1>4 DEF SpentInv, Places, HeldOnce
  <1>6. HeldIsGone'
    BY <1>4 DEF SpentInv, Places, HeldIsGone
  <1>7. UnissuedIsNowhere' /\ OnItsWay'
    BY <1>3 DEF SpentInv, Places, UnissuedIsNowhere, OnItsWay
  <1> QED
    BY <1>2, <1>5, <1>6, <1>7 DEF SpentInv, Places

LEMMA FillStepSpent ==
    ASSUME TypeInv, SpentInv, NEW u \in Users,
           \/ AskChallenges(u) \/ AnswerChallenges(u)
           \/ LoseChallenges(u) \/ StoreChallenges(u)
    PROVE  SpentInv'
  <1> USE DEF TypeInv, TypeOK
  <1>0. \A v \in Users : fill[v] \in Fill /\ fill[v].got \subseteq Chals
    BY DEF Fill, NoFill
  <1>1. CASE AskChallenges(u) \/ LoseChallenges(u)
    <2>1. \A v \in Users : fill'[v].got \subseteq fill[v].got
      BY <1>0, <1>1 DEF AskChallenges, LoseChallenges, Fill, NoFill
    <2>2. UNCHANGED <<chal, pool, flow, records>>
      BY <1>1 DEF AskChallenges, LoseChallenges
    <2> QED
      BY <2>1, <2>2, QuietStep DEF Records, Holds
  <1>2. CASE AnswerChallenges(u)
    <2>1. PICK S \in SUBSET Fresh :
              /\ chal' = Issued(S, u, "open", TRUE)
              /\ fill' = [fill EXCEPT ![u].at = "answered", ![u].got = S]
      BY <1>2 DEF AnswerChallenges, IssuePrefetched, Pick
    <2>2. UNCHANGED <<pool, flow, records>>
      BY <1>2 DEF AnswerChallenges
    <2>3. /\ \A c \in S : /\ c \in Chals /\ chal[c].st = "none"
                          /\ chal'[c].st = "open" /\ chal'[c].to = u
          /\ \A c \in Chals \ S : chal'[c] = chal[c]
      <3> HIDE DEF TypeInv, TypeOK
      <3>1. \A c \in S : chal[c].st = "none"
        BY DEF Fresh
      <3>2. \A c \in Chals :
                chal'[c] = IF c \in S THEN [st |-> "open", to |-> u, prefetched |-> TRUE,
                                           lapsed |-> FALSE]
                           ELSE chal[c]
        BY <2>1 DEF Issued
      <3>3. \A c \in S : c \in Chals
        BY DEF Fresh
      <3>4. \A c \in S : chal'[c].st = "open" /\ chal'[c].to = u
        BY <3>2, <3>3
      <3>5. \A c \in Chals \ S : chal'[c] = chal[c]
        BY <3>2
      <3> QED
        BY <3>1, <3>3, <3>4, <3>5
    <2>4. fill'[u].got = S
      <3>1. fill[u].at = "asked" /\ fill[u] \in Fill
        BY <1>0, <1>2 DEF AnswerChallenges, IssuePrefetched
      <3>2. fill[u] \in [at : {"token", "asked", "answered"}, want : 1..Cap,
                         got : SUBSET Chals]
        <4> HIDE DEF TypeInv, TypeOK
        <4> QED
          BY <3>1 DEF Fill, NoFill
      <3>3. fill'[u] = [fill[u] EXCEPT !.at = "answered", !.got = S]
        BY <2>1
      <3> QED
        BY <3>2, <3>3
    <2>5. \A v \in Users \ {u} : fill'[v] = fill[v]
      BY <2>1
    <2>6. RecordsKept' /\ HeldOnce'
      BY <2>2 DEF SpentInv, RecordsKept, Places, HeldOnce, Holds, Records
    <2>7. HeldIsGone'
      BY <2>2, <2>3, <2>4, <2>5 DEF SpentInv, Places, HeldIsGone, Holds
    <2>8. UnissuedIsNowhere'
      BY <2>2, <2>3, <2>4, <2>5 DEF SpentInv, Places, UnissuedIsNowhere
    <2>9. OnItsWay'
      <3>1. \A c \in S : c \in Chals /\ chal'[c].to = u /\ pool'[c] # "usable"
        BY <2>2, <2>3 DEF Fresh, SpentInv, Places, UnissuedIsNowhere
      <3>2. \A v \in Users \ {u}, c \in Chals :
                c \in fill[v].got => chal'[c] = chal[c] /\ pool'[c] = pool[c]
        BY <2>2, <2>3 DEF SpentInv, Places, UnissuedIsNowhere
      <3> QED
        BY <1>0, <2>4, <2>5, <3>1, <3>2 DEF SpentInv, Places, OnItsWay
    <2> QED
      BY <2>6, <2>7, <2>8, <2>9 DEF SpentInv, Places
  <1>3. CASE StoreChallenges(u)
    <2>1. PICK S \in SUBSET fill[u].got :
              pool' = [c \in Chals |-> IF c \in S THEN "usable" ELSE pool[c]]
      BY <1>3 DEF StoreChallenges, Pick
    <2>2. UNCHANGED <<chal, flow, records>> /\ fill' = [fill EXCEPT ![u] = NoFill]
      BY <1>3 DEF StoreChallenges
    <2>3. fill'[u].got = {} /\ \A v \in Users \ {u} : fill'[v] = fill[v]
      BY <2>2 DEF NoFill
    <2>4. \A c \in Chals : /\ c \in S => c \in fill[u].got
                           /\ c \notin S => pool'[c] = pool[c]
      BY <2>1
    <2>5. RecordsKept' /\ HeldOnce'
      BY <2>2 DEF SpentInv, RecordsKept, Places, HeldOnce, Holds, Records
    <2>6. HeldIsGone'
      BY <2>2, <2>3, <2>4 DEF SpentInv, Places, HeldIsGone, Holds
    <2>7. UnissuedIsNowhere'
      BY <2>2, <2>3, <2>4 DEF SpentInv, Places, UnissuedIsNowhere
    <2>8. OnItsWay'
      BY <1>0, <2>2, <2>3, <2>4 DEF SpentInv, Places, OnItsWay
    <2> QED
      BY <2>5, <2>6, <2>7, <2>8 DEF SpentInv, Places
  <1> QED
    BY <1>1, <1>2, <1>3

\* A flow that only moves on, or gives up, takes no challenge.
LEMMA TakesNone ==
    ASSUME TypeInv, NEW f \in Flows, GiveUp(f) \/ \E p \in PCs : Goto(f, p)
    PROVE  /\ \A g \in Flows, c \in Chals : Holds(g, c)' => Holds(g, c)
           /\ \A g \in Flows \ {f} : flow'[g] = flow[g]
  <1>1. flow \in [Flows -> Flow] /\ flow[f] \in Flow
    BY DEF TypeInv, TypeOK
  <1>2. CASE GiveUp(f)
    <2>1. flow'[f].ch = NoChal /\ flow'[f].live = NoChal
      BY <1>1, <1>2 DEF GiveUp, Flow
    <2>2. \A g \in Flows \ {f} : flow'[g] = flow[g]
      BY <1>1, <1>2 DEF GiveUp
    <2> QED
      BY <2>1, <2>2 DEF Holds
  <1>3. ASSUME NEW p \in PCs, Goto(f, p)
        PROVE  /\ \A g \in Flows, c \in Chals : Holds(g, c)' => Holds(g, c)
               /\ \A g \in Flows \ {f} : flow'[g] = flow[g]
    <2>1. flow'[f].ch = flow[f].ch /\ flow'[f].live = flow[f].live
      BY <1>1, <1>3 DEF Goto, Flow
    <2>2. \A g \in Flows \ {f} : flow'[g] = flow[g]
      BY <1>1, <1>3 DEF Goto
    <2> QED
      BY <2>1, <2>2 DEF Holds
  <1> QED
    BY <1>2, <1>3

LEMMA FlowStepSpent ==
    ASSUME TypeInv, SpentInv, NEW f \in Flows,
           \/ Tap(f) \/ AcquireLive(f) \/ Fix(f) \/ BeginEnqueue(f)
           \/ RecheckReserve(f) \/ Consume(f) \/ Enqueue(f) \/ InsertItem(f)
           \/ InsertMarker(f) \/ PostScan(f)
    PROVE  SpentInv'
  <1> USE DEF TypeInv, TypeOK
  <1>0. flow[f] \in Flow
    OBVIOUS
  <1>1. CASE Tap(f) \/ Fix(f) \/ RecheckReserve(f)
    <2>1. flow[f].pc # "over" /\ UNCHANGED <<chal, pool, records, fill>>
      BY <1>1 DEF Tap, Fix, RecheckReserve
    <2>2. CASE GiveUp(f) \/ \E p \in PCs : Goto(f, p)
      BY <2>1, <2>2, TakesNone, QuietStep DEF Records
    <2>3. CASE ~(GiveUp(f) \/ \E p \in PCs : Goto(f, p))
      <3>1. ~RecheckReserve(f)
        BY <2>3 DEF RecheckReserve
      <3>2. flow'[f].ch = flow[f].ch /\ flow'[f].live = flow[f].live
        <4>1. ASSUME NEW p, flow' = [flow EXCEPT ![f].owner = user, ![f].pc = p]
              PROVE  flow'[f].ch = flow[f].ch /\ flow'[f].live = flow[f].live
          BY <1>0, <4>1 DEF Flow
        <4>2. ASSUME NEW S, NEW p, flow' = [flow EXCEPT ![f].covered = S, ![f].pc = p]
              PROVE  flow'[f].ch = flow[f].ch /\ flow'[f].live = flow[f].live
          BY <1>0, <4>2 DEF Flow
        <4>3. CASE Tap(f)
          BY <4>1, <4>3 DEF Tap
        <4>4. CASE Fix(f)
          BY <2>3, <4>2, <4>4 DEF Fix
        <4> QED
          BY <1>1, <3>1, <4>3, <4>4
      <3>3. \A g \in Flows \ {f} : flow'[g] = flow[g]
        BY <1>1, <2>3, <3>1 DEF Tap, Fix
      <3> QED
        BY <2>1, <3>2, <3>3, QuietStep DEF Holds, Records
    <2> QED
      BY <2>2, <2>3
  <1>2. CASE AcquireLive(f)
    <2>1. /\ flow[f].pc = "live" /\ UNCHANGED <<pool, records, fill>>
          /\ \E p, q \in PCs : TryLive(f, p, q)
      BY <1>2 DEF AcquireLive
    <2>2. PICK p \in PCs, q \in PCs : TryLive(f, p, q)
      BY <2>1
    <2>3. ASSUME NEW c \in Fresh, chal' = Issued({c}, flow[f].owner, "used", FALSE),
                 flow' = [flow EXCEPT ![f].live = c, ![f].pc = p]
          PROVE  SpentInv'
      BY <1>0, <2>1, <2>3, TakeStep
      DEF Issued, Fresh, Flow, SpentInv, Places, HeldIsGone, UnissuedIsNowhere
    <2>4. ASSUME NEW c \in Fresh, NEW st \in {"open", "used"},
                 chal' = Issued({c}, flow[f].owner, st, FALSE), Goto(f, q)
          PROVE  SpentInv'
      <3>1. /\ flow'[f].ch = flow[f].ch /\ flow'[f].live = flow[f].live
            /\ \A g \in Flows \ {f} : flow'[g] = flow[g]
        BY <1>0, <2>4 DEF Goto, Flow
      <3>2. \A d \in Chals : \/ chal[d].st = "none"
                             \/ chal'[d] = chal[d]
        BY <2>4 DEF Issued, Fresh
      <3> QED
        BY <2>1, <3>1, <3>2, QuietStep DEF Holds, Records
    <2>5. CASE UNCHANGED chal /\ Goto(f, q)
      <3>1. /\ flow'[f].ch = flow[f].ch /\ flow'[f].live = flow[f].live
            /\ \A g \in Flows \ {f} : flow'[g] = flow[g]
        BY <1>0, <2>5 DEF Goto, Flow
      <3> QED
        BY <2>1, <2>5, <3>1, QuietStep DEF Holds, Records
    <2> QED
      BY <2>2, <2>3, <2>4, <2>5 DEF TryLive
  <1>3. CASE BeginEnqueue(f)
    <2>1. flow[f].pc # "over" /\ UNCHANGED <<chal, pool, records, fill>>
      BY <1>3 DEF BeginEnqueue
    <2>2. CASE GiveUp(f) \/ \E p \in PCs : Goto(f, p)
      BY <2>1, <2>2, TakesNone, QuietStep DEF Records
    <2>3. CASE flow' = [flow EXCEPT ![f].ch = flow[f].live, ![f].pc = "insert"]
      <3>1. flow'[f].ch = flow[f].live /\ flow'[f].live = flow[f].live
        BY <1>0, <2>3 DEF Flow
      <3>2. \A g \in Flows \ {f} : flow'[g] = flow[g]
        BY <2>3
      <3> QED
        BY <2>1, <3>1, <3>2, QuietStep DEF Holds, Records
    <2> QED
      BY <1>3, <2>2, <2>3 DEF BeginEnqueue
  <1>4. CASE Consume(f)
    <2>1. flow[f].pc = "consume" /\ UNCHANGED <<chal, records, fill>>
      BY <1>4 DEF Consume
    <2>2. ASSUME NEW c \in Chals, Qualifies(f, c), Take(c),
                 flow' = [flow EXCEPT ![f].ch = c, ![f].pc = "insert"]
          PROVE  SpentInv'
      <3>1. pool[c] = "usable" /\ pool'[c] = "consumed"
            /\ \A d \in Chals \ {c} : pool'[d] = pool[d]
        BY <2>2 DEF Qualifies, Usable, Take
      <3>2. /\ flow'[f].ch = c /\ flow'[f].live = flow[f].live
            /\ \A g \in Flows \ {f} : flow'[g] = flow[g]
        BY <1>0, <2>2 DEF Flow
      <3>3. /\ \A g \in Flows : ~Holds(g, c)
            /\ \A u \in Users : c \notin fill[u].got
            /\ chal[c].st # "none"
        BY <3>1 DEF SpentInv, Places, HeldIsGone, UnissuedIsNowhere, OnItsWay
      <3> QED
        BY <2>1, <3>1, <3>2, <3>3, TakeStep
    <2>3. ASSUME GiveUp(f) \/ Goto(f, "insert"), UNCHANGED pool
          PROVE  SpentInv'
      BY <2>1, <2>3, TakesNone, QuietStep DEF Records
    <2> QED
      BY <1>4, <2>2, <2>3 DEF Consume
  <1>5. CASE Enqueue(f)
    <2>1. flow[f].pc = "insert" /\ UNCHANGED <<chal, pool, records, fill>>
      BY <1>5 DEF Enqueue
    <2>2. CASE GiveUp(f)
      BY <2>1, <2>2, TakesNone, QuietStep DEF Records
    <2>3. CASE flow' = [flow EXCEPT ![f].row = user, ![f].pc = "store"]
      <3>1. flow'[f].ch = flow[f].ch /\ flow'[f].live = flow[f].live
        BY <1>0, <2>3 DEF Flow
      <3>2. \A g \in Flows \ {f} : flow'[g] = flow[g]
        BY <2>3
      <3> QED
        BY <2>1, <3>1, <3>2, QuietStep DEF Holds, Records
    <2> QED
      BY <1>5, <2>2, <2>3 DEF Enqueue, EnqueueItem
  <1>6. CASE InsertItem(f)
    <2>1. flow[f].pc = "store" /\ UNCHANGED <<chal, pool, markers, scans, fill>>
      BY <1>6 DEF InsertItem
    <2>2. CASE GiveUp(f) /\ UNCHANGED items
      BY <2>1, <2>2, TakesNone, QuietStep DEF Records
    <2>3. CASE /\ items' = items \cup {Rec(f, flow[f].row)}
               /\ flow' = [flow EXCEPT ![f].row = Nobody, ![f].pc = "over"]
      <3>1. /\ flow'[f].ch = flow[f].ch /\ flow'[f].live = flow[f].live
            /\ flow'[f].pc = "over"
        BY <1>0, <2>3 DEF Flow
      <3>2. \A g \in Flows \ {f} : flow'[g] = flow[g]
        BY <2>3
      <3>3. \A r \in Records' : r \in Records \/ (r.flow = f /\ r.ch = flow[f].ch)
        BY <2>1, <2>3 DEF Rec, Records
      <3> QED
        BY <2>1, <3>1, <3>2, <3>3, QuietStep DEF Holds
    <2> QED
      BY <1>6, <2>2, <2>3 DEF InsertItem
  <1>7. CASE InsertMarker(f)
    <2>1. flow[f].pc = "insert" /\ UNCHANGED <<chal, pool, items, scans, fill>>
      BY <1>7 DEF InsertMarker
    <2>2. /\ flow'[f].ch = flow[f].ch /\ flow'[f].live = flow[f].live
          /\ flow'[f].pc = "over"
          /\ \A g \in Flows \ {f} : flow'[g] = flow[g]
      BY <1>0, <1>7 DEF InsertMarker, Goto, Flow
    <2>3. \A r \in Records' : r \in Records \/ (r.flow = f /\ r.ch = flow[f].ch)
      BY <1>7, <2>1 DEF InsertMarker, Rec, Records
    <2> QED
      BY <2>1, <2>2, <2>3, QuietStep DEF Holds
  <1>8. CASE PostScan(f)
    <2> DEFINE c == IF flow[f].live # NoChal THEN flow[f].live ELSE flow[f].ch
    <2>1. flow[f].pc = "insert" /\ UNCHANGED <<pool, items, markers, fill>>
      BY <1>8 DEF PostScan
    <2>2. CASE GiveUp(f) /\ UNCHANGED <<chal, scans>>
      BY <2>1, <2>2, TakesNone, QuietStep DEF Records
    <2>3. CASE /\ chal' = [chal EXCEPT ![c].st = "used"]
               /\ scans' = scans \cup {[flow |-> f, owner |-> flow[f].owner, ch |-> c]}
               /\ Goto(f, "over")
      <3>1. /\ flow'[f].ch = flow[f].ch /\ flow'[f].live = flow[f].live
            /\ flow'[f].pc = "over"
            /\ \A g \in Flows \ {f} : flow'[g] = flow[g]
        BY <1>0, <2>3 DEF Goto, Flow
      <3>2. \A r \in Records' : r \in Records \/ (r.flow = f /\ r.ch = c)
        BY <2>1, <2>3 DEF Records
      <3>3. \A d \in Chals : chal'[d] = chal[d]
                            \/ (chal'[d].st = "used" /\ chal'[d].to = chal[d].to)
        BY <2>3 DEF Challenge
      <3> QED
        BY <2>1, <3>1, <3>2, <3>3, QuietStep DEF Holds
    <2> QED
      BY <1>8, <2>2, <2>3 DEF PostScan
  <1> QED
    BY <1>1, <1>2, <1>3, <1>4, <1>5, <1>6, <1>7, <1>8

LEMMA OtherStepSpent ==
    ASSUME TypeInv, SpentInv,
           \/ TopUp \/ DeleteAtServer \/ WipeSession \/ WipeOutbox \/ WipeChallenges
           \/ WipeMarkers \/ WipePartly
           \/ \E u \in Users \cup {Nobody} : SignIn(u)
           \/ \E c \in Chals : Lapse(c)
           \/ \E r \in items \cup markers : RedeemHeld(r)
           \/ \E m \in markers : MarkerDone(m)
    PROVE  SpentInv'
  <1> USE DEF TypeInv, TypeOK
  <1>1. UNCHANGED flow
    BY DEF TopUp, DeleteAtServer, WipeSession, WipeOutbox, WipeChallenges, WipeMarkers,
           WipePartly, SignIn, Lapse, RedeemHeld, MarkerDone
  <1>2. /\ items' \subseteq items /\ markers' \subseteq markers /\ UNCHANGED scans
        /\ \A c \in Chals : pool'[c] = "usable" => pool[c] = "usable"
    BY DEF TopUp, DeleteAtServer, WipeSession, WipeOutbox, WipeChallenges, WipeMarkers,
           WipePartly, SignIn, Lapse, RedeemHeld, MarkerDone
  <1>3. \A u \in Users : fill'[u].got \subseteq fill[u].got
    <2>1. CASE TopUp
      BY <2>1 DEF TopUp
    <2>2. CASE UNCHANGED fill
      BY <2>2
    <2> QED
      BY <2>1, <2>2 DEF DeleteAtServer, WipeSession, WipeOutbox, WipeChallenges,
                        WipeMarkers, WipePartly, SignIn, Lapse, RedeemHeld, MarkerDone
  <1>4. \A c \in Chals : chal'[c] = chal[c] \/ chal[c].st = "none"
                       \/ (chal'[c].st # "none" /\ chal'[c].to = chal[c].to)
    <2>1. CASE DeleteAtServer
      BY <2>1 DEF DeleteAtServer, Challenge
    <2>2. CASE \E c \in Chals : Lapse(c)
      BY <2>2 DEF Lapse, Challenge
    <2>3. CASE \E r \in items \cup markers : RedeemHeld(r)
      BY <2>3 DEF RedeemHeld, Challenge
    <2>4. CASE UNCHANGED chal
      BY <2>4
    <2> QED
      BY <2>1, <2>2, <2>3, <2>4 DEF TopUp, WipeSession, WipeOutbox, WipeChallenges,
                                    WipeMarkers, WipePartly, SignIn, MarkerDone
  <1> QED
    BY <1>1, <1>2, <1>3, <1>4, QuietStep DEF Holds, Records

LEMMA SpentInvariant == Spec => []SpentInv
  <1>1. Init => SpentInv
    BY DEF Init, SpentInv, RecordsKept, Records, Places, HeldOnce, HeldIsGone,
           UnissuedIsNowhere, OnItsWay, Holds, NoFill
  <1>2. TypeInv /\ SpentInv /\ [Next]_vars => SpentInv'
    <2> SUFFICES ASSUME TypeInv, SpentInv, [Next]_vars PROVE SpentInv'
      OBVIOUS
    <2>1. CASE UNCHANGED vars
      BY <2>1, QuietStep DEF vars, Holds, Records
    <2>2. CASE Next
      BY <2>2, FillStepSpent, FlowStepSpent, OtherStepSpent DEF Next
    <2> QED
      BY <2>1, <2>2
  <1> QED
    BY <1>1, <1>2, TypeInvariant, PTL DEF Spec

\* Each challenge is spent on one fix (store.ts:9-11): no two records share one
\* and none is offered again, for any number of flows, users and top-ups.
THEOREM ChallengeSpentOnce == Spec => []SpentOnce
  BY TypeInvariant, SpentInvariant, SpentImplies, PTL

-----------------------------------------------------------------------------
(* The cap.                                                                *)

PreOpen(u) == {c \in Open(u) : chal[c].prefetched}

LEMMA FewerOpen ==
    ASSUME NEW u \in Users, Cardinality(PreOpen(u)) <= Cap, PreOpen(u)' \subseteq PreOpen(u)
    PROVE  Cardinality(PreOpen(u)') <= Cap
  <1>1. IsFiniteSet(PreOpen(u))
    BY FS_Subset, ChalsAssumption DEF PreOpen, Open
  <1>2. IsFiniteSet(PreOpen(u)')
    BY <1>1, FS_Subset
  <1> QED
    BY <1>1, <1>2, FS_Subset, FS_CardinalityType, LimitsAssumption

\* What IssuePrefetched adds fits into the room it has counted.
LEMMA IssueKeepsCap ==
    ASSUME TypeInv, OpenCapKept, NEW u \in Users, AnswerChallenges(u)
    PROVE  OpenCapKept'
  <1> DEFINE room == Cap - Cardinality(Open(u))
             most == IF fill[u].want < room THEN fill[u].want ELSE room
  <1>1. PICK S \in Pick(Fresh, most) : chal' = Issued(S, u, "open", TRUE)
    BY DEF AnswerChallenges, IssuePrefetched
  <1>2. S \subseteq Fresh /\ S \subseteq Chals
    BY <1>1 DEF Pick, Fresh
  <1>3. IsFiniteSet(S) /\ IsFiniteSet(Open(u)) /\ IsFiniteSet(Fresh)
    BY <1>2, FS_Subset, ChalsAssumption DEF Open, Fresh
  <1>4. /\ Cardinality(Open(u)) \in Nat /\ Cardinality(S) \in Nat
        /\ Cardinality(Fresh) \in Nat
    BY <1>3, FS_CardinalityType
  <1>5. fill[u].want \in 1..Cap
    <2>1. fill[u] \in Fill /\ fill[u].at = "asked"
      BY DEF AnswerChallenges, IssuePrefetched, TypeInv, TypeOK
    <2> QED
      BY <2>1 DEF Fill, NoFill
  <1>6. Cardinality(S) <= room
    <2>1. Cardinality(S) = IF most < Cardinality(Fresh) THEN most ELSE Cardinality(Fresh)
      BY <1>1 DEF Pick
    <2> QED
      BY <1>4, <1>5, <2>1, LimitsAssumption
  <1>7. /\ \A c \in S : chal[c].st = "none" /\ chal'[c].to = u
        /\ \A c \in Chals \ S : chal'[c] = chal[c]
    BY <1>1, <1>2 DEF Issued, Fresh
  <1>8. PreOpen(u)' \subseteq PreOpen(u) \cup S
    BY <1>7 DEF PreOpen, Open
  <1>9. Cardinality(PreOpen(u)') <= Cap
    <2>1. /\ IsFiniteSet(PreOpen(u)) /\ Cardinality(PreOpen(u)) <= Cardinality(Open(u))
          /\ Cardinality(PreOpen(u)) \in Nat
      BY <1>3, FS_Subset, FS_CardinalityType DEF PreOpen
    <2>2. /\ IsFiniteSet(PreOpen(u) \cup S) /\ IsFiniteSet(PreOpen(u) \cap S)
          /\ Cardinality(PreOpen(u) \cup S)
                 = Cardinality(PreOpen(u)) + Cardinality(S) - Cardinality(PreOpen(u) \cap S)
      BY <1>3, <2>1, FS_Union, FS_Subset
    <2>3. Cardinality(PreOpen(u) \cap S) \in Nat /\ Cardinality(PreOpen(u) \cup S) \in Nat
      BY <2>2, FS_CardinalityType
    <2>4. Cardinality(PreOpen(u)') <= Cardinality(PreOpen(u) \cup S)
      BY <1>8, <2>2, FS_Subset
    <2>5. Cardinality(PreOpen(u)') \in Nat
      BY <1>8, <2>2, FS_Subset, FS_CardinalityType
    <2> QED
      BY <1>4, <1>6, <2>1, <2>2, <2>3, <2>4, <2>5, LimitsAssumption
  <1>10. ASSUME NEW v \in Users \ {u} PROVE Cardinality(PreOpen(v)') <= Cap
    <2>1. PreOpen(v)' \subseteq PreOpen(v)
      BY <1>7 DEF PreOpen, Open
    <2>2. Cardinality(PreOpen(v)) <= Cap
      BY DEF OpenCapKept, PreOpen
    <2> QED
      BY <2>1, <2>2, FewerOpen
  <1> QED
    BY <1>9, <1>10 DEF OpenCapKept, PreOpen

\* No other step opens a prefetched challenge.
LEMMA OthersOpenNone ==
    ASSUME TypeInv, Next, \A u \in Users : ~AnswerChallenges(u)
    PROVE  \A u \in Users : PreOpen(u)' \subseteq PreOpen(u)
  <1> USE DEF PreOpen, Open
  <1>0. chal \in [Chals -> Challenge]
    BY DEF TypeInv, TypeOK
  <1>1. CASE UNCHANGED chal
    BY <1>1
  <1>2. CASE \E c \in Fresh, o \in Users, st \in {"open", "used"} :
                 chal' = Issued({c}, o, st, FALSE)
    BY <1>2 DEF Issued, Fresh
  <1>3. CASE \E c \in Chals \cup {NoChal} : chal' = [chal EXCEPT ![c].st = "used"]
    BY <1>0, <1>3 DEF Challenge
  <1>4. CASE \E c \in Chals : Lapse(c)
    BY <1>0, <1>4 DEF Lapse, Challenge
  <1>5. CASE DeleteAtServer
    BY <1>0, <1>5 DEF DeleteAtServer, Challenge
  <1>6. ASSUME NEW f \in Flows, AcquireLive(f)
        PROVE  \A u \in Users : PreOpen(u)' \subseteq PreOpen(u)
    <2>1. \E p, q \in PCs : TryLive(f, p, q)
      BY <1>6 DEF AcquireLive
    <2>2. flow[f].owner \in Users
      BY <1>6 DEF AcquireLive, TypeInv
    <2> QED
      BY <1>1, <1>2, <2>1, <2>2 DEF TryLive
  <1>7. ASSUME NEW f \in Flows, PostScan(f)
        PROVE  \A u \in Users : PreOpen(u)' \subseteq PreOpen(u)
    <2>1. flow[f] \in Flow
      BY DEF TypeInv, TypeOK
    <2>2. flow[f].live \in Chals \cup {NoChal} /\ flow[f].ch \in Chals \cup {NoChal}
      BY <2>1 DEF Flow
    <2> QED
      BY <1>1, <1>3, <1>7, <2>2 DEF PostScan
  <1>8. ASSUME NEW r \in items \cup markers, RedeemHeld(r)
        PROVE  \A u \in Users : PreOpen(u)' \subseteq PreOpen(u)
    <2>1. r.ch \in Chals \cup {NoChal}
      BY DEF TypeInv, TypeOK, Record
    <2> QED
      BY <1>3, <1>8, <2>1 DEF RedeemHeld
  <1>9. ASSUME NEW u \in Users, AskChallenges(u) \/ LoseChallenges(u) \/ StoreChallenges(u)
        PROVE  UNCHANGED chal
    BY <1>9 DEF AskChallenges, LoseChallenges, StoreChallenges
  <1>10. ASSUME NEW f \in Flows,
                \/ Tap(f) \/ Fix(f) \/ BeginEnqueue(f) \/ RecheckReserve(f)
                \/ Consume(f) \/ Enqueue(f) \/ InsertItem(f) \/ InsertMarker(f)
         PROVE  UNCHANGED chal
    BY <1>10 DEF Tap, Fix, BeginEnqueue, RecheckReserve, Consume, Enqueue,
                 InsertItem, InsertMarker
  <1>11. ASSUME \/ TopUp \/ WipeSession \/ WipeOutbox \/ WipeChallenges \/ WipeMarkers
                \/ WipePartly \/ \E u \in Users \cup {Nobody} : SignIn(u)
                \/ \E m \in markers : MarkerDone(m)
         PROVE  UNCHANGED chal
    BY <1>11 DEF TopUp, WipeSession, WipeOutbox, WipeChallenges, WipeMarkers, WipePartly,
                 SignIn, MarkerDone
  <1> QED
    BY <1>1, <1>4, <1>5, <1>6, <1>7, <1>8, <1>9, <1>10, <1>11 DEF Next

\* A device never has more than Cap open prefetched challenges at the server,
\* for any cap, whatever is lost between the two (challenge-handler.ts).
THEOREM CapKept == Spec => []OpenCapKept
  <1>1. Init => OpenCapKept
    <2> SUFFICES ASSUME Init, NEW u \in Users PROVE Cardinality(PreOpen(u)) <= Cap
      BY DEF OpenCapKept, PreOpen
    <2>1. PreOpen(u) = {}
      BY DEF Init, PreOpen, Open
    <2> QED
      BY <2>1, FS_EmptySet, LimitsAssumption
  <1>2. TypeInv /\ OpenCapKept /\ [Next]_vars => OpenCapKept'
    <2> SUFFICES ASSUME TypeInv, OpenCapKept, [Next]_vars PROVE OpenCapKept'
      OBVIOUS
    <2>1. CASE \A u \in Users : PreOpen(u)' \subseteq PreOpen(u)
      BY <2>1, FewerOpen DEF OpenCapKept, PreOpen
    <2>2. CASE UNCHANGED vars
      BY <2>1, <2>2 DEF vars, PreOpen, Open
    <2>3. CASE Next
      BY <2>1, <2>3, IssueKeepsCap, OthersOpenNone
    <2> QED
      BY <2>2, <2>3
  <1> QED
    BY <1>1, <1>2, TypeInvariant, PTL DEF Spec

-----------------------------------------------------------------------------
(* The challenge of a record covers its fix.                               *)

\* What a flow holds is its owner's; what it has chosen from the pool covers its
\* fix, and is chosen after the fix.  A check-in's live challenge is chosen only
\* if it covers the fix; a scan posts the one it holds.
Held == items \cup markers
CoverInv ==
    /\ \A f \in Flows :
           /\ flow[f].pc = "idle" => flow[f].live = NoChal
           /\ flow[f].live # NoChal => /\ chal[flow[f].live].st # "none"
                                       /\ chal[flow[f].live].to = flow[f].owner
           /\ flow[f].ch # NoChal => /\ flow[f].pc \in {"insert", "store", "over"}
                                     /\ flow[f].ch \in flow[f].covered
                                     /\ chal[flow[f].ch].st # "none"
                                     /\ chal[flow[f].ch].to = flow[f].owner
    /\ \A r \in Held : flow[r.flow].pc = "over" /\ r.ch = flow[r.flow].ch
    /\ \A r \in scans : /\ flow[r.flow].pc = "over"
                        /\ r.ch \in {flow[r.flow].live, flow[r.flow].ch}

\* An issued challenge stays issued, to the same user.
LEMMA IssuedForGood ==
    ASSUME TypeInv, [Next]_vars
    PROVE  \A c \in Chals : \/ chal[c].st = "none"
                            \/ chal'[c].st # "none" /\ chal'[c].to = chal[c].to
  <1> DEFINE Good == \A c \in Chals : \/ chal[c].st = "none"
                                      \/ chal'[c].st # "none" /\ chal'[c].to = chal[c].to
  <1>0. chal \in [Chals -> Challenge]
    BY DEF TypeInv, TypeOK
  <1>1. CASE UNCHANGED chal
    BY <1>1
  <1>2. ASSUME NEW S \in SUBSET Fresh, NEW o, NEW st, NEW b, chal' = Issued(S, o, st, b)
        PROVE  Good
    <2>1. \A c \in S : chal[c].st = "none"
      BY DEF Fresh
    <2>2. \A c \in Chals \ S : chal'[c] = chal[c]
      BY <1>2 DEF Issued
    <2> QED
      BY <2>1, <2>2
  <1>3. ASSUME NEW c, chal' = [chal EXCEPT ![c].st = "used"]
        PROVE  Good
    BY <1>0, <1>3 DEF Challenge
  <1>4. CASE \E c \in Chals : Lapse(c)
    BY <1>0, <1>4 DEF Lapse, Challenge
  <1>5. CASE DeleteAtServer
    BY <1>0, <1>5 DEF DeleteAtServer, Challenge
  <1>6. ASSUME NEW f \in Flows, AcquireLive(f) PROVE Good
    <2>1. \/ UNCHANGED chal
          \/ \E c \in Fresh, st \in {"open", "used"} :
                 chal' = Issued({c}, flow[f].owner, st, FALSE)
      BY <1>6 DEF AcquireLive, TryLive
    <2>2. ASSUME NEW c \in Fresh, NEW st,
                 chal' = Issued({c}, flow[f].owner, st, FALSE)
          PROVE  Good
      <3> HIDE DEF Good
      <3> QED
        BY <1>2, <2>2
    <2> QED
      BY <1>1, <2>1, <2>2
  <1>7. ASSUME NEW f \in Flows, PostScan(f) PROVE Good
    BY <1>1, <1>3, <1>7 DEF PostScan
  <1>8. ASSUME NEW r \in items \cup markers, RedeemHeld(r) PROVE Good
    BY <1>3, <1>8 DEF RedeemHeld
  <1>9. ASSUME NEW u \in Users, AnswerChallenges(u) PROVE Good
    BY <1>2, <1>9, ZenonT(30) DEF AnswerChallenges, IssuePrefetched, Pick
  <1>10. CASE UNCHANGED vars
    BY <1>10 DEF vars
  <1>11. ASSUME NEW u \in Users, AskChallenges(u) \/ LoseChallenges(u) \/ StoreChallenges(u)
         PROVE  UNCHANGED chal
    BY <1>11 DEF AskChallenges, LoseChallenges, StoreChallenges
  <1>12. ASSUME NEW f \in Flows,
                \/ Tap(f) \/ Fix(f) \/ BeginEnqueue(f) \/ RecheckReserve(f)
                \/ Consume(f) \/ Enqueue(f) \/ InsertItem(f) \/ InsertMarker(f)
         PROVE  UNCHANGED chal
    BY <1>12 DEF Tap, Fix, BeginEnqueue, RecheckReserve, Consume, Enqueue,
                 InsertItem, InsertMarker
  <1>13. ASSUME \/ TopUp \/ WipeSession \/ WipeOutbox \/ WipeChallenges \/ WipeMarkers
                \/ WipePartly \/ \E u \in Users \cup {Nobody} : SignIn(u)
                \/ \E m \in markers : MarkerDone(m)
         PROVE  UNCHANGED chal
    BY <1>13 DEF TopUp, WipeSession, WipeOutbox, WipeChallenges, WipeMarkers, WipePartly,
                 SignIn, MarkerDone
  <1> QED
    BY <1>1, <1>4, <1>5, <1>6, <1>7, <1>8, <1>9, <1>10, <1>11, <1>12, <1>13 DEF Next

LEMMA CoverImplies == TypeInv /\ CoverInv => ChallengeCoversFix
  <1> SUFFICES ASSUME TypeInv, CoverInv, NEW r \in Records, r.ch # NoChal
               PROVE  /\ chal[r.ch].to = flow[r.flow].owner
                      /\ \/ r.ch \in flow[r.flow].covered
                         \/ r \in scans /\ r.ch = flow[r.flow].live
    BY DEF ChallengeCoversFix
  <1>1. r.flow \in Flows
    BY DEF TypeInv, TypeOK, Records, Record
  <1>2. r.ch = flow[r.flow].ch \/ (r \in scans /\ r.ch = flow[r.flow].live)
    BY DEF CoverInv, Records, Held
  <1> QED
    BY <1>1, <1>2 DEF CoverInv

\* The flow f takes a step by which only what it holds may change.
LEMMA CoverStep ==
    ASSUME TypeInv, CoverInv, [Next]_vars, NEW f \in Flows,
           flow[f].pc # "over",
           \A g \in Flows \ {f} : flow'[g] = flow[g],
           flow'[f].pc # "idle",
           flow'[f].owner = flow[f].owner \/ flow[f].pc = "idle",
           \/ flow'[f].live \in {flow[f].live, NoChal}
           \/ flow'[f].live \in Chals /\ chal'[flow'[f].live].st # "none"
                                     /\ chal'[flow'[f].live].to = flow[f].owner
                                     /\ flow[f].pc # "idle",
           \/ flow'[f].ch = NoChal
           \/ /\ flow'[f].ch \in Chals /\ chal'[flow'[f].ch].st # "none"
              /\ chal'[flow'[f].ch].to = flow'[f].owner
              /\ flow'[f].ch \in flow'[f].covered /\ flow'[f].pc \in {"insert", "store", "over"},
           \A r \in Held' : \/ r \in Held
                            \/ r.flow = f /\ r.ch = flow'[f].ch /\ flow'[f].pc = "over",
           \A r \in scans' : \/ r \in scans
                             \/ /\ r.flow = f /\ flow'[f].pc = "over"
                                /\ r.ch \in {flow'[f].live, flow'[f].ch}
    PROVE  CoverInv'
  <1>1. \A r \in Held \cup scans : r.flow \in Flows \ {f}
    BY DEF TypeInv, TypeOK, Held, Record, CoverInv
  <1>2. \A g \in Flows : /\ flow[g].live \in Chals \cup {NoChal}
                         /\ flow[g].ch \in Chals \cup {NoChal}
    BY DEF TypeInv, TypeOK, Flow
  <1>3. \A c \in Chals : \/ chal[c].st = "none"
                         \/ chal'[c].st # "none" /\ chal'[c].to = chal[c].to
    BY IssuedForGood
  <1>4. /\ \A r \in Held' : flow'[r.flow].pc = "over" /\ r.ch = flow'[r.flow].ch
        /\ \A r \in scans' : /\ flow'[r.flow].pc = "over"
                             /\ r.ch \in {flow'[r.flow].live, flow'[r.flow].ch}
    BY <1>1 DEF CoverInv
  <1>5. ASSUME NEW g \in Flows \ {f}
        PROVE  /\ flow'[g].pc = "idle" => flow'[g].live = NoChal
               /\ flow'[g].live # NoChal => /\ chal'[flow'[g].live].st # "none"
                                            /\ chal'[flow'[g].live].to = flow'[g].owner
               /\ flow'[g].ch # NoChal => /\ flow'[g].pc \in {"insert", "store", "over"}
                                          /\ flow'[g].ch \in flow'[g].covered
                                          /\ chal'[flow'[g].ch].st # "none"
                                          /\ chal'[flow'[g].ch].to = flow'[g].owner
    BY <1>2, <1>3 DEF CoverInv
  <1>6. flow'[f].live # NoChal => /\ chal'[flow'[f].live].st # "none"
                                  /\ chal'[flow'[f].live].to = flow'[f].owner
    BY <1>2, <1>3 DEF CoverInv
  <1> QED
    BY <1>4, <1>5, <1>6 DEF CoverInv, Held

\* The flow f gives up: it holds nothing any more.
LEMMA GiveUpCover ==
    ASSUME TypeInv, CoverInv, [Next]_vars, NEW f \in Flows, GiveUp(f),
           flow[f].pc \notin {"idle", "over"}, UNCHANGED records
    PROVE  CoverInv'
  <1>1. flow \in [Flows -> Flow] /\ flow[f] \in Flow
    BY DEF TypeInv, TypeOK
  <1>2. /\ flow'[f].pc = "over" /\ flow'[f].owner = flow[f].owner
        /\ flow'[f].live = NoChal /\ flow'[f].ch = NoChal
    BY <1>1 DEF GiveUp, Flow
  <1>3. \A g \in Flows \ {f} : flow'[g] = flow[g]
    BY <1>1 DEF GiveUp
  <1> QED
    BY <1>2, <1>3, CoverStep DEF Held

LEMMA FlowStepCover ==
    ASSUME TypeInv, SpentInv, CoverInv, NEW f \in Flows,
           \/ Tap(f) \/ AcquireLive(f) \/ Fix(f) \/ BeginEnqueue(f)
           \/ RecheckReserve(f) \/ Consume(f) \/ Enqueue(f) \/ InsertItem(f)
           \/ InsertMarker(f) \/ PostScan(f)
    PROVE  CoverInv'
  <1>0. /\ flow[f] \in Flow /\ flow[f].kind \in {"play", "marker", "scan"} /\ [Next]_vars
        /\ flow[f].live \in Chals \cup {NoChal} /\ flow[f].ch \in Chals \cup {NoChal}
        /\ flow[f].covered \subseteq Chals /\ flow \in [Flows -> Flow]
    BY DEF Next, TypeInv, TypeOK, CoverInv, Flow
  <1>1. CASE Tap(f)
    <2>1. flow[f].pc = "idle" /\ UNCHANGED <<chal, records>>
      BY <1>1 DEF Tap
    <2>2. /\ flow'[f].kind = flow[f].kind /\ flow'[f].pc # "idle"
          /\ flow'[f].live = flow[f].live /\ flow'[f].ch = flow[f].ch
          /\ \A g \in Flows \ {f} : flow'[g] = flow[g]
      BY <1>0, <1>1 DEF Tap, Flow
    <2>3. flow[f].ch = NoChal
      BY <2>1 DEF CoverInv
    <2> QED
      BY <1>0, <2>1, <2>2, <2>3, CoverStep DEF Held
  <1>2. CASE AcquireLive(f)
    <2>1. /\ flow[f].pc = "live" /\ UNCHANGED <<pool, records>>
          /\ \E p, q \in {"fix", "insert", "consume"} : TryLive(f, p, q)
      BY <1>2 DEF AcquireLive
    <2> PICK p \in {"fix", "insert", "consume"}, q \in {"fix", "insert", "consume"} :
              TryLive(f, p, q)
      BY <2>1
    <2>2. flow[f].ch = NoChal
      BY <2>1 DEF CoverInv
    <2>3. ASSUME NEW c \in Fresh, chal' = Issued({c}, flow[f].owner, "used", FALSE),
                 flow' = [flow EXCEPT ![f].live = c, ![f].pc = p]
          PROVE  CoverInv'
      <3>1. c \in Chals /\ chal'[c].st = "used" /\ chal'[c].to = flow[f].owner
        BY <2>3 DEF Fresh, Issued
      <3>2. /\ flow'[f] = [flow[f] EXCEPT !.live = c, !.pc = p]
            /\ \A g \in Flows \ {f} : flow'[g] = flow[g]
        BY <1>0, <2>3
      <3>3. /\ flow'[f].kind = flow[f].kind /\ flow'[f].pc = p
            /\ flow'[f].live = c /\ flow'[f].ch = flow[f].ch
            /\ flow'[f].owner = flow[f].owner
        BY <1>0, <3>2 DEF Flow
      <3> QED
        BY <1>0, <2>1, <2>2, <3>1, <3>2, <3>3, CoverStep DEF Held
    <2>4. CASE Goto(f, q)
      <3>1. /\ flow'[f].kind = flow[f].kind /\ flow'[f].pc = q
            /\ flow'[f].live = flow[f].live /\ flow'[f].ch = flow[f].ch
            /\ flow'[f].owner = flow[f].owner
            /\ \A g \in Flows \ {f} : flow'[g] = flow[g]
        BY <1>0, <2>4 DEF Goto, Flow
      <3> QED
        BY <1>0, <2>1, <2>2, <3>1, CoverStep DEF Held
    <2> QED
      BY <2>3, <2>4 DEF TryLive
  <1>3. CASE Fix(f)
    <2>1. flow[f].pc = "fix" /\ UNCHANGED <<chal, records>>
      BY <1>3 DEF Fix
    <2>2. flow[f].ch = NoChal
      BY <2>1 DEF CoverInv
    <2>3. CASE GiveUp(f)
      BY <1>0, <2>1, <2>3, GiveUpCover
    <2>4. CASE ~GiveUp(f)
      <3> DEFINE p == CASE flow[f].kind = "play" -> "enqueue"
                        [] flow[f].kind = "marker" -> "reserve"
                        [] flow[f].kind = "scan" -> "live"
      <3>1. p \in PCs \ {"idle"}
        BY <1>0
      <3>2. PICK S : flow' = [flow EXCEPT ![f].covered = S, ![f].pc = p]
        BY <1>3, <2>4 DEF Fix
      <3> HIDE DEF p
      <3>3. /\ flow'[f] = [flow[f] EXCEPT !.covered = S, !.pc = p]
            /\ \A g \in Flows \ {f} : flow'[g] = flow[g]
        BY <1>0, <3>2
      <3>4. /\ flow'[f].pc # "idle" /\ flow'[f].owner = flow[f].owner
            /\ flow'[f].live = flow[f].live /\ flow'[f].ch = flow[f].ch
        BY <1>0, <3>1, <3>3 DEF Flow
      <3> QED
        BY <1>0, <2>1, <2>2, <3>3, <3>4, CoverStep DEF Held
    <2> QED
      BY <2>3, <2>4
  <1>4. CASE BeginEnqueue(f)
    <2>1. flow[f].pc = "enqueue" /\ UNCHANGED <<chal, records>>
      BY <1>4 DEF BeginEnqueue
    <2>2. flow[f].ch = NoChal
      BY <2>1 DEF CoverInv
    <2>3. CASE GiveUp(f)
      BY <1>0, <2>1, <2>3, GiveUpCover
    <2>4. CASE ~GiveUp(f)
      <3>1. /\ flow'[f].pc # "idle"
            /\ flow'[f].live = flow[f].live /\ flow'[f].covered = flow[f].covered
            /\ \/ flow'[f].ch = NoChal
               \/ /\ flow'[f].ch = flow[f].live /\ flow[f].live \in flow[f].covered
                  /\ flow'[f].pc = "insert"
            /\ flow'[f].owner = flow[f].owner
            /\ \A g \in Flows \ {f} : flow'[g] = flow[g]
        BY <1>0, <1>4, <2>2, <2>4 DEF BeginEnqueue, Goto, Flow
      <3>2. flow[f].live # NoChal => /\ chal[flow[f].live].st # "none"
                                     /\ chal[flow[f].live].to = flow[f].owner
        BY DEF CoverInv
      <3> QED
        BY <1>0, <2>1, <3>1, <3>2, CoverStep, NobodyAssumption DEF Held
    <2> QED
      BY <2>3, <2>4
  <1>5. CASE RecheckReserve(f)
    <2>1. flow[f].pc = "reserve" /\ UNCHANGED <<chal, records>>
      BY <1>5 DEF RecheckReserve
    <2>2. flow[f].ch = NoChal
      BY <2>1 DEF CoverInv
    <2>3. CASE GiveUp(f)
      BY <1>0, <2>1, <2>3, GiveUpCover
    <2>4. CASE Goto(f, "consume")
      <3>1. /\ flow'[f].pc # "idle"
            /\ flow'[f].live = flow[f].live /\ flow'[f].ch = flow[f].ch
            /\ flow'[f].owner = flow[f].owner
            /\ \A g \in Flows \ {f} : flow'[g] = flow[g]
        BY <1>0, <2>4 DEF Goto, Flow
      <3> QED
        BY <1>0, <2>1, <2>2, <3>1, CoverStep DEF Held
    <2> QED
      BY <1>5, <2>3, <2>4 DEF RecheckReserve
  <1>6. CASE Consume(f)
    <2>1. flow[f].pc = "consume" /\ UNCHANGED <<chal, records>>
      BY <1>6 DEF Consume
    <2>2. flow[f].ch = NoChal
      BY <2>1 DEF CoverInv
    <2>3. ASSUME NEW c \in Chals, Qualifies(f, c),
                 flow' = [flow EXCEPT ![f].ch = c, ![f].pc = "insert"]
          PROVE  CoverInv'
      <3>1. /\ chal[c].to = flow[f].owner /\ c \in flow[f].covered
            /\ chal[c].st # "none"
        BY <2>3 DEF Qualifies, Usable, SpentInv, Places, UnissuedIsNowhere
      <3>2. /\ flow'[f] = [flow[f] EXCEPT !.ch = c, !.pc = "insert"]
            /\ \A g \in Flows \ {f} : flow'[g] = flow[g]
        BY <1>0, <2>3
      <3>3. /\ flow'[f].kind = flow[f].kind /\ flow'[f].pc = "insert"
            /\ flow'[f].live = flow[f].live /\ flow'[f].ch = c
            /\ flow'[f].owner = flow[f].owner /\ flow'[f].covered = flow[f].covered
        BY <1>0, <3>2 DEF Flow
      <3> QED
        BY <1>0, <2>1, <3>1, <3>2, <3>3, CoverStep DEF Held
    <2>4. CASE Goto(f, "insert")
      <3>1. /\ flow'[f].pc = "insert"
            /\ flow'[f].live = flow[f].live /\ flow'[f].ch = flow[f].ch
            /\ flow'[f].owner = flow[f].owner
            /\ \A g \in Flows \ {f} : flow'[g] = flow[g]
        BY <1>0, <2>4 DEF Goto, Flow
      <3> QED
        BY <1>0, <2>1, <2>2, <3>1, CoverStep DEF Held
    <2>5. CASE GiveUp(f)
      BY <1>0, <2>1, <2>5, GiveUpCover
    <2> QED
      BY <1>6, <2>3, <2>4, <2>5 DEF Consume
  <1>7. flow[f].ch # NoChal => /\ flow[f].ch \in flow[f].covered
                               /\ chal[flow[f].ch].st # "none"
                               /\ chal[flow[f].ch].to = flow[f].owner
    BY DEF CoverInv
  <1>8. CASE Enqueue(f)
    <2>1. flow[f].pc = "insert" /\ UNCHANGED <<chal, records>>
      BY <1>8 DEF Enqueue
    <2>2. CASE GiveUp(f)
      BY <1>0, <2>1, <2>2, GiveUpCover
    <2>3. CASE flow' = [flow EXCEPT ![f].row = user, ![f].pc = "store"]
      <3>1. /\ flow'[f].pc = "store" /\ flow'[f].owner = flow[f].owner
            /\ flow'[f].live = flow[f].live /\ flow'[f].ch = flow[f].ch
            /\ flow'[f].covered = flow[f].covered
            /\ \A g \in Flows \ {f} : flow'[g] = flow[g]
        BY <1>0, <2>3 DEF Flow
      <3> QED
        BY <1>0, <1>7, <2>1, <3>1, CoverStep DEF Held
    <2> QED
      BY <1>8, <2>2, <2>3 DEF Enqueue, EnqueueItem
  <1>9. CASE InsertItem(f)
    <2>1. flow[f].pc = "store" /\ UNCHANGED <<chal, markers, scans>>
      BY <1>9 DEF InsertItem
    <2>2. CASE GiveUp(f) /\ UNCHANGED items
      BY <1>0, <2>1, <2>2, GiveUpCover
    <2>3. CASE /\ items' = items \cup {Rec(f, flow[f].row)}
               /\ flow' = [flow EXCEPT ![f].row = Nobody, ![f].pc = "over"]
      <3>1. /\ flow'[f].pc = "over" /\ flow'[f].owner = flow[f].owner
            /\ flow'[f].live = flow[f].live /\ flow'[f].ch = flow[f].ch
            /\ flow'[f].covered = flow[f].covered
            /\ \A g \in Flows \ {f} : flow'[g] = flow[g]
        BY <1>0, <2>3 DEF Flow
      <3>2. \A r \in Held' : r \in Held \/ (r.flow = f /\ r.ch = flow[f].ch)
        BY <2>1, <2>3 DEF Held, Rec
      <3> QED
        BY <1>0, <1>7, <2>1, <3>1, <3>2, CoverStep
    <2> QED
      BY <1>9, <2>2, <2>3 DEF InsertItem
  <1>10. CASE InsertMarker(f)
    <2>1. flow[f].pc = "insert" /\ UNCHANGED <<chal, items, scans>>
      BY <1>10 DEF InsertMarker
    <2>2. /\ flow'[f].pc = "over" /\ flow'[f].owner = flow[f].owner
          /\ flow'[f].live = flow[f].live /\ flow'[f].ch = flow[f].ch
          /\ flow'[f].covered = flow[f].covered
          /\ \A g \in Flows \ {f} : flow'[g] = flow[g]
      BY <1>0, <1>10 DEF InsertMarker, Goto, Flow
    <2>3. \A r \in Held' : r \in Held \/ (r.flow = f /\ r.ch = flow[f].ch)
      BY <1>10, <2>1 DEF InsertMarker, Held, Rec
    <2> QED
      BY <1>0, <1>7, <2>1, <2>2, <2>3, CoverStep
  <1>11. CASE PostScan(f)
    <2>1. flow[f].pc = "insert" /\ UNCHANGED <<items, markers>>
      BY <1>11 DEF PostScan
    <2>2. CASE GiveUp(f) /\ UNCHANGED <<chal, scans>>
      BY <1>0, <2>1, <2>2, GiveUpCover
    <2>3. CASE Goto(f, "over")
      <3>1. /\ flow'[f].pc = "over" /\ flow'[f].owner = flow[f].owner
            /\ flow'[f].live = flow[f].live /\ flow'[f].ch = flow[f].ch
            /\ flow'[f].covered = flow[f].covered
            /\ \A g \in Flows \ {f} : flow'[g] = flow[g]
        BY <1>0, <2>3 DEF Goto, Flow
      <3>2. \A r \in scans' :
               r \in scans \/ (r.flow = f /\ r.ch \in {flow[f].live, flow[f].ch})
        <4>1. PICK c \in {flow[f].live, flow[f].ch} :
                 scans' \in {scans, scans \cup {[flow |-> f, owner |-> flow[f].owner,
                                               ch |-> c]}}
          BY <1>11 DEF PostScan
        <4> QED
          BY <4>1
      <3>3. \A c \in Chals : \/ chal[c].st = "none"
                             \/ chal'[c].st # "none" /\ chal'[c].to = chal[c].to
        BY <1>0, IssuedForGood
      <3> QED
        BY <1>0, <1>7, <2>1, <3>1, <3>2, <3>3, CoverStep DEF Held
    <2> QED
      BY <1>11, <2>2, <2>3 DEF PostScan
  <1> QED
    BY <1>1, <1>2, <1>3, <1>4, <1>5, <1>6, <1>8, <1>9, <1>10, <1>11

LEMMA NextCover == TypeInv /\ SpentInv /\ CoverInv /\ [Next]_vars => CoverInv'
  <1> SUFFICES ASSUME TypeInv, SpentInv, CoverInv, [Next]_vars PROVE CoverInv'
    OBVIOUS
  <1>1. ASSUME UNCHANGED <<flow, scans>>, items' \subseteq items, markers' \subseteq markers
        PROVE  CoverInv'
    <2>1. \A f \in Flows : /\ flow[f].live \in Chals \cup {NoChal}
                           /\ flow[f].ch \in Chals \cup {NoChal}
      BY DEF TypeInv, TypeOK, Flow
    <2>2. Held' \subseteq Held
      BY <1>1 DEF Held
    <2> QED
      BY <1>1, <2>1, <2>2, IssuedForGood DEF CoverInv
  <1>2. ASSUME \/ UNCHANGED vars
               \/ TopUp \/ DeleteAtServer \/ WipeSession \/ WipeOutbox
               \/ WipeChallenges \/ WipeMarkers \/ WipePartly
               \/ \E u \in Users : \/ AskChallenges(u) \/ AnswerChallenges(u)
                                   \/ LoseChallenges(u) \/ StoreChallenges(u)
               \/ \E u \in Users \cup {Nobody} : SignIn(u)
               \/ \E c \in Chals : Lapse(c)
               \/ \E r \in items \cup markers : RedeemHeld(r)
               \/ \E m \in markers : MarkerDone(m)
        PROVE  /\ UNCHANGED <<flow, scans>>
               /\ items' \subseteq items /\ markers' \subseteq markers
    BY <1>2 DEF vars, TopUp, DeleteAtServer, WipeSession, WipeOutbox, WipeChallenges,
                WipeMarkers, WipePartly, AskChallenges, AnswerChallenges, LoseChallenges,
                StoreChallenges, SignIn, Lapse, RedeemHeld, MarkerDone
  <1> QED
    BY <1>1, <1>2, FlowStepCover DEF Next

\* The challenge of every record was issued to the player who tapped, and it
\* covers the fix (consumeForFix), whatever the order of top-ups, fixes, expiries
\* and user switches; except the one a scan asked for after its fix.
THEOREM RecordsCovered == Spec => []ChallengeCoversFix
  <1>1. Init => CoverInv
    BY DEF Init, CoverInv, Held
  <1> QED
    BY <1>1, TypeInvariant, SpentInvariant, NextCover, CoverImplies, PTL DEF Spec
=============================================================================
