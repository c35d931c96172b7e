---------------------------- MODULE OutboxProofs ----------------------------
(***************************************************************************)
(* The outbox of Outbox.tla, proved in two layers.                         *)
(*                                                                         *)
(* OwnInv says whose the plays are: a pass holds rows of its user alone,   *)
(* its token, its request and every request still on its way are of the    *)
(* owner of each play in them.  It needs nothing of the store or network.  *)
(*                                                                         *)
(* CopiesInv says that every copy of a play, recorded or under way, is     *)
(* like its row.  It holds because a challenge is redeemed while there is  *)
(* no copy yet, and what the redemption taught is in the row before the    *)
(* request leaves (send.ts:10).  That needs the store to keep what it is   *)
(* told: StoreFaults = FALSE.  From it follow that replays are identical,  *)
(* and the refinement of PlayLedger.                                       *)
(***************************************************************************)
EXTENDS Outbox, FiniteSetTheorems, TLAPS

-----------------------------------------------------------------------------
(* The first invariant: whose the plays are.                               *)

Working == {"redeem", "persist", "post", "refresh", "apply"}
AfterToken == {"mark"} \cup Working

\* A pass works on rows of its user alone.
MineInv == \A i \in Sending \cup todo : Owner[i] = RunUser /\ row[i].status # "absent"

\* What the pass holds at each of its awaits.
PassInv ==
    /\ pc \in {"idle", "batch"} => Sending = {}
    /\ pc = "idle" => todo = {} /\ wire.st = "none"
    /\ pc # "idle" => RunUser \in Users
    /\ pc \in {"rematch", "token"} \cup AfterToken => Sending # {}
    /\ pc \in AfterToken => bearer = RunUser
    /\ pc \in Working => DOMAIN work = Sending
    /\ pc \in {"refresh", "apply"} => DOMAIN answer = Sending
    /\ pc = "persist" => answer = <<>> \/ DOMAIN answer = Sending
    /\ pc \notin {"persist", "refresh", "apply"} => answer = <<>>

\* The request the pass awaits is its own.
WireInv == /\ wire.st # "none" => pc = "post"
           /\ pc = "post" => /\ wire.st # "none" /\ wire.req.user = RunUser
                             /\ DOMAIN wire.req.body = Sending

\* What is left of the batches is as it was listed.
BatchInv == /\ pc \in {"idle", "batch"} => round = 0
            /\ pc \in {"item", "rematch"} => round # 0
            /\ round = 0 => \A i \in todo : i \notin Sending /\ row[i].status \in {"pending", "retry"}

\* A request nobody awaits any more carries plays of its sender.
LateOwned == \A q \in late : \A i \in DOMAIN q.body : q.user = Owner[i]

FlowInv == MineInv /\ PassInv /\ WireInv /\ BatchInv

OwnInv == TypeOK /\ FlowInv /\ LateOwned /\ PlaysBelongToOwner

-----------------------------------------------------------------------------
(* Functions on a set of plays, and the records of the model. *)

LEMMA FunIn ==
    ASSUME NEW T, NEW S \in SUBSET Items, NEW f \in [S -> T]
    PROVE  f \in FunsTo(T) /\ DOMAIN f = S
  BY DEF FunsTo

LEMMA FunOut ==
    ASSUME NEW T, NEW f \in FunsTo(T)
    PROVE  DOMAIN f \subseteq Items /\ f \in [DOMAIN f -> T]
  <1>1. PICK S \in SUBSET Items : f \in [S -> T]
    BY DEF FunsTo
  <1> QED
    BY <1>1

LEMMA NoFun ==
    ASSUME NEW T
    PROVE  <<>> \in FunsTo(T) /\ DOMAIN <<>> = {}
  <1>1. <<>> \in [{} -> T] /\ DOMAIN <<>> = {}
    OBVIOUS
  <1> QED
    BY <1>1, FunIn

\* Which field of a row each step changes.
LEMMA StatusEdit ==
    ASSUME NEW r \in Rows, NEW s \in Statuses
    PROVE  LET q == [r EXCEPT !.status = s]
           IN  /\ q \in Rows /\ q.status = s /\ q.cat = r.cat /\ q.rematch = r.rematch
               /\ q.listed = r.listed /\ q.ch = r.ch
  BY DEF Rows

LEMMA TokensEdit ==
    ASSUME NEW r \in Rows, NEW h \in [Fixes -> Challenges]
    PROVE  LET q == [r EXCEPT !.ch = h]
           IN  /\ q \in Rows /\ q.status = r.status /\ q.cat = r.cat /\ q.rematch = r.rematch
               /\ q.listed = r.listed /\ q.ch = h
  BY DEF Rows

AnswerStatus(a) == CASE a \in {"accepted", "queued"} -> a
                     [] a = "stale" -> "pending"
                     [] a \in {"retry", "unauthorized"} -> "retry"
                     [] a \in {"refused", "conflict"} -> "needs_attention"

LEMMA AnsweredRow ==
    ASSUME NEW r \in Rows, NEW a \in Answers
    PROVE  /\ AnswerStatus(a) \in Statuses
           /\ Answered(r, a) = [status |-> AnswerStatus(a), cat |-> r.cat,
                                rematch |-> (a = "stale"), listed |-> r.listed, ch |-> r.ch]
           /\ Answered(r, a) \in Rows
  <1>1. AnswerStatus(a) \in Statuses
    BY DEF AnswerStatus, Answers, Statuses
  <1> DEFINE q == [status |-> AnswerStatus(a), cat |-> r.cat, rematch |-> (a = "stale"),
                   listed |-> r.listed, ch |-> r.ch]
  <1>2. Answered(r, a) = [r EXCEPT !.status = AnswerStatus(a), !.rematch = (a = "stale")]
    BY DEF Answered, AnswerStatus
  <1>4. Answered(r, a) = q
    BY <1>2 DEF Rows
  <1>3. q \in Rows
    BY <1>1 DEF Rows
  <1> QED
    BY <1>1, <1>3, <1>4

LEMMA RematchedRow ==
    ASSUME NEW r \in Rows, NEW c \in Cats, NEW q \in Rematched(r, c)
    PROVE  /\ q \in Rows /\ ~q.rematch /\ q.ch = r.ch
           /\ \/ q.status = r.status /\ q.cat = c
              \/ q.status = "needs_attention" /\ q.cat = r.cat
  BY DEF Rematched, Rows, Statuses
-----------------------------------------------------------------------------
(* The parts of the next state. *)

SessionTyped == user' \in Users \cup {Nobody} /\ lapsed' \in [Items -> BOOLEAN]
StoreTyped == /\ row' \in [Items -> Rows] /\ aged' \in [Items -> BOOLEAN] /\ devCat' \in Cats
PassTyped == /\ chain' \in Seq(Users \cup {Nobody})
             /\ pc' \in PCs /\ (chain' = <<>> => pc' = "idle")
             /\ todo' \in SUBSET Items
             /\ round' \in 0..2 /\ refreshed' \in BOOLEAN
SendTyped == /\ prior' \in FunsTo({"pending", "retry"})
             /\ work' \in FunsTo([Fixes -> Challenges])
             /\ forced' \in BOOLEAN
             /\ bearer' \in Users \cup {Nobody}
             /\ answer' \in FunsTo(Answers)
WireTyped == /\ wire' = NoWire \/ wire'.st \in {"sent", "answered"}
             /\ wire'.st # "none" => wire'.req \in Requests
             /\ wire'.st = "answered" => wire'.ans \in [DOMAIN wire'.req.body -> Answers]
ServerTyped == /\ token' \in [Items -> [Fixes -> {"open", "issued", "dead"}]]
               /\ ledger' \in [Users -> [Items -> Records]]
               /\ srvCat' \in Cats /\ srvOld' \in 1..srvCat'
RestTyped == late' \subseteq Requests /\ faults' \in 0..MaxFaults

LEMMA OwnParts ==
    ASSUME SessionTyped, StoreTyped, PassTyped, SendTyped, WireTyped, ServerTyped, RestTyped,
           FlowInv', LateOwned', PlaysBelongToOwner'
    PROVE  OwnInv'
  BY DEF OwnInv, TypeOK, SessionTyped, StoreTyped, PassTyped, SendTyped, WireTyped,
         ServerTyped, RestTyped

LEMMA FaultCounted ==
    ASSUME TypeOK, UNCHANGED faults \/ Fault
    PROVE  faults' \in 0..MaxFaults
  BY BoundsAssumption DEF TypeOK, Fault

\* What a step leaves alone keeps its type.
LEMMA Still ==
    ASSUME OwnInv
    PROVE  /\ UNCHANGED session => SessionTyped
           /\ UNCHANGED store => StoreTyped
           /\ UNCHANGED <<chain, pc, todo, round, refreshed>> => PassTyped
           /\ UNCHANGED sending => SendTyped
           /\ UNCHANGED wire => WireTyped
           /\ UNCHANGED server => ServerTyped
           /\ UNCHANGED late /\ (UNCHANGED faults \/ Fault) => RestTyped
           /\ UNCHANGED late => LateOwned'
           /\ UNCHANGED ledger => PlaysBelongToOwner'
  <1>1. UNCHANGED faults \/ Fault => faults' \in 0..MaxFaults
    BY FaultCounted DEF OwnInv
  <1> QED
    BY <1>1 DEF OwnInv, TypeOK, LateOwned, PlaysBelongToOwner, SessionTyped, StoreTyped,
       PassTyped, SendTyped, WireTyped, ServerTyped, RestTyped, session, store, sending, server

LEMMA Running ==
    ASSUME OwnInv
    PROVE  /\ chain # <<>> => chain[1] \in Users \cup {Nobody}
           /\ chain # <<>> => Tail(chain) \in Seq(Users \cup {Nobody})
           /\ pc # "idle" => chain # <<>>
           /\ Sending \subseteq Items /\ prior \in [Sending -> {"pending", "retry"}]
           /\ work \in [DOMAIN work -> [Fixes -> Challenges]] /\ DOMAIN work \subseteq Items
           /\ answer \in [DOMAIN answer -> Answers] /\ DOMAIN answer \subseteq Items
           /\ pc # "post" => wire.st = "none"
  BY FunOut DEF OwnInv, FlowInv, TypeOK, WireInv, Sending

\* A step that leaves the pass alone, and the status of what it does not send.
RowsLeft == /\ \A i \in Items \ Sending : row'[i].status = row[i].status \/ row[i].status = "absent"
            /\ \A i \in Sending : row'[i].status # "absent"

LEMMA FlowStill ==
    ASSUME OwnInv, UNCHANGED <<pc, todo, round, sending, wire>>, RowsLeft,
           pc # "idle" => chain'[1] = chain[1]
    PROVE  FlowInv'
  <1>1. Sending' = Sending /\ Sending \subseteq Items /\ todo \subseteq Items
    BY Running DEF Sending, sending, OwnInv, TypeOK
  <1>2. MineInv'
    BY <1>1 DEF OwnInv, FlowInv, MineInv, PassInv, RunUser, RowsLeft
  <1>3. PassInv' /\ WireInv'
    BY <1>1 DEF OwnInv, FlowInv, PassInv, WireInv, sending, RunUser, AfterToken, Working
  <1>4. BatchInv'
    BY <1>1 DEF OwnInv, FlowInv, BatchInv, RowsLeft
  <1> QED
    BY <1>2, <1>3, <1>4 DEF FlowInv

LEMMA Ended ==
    ASSUME OwnInv, EndPass, chain # <<>>, UNCHANGED wire \/ wire' = NoWire, wire'.st = "none"
    PROVE  PassTyped /\ SendTyped /\ WireTyped /\ FlowInv'
  <1>1. /\ chain' = Tail(chain) /\ pc' = "idle" /\ todo' = {} /\ round' = 0
        /\ refreshed' = FALSE /\ prior' = <<>> /\ work' = <<>> /\ answer' = <<>>
        /\ forced' = FALSE /\ bearer' = Nobody
    BY DEF EndPass, ClearSend
  <1>2. PassTyped
    <2>1. Tail(chain) \in Seq(Users \cup {Nobody})
      BY Running
    <2>2. pc' \in PCs /\ todo' \in SUBSET Items
      BY <1>1 DEF PCs
    <2>3. 0 \in 0..2
      OBVIOUS
    <2>4. round' \in 0..2 /\ refreshed' \in BOOLEAN
      BY <1>1, <2>3
    <2> QED
      BY <1>1, <2>1, <2>2, <2>4, Zenon DEF PassTyped
  <1>3. SendTyped
    BY <1>1, NoFun DEF SendTyped
  <1>4. WireTyped
    BY Still DEF WireTyped, NoWire
  <1>5. Sending' = {}
    BY <1>1, NoFun DEF Sending
  <1>6. FlowInv'
    BY <1>1, <1>5 DEF FlowInv, MineInv, PassInv, WireInv, BatchInv, AfterToken, Working
  <1> QED
    BY <1>2, <1>3, <1>4, <1>6

LEMMA RequestIn ==
    ASSUME NEW S \in SUBSET Items, S # {}, NEW u \in Users, NEW b \in [S -> Bodies]
    PROVE  [user |-> u, body |-> b] \in Requests
  <1>1. [user |-> u, body |-> b] \in [user : Users, body : [S -> Bodies]]
    OBVIOUS
  <1>2. S \in (SUBSET Items) \ {{}}
    OBVIOUS
  <1> QED
    BY <1>1, <1>2, Zenon DEF Requests

LEMMA RequestOut ==
    ASSUME NEW q \in Requests
    PROVE  /\ q.user \in Users /\ DOMAIN q.body \subseteq Items
           /\ q.body \in [DOMAIN q.body -> Bodies]
  <1>1. PICK S \in SUBSET Items : q \in [user : Users, body : [S -> Bodies]]
    BY DEF Requests
  <1> QED
    BY <1>1

\* The send goes on: the request is out, or the next challenge is redeemed.
LEMMA Continued ==
    ASSUME OwnInv, Sending # {}, bearer = RunUser, RunUser \in Users, wire.st = "none",
           NEW w \in [Sending -> [Fixes -> Challenges]], Continue(w)
    PROVE  /\ work' \in [Sending -> [Fixes -> Challenges]]
           /\ \A i \in Sending, f \in Fixes : work'[i][f] = Drop(i, w[i][f])
           /\ WireTyped
           /\ \/ /\ pc' = "redeem" /\ UNCHANGED wire
                 /\ \E i \in Sending, f \in Fixes : work'[i][f].st = "held"
              \/ /\ pc' = "post" /\ wire'.st = "sent" /\ wire'.req \in Requests
                 /\ wire'.req.user = RunUser /\ DOMAIN wire'.req.body = Sending
                 /\ \A i \in Sending : wire'.req.body[i] =
                       [cat |-> row[i].cat, jtis |-> {f \in Fixes : work'[i][f] = Redeemed}]
                 /\ \A i \in Sending, f \in Fixes : work'[i][f].st # "held"
  <1> DEFINE v == [i \in Sending |-> [f \in Fixes |-> Drop(i, w[i][f])]]
             body(i) == [cat |-> row[i].cat, jtis |-> {f \in Fixes : v[i][f] = Redeemed}]
             held == \E i \in Sending, f \in Fixes : v[i][f].st = "held"
  <1>1. DOMAIN w = Sending /\ DOMAIN v = Sending
    OBVIOUS
  <1>2. /\ work' = v
        /\ IF held THEN pc' = "redeem" /\ UNCHANGED wire
           ELSE /\ pc' = "post"
                /\ wire' = [st |-> "sent", req |-> [user |-> bearer,
                                                    body |-> [i \in Sending |-> body(i)]]]
    BY <1>1 DEF Continue, IsHeld
  <1>3. None \in Challenges
    BY DEF Challenges
  <1>4. v \in [Sending -> [Fixes -> Challenges]]
    BY <1>3 DEF Drop
  <1>5. \A i \in Sending, f \in Fixes : v[i][f] = Drop(i, w[i][f])
    OBVIOUS
  <1>6. \A i \in Sending : body(i) \in Bodies
    BY Running DEF Bodies, OwnInv, TypeOK, Rows
  <1>7. [i \in Sending |-> body(i)] \in [Sending -> Bodies]
    BY <1>6
  <1>8. [user |-> bearer, body |-> [i \in Sending |-> body(i)]] \in Requests
    BY <1>7, Running, RequestIn
  <1> HIDE DEF v
  <1>9. CASE held
    BY <1>2, <1>4, <1>5, <1>9, Still
  <1>10. CASE ~held
    <2> DEFINE b == [i \in Sending |-> body(i)]
               q == [user |-> bearer, body |-> b]
    <2>1. DOMAIN b = Sending /\ \A i \in Sending : b[i] = body(i)
      OBVIOUS
    <2>2. q \in Requests
      BY <1>8
    <2>3. pc' = "post" /\ wire' = [st |-> "sent", req |-> q]
      BY <1>2, <1>10
    <2>4. q.user = bearer /\ q.body = b
      OBVIOUS
    <2> HIDE DEF q, b
    <2>5. wire'.st = "sent" /\ wire'.req = q
      BY <2>3
    <2>6. WireTyped
      BY <2>2, <2>5 DEF WireTyped
    <2>7. /\ wire'.req.user = RunUser /\ DOMAIN wire'.req.body = Sending
          /\ \A i \in Sending : wire'.req.body[i] = body(i)
      BY <2>1, <2>4, <2>5
    <2>8. \A i \in Sending : wire'.req.body[i] =
              [cat |-> row[i].cat, jtis |-> {f \in Fixes : work'[i][f] = Redeemed}]
      BY <1>2, <2>7
    <2>9. \A i \in Sending, f \in Fixes : work'[i][f].st # "held"
      BY <1>2, <1>10
    <2> HIDE DEF body, held
    <2> QED
      BY <1>2, <1>4, <1>5, <2>2, <2>3, <2>5, <2>6, <2>7, <2>8, <2>9
  <1> QED
    BY <1>9, <1>10
-----------------------------------------------------------------------------
(* The steps of a pass keep the plays apart by owner. *)

LEMMA StartedRow ==
    ASSUME TypeOK, NEW i \in Items, NEW u
    PROVE  /\ AtPassStart(i, u) \in Rows
           /\ AtPassStart(i, u).cat = row[i].cat /\ AtPassStart(i, u).ch = row[i].ch
           /\ AtPassStart(i, u).rematch = row[i].rematch
           /\ \/ AtPassStart(i, u) = row[i]
              \/ /\ row[i].status = "needs_attention" /\ aged[i]
                 /\ AtPassStart(i, u).status = "gone"
              \/ /\ row[i].status = "sent" /\ Owner[i] = u
                 /\ AtPassStart(i, u).status = "retry"
  BY DEF AtPassStart, TypeOK, Rows, Statuses

LEMMA BatchNotEmpty ==
    ASSUME NEW T \in SUBSET Items, T # {}, NEW S \in SUBSET T,
           Cardinality(S) = IF Cardinality(T) < BatchMax THEN Cardinality(T) ELSE BatchMax
    PROVE  S # {}
  <1>1. IsFiniteSet(T) /\ IsFiniteSet({})
    BY FS_Subset, FS_EmptySet, ItemsAssumption
  <1>2. Cardinality(T) # 0 /\ Cardinality({}) = 0
    BY <1>1, FS_EmptySet
  <1> QED
    BY <1>2, BoundsAssumption

LEMMA StartPassOwn ==
    ASSUME OwnInv, StartPass
    PROVE  OwnInv'
  <1>1. /\ pc = "idle" /\ chain # <<>>
        /\ UNCHANGED <<session, aged, devCat, wire, late, server, faults>>
    BY DEF StartPass
  <1>2. wire.st = "none" /\ round = 0 /\ todo = {} /\ Sending = {} /\ answer = <<>>
    BY <1>1 DEF OwnInv, FlowInv, PassInv, BatchInv
  <1>3. PICK u \in Users \cup {Nobody} : row' = [i \in Items |-> AtPassStart(i, u)]
    <2>1. RunUser \in Users \cup {Nobody}
      BY <1>1, Running DEF RunUser
    <2>2. \/ row' = [i \in Items |-> AtPassStart(i, Nobody)]
          \/ row' = [i \in Items |-> AtPassStart(i, RunUser)]
      BY DEF StartPass
    <2> QED
      BY <2>1, <2>2
  <1>4. row' \in [Items -> Rows]
    BY <1>3, StartedRow DEF OwnInv
  <1>5. StoreTyped
    BY <1>1, <1>4 DEF OwnInv, TypeOK, StoreTyped
  <1>6. \A i \in Items : row'[i].status = "absent" => row[i].status = "absent"
    BY <1>3, StartedRow DEF OwnInv
  <1>7. SessionTyped /\ ServerTyped /\ RestTyped /\ LateOwned' /\ PlaysBelongToOwner'
    BY <1>1, Still DEF server
  <1>8. CASE RunUser = Nobody \/ UserChanged
    BY <1>1, <1>2, <1>5, <1>7, <1>8, Ended, OwnParts DEF StartPass
  <1>9. CASE ~(RunUser = Nobody \/ UserChanged)
    <2>1. /\ todo' = {i \in Imports : Owner[i] = RunUser /\ ~row'[i].rematch /\ Due(i)'}
          /\ pc' = "batch"
          /\ UNCHANGED <<chain, round, refreshed, sending>>
      BY <1>9 DEF StartPass
    <2>2. RunUser \in Users
      BY <1>1, <1>9, Running DEF RunUser
    <2>3. todo' \subseteq Items
      BY <2>1, ItemsAssumption
    <2>4. \A i \in todo' : Owner[i] = RunUser /\ row'[i].status \in {"pending", "retry"}
      BY <2>1 DEF Due
    <2>5. PassTyped /\ SendTyped /\ WireTyped
      BY <1>1, <2>1, <2>3, Still DEF OwnInv, TypeOK, PassTyped, PCs
    <2>6. Sending' = {} /\ answer' = <<>> /\ RunUser' = RunUser
      BY <1>2, <2>1 DEF Sending, RunUser, sending
    <2>7. FlowInv'
      BY <1>1, <1>2, <2>1, <2>2, <2>4, <2>6
         DEF FlowInv, MineInv, PassInv, WireInv, BatchInv, AfterToken, Working
    <2> QED
      BY <1>5, <1>7, <2>5, <2>7, OwnParts
  <1> QED
    BY <1>8, <1>9

LEMMA NextBatchOwn ==
    ASSUME OwnInv, NextBatch
    PROVE  OwnInv'
  <1>1. pc = "batch" /\ UNCHANGED <<session, store, wire, late, server, faults>>
    BY DEF NextBatch
  <1>2. /\ wire.st = "none" /\ round = 0 /\ Sending = {} /\ answer = <<>> /\ chain # <<>>
        /\ RunUser \in Users
    BY <1>1, Running DEF OwnInv, FlowInv, PassInv, BatchInv
  <1>3. SessionTyped /\ StoreTyped /\ WireTyped /\ ServerTyped /\ RestTyped /\ LateOwned'
        /\ PlaysBelongToOwner'
    BY <1>1, Still DEF server
  <1>4. CASE todo = {}
    <2>1. /\ todo' = {i \in Items : Owner[i] = RunUser
                                    /\ row[i].status \notin {"absent", "gone"}}
          /\ pc' = "item" /\ round' = 1 /\ UNCHANGED <<chain, refreshed, sending>>
      BY <1>4 DEF NextBatch
    <2>2. PassTyped /\ SendTyped
      BY <1>1, <1>2, <2>1, Still DEF OwnInv, TypeOK, PassTyped, PCs
    <2>3. Sending' = {} /\ answer' = <<>> /\ RunUser' = RunUser /\ UNCHANGED <<row, wire>>
      BY <1>1, <1>2, <2>1 DEF Sending, RunUser, sending, store
    <2>4. FlowInv'
      BY <1>2, <2>1, <2>3 DEF FlowInv, MineInv, PassInv, WireInv, BatchInv, AfterToken, Working
    <2> QED
      BY <1>3, <2>2, <2>4, OwnParts
  <1>5. CASE todo # {} /\ UserChanged
    BY <1>1, <1>2, <1>3, <1>5, Ended, OwnParts DEF NextBatch
  <1>6. CASE todo # {} /\ ~UserChanged
    <2>1. PICK S \in SUBSET todo :
             /\ Cardinality(S) = IF Cardinality(todo) < BatchMax
                                 THEN Cardinality(todo) ELSE BatchMax
             /\ prior' = [i \in S |-> row[i].status]
             /\ todo' = todo \ S
             /\ pc' = "token"
             /\ UNCHANGED <<chain, round, refreshed, work, forced, bearer, answer>>
      BY <1>6 DEF NextBatch
    <2>2. todo \subseteq Items /\ S # {}
      BY <1>6, <2>1, BatchNotEmpty DEF OwnInv, TypeOK
    <2>3. \A i \in todo : row[i].status \in {"pending", "retry"}
      BY <1>2 DEF OwnInv, FlowInv, BatchInv
    <2>4. prior' \in [S -> {"pending", "retry"}]
      BY <2>1, <2>3
    <2>5. Sending' = S /\ RunUser' = RunUser /\ UNCHANGED <<row, wire, answer, round>>
      BY <1>1, <2>1 DEF Sending, RunUser, store
    <2>6. prior' \in FunsTo({"pending", "retry"})
      BY <2>2, <2>4, FunIn
    <2>7. PassTyped /\ SendTyped
      BY <1>2, <2>1, <2>2, <2>6 DEF OwnInv, TypeOK, PassTyped, SendTyped, PCs
    <2>8. \A i \in todo : Owner[i] = RunUser /\ row[i].status # "absent"
      BY DEF OwnInv, FlowInv, MineInv
    <2>9. FlowInv'
      BY <1>2, <2>1, <2>2, <2>3, <2>5, <2>8
         DEF FlowInv, MineInv, PassInv, WireInv, BatchInv, AfterToken, Working
    <2> QED
      BY <1>3, <2>7, <2>9, OwnParts
  <1> QED
    BY <1>4, <1>5, <1>6

LEMMA TurnOwn ==
    ASSUME OwnInv, NEW i \in Items, Turn(i)
    PROVE  OwnInv'
  <1>1. /\ pc = "item" /\ UNCHANGED <<session, store, wire, late, server, faults>>
        /\ i \in Sending \cup todo
    BY DEF Turn
  <1>2. /\ wire.st = "none" /\ round # 0 /\ answer = <<>> /\ chain # <<>> /\ RunUser \in Users
    BY <1>1, Running DEF OwnInv, FlowInv, PassInv, BatchInv
  <1>3. SessionTyped /\ StoreTyped /\ WireTyped /\ ServerTyped /\ RestTyped /\ LateOwned'
        /\ PlaysBelongToOwner'
    BY <1>1, Still DEF server
  <1>4. CASE UserChanged
    BY <1>1, <1>2, <1>3, <1>4, Ended, OwnParts DEF Turn
  <1>5. CASE ~UserChanged
    <2>1. /\ UNCHANGED <<chain, refreshed, work, forced, bearer, answer>>
          /\ UNCHANGED <<row, wire>> /\ RunUser' = RunUser
      BY <1>1, <1>5 DEF Turn, store, RunUser
    <2>2. \/ /\ pc' \in {"rematch", "token"} /\ UNCHANGED <<todo, round>>
             /\ \E s \in {"pending", "retry"} : prior' = [j \in {i} |-> s]
          \/ /\ pc' = "item" /\ todo' = todo \ {i} /\ round' = 1 /\ prior' = <<>>
      BY <1>1, <1>5 DEF Turn, Due
    <2>3. Sending' \subseteq {i} /\ (pc' # "item" => Sending' = {i})
      BY <2>2, NoFun DEF Sending
    <2>4. prior' \in FunsTo({"pending", "retry"})
      <3>1. CASE prior' = <<>>
        BY <3>1, NoFun
      <3>2. CASE \E s \in {"pending", "retry"} : prior' = [j \in {i} |-> s]
        <4>1. prior' \in [{i} -> {"pending", "retry"}]
          BY <3>2
        <4> QED
          BY <4>1, FunIn
      <3> QED
        BY <2>2, <3>1, <3>2
    <2>5. todo' \subseteq todo /\ round' \in 1..2
      BY <1>2, <2>2 DEF OwnInv, TypeOK
    <2>6. PassTyped
      BY <1>1, <1>2, <2>1, <2>2, <2>5 DEF OwnInv, TypeOK, PassTyped, PCs
    <2>7. SendTyped
      BY <2>1, <2>4 DEF OwnInv, TypeOK, SendTyped
    <2>8. \A j \in Sending \cup todo : Owner[j] = RunUser /\ row[j].status # "absent"
      BY DEF OwnInv, FlowInv, MineInv
    <2>9. MineInv'
      BY <1>1, <2>1, <2>3, <2>5, <2>8 DEF MineInv
    <2>10. PassInv' /\ WireInv' /\ BatchInv'
      BY <1>2, <2>1, <2>2, <2>3, <2>5 DEF PassInv, WireInv, BatchInv, AfterToken, Working
    <2> QED
      BY <1>3, <2>6, <2>7, <2>9, <2>10, OwnParts DEF FlowInv
  <1> QED
    BY <1>4, <1>5

LEMMA RematchOwn ==
    ASSUME OwnInv, Rematch
    PROVE  OwnInv'
  <1>1. /\ pc = "rematch" /\ pc' = "item" /\ refreshed' = TRUE
        /\ UNCHANGED <<session, chain, todo, round, sending, wire, late, server>>
        /\ devCat' = devCat \/ devCat' = MaxCat
        /\ UNCHANGED faults \/ Fault
    BY DEF Rematch
  <1> PICK i \in Sending : \E r \in Rematched(row[i], devCat') :
            row' = [row EXCEPT ![i] = r] /\ aged' = [aged EXCEPT ![i] = FALSE]
    BY DEF Rematch
  <1>2. PICK r \in Rematched(row[i], devCat') :
            row' = [row EXCEPT ![i] = r] /\ aged' = [aged EXCEPT ![i] = FALSE]
    OBVIOUS
  <1>3. /\ wire.st = "none" /\ round # 0 /\ answer = <<>> /\ chain # <<>> /\ RunUser \in Users
        /\ Sending \subseteq Items
    BY <1>1, Running DEF OwnInv, FlowInv, PassInv, BatchInv
  <1>4. devCat' \in Cats
    BY <1>1, BoundsAssumption DEF OwnInv, TypeOK, Cats
  <1>5. r \in Rows /\ (r.status = row[i].status \/ r.status = "needs_attention")
    BY <1>2, <1>3, <1>4, RematchedRow DEF OwnInv, TypeOK
  <1>6. StoreTyped
    BY <1>2, <1>4, <1>5 DEF OwnInv, TypeOK, StoreTyped
  <1>7. \A j \in Items : row'[j].status = row[j].status \/ row'[j].status = "needs_attention"
    BY <1>2, <1>5 DEF OwnInv, TypeOK
  <1>8. SessionTyped /\ SendTyped /\ WireTyped /\ ServerTyped /\ RestTyped /\ LateOwned'
        /\ PlaysBelongToOwner'
    BY <1>1, Still DEF server
  <1>9. PassTyped
    BY <1>1, <1>3 DEF OwnInv, TypeOK, PassTyped, PCs
  <1>10. Sending' = Sending /\ RunUser' = RunUser /\ UNCHANGED answer
    BY <1>1 DEF Sending, sending, RunUser
  <1>11. MineInv'
    BY <1>1, <1>3, <1>7, <1>10 DEF OwnInv, FlowInv, MineInv, TypeOK
  <1>12. PassInv' /\ WireInv' /\ BatchInv'
    BY <1>1, <1>3, <1>10 DEF OwnInv, FlowInv, PassInv, WireInv, BatchInv, AfterToken, Working
  <1> QED
    BY <1>6, <1>8, <1>9, <1>11, <1>12, OwnParts DEF FlowInv

LEMMA GetTokenOwn ==
    ASSUME OwnInv, GetToken
    PROVE  OwnInv'
  <1>1. /\ pc = "token" /\ UNCHANGED <<session, store, wire, late, server>>
        /\ UNCHANGED faults \/ Fault
    BY DEF GetToken
  <1>2. /\ wire.st = "none" /\ answer = <<>> /\ chain # <<>> /\ RunUser \in Users
        /\ Sending # {}
    BY <1>1, Running DEF OwnInv, FlowInv, PassInv
  <1>3. SessionTyped /\ StoreTyped /\ WireTyped /\ ServerTyped /\ RestTyped /\ LateOwned'
        /\ PlaysBelongToOwner'
    BY <1>1, Still DEF server
  <1>4. CASE EndPass
    BY <1>1, <1>2, <1>3, <1>4, Ended, OwnParts
  <1>5. CASE /\ bearer' = RunUser /\ pc' = "mark"
             /\ UNCHANGED <<chain, todo, round, refreshed, prior, work, forced, answer>>
    <2>1. PassTyped /\ SendTyped
      BY <1>2, <1>5 DEF OwnInv, TypeOK, PassTyped, SendTyped, PCs
    <2>2. Sending' = Sending /\ RunUser' = RunUser /\ UNCHANGED <<row, wire>>
      BY <1>1, <1>5 DEF Sending, RunUser, store
    <2>3. MineInv' /\ BatchInv'
      BY <1>1, <1>5, <2>2 DEF OwnInv, FlowInv, MineInv, BatchInv
    <2>4. PassInv' /\ WireInv'
      BY <1>2, <1>5, <2>2 DEF PassInv, WireInv, AfterToken, Working
    <2> QED
      BY <1>3, <2>1, <2>3, <2>4, OwnParts DEF FlowInv
  <1> QED
    BY <1>4, <1>5 DEF GetToken

\* The rows that are sent, marked or answered, and nothing else.
LEMMA RowStepOwn ==
    ASSUME OwnInv, UNCHANGED <<session, devCat, pass, wire, late, server, faults>>,
           row' \in [Items -> Rows], aged' \in [Items -> BOOLEAN], RowsLeft
    PROVE  OwnInv'
  <1>1. StoreTyped
    BY DEF StoreTyped, OwnInv, TypeOK
  <1>2. FlowInv'
    BY FlowStill DEF pass
  <1> QED
    BY <1>1, <1>2, Still, OwnParts DEF pass, server

LEMMA MarkSentOwn ==
    ASSUME OwnInv, NEW i \in Items, MarkSent(i)
    PROVE  OwnInv'
  <1>1. /\ i \in Sending
        /\ row' = [row EXCEPT ![i].status = "sent"] /\ aged' = [aged EXCEPT ![i] = FALSE]
        /\ UNCHANGED <<session, devCat, pass, wire, late, server, faults>>
    BY DEF MarkSent
  <1> DEFINE q == [row[i] EXCEPT !.status = "sent"]
  <1>2. row[i] \in Rows /\ "sent" \in Statuses
    BY DEF OwnInv, TypeOK, Statuses
  <1>3. q \in Rows /\ q.status = "sent"
    BY <1>2 DEF Rows
  <1>4. row' = [row EXCEPT ![i] = q]
    BY <1>1
  <1> HIDE DEF q
  <1>5. row' \in [Items -> Rows] /\ aged' \in [Items -> BOOLEAN]
    BY <1>1, <1>3, <1>4 DEF OwnInv, TypeOK
  <1>6. RowsLeft
    BY <1>1, <1>3, <1>4, Running DEF RowsLeft, OwnInv, TypeOK, FlowInv, MineInv
  <1> QED
    BY <1>1, <1>5, <1>6, RowStepOwn

LEMMA ApplyOwn ==
    ASSUME OwnInv, NEW i \in Items, Apply(i)
    PROVE  OwnInv'
  <1> DEFINE p == [row[i] EXCEPT !.ch = work[i]]
             q == Answered(p, answer[i])
  <1>1. /\ pc = "apply" /\ i \in DOMAIN answer
        /\ row' = [row EXCEPT ![i] = q] /\ aged' = [aged EXCEPT ![i] = FALSE]
        /\ UNCHANGED <<session, devCat, pass, wire, late, server, faults>>
    BY DEF Apply
  <1>2. /\ i \in Sending /\ work[i] \in [Fixes -> Challenges] /\ answer[i] \in Answers
        /\ row[i] \in Rows
    BY <1>1, Running DEF OwnInv, FlowInv, PassInv, Working, TypeOK
  <1>3. p \in Rows
    BY <1>2 DEF Rows
  <1>4. q \in Rows /\ q.status = AnswerStatus(answer[i])
    <2> HIDE DEF p
    <2>1. q \in Rows /\ q = [status |-> AnswerStatus(answer[i]), cat |-> p.cat,
                             rematch |-> (answer[i] = "stale"), listed |-> p.listed,
                             ch |-> p.ch]
      BY <1>2, <1>3, AnsweredRow
    <2> HIDE DEF q
    <2> QED
      BY <2>1
  <1>5. q.status # "absent"
    BY <1>2, <1>4 DEF AnswerStatus, Answers
  <1> HIDE DEF q
  <1>6. row' \in [Items -> Rows] /\ aged' \in [Items -> BOOLEAN]
    BY <1>1, <1>4 DEF OwnInv, TypeOK
  <1>7. RowsLeft
    BY <1>1, <1>2, <1>5, Running DEF RowsLeft, OwnInv, TypeOK, FlowInv, MineInv
  <1> QED
    BY <1>1, <1>6, <1>7, RowStepOwn

\* The next step of a send, whose rows stay as they are for the pass.
LEMMA SendOwn ==
    ASSUME OwnInv, pc \in AfterToken, pc' \in AfterToken, Sending' = Sending,
           UNCHANGED <<chain, todo, round, refreshed, prior, bearer>>, RowsLeft,
           pc' \in Working => /\ work' \in [Sending -> [Fixes -> Challenges]]
                              /\ answer' = <<>> \/ answer' \in [Sending -> Answers],
           pc' \in {"refresh", "apply"} => answer' \in [Sending -> Answers],
           pc' \notin {"persist", "refresh", "apply"} => answer' = <<>>,
           forced' \in BOOLEAN, pc' \in Working, WireInv'
    PROVE  PassTyped /\ SendTyped /\ FlowInv'
  <1>1. Sending # {} /\ bearer = RunUser /\ RunUser \in Users /\ chain # <<>>
    BY Running DEF OwnInv, FlowInv, PassInv, AfterToken, Working
  <1>2. PassTyped
    BY <1>1 DEF OwnInv, TypeOK, PassTyped, AfterToken, Working, PCs
  <1>3. work' \in FunsTo([Fixes -> Challenges]) /\ DOMAIN work' = Sending
    BY FunIn, Running
  <1>4. answer' \in FunsTo(Answers)
    BY FunIn, NoFun, Running
  <1>5. SendTyped
    BY <1>3, <1>4 DEF OwnInv, TypeOK, SendTyped
  <1>6. RunUser' = RunUser /\ UNCHANGED <<todo, round>> /\ Sending \subseteq Items
        /\ todo \subseteq Items
    BY Running DEF RunUser, OwnInv, TypeOK
  <1>7. MineInv'
    BY <1>6 DEF OwnInv, FlowInv, MineInv, RowsLeft
  <1>8. BatchInv'
    BY <1>6 DEF OwnInv, FlowInv, BatchInv, RowsLeft, AfterToken, Working
  <1>9. PassInv'
    BY <1>1, <1>3, <1>6 DEF PassInv, AfterToken, Working
  <1> QED
    BY <1>2, <1>5, <1>7, <1>8, <1>9 DEF FlowInv

LEMMA LastCheckOwn ==
    ASSUME OwnInv, LastCheck
    PROVE  OwnInv'
  <1>1. /\ pc = "mark" /\ UNCHANGED <<session, devCat, late, server, faults>>
        /\ \A i \in Sending : row[i].status = "sent"
    BY DEF LastCheck
  <1>2. /\ wire.st = "none" /\ answer = <<>> /\ chain # <<>> /\ RunUser \in Users
        /\ Sending # {} /\ bearer = RunUser /\ Sending \subseteq Items
        /\ prior \in [Sending -> {"pending", "retry"}]
    BY <1>1, Running DEF OwnInv, FlowInv, PassInv, AfterToken
  <1>3. SessionTyped /\ ServerTyped /\ RestTyped /\ LateOwned' /\ PlaysBelongToOwner'
    BY <1>1, Still DEF server
  <1>4. CASE UserChanged
    <2>1. /\ row' = [i \in Items |-> IF i \in Sending
                        THEN [row[i] EXCEPT !.status = prior[i]] ELSE row[i]]
          /\ aged' = [i \in Items |-> IF i \in Sending
                        THEN prior[i] = "retry" ELSE aged[i]]
          /\ EndPass /\ UNCHANGED wire
      BY <1>4 DEF LastCheck
    <2>2. \A i \in Sending : [row[i] EXCEPT !.status = prior[i]] \in Rows
      <3>1. \A i \in Sending : row[i] \in Rows /\ prior[i] \in Statuses
        BY <1>2 DEF OwnInv, TypeOK, Statuses
      <3> QED
        BY <3>1, StatusEdit
    <2>3. row' \in [Items -> Rows] /\ aged' \in [Items -> BOOLEAN]
      BY <2>1, <2>2 DEF OwnInv, TypeOK
    <2>4. StoreTyped
      BY <1>1, <2>3 DEF OwnInv, TypeOK, StoreTyped
    <2> QED
      BY <1>2, <1>3, <2>1, <2>4, Ended, OwnParts
  <1>5. CASE ~UserChanged
    <2>1. /\ Continue([i \in Sending |-> row[i].ch])
          /\ UNCHANGED <<row, aged, chain, todo, round, refreshed, prior, forced, bearer, answer>>
      BY <1>5 DEF LastCheck
    <2> DEFINE w == [i \in Sending |-> row[i].ch]
    <2>2. w \in [Sending -> [Fixes -> Challenges]]
      BY <1>2 DEF OwnInv, TypeOK, Rows
    <2> HIDE DEF w
    <2>3. Continue(w)
      BY <2>1 DEF w
    <2>4. /\ work' \in [Sending -> [Fixes -> Challenges]] /\ WireTyped
          /\ \/ pc' = "redeem" /\ UNCHANGED wire
             \/ /\ pc' = "post" /\ wire'.st = "sent" /\ wire'.req.user = RunUser
                /\ DOMAIN wire'.req.body = Sending
      BY <1>2, <2>2, <2>3, Continued
    <2>5. Sending' = Sending /\ RunUser' = RunUser
      BY <2>1 DEF Sending, RunUser
    <2>6. WireInv'
      BY <1>2, <2>4, <2>5 DEF WireInv
    <2>7. RowsLeft
      BY <1>1, <2>1 DEF RowsLeft
    <2>8. PassTyped /\ SendTyped /\ FlowInv'
      BY <1>1, <1>2, <2>1, <2>4, <2>5, <2>6, <2>7, SendOwn
         DEF AfterToken, Working, OwnInv, TypeOK
    <2>9. StoreTyped
      BY <1>1, <2>1, Still DEF store
    <2> QED
      BY <1>3, <2>4, <2>8, <2>9, OwnParts
  <1> QED
    BY <1>4, <1>5

\* All the plays of a send get the same answer.
LEMMA AllAnswers ==
    ASSUME OwnInv, NEW a \in Answers
    PROVE  All(a) \in [Sending -> Answers] /\ \A i \in Sending : All(a)[i] = a
  BY DEF All

LEMMA LearnedWork ==
    ASSUME OwnInv, pc = "redeem", NEW i \in Items, NEW f \in Fixes, AtFix(i, f),
           NEW c \in Challenges, Learn(i, f, c)
    PROVE  /\ pc' = "persist" /\ work' \in [Sending -> [Fixes -> Challenges]]
           /\ i \in Sending /\ work[i][f].st = "held"
           /\ \A j \in Sending, g \in Fixes :
                  work'[j][g] = IF j = i /\ g = f THEN c ELSE work[j][g]
  <1>1. i \in Sending /\ work[i][f].st = "held"
    BY DEF AtFix, IsHeld
  <1>2. work \in [Sending -> [Fixes -> Challenges]]
    BY Running DEF OwnInv, FlowInv, PassInv, Working
  <1>3. pc' = "persist" /\ work' = [work EXCEPT ![i][f] = c]
    BY DEF Learn
  <1> QED
    BY <1>1, <1>2, <1>3

LEMMA RedeemTyped ==
    ASSUME OwnInv, pc = "redeem", NEW i \in Items, NEW f \in Fixes, AtFix(i, f),
           RedeemOk(i, f) \/ RedeemRefused(i, f) \/ RedeemFails(i, f) \/ Deferred(i, f)
    PROVE  /\ token' \in [Items -> [Fixes -> {"open", "issued", "dead"}]]
           /\ work' \in [Sending -> [Fixes -> Challenges]]
           /\ \/ pc' = "persist" /\ answer' = <<>>
              \/ pc' \in {"persist", "refresh", "apply"} /\ answer' \in [Sending -> Answers]
           /\ UNCHANGED faults \/ Fault
  <1>1. /\ work \in [Sending -> [Fixes -> Challenges]] /\ answer = <<>>
        /\ token \in [Items -> [Fixes -> {"open", "issued", "dead"}]]
    BY Running DEF OwnInv, FlowInv, PassInv, Working, TypeOK
  <1>2. i \in Sending /\ work[i][f].st = "held" /\ work[i][f] \in Challenges
    BY <1>1 DEF AtFix, IsHeld
  <1>3. [token EXCEPT ![i][f] = "issued"] \in [Items -> [Fixes -> {"open", "issued", "dead"}]]
    BY <1>1
  <1>4. Redeemed \in Challenges /\ None \in Challenges
    BY DEF Challenges
  <1>5. CASE RedeemOk(i, f)
    BY <1>1, <1>3, <1>4, <1>5, LearnedWork DEF RedeemOk
  <1>6. CASE RedeemRefused(i, f)
    BY <1>1, <1>4, <1>6, LearnedWork DEF RedeemRefused
  <1>7. CASE RedeemFails(i, f)
    <2>1. token' = token \/ token' = [token EXCEPT ![i][f] = "issued"]
      BY <1>7 DEF RedeemFails
    <2>2. UNCHANGED work /\ Fault
      BY <1>7 DEF RedeemFails
    <2>3. PICK a \in {"retry", "unauthorized", "refused"} : AfterAnswer(All(a))
      BY <1>7 DEF RedeemFails
    <2>4. answer' = All(a) /\ pc' \in {"refresh", "apply"}
      BY <2>3 DEF AfterAnswer
    <2>5. All(a) \in [Sending -> Answers]
      BY AllAnswers DEF Answers
    <2> QED
      BY <1>1, <1>3, <2>1, <2>2, <2>4, <2>5
  <1>8. CASE Deferred(i, f)
    <2>1. UNCHANGED <<token, faults>>
      BY <1>8 DEF Deferred
    <2>2. work[i][f].n \in 0..MaxDefer
      BY <1>2, BoundsAssumption DEF Challenges, None, Redeemed
    <2>3. CASE work[i][f].n < MaxDefer
      <3>1. work[i][f].n + 1 \in 0..MaxDefer
        BY <2>2, <2>3, BoundsAssumption
      <3>2. Held(work[i][f].n + 1) \in Challenges
        BY <3>1 DEF Held, Challenges
      <3>3. Learn(i, f, Held(work[i][f].n + 1)) /\ answer' = All("retry")
        BY <1>8, <2>3 DEF Deferred
      <3>4. All("retry") \in [Sending -> Answers]
        BY AllAnswers DEF Answers
      <3> QED
        BY <1>1, <2>1, <3>2, <3>3, <3>4, LearnedWork
    <2>4. CASE ~(work[i][f].n < MaxDefer)
      BY <1>1, <1>4, <1>8, <2>1, <2>4, LearnedWork DEF Deferred
    <2> QED
      BY <2>3, <2>4
  <1> QED
    BY <1>5, <1>6, <1>7, <1>8

LEMMA RedeemOwn ==
    ASSUME OwnInv, Redeem
    PROVE  OwnInv'
  <1>1. /\ pc = "redeem"
        /\ UNCHANGED <<session, store, chain, todo, round, refreshed, prior, forced, bearer,
                       wire, late, ledger, srvCat, srvOld>>
    BY DEF Redeem
  <1>2. /\ token' \in [Items -> [Fixes -> {"open", "issued", "dead"}]]
        /\ work' \in [Sending -> [Fixes -> Challenges]]
        /\ \/ pc' = "persist" /\ answer' = <<>>
           \/ pc' \in {"persist", "refresh", "apply"} /\ answer' \in [Sending -> Answers]
        /\ UNCHANGED faults \/ Fault
    BY <1>1, RedeemTyped DEF Redeem
  <1>3. SessionTyped /\ StoreTyped /\ WireTyped /\ RestTyped /\ LateOwned' /\ PlaysBelongToOwner'
    BY <1>1, <1>2, Still
  <1>4. ServerTyped
    BY <1>1, <1>2 DEF ServerTyped, OwnInv, TypeOK
  <1>5. Sending' = Sending /\ UNCHANGED row /\ wire.st = "none"
    BY <1>1, Running DEF Sending, store
  <1>6. RowsLeft
    BY <1>5 DEF RowsLeft, OwnInv, FlowInv, MineInv
  <1>7. WireInv'
    BY <1>1, <1>2, <1>5 DEF WireInv
  <1>8. PassTyped /\ SendTyped /\ FlowInv'
    BY <1>1, <1>2, <1>5, <1>6, <1>7, SendOwn DEF AfterToken, Working, OwnInv, TypeOK
  <1> QED
    BY <1>3, <1>4, <1>8, OwnParts

LEMMA PersistOwn ==
    ASSUME OwnInv, Persist
    PROVE  OwnInv'
  <1>1. /\ pc = "persist"
        /\ UNCHANGED <<session, aged, devCat, chain, todo, round, refreshed, prior, forced,
                       bearer, answer, late, server>>
        /\ UNCHANGED faults \/ Fault
    BY DEF Persist
  <1>2. /\ wire.st = "none" /\ RunUser \in Users /\ Sending # {} /\ bearer = RunUser
        /\ work \in [Sending -> [Fixes -> Challenges]] /\ Sending \subseteq Items
        /\ answer = <<>> \/ answer \in [Sending -> Answers]
    BY <1>1, Running DEF OwnInv, FlowInv, PassInv, AfterToken, Working
  <1>3. SessionTyped /\ ServerTyped /\ RestTyped /\ LateOwned' /\ PlaysBelongToOwner'
    BY <1>1, Still DEF server
  <1>4. /\ row' \in [Items -> Rows] /\ \A i \in Items : row'[i].status = row[i].status
    <2> DEFINE q(i) == [row[i] EXCEPT !.ch = work[i]]
    <2>1. \A i \in Sending : q(i) \in Rows /\ q(i).status = row[i].status
      <3>1. \A i \in Sending : row[i] \in Rows /\ work[i] \in [Fixes -> Challenges]
        BY <1>2 DEF OwnInv, TypeOK
      <3> QED
        BY <3>1, TokensEdit
    <2>2. row' = [i \in Items |-> IF i \in Sending THEN q(i) ELSE row[i]] \/ row' = row
      BY DEF Persist
    <2> HIDE DEF q
    <2>3. row \in [Items -> Rows]
      BY DEF OwnInv, TypeOK
    <2>4. CASE row' = row
      BY <2>3, <2>4
    <2>5. CASE row' = [i \in Items |-> IF i \in Sending THEN q(i) ELSE row[i]]
      <3>1. \A i \in Items : /\ (IF i \in Sending THEN q(i) ELSE row[i]) \in Rows
                             /\ (IF i \in Sending THEN q(i) ELSE row[i]).status = row[i].status
        BY <2>1, <2>3
      <3> QED
        BY <2>5, <3>1
    <2> QED
      BY <2>2, <2>4, <2>5
  <1>5. StoreTyped
    BY <1>1, <1>4 DEF StoreTyped, OwnInv, TypeOK
  <1>6. RowsLeft
    BY <1>2, <1>4 DEF RowsLeft, OwnInv, FlowInv, MineInv
  <1>7. Sending' = Sending /\ RunUser' = RunUser
    BY <1>1 DEF Sending, RunUser
  <1>8. CASE answer = <<>>
    <2>1. Continue(work)
      BY <1>8 DEF Persist
    <2>2. /\ work' \in [Sending -> [Fixes -> Challenges]] /\ WireTyped
          /\ \/ pc' = "redeem" /\ UNCHANGED wire
             \/ /\ pc' = "post" /\ wire'.st = "sent" /\ wire'.req.user = RunUser
                /\ DOMAIN wire'.req.body = Sending
      BY <1>2, <2>1, Continued
    <2>3. WireInv'
      BY <1>2, <1>7, <2>2 DEF WireInv
    <2>4. PassTyped /\ SendTyped /\ FlowInv'
      BY <1>1, <1>6, <1>7, <1>8, <2>2, <2>3, SendOwn DEF AfterToken, Working, OwnInv, TypeOK
    <2> QED
      BY <1>3, <1>5, <2>2, <2>4, OwnParts
  <1>9. CASE answer # <<>>
    <2>1. pc' = "apply" /\ UNCHANGED <<work, wire>>
      BY <1>9 DEF Persist
    <2>2. WireInv'
      BY <1>2, <2>1 DEF WireInv
    <2>3. PassTyped /\ SendTyped /\ FlowInv'
      BY <1>1, <1>2, <1>6, <1>7, <1>9, <2>1, <2>2, SendOwn
         DEF AfterToken, Working, OwnInv, TypeOK
    <2> QED
      BY <1>3, <1>5, <2>1, <2>3, Still, OwnParts
  <1> QED
    BY <1>8, <1>9

\* The answers of a send are there: once more with a new token, or apply them.
LEMMA AnsweredOwn ==
    ASSUME OwnInv, pc = "post", NEW a \in [Sending -> Answers], AfterAnswer(a), wire' = NoWire,
           UNCHANGED <<session, store, chain, todo, round, refreshed, prior, work, forced, bearer>>
    PROVE  PassTyped /\ SendTyped /\ FlowInv' /\ WireTyped
  <1>1. answer' = a /\ pc' \in {"refresh", "apply"} /\ Sending' = Sending /\ UNCHANGED row
    BY DEF AfterAnswer, Sending, store
  <1>2. work \in [Sending -> [Fixes -> Challenges]] /\ RowsLeft
    BY <1>1, Running DEF OwnInv, FlowInv, PassInv, MineInv, Working, RowsLeft
  <1>3. WireInv' /\ WireTyped
    BY <1>1 DEF WireInv, WireTyped, NoWire
  <1> QED
    BY <1>1, <1>2, <1>3, SendOwn DEF AfterToken, Working, OwnInv, TypeOK

LEMMA ReceiveOwn ==
    ASSUME OwnInv, Receive
    PROVE  OwnInv'
  <1>1. /\ pc = "post" /\ wire.st = "answered" /\ AfterAnswer(wire.ans) /\ wire' = NoWire
        /\ UNCHANGED <<session, store, chain, todo, round, refreshed, prior, work, forced,
                       bearer, late, server, faults>>
    BY DEF Receive
  <1>2. wire.ans \in [Sending -> Answers]
    BY <1>1 DEF OwnInv, TypeOK, FlowInv, WireInv
  <1>3. PassTyped /\ SendTyped /\ FlowInv' /\ WireTyped
    BY <1>1, <1>2, AnsweredOwn
  <1> QED
    BY <1>1, <1>3, Still, OwnParts DEF server

LEMMA OwnedWire ==
    ASSUME OwnInv, wire.st # "none"
    PROVE  /\ wire.req \in Requests /\ DOMAIN wire.req.body = Sending /\ pc = "post"
           /\ \A i \in DOMAIN wire.req.body : wire.req.user = Owner[i]
  BY DEF OwnInv, TypeOK, FlowInv, WireInv, MineInv

LEMMA StrayOwned ==
    ASSUME OwnInv
    PROVE  /\ Stray \subseteq Requests
           /\ \A q \in Stray : \A i \in DOMAIN q.body : q.user = Owner[i]
  BY OwnedWire DEF Stray, OwnInv, TypeOK, LateOwned

LEMMA NetErrorOwn ==
    ASSUME OwnInv, NetError
    PROVE  OwnInv'
  <1>1. /\ pc = "post" /\ Fault /\ AfterAnswer(All("retry")) /\ wire' = NoWire /\ late' = Stray
        /\ UNCHANGED <<session, store, chain, todo, round, refreshed, prior, work, forced,
                       bearer, server>>
    BY DEF NetError
  <1>2. All("retry") \in [Sending -> Answers]
    BY AllAnswers DEF Answers
  <1>3. PassTyped /\ SendTyped /\ FlowInv' /\ WireTyped
    BY <1>1, <1>2, AnsweredOwn
  <1>4. LateOwned' /\ RestTyped
    BY <1>1, StrayOwned, FaultCounted DEF LateOwned, RestTyped, OwnInv
  <1> QED
    BY <1>1, <1>3, <1>4, Still, OwnParts DEF server

LEMMA RefreshOwn ==
    ASSUME OwnInv, Refresh
    PROVE  OwnInv'
  <1>1. /\ pc = "refresh"
        /\ UNCHANGED <<lapsed, store, chain, todo, round, refreshed, prior, bearer, late, server>>
        /\ user' \in {user, Nobody} /\ (UNCHANGED faults \/ Fault)
    BY DEF Refresh
  <1>2. /\ wire.st = "none" /\ RunUser \in Users /\ Sending # {} /\ bearer = RunUser
        /\ work \in [Sending -> [Fixes -> Challenges]] /\ answer \in [Sending -> Answers]
    BY <1>1, Running DEF OwnInv, FlowInv, PassInv, AfterToken, Working
  <1>3. SessionTyped
    BY <1>1 DEF OwnInv, TypeOK, SessionTyped
  <1>4. StoreTyped /\ ServerTyped /\ RestTyped /\ LateOwned' /\ PlaysBelongToOwner'
    BY <1>1, Still DEF server
  <1>5. Sending' = Sending /\ RunUser' = RunUser /\ RowsLeft
    BY <1>1 DEF Sending, RunUser, RowsLeft, store, OwnInv, FlowInv, MineInv
  <1>6. CASE forced' = TRUE /\ answer' = <<>> /\ Continue(work)
    <2>1. /\ work' \in [Sending -> [Fixes -> Challenges]] /\ WireTyped
          /\ \/ pc' = "redeem" /\ UNCHANGED wire
             \/ /\ pc' = "post" /\ wire'.st = "sent" /\ wire'.req.user = RunUser
                /\ DOMAIN wire'.req.body = Sending
      BY <1>2, <1>6, Continued
    <2>2. WireInv'
      BY <1>2, <1>5, <2>1 DEF WireInv
    <2>3. PassTyped /\ SendTyped /\ FlowInv'
      BY <1>1, <1>5, <1>6, <2>1, <2>2, SendOwn DEF AfterToken, Working
    <2> QED
      BY <1>3, <1>4, <2>1, <2>3, OwnParts
  <1>7. CASE pc' = "apply" /\ UNCHANGED <<forced, answer, work, wire>>
    <2>1. WireInv'
      BY <1>2, <1>7 DEF WireInv
    <2>2. PassTyped /\ SendTyped /\ FlowInv'
      BY <1>1, <1>2, <1>5, <1>7, <2>1, SendOwn DEF AfterToken, Working, OwnInv, TypeOK
    <2> QED
      BY <1>3, <1>4, <1>7, <2>2, Still, OwnParts
  <1> QED
    BY <1>6, <1>7 DEF Refresh

LEMMA AfterApplyOwn ==
    ASSUME OwnInv, AfterApply
    PROVE  OwnInv'
  <1>1. pc = "apply" /\ UNCHANGED <<session, store, wire, late, server, faults>>
    BY DEF AfterApply
  <1>2. /\ wire.st = "none" /\ RunUser \in Users /\ Sending # {} /\ chain # <<>>
    BY <1>1, Running DEF OwnInv, FlowInv, PassInv, AfterToken, Working
  <1>3. SessionTyped /\ StoreTyped /\ WireTyped /\ ServerTyped /\ RestTyped /\ LateOwned'
        /\ PlaysBelongToOwner'
    BY <1>1, Still DEF server
  <1>4. CASE EndPass
    BY <1>1, <1>2, <1>3, <1>4, Ended, OwnParts
  <1>5. CASE ~EndPass
    <2>1. /\ work' = <<>> /\ answer' = <<>> /\ forced' = FALSE /\ bearer' = Nobody
          /\ UNCHANGED <<chain, refreshed>>
          /\ \/ round = 0 /\ pc' = "batch" /\ prior' = <<>> /\ UNCHANGED <<todo, round>>
             \/ round # 0 /\ pc' = "item" /\ round' = 2 /\ UNCHANGED <<todo, prior>>
             \/ round # 0 /\ pc' = "item" /\ todo' = todo \ Sending /\ round' = 1 /\ prior' = <<>>
      BY <1>5 DEF AfterApply
    <2>2. prior' \in FunsTo({"pending", "retry"})
      BY <2>1, NoFun DEF OwnInv, TypeOK
    <2>3. round' \in 0..2 /\ todo' \subseteq todo /\ todo \subseteq Items
      BY <2>1 DEF OwnInv, TypeOK
    <2>4. PassTyped
      BY <1>2, <2>1, <2>3 DEF OwnInv, TypeOK, PassTyped, PCs
    <2>5. SendTyped
      BY <2>1, <2>2, NoFun DEF SendTyped
    <2>6. Sending' \subseteq Sending /\ (pc' = "batch" => Sending' = {})
      BY <2>1, NoFun DEF Sending
    <2>7. RunUser' = RunUser /\ UNCHANGED <<row, wire>>
      BY <1>1, <2>1 DEF RunUser, store
    <2>8. MineInv'
      BY <2>3, <2>6, <2>7 DEF OwnInv, FlowInv, MineInv
    <2>9. BatchInv'
      BY <2>1, <2>6, <2>7 DEF OwnInv, FlowInv, BatchInv
    <2>10. PassInv' /\ WireInv'
      BY <1>2, <2>1, <2>6, <2>7 DEF PassInv, WireInv, AfterToken, Working
    <2> QED
      BY <1>3, <2>4, <2>5, <2>8, <2>9, <2>10, OwnParts DEF FlowInv
  <1> QED
    BY <1>4, <1>5

LEMMA PassEndsOwn ==
    ASSUME OwnInv, PassDone \/ StoreRejects
    PROVE  OwnInv'
  <1>1. /\ EndPass /\ pc \in {"item", "mark", "apply"}
        /\ UNCHANGED <<session, store, wire, late, server>> /\ (UNCHANGED faults \/ Fault)
    BY DEF PassDone, StoreRejects
  <1>2. chain # <<>> /\ wire.st = "none"
    BY <1>1, Running
  <1> QED
    BY <1>1, <1>2, Still, Ended, OwnParts DEF server

LEMMA PassStepOwn ==
    ASSUME OwnInv, PassStep
    PROVE  OwnInv'
  BY StartPassOwn, NextBatchOwn, TurnOwn, RematchOwn, GetTokenOwn, MarkSentOwn, LastCheckOwn,
     RedeemOwn, PersistOwn, ReceiveOwn, NetErrorOwn, RefreshOwn, ApplyOwn, AfterApplyOwn,
     PassEndsOwn DEF PassStep

-----------------------------------------------------------------------------
(* So does everything else. *)

\* What a request inserts.
LEMMA Inserted ==
    ASSUME OwnInv, NEW q \in Requests, NEW S \in SUBSET DOMAIN q.body, Insert(q, S)
    PROVE  /\ token' \in [Items -> [Fixes -> {"open", "issued", "dead"}]]
           /\ ledger' \in [Users -> [Items -> Records]]
           /\ \A u \in Users, i \in Items :
                 \/ ledger'[u][i] = ledger[u][i]
                 \/ /\ u = q.user /\ i \in S /\ ledger[u][i] = NoRecord
                    /\ Intake(u, i, q.body[i]) \in {"accepted", "queued"}
                    /\ ledger'[u][i] = [st |-> Intake(u, i, q.body[i]), body |-> q.body[i]]
           /\ \A i \in S : Intake(q.user, i, q.body[i]) \in {"accepted", "queued"}
                 => ledger'[q.user][i] # NoRecord
  <1> DEFINE new == {i \in S : /\ ledger[q.user][i] = NoRecord
                               /\ Intake(q.user, i, q.body[i]) \in {"accepted", "queued"}}
             old == ledger[q.user]
             rec(i) == [st |-> Intake(q.user, i, q.body[i]), body |-> q.body[i]]
             page == [i \in Items |-> IF i \in new THEN rec(i) ELSE old[i]]
  <1>1. /\ q.user \in Users /\ S \subseteq Items /\ \A i \in S : q.body[i] \in Bodies
        /\ ledger \in [Users -> [Items -> Records]]
        /\ token \in [Items -> [Fixes -> {"open", "issued", "dead"}]]
    BY RequestOut DEF OwnInv, TypeOK
  <1>2. ledger' = [ledger EXCEPT ![q.user] = page]
    BY <1>1 DEF Insert
  <1>3. \A i \in Items : i \in new => rec(i) \in Records
    BY <1>1 DEF Records
  <1>4. page \in [Items -> Records]
    BY <1>1, <1>3
  <1>5. \A i \in Items : \/ page[i] = old[i]
                         \/ i \in new /\ page[i] = rec(i)
    OBVIOUS
  <1>6. token' \in [Items -> [Fixes -> {"open", "issued", "dead"}]]
    BY <1>1 DEF Insert
  <1>8. \A i \in S : Intake(q.user, i, q.body[i]) \in {"accepted", "queued"}
              => page[i] # NoRecord
    BY <1>1 DEF NoRecord
  <1> HIDE DEF page
  <1>7. /\ ledger' \in [Users -> [Items -> Records]]
        /\ \A u \in Users : ledger'[u] = IF u = q.user THEN page ELSE ledger[u]
    BY <1>1, <1>2, <1>4
  <1> QED
    BY <1>1, <1>5, <1>6, <1>7, <1>8

LEMMA InsertedOwn ==
    ASSUME OwnInv, NEW q \in Requests, NEW S \in SUBSET DOMAIN q.body, Insert(q, S),
           \A i \in DOMAIN q.body : q.user = Owner[i], UNCHANGED <<srvCat, srvOld>>
    PROVE  ServerTyped /\ PlaysBelongToOwner'
  <1>1. PlaysBelongToOwner'
    <2> SUFFICES ASSUME NEW u \in Users, NEW i \in Items, ledger'[u][i] # NoRecord
                 PROVE  u = Owner[i]
      BY DEF PlaysBelongToOwner
    <2>1. \/ ledger'[u][i] = ledger[u][i]
          \/ /\ u = q.user /\ i \in S /\ ledger[u][i] = NoRecord
             /\ Intake(u, i, q.body[i]) \in {"accepted", "queued"}
             /\ ledger'[u][i] = [st |-> Intake(u, i, q.body[i]), body |-> q.body[i]]
      BY Inserted
    <2> QED
      BY <2>1 DEF PlaysBelongToOwner, OwnInv
  <1>2. /\ token' \in [Items -> [Fixes -> {"open", "issued", "dead"}]]
        /\ ledger' \in [Users -> [Items -> Records]]
    BY Inserted
  <1>3. srvCat \in Cats /\ srvOld \in 1..srvCat
    BY DEF OwnInv, TypeOK
  <1>4. srvCat' \in Cats /\ srvOld' \in 1..srvCat'
    BY <1>3
  <1> QED
    BY <1>1, <1>2, <1>4 DEF ServerTyped

LEMMA DeliverOwn ==
    ASSUME OwnInv, Deliver
    PROVE  OwnInv'
  <1>1. wire.st = "sent" /\ UNCHANGED <<session, store, pass, late, srvCat, srvOld>>
    BY DEF Deliver
  <1>2. PICK S \in SUBSET DOMAIN wire.req.body, other \in {"retry", "unauthorized"} :
           /\ UNCHANGED faults \/ Fault
           /\ Insert(wire.req, S)
           /\ wire' = [st |-> "answered", req |-> wire.req,
                       ans |-> [i \in DOMAIN wire.req.body |->
                                   IF i \in S
                                   THEN Intake(wire.req.user, i, wire.req.body[i])
                                   ELSE other]]
    BY DEF Deliver
  <1> DEFINE a == [i \in DOMAIN wire.req.body |->
                      IF i \in S THEN Intake(wire.req.user, i, wire.req.body[i]) ELSE other]
  <1>3. /\ wire.req \in Requests /\ \A i \in DOMAIN wire.req.body : wire.req.user = Owner[i]
        /\ wire.req.user \in Users /\ DOMAIN wire.req.body \subseteq Items
    BY <1>1, OwnedWire, RequestOut
  <1>4. ServerTyped /\ PlaysBelongToOwner'
    BY <1>1, <1>2, <1>3, InsertedOwn
  <1>5. \A i \in DOMAIN wire.req.body : Intake(wire.req.user, i, wire.req.body[i]) \in Answers
    BY <1>3 DEF Intake, Replay, Answers, OwnInv, TypeOK, Records, NoRecord
  <1>6. a \in [DOMAIN wire.req.body -> Answers]
    BY <1>5 DEF Answers
  <1> HIDE DEF a
  <1>7. wire'.st = "answered" /\ wire'.req = wire.req /\ wire'.ans = a
    BY <1>2 DEF a
  <1>8. WireTyped
    BY <1>3, <1>6, <1>7 DEF WireTyped
  <1>9. FlowInv'
    <2>1. UNCHANGED <<pc, todo, round, sending, row, chain>> /\ Sending' = Sending
      BY <1>1 DEF pass, store, Sending, sending
    <2>2. wire'.st # "none" /\ pc = "post"
      BY <1>1, <1>7, OwnedWire
    <2>3. RunUser' = RunUser /\ UNCHANGED <<answer, work, bearer>>
      BY <2>1 DEF RunUser, sending
    <2>4. MineInv' /\ BatchInv'
      BY <2>1, <2>3 DEF OwnInv, FlowInv, MineInv, BatchInv
    <2>5. PassInv'
      BY <2>1, <2>2, <2>3 DEF OwnInv, FlowInv, PassInv, AfterToken, Working
    <2>6. WireInv'
      BY <1>7, <2>1, <2>2, <2>3, <1>1 DEF OwnInv, FlowInv, WireInv
    <2> QED
      BY <2>4, <2>5, <2>6 DEF FlowInv
  <1> QED
    BY <1>1, <1>2, <1>4, <1>8, <1>9, Still, OwnParts DEF pass

LEMMA RunOutboxOwn ==
    ASSUME OwnInv, RunOutbox
    PROVE  OwnInv'
  <1>1. /\ chain' = Append(chain, user)
        /\ UNCHANGED <<session, store, pc, todo, round, refreshed, sending, wire, late,
                       server, faults>>
    BY DEF RunOutbox
  <1>2. /\ chain' \in Seq(Users \cup {Nobody}) /\ chain' # <<>>
        /\ chain # <<>> => chain'[1] = chain[1]
    BY <1>1 DEF OwnInv, TypeOK
  <1>3. PassTyped
    BY <1>1, <1>2 DEF OwnInv, TypeOK, PassTyped
  <1>4. RowsLeft
    BY <1>1 DEF RowsLeft, store, OwnInv, FlowInv, MineInv
  <1>5. FlowInv'
    BY <1>1, <1>2, <1>4, Running, FlowStill
  <1> QED
    BY <1>1, <1>3, <1>5, Still, OwnParts DEF server

LEMMA CrashOwn ==
    ASSUME OwnInv, Crash
    PROVE  OwnInv'
  <1>1. /\ chain' = <<>> /\ pc' = "idle" /\ todo' = {} /\ round' = 0 /\ refreshed' = FALSE
        /\ ClearSend /\ Fault /\ wire' = NoWire /\ late' = Stray
        /\ UNCHANGED <<session, store, server>>
    BY DEF Crash
  <1>2. 0 \in 0..2 /\ <<>> \in Seq(Users \cup {Nobody})
    OBVIOUS
  <1>3. PassTyped
    BY <1>1, <1>2 DEF PassTyped, PCs
  <1>4. SendTyped
    BY <1>1, NoFun DEF SendTyped, ClearSend
  <1>5. WireTyped /\ wire'.st = "none"
    BY <1>1 DEF WireTyped, NoWire
  <1>6. Sending' = {} /\ answer' = <<>>
    BY <1>1, NoFun DEF ClearSend, Sending
  <1>7. FlowInv'
    BY <1>1, <1>5, <1>6 DEF FlowInv, MineInv, PassInv, WireInv, BatchInv, AfterToken, Working
  <1>8. LateOwned' /\ RestTyped
    BY <1>1, StrayOwned, FaultCounted DEF LateOwned, RestTyped, OwnInv
  <1> QED
    BY <1>1, <1>3, <1>4, <1>5, <1>7, <1>8, Still, OwnParts DEF server

LEMMA EnqueueOwn ==
    ASSUME OwnInv, NEW i \in Items, Enqueue(i)
    PROVE  OwnInv'
  <1>1. /\ row[i].status = "absent"
        /\ UNCHANGED <<session, aged, devCat, pass, wire, late, server, faults>>
    BY DEF Enqueue
  <1>2. PICK H \in SUBSET Fixes : row' = [row EXCEPT ![i] =
                      [status |-> "pending", cat |-> devCat, rematch |-> FALSE,
                       listed |-> TRUE,
                       ch |-> [f \in Fixes |-> IF f \in H THEN Held(0) ELSE None]]]
    BY DEF Enqueue
  <1> DEFINE h == [f \in Fixes |-> IF f \in H THEN Held(0) ELSE None]
             q == [status |-> "pending", cat |-> devCat, rematch |-> FALSE, listed |-> TRUE,
                   ch |-> h]
  <1>3. Held(0) \in Challenges /\ None \in Challenges
    BY BoundsAssumption DEF Held, Challenges
  <1>4. h \in [Fixes -> Challenges]
    BY <1>3
  <1> HIDE DEF h
  <1>5. q \in Rows /\ q.status = "pending"
    BY <1>4 DEF Rows, Statuses, OwnInv, TypeOK
  <1>6. row' = [row EXCEPT ![i] = q]
    BY <1>2 DEF h
  <1> HIDE DEF q
  <1>7. row' \in [Items -> Rows]
    BY <1>5, <1>6 DEF OwnInv, TypeOK
  <1>8. RowsLeft
    BY <1>1, <1>5, <1>6, Running DEF RowsLeft, OwnInv, TypeOK, FlowInv, MineInv
  <1>9. UNCHANGED <<session, devCat, pass, wire, late, server, faults>>
        /\ aged' \in [Items -> BOOLEAN]
    BY <1>1 DEF OwnInv, TypeOK
  <1> QED
    BY <1>7, <1>8, <1>9, RowStepOwn

\* Time, sessions and catalogs: nothing that belongs to anybody.
LEMMA AroundOwn ==
    ASSUME OwnInv, UNCHANGED <<row, pass, wire, ledger, faults>>,
           late' \subseteq late, SessionTyped, StoreTyped, ServerTyped
    PROVE  OwnInv'
  <1>1. RowsLeft
    BY DEF RowsLeft, OwnInv, FlowInv, MineInv
  <1>2. FlowInv'
    BY <1>1, FlowStill DEF pass
  <1>3. LateOwned' /\ RestTyped
    BY DEF LateOwned, RestTyped, OwnInv, TypeOK
  <1> QED
    BY <1>2, <1>3, Still, OwnParts DEF pass

LEMMA DrainOwn ==
    ASSUME OwnInv, NEW u \in Users, NEW i \in Items, Drain(u, i)
    PROVE  OwnInv'
  <1>1. /\ ledger[u][i].st = "queued"
        /\ UNCHANGED <<session, store, pass, wire, late, token, srvCat, srvOld, faults>>
    BY DEF Drain
  <1>2. PICK st \in {"accepted", "rejected"} : ledger' = [ledger EXCEPT ![u][i].st = st]
    BY DEF Drain
  <1>3. ledger[u][i] \in Records /\ ledger[u][i] # NoRecord
    BY <1>1 DEF OwnInv, TypeOK, NoRecord
  <1> DEFINE q == [ledger[u][i] EXCEPT !.st = st]
  <1>4. q \in Records
    BY <1>2, <1>3 DEF Records
  <1>5. ledger' = [ledger EXCEPT ![u][i] = q]
    BY <1>2
  <1> HIDE DEF q
  <1>6. ledger' \in [Users -> [Items -> Records]]
    BY <1>4, <1>5 DEF OwnInv, TypeOK
  <1>7. \A v \in Users, j \in Items : ledger'[v][j] = ledger[v][j] \/ (v = u /\ j = i)
    BY <1>5 DEF OwnInv, TypeOK
  <1>8. PlaysBelongToOwner'
    BY <1>3, <1>7 DEF OwnInv, PlaysBelongToOwner
  <1>9. ServerTyped
    BY <1>1, <1>6 DEF ServerTyped, OwnInv, TypeOK
  <1>10. RowsLeft
    BY <1>1 DEF RowsLeft, store, OwnInv, FlowInv, MineInv
  <1>11. FlowInv'
    BY <1>1, <1>10, FlowStill DEF pass
  <1> QED
    BY <1>1, <1>8, <1>9, <1>11, Still, OwnParts DEF pass

LEMMA ArrivesOwn ==
    ASSUME OwnInv, NEW q \in late, Arrives(q)
    PROVE  OwnInv'
  <1>1. /\ late' = late \ {q} /\ (Insert(q, DOMAIN q.body) \/ UNCHANGED <<ledger, token>>)
        /\ UNCHANGED <<session, store, pass, wire, srvCat, srvOld, faults>>
    BY DEF Arrives
  <1>2. q \in Requests /\ \A i \in DOMAIN q.body : q.user = Owner[i]
    BY DEF OwnInv, TypeOK, LateOwned
  <1>3. ServerTyped /\ PlaysBelongToOwner'
    BY <1>1, <1>2, InsertedOwn, Still DEF server
  <1>4. LateOwned' /\ RestTyped
    BY <1>1 DEF LateOwned, RestTyped, OwnInv, TypeOK
  <1>5. RowsLeft
    BY <1>1 DEF RowsLeft, store, OwnInv, FlowInv, MineInv
  <1>6. FlowInv'
    BY <1>1, <1>5, FlowStill DEF pass
  <1> QED
    BY <1>1, <1>3, <1>4, <1>6, Still, OwnParts DEF pass

LEMMA WorldOwn ==
    ASSUME OwnInv, World
    PROVE  OwnInv'
  <1>1. ASSUME NEW u \in Users \cup {Nobody}, SignIn(u) PROVE OwnInv'
    BY <1>1, Still, AroundOwn DEF SignIn, SessionTyped, store, server, OwnInv, TypeOK
  <1>2. ASSUME NEW i \in Items, Tick(i) PROVE OwnInv'
    BY <1>2, Still, AroundOwn DEF Tick, StoreTyped, store, server, OwnInv, TypeOK
  <1>3. ASSUME NEW i \in Items, Lapse(i) PROVE OwnInv'
    BY <1>3, Still, AroundOwn DEF Lapse, SessionTyped, store, server, OwnInv, TypeOK
  <1>4. ASSUME NEW i \in Items, NEW f \in Fixes, TokenExpires(i, f) PROVE OwnInv'
    BY <1>4, Still, AroundOwn DEF TokenExpires, ServerTyped, store, server, OwnInv, TypeOK
  <1>5. ASSUME CatalogArrives PROVE OwnInv'
    <2>1. MaxCat \in Cats
      BY BoundsAssumption DEF Cats
    <2> QED
      BY <1>5, <2>1, Still, AroundOwn DEF CatalogArrives, StoreTyped, store, server, OwnInv, TypeOK
  <1>6. ASSUME Import \/ Retire PROVE OwnInv'
    <2>1. srvCat' \in Cats /\ srvOld' \in 1..srvCat'
      BY <1>6, BoundsAssumption DEF Import, Retire, OwnInv, TypeOK, Cats
    <2>2. UNCHANGED <<session, store, pass, wire, late, token, ledger, faults>>
      BY <1>6 DEF Import, Retire
    <2> QED
      BY <2>1, <2>2, Still, AroundOwn DEF ServerTyped, store, OwnInv, TypeOK
  <1> QED
    BY <1>1, <1>2, <1>3, <1>4, <1>5, <1>6, RunOutboxOwn, DeliverOwn, CrashOwn, EnqueueOwn,
       DrainOwn, ArrivesOwn DEF World

LEMMA OwnKept ==
    ASSUME OwnInv, [Next]_vars
    PROVE  OwnInv'
  <1>1. CASE UNCHANGED vars
    <2>1. UNCHANGED <<row, pass, wire, ledger, faults>> /\ late' \subseteq late
      BY <1>1 DEF vars, store, server
    <2> QED
      BY <1>1, <2>1, Still, AroundOwn DEF vars
  <1> QED
    BY <1>1, PassStepOwn, WorldOwn DEF Next

LEMMA OwnInit == Init => OwnInv
  <1> SUFFICES ASSUME Init PROVE OwnInv
    OBVIOUS
  <1>1. /\ 1 \in Cats /\ 1 \in 1..1 /\ 0 \in 0..2 /\ MaxFaults \in 0..MaxFaults
        /\ <<>> \in Seq(Users \cup {Nobody}) /\ None \in Challenges
    BY BoundsAssumption DEF Cats, Challenges
  <1>2. [f \in Fixes |-> None] \in [Fixes -> Challenges]
    BY <1>1
  <1>3. row \in [Items -> Rows]
    BY <1>1, <1>2 DEF Init, Rows, Statuses
  <1>4. ledger \in [Users -> [Items -> Records]] /\ wire.st = "none"
    BY DEF Init, Records, NoWire
  <1>5. TypeOK
    BY <1>1, <1>3, <1>4, NoFun DEF Init, TypeOK, PCs
  <1>6. Sending = {}
    BY NoFun DEF Init, Sending
  <1>7. FlowInv
    BY <1>4, <1>6 DEF Init, FlowInv, MineInv, PassInv, WireInv, BatchInv, AfterToken, Working
  <1>8. LateOwned /\ PlaysBelongToOwner
    BY DEF Init, LateOwned, PlaysBelongToOwner
  <1> QED
    BY <1>5, <1>7, <1>8 DEF OwnInv

\* Whatever is lost, late or killed, each pass and request keeps to its owner.
THEOREM OwnInvHolds == Spec => []OwnInv
  <1>1. OwnInv /\ [Next]_vars => OwnInv'
    BY OwnKept
  <1> QED
    BY OwnInit, <1>1, PTL DEF Spec

-----------------------------------------------------------------------------
(* What follows: types, accounts, rewrites.                                *)

\* Every variable has its type, whatever is lost, late or killed.
THEOREM OutboxIsTyped == Spec => []TypeOK
  <1>1. OwnInv => TypeOK
    BY DEF OwnInv
  <1> QED
    BY <1>1, OwnInvHolds, PTL

\* No play is ever recorded in an account that is not its owner's, however
\* users sign in and out during a pass and however late a request arrives.
THEOREM NoPlayInAnotherAccount == Spec => []PlaysBelongToOwner
  <1>1. OwnInv => PlaysBelongToOwner
    BY DEF OwnInv
  <1> QED
    BY <1>1, OwnInvHolds, PTL

\* A pass changes rows of its own user only, but for dead letters past their
\* retention.
THEOREM OnlyOwnersRewrite == Spec => OnlyOwnersPassRewrites
  <1> DEFINE Mine(i) == \/ row[i].status = "absent" /\ user = Owner[i]
                        \/ row'[i].status = "gone" /\ row[i].status = "needs_attention" /\ aged[i]
                        \/ pc # "idle" /\ RunUser = Owner[i]
                        \/ pc = "idle" /\ RunUser = Owner[i] /\ user = Owner[i]
  <1>1. ASSUME OwnInv, [Next]_vars, NEW i \in Items, row'[i] # row[i]
        PROVE  Mine(i)
    <2>1. \/ StartPass \/ Rematch \/ LastCheck \/ Persist
          \/ \E j \in Items : MarkSent(j) \/ Apply(j) \/ Enqueue(j)
      BY <1>1 DEF Next, PassStep, World, vars, store, RunOutbox, NextBatch, Turn, PassDone,
         GetToken, Redeem, Receive, NetError, Refresh, AfterApply, StoreRejects, Deliver,
         SignIn, Crash, Tick, Lapse, TokenExpires, CatalogArrives, Import, Retire, Drain, Arrives
    <2>2. CASE StartPass
      <3>1. Owner[i] # Nobody /\ pc = "idle"
        BY <2>2, UsersAssumption DEF StartPass
      <3>2. \/ row'[i] = AtPassStart(i, Nobody)
            \/ row'[i] = AtPassStart(i, RunUser) /\ user = RunUser
        BY <2>2 DEF StartPass, UserChanged
      <3> QED
        BY <1>1, <3>1, <3>2, StartedRow DEF OwnInv
    <2>3. CASE \/ Rematch \/ LastCheck \/ Persist
               \/ \E j \in Items : MarkSent(j) \/ Apply(j)
      <3>1. pc # "idle"
        BY <2>3 DEF Rematch, LastCheck, Persist, MarkSent, Apply
      <3>2. i \in Sending
        <4>1. CASE Rematch
          BY <1>1, <4>1 DEF Rematch, OwnInv, TypeOK
        <4>2. CASE LastCheck
          BY <1>1, <4>2 DEF LastCheck, OwnInv, TypeOK
        <4>3. CASE Persist
          BY <1>1, <4>3 DEF Persist, OwnInv, TypeOK
        <4>4. ASSUME NEW j \in Items, MarkSent(j) PROVE i \in Sending
          BY <1>1, <4>4 DEF MarkSent, OwnInv, TypeOK
        <4>5. ASSUME NEW j \in Items, Apply(j) PROVE i \in Sending
          BY <1>1, <4>5 DEF Apply, OwnInv, TypeOK, FlowInv, PassInv
        <4> QED
          BY <2>3, <4>1, <4>2, <4>3, <4>4, <4>5
      <3> QED
        BY <1>1, <3>1, <3>2 DEF OwnInv, FlowInv, MineInv
    <2>4. ASSUME NEW j \in Items, Enqueue(j) PROVE Mine(i)
      BY <1>1, <2>4 DEF Enqueue, OwnInv, TypeOK
    <2> QED
      BY <2>1, <2>2, <2>3, <2>4
  <1>2. OwnInv /\ [Next]_vars => [\A i \in Items : row'[i] # row[i] => Mine(i)]_vars
    BY <1>1
  <1> QED
    BY <1>2, OwnInvHolds, PTL DEF Spec, OnlyOwnersPassRewrites
-----------------------------------------------------------------------------
(* The second invariant: every copy of a play is like its row.             *)

RowTokens(i) == {f \in Fixes : row[i].ch[f] = Redeemed}
Record(i) == ledger[Owner[i]][i]
Recorded(i) == Record(i) # NoRecord

\* The requests under way that carry a copy of the play.
UnderWay(i) == {q \in Stray : i \in DOMAIN q.body}

\* The server has a copy of the play, or may get one.
Copied(i) == Recorded(i) \/ UnderWay(i) # {}

\* No challenge of the play is left to redeem.
Frozen(i) == /\ row[i].status # "absent"
             /\ \A f \in Fixes : row[i].ch[f].st = "held" => lapsed[i]

\* Every copy says what the row says, but for a catalog that is too old by now.
CopyInv(i) ==
    /\ Copied(i) => Frozen(i)
    /\ \A q \in UnderWay(i) : /\ q.body[i].jtis = RowTokens(i)
                              /\ q.body[i].cat = row[i].cat \/ q.body[i].cat < srvOld
    /\ Recorded(i) => Record(i).body = [cat |-> row[i].cat, jtis |-> RowTokens(i)]

\* No copy of the play will ever be recorded as one that counts or waits.
Hopeless(i) == \/ Record(i).st = "rejected"
               \/ /\ ~Recorded(i)
                  /\ \A q \in UnderWay(i) : \/ q.body[i].cat < srvOld
                                            \/ i \in Refused /\ q.body[i].cat <= srvCat
Outdated(i) == ~Recorded(i) /\ row[i].cat < srvOld

\* What the row tells is so.
ToldInv(i) == /\ row[i].rematch => Outdated(i)
              /\ row[i].status = "accepted" => Record(i).st = "accepted"
              /\ row[i].status = "queued" => Recorded(i)
              /\ row[i].status \in {"needs_attention", "gone"} => Hopeless(i)

NoChallenge(i) == i \in Imports => \A f \in Fixes : row[i].ch[f] = None

PlayInv(i) == CopyInv(i) /\ ToldInv(i) /\ NoChallenge(i)

\* Only imports are sent together.
RoundInv == /\ round = 0 => Sending \cup todo \subseteq Imports
            /\ round # 0 => \A i, j \in Sending : i = j

StatusInv ==
    /\ pc \in {"redeem", "persist", "post", "refresh"} =>
           \A i \in Sending : row[i].status = "sent"
    /\ pc = "mark" => \A i \in Sending : row[i].status \in {"pending", "retry", "sent"}
    /\ pc = "token" => \A i \in Sending : row[i].status \in {"pending", "retry"}
    /\ pc = "rematch" => \A i \in Sending : row[i].status = "pending" /\ row[i].rematch

\* What the send works with is in the row, but for a challenge that has expired
\* and the one just learned.
InRow(i, f) == \/ work[i][f] = row[i].ch[f]
               \/ row[i].ch[f].st = "held" /\ work[i][f] = None /\ lapsed[i]
WorkInv ==
    /\ pc \in Working \ {"persist"} => \A i \in Sending, f \in Fixes : InRow(i, f)
    /\ pc = "persist" => \A i \in Sending, f \in Fixes :
                             work[i][f] = row[i].ch[f] \/ row[i].ch[f].st = "held"

\* While a challenge is being redeemed, there is no copy of the play.
HeldWork == \E i \in Sending, f \in Fixes : work[i][f].st = "held"
RedeemInv == pc \in {"redeem", "persist"} \/ (pc = "refresh" /\ HeldWork)
                 => \A i \in Sending : ~Copied(i)
PostInv == pc = "post" => /\ ~HeldWork
                          /\ \A i \in Sending : wire.req.body[i].cat = row[i].cat

\* An answer may be told.
Justified(i, a) == /\ a = "accepted" => Record(i).st = "accepted"
                   /\ a = "queued" => Recorded(i)
                   /\ a = "stale" => Outdated(i)
                   /\ a = "refused" => Hopeless(i)
                   /\ a # "conflict"
AnswerInv == /\ \A i \in DOMAIN answer : Justified(i, answer[i])
             /\ wire.st = "answered" => \A i \in DOMAIN wire.ans : Justified(i, wire.ans[i])

SendInv == /\ RoundInv /\ StatusInv /\ WorkInv /\ RedeemInv /\ PostInv /\ AnswerInv

CopiesInv == (\A i \in Items : PlayInv(i)) /\ SendInv
-----------------------------------------------------------------------------
(* How a play moves. *)

LEMMA CopyTypes ==
    ASSUME OwnInv, NEW i \in Items
    PROVE  /\ Owner[i] \in Users /\ Record(i) \in Records /\ row[i] \in Rows
           /\ row[i].ch \in [Fixes -> Challenges]
           /\ srvOld \in Nat /\ srvCat \in Nat /\ row[i].cat \in Nat
           /\ \A q \in UnderWay(i) : q.body[i] \in Bodies /\ q.body[i].cat \in Nat
  <1>1. Owner[i] \in Users /\ row[i] \in Rows /\ Record(i) \in Records
    BY UsersAssumption DEF OwnInv, TypeOK, Record
  <1>2. row[i].ch \in [Fixes -> Challenges] /\ row[i].cat \in Nat
    BY <1>1, BoundsAssumption DEF Rows, Cats
  <1>3. srvOld \in Nat /\ srvCat \in Nat
    BY BoundsAssumption DEF OwnInv, TypeOK, Cats
  <1>4. ASSUME NEW q \in UnderWay(i) PROVE q.body[i] \in Bodies /\ q.body[i].cat \in Nat
    <2>1. q \in Requests /\ i \in DOMAIN q.body
      BY StrayOwned DEF UnderWay
    <2>2. q.body[i] \in Bodies
      BY <2>1, RequestOut
    <2> QED
      BY <2>2, BoundsAssumption DEF Bodies, Cats
  <1> QED
    BY <1>1, <1>2, <1>3, <1>4

\* The device's step: the row moves, copies are as they were or new.
LEMMA RowMoves ==
    ASSUME OwnInv, NEW i \in Items, CopyInv(i), ToldInv(i),
           UNCHANGED <<ledger, srvCat, srvOld>>,
           row'[i].cat = row[i].cat,
           Copied(i) => Frozen(i)' /\ RowTokens(i)' = RowTokens(i),
           row'[i].rematch => Outdated(i),
           row'[i].status = "accepted" => Record(i).st = "accepted",
           row'[i].status = "queued" => Recorded(i),
           row'[i].status \in {"needs_attention", "gone"} =>
               Hopeless(i) /\ UnderWay(i)' \subseteq UnderWay(i),
           \A q \in UnderWay(i)' :
               \/ q \in UnderWay(i)
               \/ Frozen(i)' /\ q.body[i] = [cat |-> row'[i].cat, jtis |-> RowTokens(i)']
    PROVE  CopyInv(i)' /\ ToldInv(i)'
  <1>1. Record(i)' = Record(i) /\ (Recorded(i)' <=> Recorded(i))
    BY DEF Record, Recorded
  <1>2. CopyInv(i)'
    BY <1>1 DEF CopyInv, Copied
  <1>3. Outdated(i) => Outdated(i)'
    BY <1>1 DEF Outdated
  <1>4. Hopeless(i) /\ UnderWay(i)' \subseteq UnderWay(i) => Hopeless(i)'
    BY <1>1 DEF Hopeless
  <1> QED
    BY <1>1, <1>2, <1>3, <1>4 DEF ToldInv

\* What was justified stays so while no copy is new.
LEMMA StillJustified ==
    ASSUME OwnInv, NEW i \in Items, NEW a, Justified(i, a), UNCHANGED <<ledger, srvCat, srvOld>>,
           row'[i].cat = row[i].cat, UnderWay(i)' \subseteq UnderWay(i)
    PROVE  Justified(i, a)'
  <1>1. Record(i)' = Record(i) /\ (Recorded(i)' <=> Recorded(i))
    BY DEF Record, Recorded
  <1>2. Outdated(i) => Outdated(i)'
    BY <1>1 DEF Outdated
  <1>3. Hopeless(i) => Hopeless(i)'
    BY <1>1 DEF Hopeless
  <1> QED
    BY <1>1, <1>2, <1>3 DEF Justified

\* The server's step: its window moves, it resolves what it has, or it records a
\* copy that is under way.
Resolves(i) == /\ Record(i).st = "queued" /\ Record(i)'.st \in {"accepted", "rejected"}
               /\ Record(i)'.body = Record(i).body
Inserts(i, b) == /\ ~Recorded(i) /\ UNCHANGED <<srvCat, srvOld>>
                 /\ Intake(Owner[i], i, b) \in {"accepted", "queued"}
                 /\ Record(i)' = [st |-> Intake(Owner[i], i, b), body |-> b]

LEMMA ServerMoves ==
    ASSUME OwnInv, OwnInv', NEW i \in Items, CopyInv(i), ToldInv(i),
           row'[i] = row[i], lapsed[i] => lapsed'[i],
           UnderWay(i)' \subseteq UnderWay(i), srvCat' >= srvCat, srvOld' >= srvOld,
           \/ Record(i)' = Record(i)
           \/ Resolves(i)
           \/ \E q \in UnderWay(i) : Inserts(i, q.body[i])
    PROVE  /\ CopyInv(i)' /\ ToldInv(i)' /\ (~Copied(i) => ~Copied(i)')
           /\ \A a : Justified(i, a) => Justified(i, a)'
  <1>1. /\ RowTokens(i)' = RowTokens(i) /\ (Frozen(i) => Frozen(i)')
        /\ Recorded(i)' <=> Record(i)' # NoRecord
    BY DEF RowTokens, Frozen, Recorded
  <1>2. /\ srvOld \in Nat /\ srvOld' \in Nat /\ srvCat \in Nat /\ srvCat' \in Nat
        /\ srvOld <= srvCat
        /\ row[i].cat \in Nat /\ \A q \in UnderWay(i) : q.body[i].cat \in Nat
        /\ Record(i) \in Records /\ Record(i)' \in Records
    BY CopyTypes, BoundsAssumption DEF OwnInv, TypeOK, Cats, Record
  <1>3. CASE Record(i)' = Record(i)
    <2>1. Recorded(i)' <=> Recorded(i)
      BY <1>1, <1>3 DEF Recorded
    <2>2. Outdated(i) => Outdated(i)'
      BY <1>2, <2>1 DEF Outdated
    <2>3. Hopeless(i) => Hopeless(i)'
      BY <1>2, <1>3, <2>1 DEF Hopeless
    <2>4. CopyInv(i)'
      BY <1>1, <1>2, <1>3, <2>1 DEF CopyInv, Copied
    <2>5. ToldInv(i)' /\ \A a : Justified(i, a) => Justified(i, a)'
      BY <1>3, <2>1, <2>2, <2>3 DEF ToldInv, Justified
    <2> QED
      BY <2>1, <2>4, <2>5 DEF Copied
  <1>4. CASE Resolves(i)
    <2>1. Recorded(i) /\ Recorded(i)'
      BY <1>1, <1>4 DEF Resolves, Recorded, NoRecord
    <2>2. CopyInv(i)'
      BY <1>1, <1>2, <1>4, <2>1 DEF CopyInv, Copied, Resolves
    <2>3. ~Outdated(i) /\ ~Hopeless(i)
      BY <1>4, <2>1 DEF Outdated, Hopeless, Resolves
    <2> QED
      BY <1>4, <2>1, <2>2, <2>3 DEF ToldInv, Justified, Resolves, Copied
  <1>5. ASSUME NEW q \in UnderWay(i), Inserts(i, q.body[i])
        PROVE  /\ CopyInv(i)' /\ ToldInv(i)' /\ Copied(i)
               /\ \A a : Justified(i, a) => Justified(i, a)'
    <2> DEFINE b == q.body[i]
    <2>1. /\ ~Recorded(i) /\ Record(i)' = [st |-> Intake(Owner[i], i, b), body |-> b]
          /\ UNCHANGED <<srvCat, srvOld>> /\ ledger[Owner[i]][i] = NoRecord
      BY <1>5 DEF Inserts, Recorded, Record
    <2>2. ~(b.cat < srvOld) /\ ~(b.cat <= srvCat /\ i \in Refused)
      BY <1>2, <1>5, <2>1 DEF Inserts, Intake
    <2>3. Recorded(i)'
      BY <1>1, <2>1 DEF NoRecord, Inserts
    <2>4. b.cat = row[i].cat /\ b.jtis = RowTokens(i) /\ b \in Bodies
      BY <2>2, CopyTypes DEF CopyInv
    <2>5. b = [cat |-> row[i].cat, jtis |-> RowTokens(i)]
      BY <2>4 DEF Bodies
    <2>6. Frozen(i)
      BY DEF CopyInv, Copied
    <2>7. CopyInv(i)'
      BY <1>1, <2>1, <2>5, <2>6 DEF CopyInv, Copied
    <2>8. ~Outdated(i) /\ ~Hopeless(i) /\ Record(i).st # "accepted"
      BY <2>1, <2>2, <2>4 DEF Outdated, Hopeless, Recorded, NoRecord
    <2> QED
      BY <2>1, <2>3, <2>7, <2>8 DEF ToldInv, Justified, Copied
  <1> QED
    BY <1>3, <1>4, <1>5
-----------------------------------------------------------------------------
(* The steps of a pass keep the copies alike. *)

LEMMA StrayStill ==
    ASSUME UNCHANGED late, UNCHANGED wire \/ (wire.st # "sent" /\ wire'.st # "sent")
    PROVE  Stray' = Stray
  BY DEF Stray

LEMMA PlaysStill ==
    ASSUME OwnInv, OwnInv', CopiesInv, UNCHANGED <<row, lapsed, ledger, srvCat, srvOld>>,
           Stray' \subseteq Stray
    PROVE  \A i \in Items : /\ PlayInv(i)' /\ (~Copied(i) => ~Copied(i)')
                            /\ \A a : Justified(i, a) => Justified(i, a)'
  <1> SUFFICES ASSUME NEW i \in Items
               PROVE  /\ PlayInv(i)' /\ (~Copied(i) => ~Copied(i)')
                      /\ \A a : Justified(i, a) => Justified(i, a)'
    OBVIOUS
  <1>1. UnderWay(i)' \subseteq UnderWay(i)
    BY DEF UnderWay
  <1>2. srvCat' >= srvCat /\ srvOld' >= srvOld /\ Record(i)' = Record(i)
    BY CopyTypes DEF Record
  <1>3. PlayInv(i)
    BY DEF CopiesInv
  <1> QED
    BY <1>1, <1>2, <1>3, ServerMoves DEF PlayInv, NoChallenge

\* Between two sends there is nothing to keep but what is listed.
LEMMA RestSend ==
    ASSUME OwnInv', pc' \notin Working, RoundInv', StatusInv'
    PROVE  SendInv'
  <1>1. answer' = <<>> /\ wire'.st = "none"
    BY DEF OwnInv, FlowInv, PassInv, WireInv, Working
  <1>2. DOMAIN answer' = {}
    BY <1>1, NoFun
  <1>3. WorkInv' /\ RedeemInv' /\ PostInv'
    BY DEF WorkInv, RedeemInv, PostInv, Working
  <1>4. AnswerInv'
    BY <1>1, <1>2 DEF AnswerInv
  <1> QED
    BY <1>3, <1>4 DEF SendInv

LEMMA IdleSend ==
    ASSUME OwnInv', pc' = "idle"
    PROVE  SendInv'
  <1>1. Sending' = {} /\ todo' = {}
    BY DEF OwnInv, FlowInv, PassInv
  <1>2. RoundInv' /\ StatusInv'
    BY <1>1 DEF RoundInv, StatusInv
  <1> QED
    BY <1>2, RestSend DEF Working

LEMMA StartPassCopies ==
    ASSUME OwnInv, OwnInv', CopiesInv, StartPass
    PROVE  CopiesInv'
  <1>1. /\ pc = "idle" /\ chain # <<>>
        /\ UNCHANGED <<session, aged, devCat, wire, late, server, faults>>
    BY DEF StartPass
  <1>2. PICK u \in Users \cup {Nobody} : row' = [i \in Items |-> AtPassStart(i, u)]
    <2>1. RunUser \in Users \cup {Nobody}
      BY <1>1, Running DEF RunUser
    <2>2. \/ row' = [i \in Items |-> AtPassStart(i, Nobody)]
          \/ row' = [i \in Items |-> AtPassStart(i, RunUser)]
      BY DEF StartPass
    <2> QED
      BY <2>1, <2>2
  <1>3. ASSUME NEW i \in Items PROVE PlayInv(i)'
    <2>1. /\ row'[i].cat = row[i].cat /\ row'[i].ch = row[i].ch
          /\ row'[i].rematch = row[i].rematch
          /\ \/ row'[i].status = row[i].status
             \/ row[i].status = "needs_attention" /\ row'[i].status = "gone"
             \/ row[i].status = "sent" /\ row'[i].status = "retry"
      BY <1>2, StartedRow DEF OwnInv
    <2>2. /\ UnderWay(i)' = UnderWay(i) /\ RowTokens(i)' = RowTokens(i)
          /\ Frozen(i) => Frozen(i)'
      BY <1>1, <2>1, StrayStill DEF UnderWay, RowTokens, Frozen, session
    <2>3. PlayInv(i)
      BY DEF CopiesInv
    <2>4. CopyInv(i)' /\ ToldInv(i)'
      BY <1>1, <2>1, <2>2, <2>3, RowMoves DEF PlayInv, CopyInv, ToldInv, server
    <2> QED
      BY <2>1, <2>3, <2>4 DEF PlayInv, NoChallenge
  <1>4. CASE pc' = "idle"
    BY <1>3, <1>4, IdleSend DEF CopiesInv
  <1>5. CASE pc' # "idle"
    <2>1. pc' = "batch" /\ todo' \subseteq Imports
      BY <1>5 DEF StartPass, EndPass
    <2>2. Sending' = {} /\ round' = 0
      BY <2>1 DEF OwnInv, FlowInv, PassInv, BatchInv
    <2>3. RoundInv' /\ StatusInv'
      BY <2>1, <2>2 DEF RoundInv, StatusInv
    <2> QED
      BY <1>3, <2>1, <2>3, RestSend DEF CopiesInv, Working
  <1> QED
    BY <1>4, <1>5

\* Steps that list, take up or put away plays.
LEMMA ListingCopies ==
    ASSUME OwnInv, OwnInv', CopiesInv,
           \/ NextBatch \/ PassDone \/ GetToken \/ AfterApply \/ StoreRejects
           \/ \E i \in Items : Turn(i)
    PROVE  CopiesInv'
  <1>1. /\ UNCHANGED <<session, store, wire, late, server>>
        /\ pc' \notin Working
    BY DEF NextBatch, PassDone, GetToken, AfterApply, StoreRejects, Turn, EndPass, Working
  <1>2. \A i \in Items : PlayInv(i)'
    BY <1>1, StrayStill, PlaysStill DEF session, store, server
  <1>3. CASE EndPass
    BY <1>2, <1>3, IdleSend DEF EndPass, CopiesInv
  <1>4. CASE NextBatch /\ ~EndPass
    <2>1. pc = "batch" /\ round = 0 /\ Sending = {}
      BY <1>4 DEF NextBatch, OwnInv, FlowInv, PassInv, BatchInv
    <2>2. /\ Sending' \cup todo' \subseteq todo \/ (round' = 1 /\ UNCHANGED sending)
          /\ pc' = "token" => UNCHANGED round
          /\ pc' \in {"item", "token"}
      BY <1>4 DEF NextBatch, Sending
    <2>3. pc' = "token" => \A i \in Sending' : i \in todo
      BY <1>4, <2>1 DEF NextBatch, Sending
    <2>4. \A i \in todo : row[i].status \in {"pending", "retry"} /\ i \in Imports
      BY <2>1 DEF OwnInv, FlowInv, BatchInv, CopiesInv, SendInv, RoundInv
    <2>5. UNCHANGED sending => Sending' = {}
      BY <2>1 DEF Sending, sending
    <2>6. RoundInv'
      BY <2>1, <2>2, <2>3, <2>4, <2>5, <1>4 DEF RoundInv, NextBatch
    <2>7. StatusInv'
      BY <1>1, <2>2, <2>3, <2>4 DEF StatusInv, store
    <2> QED
      BY <1>1, <1>2, <2>6, <2>7, RestSend DEF CopiesInv
  <1>5. ASSUME NEW i \in Items, Turn(i), ~EndPass PROVE CopiesInv'
    <2>1. pc = "item" /\ round # 0
      BY <1>5 DEF Turn, OwnInv, FlowInv, BatchInv
    <2>2. \/ /\ pc' = "rematch" /\ prior' = [j \in {i} |-> "pending"] /\ UNCHANGED round
             /\ row[i].status = "pending" /\ row[i].rematch
          \/ /\ pc' = "token" /\ prior' = [j \in {i} |-> row[i].status] /\ UNCHANGED round
             /\ row[i].status \in {"pending", "retry"}
          \/ pc' = "item" /\ round' = 1 /\ prior' = <<>>
      BY <1>5 DEF Turn, Due
    <2>3. Sending' \subseteq {i} /\ round' # 0
      BY <2>1, <2>2, NoFun DEF Sending
    <2>4. RoundInv' /\ StatusInv'
      BY <1>1, <2>2, <2>3 DEF RoundInv, StatusInv, store
    <2> QED
      BY <1>1, <1>2, <2>4, RestSend DEF CopiesInv
  <1>6. CASE GetToken /\ ~EndPass
    <2>1. pc = "token" /\ pc' = "mark" /\ UNCHANGED <<todo, round, prior>>
      BY <1>6 DEF GetToken
    <2>2. RoundInv' /\ StatusInv'
      BY <1>1, <2>1 DEF RoundInv, StatusInv, CopiesInv, SendInv, Sending, store
    <2> QED
      BY <1>1, <1>2, <2>2, RestSend DEF CopiesInv
  <1>7. CASE AfterApply /\ ~EndPass
    <2>1. \/ round = 0 /\ pc' = "batch" /\ prior' = <<>> /\ UNCHANGED <<todo, round>>
          \/ round # 0 /\ pc' = "item" /\ round' = 2 /\ UNCHANGED <<todo, prior>>
          \/ round # 0 /\ pc' = "item" /\ todo' = todo \ Sending /\ round' = 1 /\ prior' = <<>>
      BY <1>7 DEF AfterApply
    <2>2. Sending' = Sending \/ Sending' = {}
      BY <2>1, NoFun DEF Sending
    <2>3. RoundInv' /\ StatusInv'
      BY <2>1, <2>2 DEF RoundInv, StatusInv, CopiesInv, SendInv
    <2> QED
      BY <1>1, <1>2, <2>3, RestSend DEF CopiesInv
  <1> QED
    BY <1>3, <1>4, <1>5, <1>6, <1>7 DEF PassDone, StoreRejects

LEMMA RematchCopies ==
    ASSUME OwnInv, OwnInv', CopiesInv, Rematch
    PROVE  CopiesInv'
  <1>1. /\ pc = "rematch" /\ pc' = "item"
        /\ UNCHANGED <<session, chain, todo, round, sending, wire, late, server>>
        /\ devCat' = devCat \/ devCat' = MaxCat
    BY DEF Rematch
  <1> PICK k \in Sending : \E r \in Rematched(row[k], devCat') : row' = [row EXCEPT ![k] = r]
    BY DEF Rematch
  <1>2. PICK r \in Rematched(row[k], devCat') : row' = [row EXCEPT ![k] = r]
    OBVIOUS
  <1>3. k \in Items /\ devCat' \in Cats /\ row[k] \in Rows /\ row[k].rematch
        /\ row[k].status = "pending"
    BY <1>1, Running, BoundsAssumption
       DEF OwnInv, TypeOK, Cats, CopiesInv, SendInv, StatusInv
  <1>4. /\ ~r.rematch /\ r.ch = row[k].ch
        /\ \/ r.status = "pending"
           \/ r.status = "needs_attention" /\ r.cat = row[k].cat
    BY <1>2, <1>3, RematchedRow
  <1>5. \A i \in Items : row'[i] = IF i = k THEN r ELSE row[i]
    BY <1>2 DEF OwnInv, TypeOK
  <1>6. ASSUME NEW i \in Items PROVE PlayInv(i)'
    <2>1. /\ UnderWay(i)' = UnderWay(i) /\ Record(i)' = Record(i) /\ UNCHANGED <<lapsed, srvOld>>
          /\ Recorded(i)' <=> Recorded(i)
      BY <1>1, StrayStill DEF UnderWay, Record, Recorded, session, server
    <2>2. PlayInv(i)
      BY DEF CopiesInv
    <2>3. CASE i # k
      BY <1>1, <1>5, <2>1, <2>2, <2>3, RowMoves
         DEF PlayInv, CopyInv, ToldInv, NoChallenge, Frozen, RowTokens, server
    <2>4. CASE i = k
      <3>1. ~Recorded(i) /\ row[i].cat < srvOld
        BY <1>3, <2>2, <2>4 DEF PlayInv, ToldInv, Outdated
      <3>2. \A q \in UnderWay(i) : q.body[i].cat < srvOld
        BY <2>2, <3>1 DEF PlayInv, CopyInv
      <3>3. RowTokens(i)' = RowTokens(i) /\ (Frozen(i) => Frozen(i)')
        BY <1>4, <1>5, <2>1, <2>4 DEF RowTokens, Frozen
      <3>4. CopyInv(i)'
        BY <2>1, <2>2, <3>1, <3>2, <3>3 DEF PlayInv, CopyInv, Copied
      <3>5. Hopeless(i)'
        BY <2>1, <3>1, <3>2 DEF Hopeless
      <3>6. ToldInv(i)' /\ NoChallenge(i)'
        BY <1>4, <1>5, <2>2, <2>4, <3>5 DEF PlayInv, ToldInv, NoChallenge
      <3> QED
        BY <3>4, <3>6 DEF PlayInv
    <2> QED
      BY <2>3, <2>4
  <1>7. RoundInv' /\ StatusInv'
    BY <1>1 DEF RoundInv, StatusInv, CopiesInv, SendInv, Sending, sending
  <1> QED
    BY <1>1, <1>6, <1>7, RestSend DEF CopiesInv, Working

LEMMA MarkSentCopies ==
    ASSUME OwnInv, OwnInv', CopiesInv, NEW k \in Items, MarkSent(k)
    PROVE  CopiesInv'
  <1>1. /\ pc = "mark" /\ k \in Sending /\ row' = [row EXCEPT ![k].status = "sent"]
        /\ UNCHANGED <<session, devCat, pass, wire, late, server, faults>>
    BY DEF MarkSent
  <1>2. ASSUME NEW i \in Items
        PROVE  /\ row'[i].cat = row[i].cat /\ row'[i].ch = row[i].ch
               /\ row'[i].rematch = row[i].rematch
               /\ row'[i].status = IF i = k THEN "sent" ELSE row[i].status
    <2> DEFINE q == [row[k] EXCEPT !.status = "sent"]
    <2>1. row[k] \in Rows /\ "sent" \in Statuses
      BY DEF OwnInv, TypeOK, Statuses
    <2>2. /\ q.cat = row[k].cat /\ q.ch = row[k].ch /\ q.rematch = row[k].rematch
          /\ q.status = "sent"
      BY <2>1, StatusEdit
    <2>3. row' = [row EXCEPT ![k] = q]
      BY <1>1
    <2> HIDE DEF q
    <2> QED
      BY <2>2, <2>3 DEF OwnInv, TypeOK
  <1>3. ASSUME NEW i \in Items PROVE PlayInv(i)'
    <2>1. /\ UnderWay(i)' = UnderWay(i) /\ RowTokens(i)' = RowTokens(i)
          /\ Frozen(i) => Frozen(i)'
      BY <1>1, <1>2, StrayStill DEF UnderWay, RowTokens, Frozen, session
    <2>2. PlayInv(i)
      BY DEF CopiesInv
    <2> QED
      BY <1>1, <1>2, <2>1, <2>2, RowMoves
         DEF PlayInv, CopyInv, ToldInv, NoChallenge, server
  <1>4. UNCHANGED <<pc, todo, round, Sending>>
    BY <1>1 DEF pass, Sending, sending
  <1>5. RoundInv' /\ StatusInv'
    BY <1>1, <1>2, <1>4, Running DEF RoundInv, StatusInv, CopiesInv, SendInv
  <1> QED
    BY <1>1, <1>3, <1>4, <1>5, RestSend DEF CopiesInv, Working


\* The send goes on with payloads that are in the rows.
LEMMA ContinuedDeep ==
    ASSUME OwnInv, OwnInv', Sending # {}, bearer = RunUser, RunUser \in Users, wire.st = "none",
           NEW w \in [Sending -> [Fixes -> Challenges]], Continue(w),
           UNCHANGED <<prior, late, lapsed>>, \A i \in Sending : row'[i].cat = row[i].cat,
           \A i \in Sending, f \in Fixes :
               \/ w[i][f] = row'[i].ch[f]
               \/ row'[i].ch[f].st = "held" /\ w[i][f] = None /\ lapsed[i]
    PROVE  /\ \A i \in Sending, f \in Fixes : InRow(i, f)'
           /\ wire'.st # "answered"
           /\ \/ /\ pc' = "redeem" /\ Stray' = Stray
                 /\ \E i \in Sending, f \in Fixes : row'[i].ch[f].st = "held" /\ ~lapsed[i]
              \/ /\ pc' = "post" /\ ~HeldWork' /\ DOMAIN wire'.req.body = Sending
                 /\ Stray' = Stray \cup {wire'.req}
                 /\ \A i \in Sending : /\ \A f \in Fixes : row'[i].ch[f].st = "held" => lapsed[i]
                                       /\ wire'.req.body[i] =
                                             [cat |-> row'[i].cat, jtis |-> RowTokens(i)']
  <1>1. /\ work' \in [Sending -> [Fixes -> Challenges]]
        /\ \A i \in Sending, f \in Fixes : work'[i][f] = Drop(i, w[i][f])
        /\ \/ /\ pc' = "redeem" /\ UNCHANGED wire
              /\ \E i \in Sending, f \in Fixes : work'[i][f].st = "held"
           \/ /\ pc' = "post" /\ wire'.st = "sent" /\ DOMAIN wire'.req.body = Sending
              /\ \A i \in Sending : wire'.req.body[i] =
                    [cat |-> row[i].cat, jtis |-> {f \in Fixes : work'[i][f] = Redeemed}]
              /\ \A i \in Sending, f \in Fixes : work'[i][f].st # "held"
    BY Continued
  <1>2. Sending' = Sending
    BY DEF Sending
  <1>3. ASSUME NEW i \in Sending, NEW f \in Fixes
        PROVE  /\ InRow(i, f)'
               /\ work'[i][f].st = "held" => row'[i].ch[f].st = "held" /\ ~lapsed[i]
               /\ row'[i].ch[f].st = "held" /\ work'[i][f].st # "held" => lapsed[i]
               /\ work'[i][f] = Redeemed <=> row'[i].ch[f] = Redeemed
    <2>1. work'[i][f] = IF lapsed[i] /\ w[i][f].st = "held" THEN None ELSE w[i][f]
      BY <1>1 DEF Drop
    <2>2. None.st = "none" /\ Redeemed.st = "redeemed" /\ None # Redeemed
      BY DEF None, Redeemed
    <2> QED
      BY <2>1, <2>2 DEF InRow
  <1>4. \A i \in Sending : RowTokens(i)' = {f \in Fixes : work'[i][f] = Redeemed}
    BY <1>3 DEF RowTokens
  <1>5. CASE pc' = "redeem"
    <2>1. UNCHANGED wire /\ \E i \in Sending, f \in Fixes : work'[i][f].st = "held"
      BY <1>1, <1>5
    <2>2. Stray' = Stray
      BY <2>1, StrayStill
    <2> QED
      BY <1>3, <1>5, <2>1, <2>2
  <1>6. CASE pc' = "post"
    <2>1. /\ wire'.st = "sent" /\ DOMAIN wire'.req.body = Sending
          /\ \A i \in Sending : wire'.req.body[i] =
                [cat |-> row[i].cat, jtis |-> {f \in Fixes : work'[i][f] = Redeemed}]
          /\ \A i \in Sending, f \in Fixes : work'[i][f].st # "held"
      BY <1>1, <1>6
    <2>2. Stray' = Stray \cup {wire'.req}
      BY <2>1 DEF Stray
    <2>3. ~HeldWork'
      BY <1>2, <2>1 DEF HeldWork
    <2>4. \A i \in Sending : wire'.req.body[i] = [cat |-> row'[i].cat, jtis |-> RowTokens(i)']
      BY <1>4, <2>1
    <2> QED
      BY <1>3, <1>6, <2>1, <2>2, <2>3, <2>4
  <1> QED
    BY <1>1, <1>5, <1>6

LEMMA ContinuedCopies ==
    ASSUME OwnInv, OwnInv', CopiesInv, pc \in AfterToken, wire.st = "none",
           NEW w \in [Sending -> [Fixes -> Challenges]], Continue(w),
           UNCHANGED <<prior, todo, round, late, lapsed, server>>, answer' = <<>>,
           \A i \in Sending, f \in Fixes :
               \/ w[i][f] = row'[i].ch[f]
               \/ row'[i].ch[f].st = "held" /\ w[i][f] = None /\ lapsed[i],
           \A i \in Items : /\ row'[i].status = row[i].status /\ row'[i].cat = row[i].cat
                            /\ row'[i].rematch = row[i].rematch /\ NoChallenge(i)'
                            /\ i \notin Sending \/ Copied(i) => row'[i].ch = row[i].ch,
           \A i \in Sending : row[i].status = "sent"
    PROVE  CopiesInv'
  <1>1. /\ Sending # {} /\ bearer = RunUser /\ RunUser \in Users /\ Sending \subseteq Items
        /\ Sending' = Sending
    BY Running DEF OwnInv, FlowInv, PassInv, AfterToken, Working, Sending
  <1>2. /\ \A i \in Sending, f \in Fixes : InRow(i, f)'
        /\ wire'.st # "answered"
        /\ \/ /\ pc' = "redeem" /\ Stray' = Stray
              /\ \E i \in Sending, f \in Fixes : row'[i].ch[f].st = "held" /\ ~lapsed[i]
           \/ /\ pc' = "post" /\ ~HeldWork' /\ DOMAIN wire'.req.body = Sending
              /\ Stray' = Stray \cup {wire'.req}
              /\ \A i \in Sending : /\ \A f \in Fixes : row'[i].ch[f].st = "held" => lapsed[i]
                                    /\ wire'.req.body[i] =
                                          [cat |-> row'[i].cat, jtis |-> RowTokens(i)']
    BY <1>1, ContinuedDeep
  <1>3. UNCHANGED <<ledger, srvCat, srvOld>>
    BY DEF server
  <1>4. \A i \in Items : PlayInv(i)
    BY DEF CopiesInv
  <1>5. ASSUME NEW i \in Items PROVE PlayInv(i)'
    <2>1. Copied(i) => Frozen(i)' /\ RowTokens(i)' = RowTokens(i)
      <3>1. Copied(i) => Frozen(i) /\ row'[i].ch = row[i].ch /\ row'[i].status = row[i].status
        BY <1>4 DEF PlayInv, CopyInv
      <3>2. UNCHANGED lapsed
        OBVIOUS
      <3> QED
        BY <3>1, <3>2 DEF Frozen, RowTokens
    <2>2. CASE i \in Sending
      <3>1. ASSUME NEW q \in UnderWay(i)'
            PROVE  \/ q \in UnderWay(i)
                   \/ Frozen(i)' /\ q.body[i] = [cat |-> row'[i].cat, jtis |-> RowTokens(i)']
        <4>1. q \in Stray' /\ i \in DOMAIN q.body
          BY DEF UnderWay
        <4>2. CASE q \in Stray
          BY <4>1, <4>2 DEF UnderWay
        <4>3. CASE q \notin Stray
          BY <1>2, <2>2, <4>1, <4>3 DEF Frozen
        <4> QED
          BY <4>2, <4>3
      <3>2. row'[i].status = "sent"
        BY <2>2
      <3> QED
        BY <1>3, <1>4, <2>1, <3>1, <3>2, RowMoves DEF PlayInv, ToldInv
    <2>3. CASE i \notin Sending
      <3>1. UnderWay(i)' \subseteq UnderWay(i)
        BY <1>2, <2>3 DEF UnderWay
      <3> QED
        BY <1>3, <1>4, <2>1, <3>1, RowMoves DEF PlayInv, ToldInv
    <2> QED
      BY <2>2, <2>3
  <1>6. RoundInv' /\ StatusInv' /\ WorkInv' /\ PostInv'
    <2>1. RoundInv'
      BY <1>1 DEF RoundInv, CopiesInv, SendInv
    <2>2. StatusInv' /\ WorkInv'
      BY <1>1, <1>2 DEF StatusInv, WorkInv
    <2>3. pc' = "post" => \A i \in Sending : wire'.req.body[i].cat = row'[i].cat
      <3> SUFFICES ASSUME pc' = "post", NEW i \in Sending
                   PROVE  wire'.req.body[i].cat = row'[i].cat
        OBVIOUS
      <3>1. wire'.req.body[i] = [cat |-> row'[i].cat, jtis |-> RowTokens(i)']
        BY <1>2
      <3> QED
        BY <3>1
    <2>4. PostInv'
      BY <1>1, <1>2, <2>3 DEF PostInv
    <2> QED
      BY <2>1, <2>2, <2>4
  <1>7. RedeemInv'
    <2> SUFFICES ASSUME pc' = "redeem" PROVE \A i \in Sending : ~Copied(i)'
      BY <1>1, <1>2 DEF RedeemInv
    <2>1. Stray' = Stray
      BY <1>2
    <2>2. PICK i \in Sending, f \in Fixes : row'[i].ch[f].st = "held" /\ ~lapsed[i]
      BY <1>2
    <2>3. ~Copied(i)
      <3>1. Copied(i) => Frozen(i) /\ row'[i].ch = row[i].ch
        BY <1>1, <1>4 DEF PlayInv, CopyInv
      <3> QED
        BY <2>2, <3>1 DEF Frozen
    <2>4. i \notin Imports
      BY <1>1, <2>2 DEF NoChallenge, None
    <2>5. \A j \in Sending : j = i
      BY <2>4 DEF CopiesInv, SendInv, RoundInv
    <2> QED
      BY <1>3, <2>1, <2>3, <2>5 DEF Copied, Recorded, Record, UnderWay
  <1>8. AnswerInv'
    BY <1>2, NoFun DEF AnswerInv
  <1> QED
    BY <1>5, <1>6, <1>7, <1>8 DEF CopiesInv, SendInv

LEMMA LastCheckCopies ==
    ASSUME OwnInv, OwnInv', CopiesInv, LastCheck
    PROVE  CopiesInv'
  <1>1. /\ pc = "mark" /\ UNCHANGED <<session, devCat, late, server, faults>>
        /\ \A i \in Sending : row[i].status = "sent"
    BY DEF LastCheck
  <1>2. /\ wire.st = "none" /\ answer = <<>> /\ Sending \subseteq Items
        /\ prior \in [Sending -> {"pending", "retry"}]
    BY <1>1, Running DEF OwnInv, FlowInv, PassInv
  <1>3. \A i \in Items : PlayInv(i)
    BY DEF CopiesInv
  <1>4. CASE UserChanged
    <2>1. /\ row' = [i \in Items |-> IF i \in Sending
                        THEN [row[i] EXCEPT !.status = prior[i]] ELSE row[i]]
          /\ EndPass /\ UNCHANGED wire
      BY <1>4 DEF LastCheck
    <2>2. ASSUME NEW i \in Items
          PROVE  /\ row'[i].cat = row[i].cat /\ row'[i].ch = row[i].ch
                 /\ row'[i].rematch = row[i].rematch
                 /\ row'[i].status = row[i].status \/ row'[i].status \in {"pending", "retry"}
      <3>1. CASE i \in Sending
        <4> DEFINE q == [row[i] EXCEPT !.status = prior[i]]
        <4>1. row[i] \in Rows /\ prior[i] \in Statuses /\ prior[i] \in {"pending", "retry"}
          BY <1>2, <3>1 DEF OwnInv, TypeOK, Statuses
        <4>2. /\ q.cat = row[i].cat /\ q.ch = row[i].ch /\ q.rematch = row[i].rematch
              /\ q.status = prior[i]
          BY <4>1, StatusEdit
        <4>3. row'[i] = q
          BY <2>1, <3>1
        <4> HIDE DEF q
        <4> QED
          BY <4>1, <4>2, <4>3
      <3>2. CASE i \notin Sending
        BY <2>1, <3>2
      <3> QED
        BY <3>1, <3>2
    <2>3. ASSUME NEW i \in Items PROVE PlayInv(i)'
      <3>1. /\ UnderWay(i)' = UnderWay(i) /\ RowTokens(i)' = RowTokens(i)
            /\ Frozen(i) => Frozen(i)'
        <4>1. Frozen(i) => Frozen(i)'
          BY <1>1, <2>2 DEF Frozen, session
        <4> QED
          BY <1>1, <2>1, <2>2, <4>1, StrayStill DEF UnderWay, RowTokens
      <3> QED
        BY <1>1, <1>3, <2>2, <3>1, RowMoves
           DEF PlayInv, CopyInv, ToldInv, NoChallenge, server
    <2> QED
      BY <2>1, <2>3, IdleSend DEF CopiesInv, EndPass
  <1>5. CASE ~UserChanged
    <2>1. /\ Continue([i \in Sending |-> row[i].ch])
          /\ UNCHANGED <<row, aged, chain, todo, round, refreshed, prior, forced, bearer, answer>>
      BY <1>5 DEF LastCheck
    <2> DEFINE w == [i \in Sending |-> row[i].ch]
    <2>2. w \in [Sending -> [Fixes -> Challenges]]
      BY <1>2 DEF OwnInv, TypeOK, Rows
    <2>3. \A i \in Sending, f \in Fixes : w[i][f] = row'[i].ch[f]
      BY <2>1
    <2>4. Continue(w)
      BY <2>1
    <2> HIDE DEF w
    <2>5. \A i \in Items : NoChallenge(i)'
      BY <1>3, <2>1 DEF PlayInv, NoChallenge
    <2> QED
      BY <1>1, <1>2, <2>1, <2>2, <2>3, <2>4, <2>5, ContinuedCopies DEF AfterToken, session
  <1> QED
    BY <1>4, <1>5


LEMMA RedeemLearns ==
    ASSUME OwnInv, pc = "redeem", NEW k \in Items, NEW f \in Fixes, AtFix(k, f),
           RedeemOk(k, f) \/ RedeemRefused(k, f) \/ RedeemFails(k, f) \/ Deferred(k, f)
    PROVE  /\ \/ pc' = "persist" /\ answer' = <<>>
              \/ pc' = "persist" /\ answer' = All("retry")
              \/ /\ pc' \in {"refresh", "apply"} /\ UNCHANGED work
                 /\ \E a \in {"retry", "unauthorized", "refused"} : answer' = All(a)
           /\ pc' = "persist" => \A i \in Sending, g \in Fixes :
                 work'[i][g] = work[i][g] \/ work[i][g].st = "held"
  <1>1. /\ work \in [Sending -> [Fixes -> Challenges]] /\ answer = <<>>
    BY Running DEF OwnInv, FlowInv, PassInv, Working
  <1>2. CASE RedeemFails(k, f)
    <2>1. UNCHANGED work /\ \E a \in {"retry", "unauthorized", "refused"} : AfterAnswer(All(a))
      BY <1>2 DEF RedeemFails
    <2> QED
      BY <2>1 DEF AfterAnswer
  <1>3. ASSUME NEW c, Learn(k, f, c)
        PROVE  pc' = "persist" /\ \A i \in Sending, g \in Fixes :
                   work'[i][g] = work[i][g] \/ work[i][g].st = "held"
    <2>1. k \in Sending /\ work[k][f].st = "held"
      BY DEF AtFix, IsHeld
    <2>2. pc' = "persist" /\ work' = [work EXCEPT ![k][f] = c]
      BY <1>3 DEF Learn
    <2>3. \A i \in Sending, g \in Fixes : i # k \/ g # f => work'[i][g] = work[i][g]
      BY <1>1, <2>2
    <2> QED
      BY <2>1, <2>2, <2>3
  <1>4. CASE RedeemOk(k, f) \/ RedeemRefused(k, f)
    BY <1>1, <1>3, <1>4 DEF RedeemOk, RedeemRefused
  <1>5. CASE Deferred(k, f)
    <2>1. CASE work[k][f].n < MaxDefer
      BY <1>3, <1>5, <2>1 DEF Deferred
    <2>2. CASE ~(work[k][f].n < MaxDefer)
      BY <1>1, <1>3, <1>5, <2>2 DEF Deferred
    <2> QED
      BY <2>1, <2>2
  <1> QED
    BY <1>2, <1>4, <1>5

\* An answer that says nothing of what is recorded, or that refuses a play of
\* which there is no copy.
LEMMA SafeAnswers ==
    ASSUME OwnInv, OwnInv', NEW a \in {"retry", "unauthorized", "refused"},
           answer' = All(a) \/ answer' = <<>>, wire'.st # "answered",
           a = "refused" => \A i \in Sending : ~Copied(i)'
    PROVE  AnswerInv'
  <1>1. CASE answer' = <<>>
    BY <1>1, NoFun DEF AnswerInv
  <1>2. CASE answer' = All(a)
    <2>1. DOMAIN answer' = Sending /\ \A i \in Sending : answer'[i] = a
      BY <1>2 DEF All
    <2>2. \A i \in Sending : ~Copied(i)' => Hopeless(i)'
      BY DEF Hopeless, Copied
    <2> QED
      BY <2>1, <2>2 DEF AnswerInv, Justified
  <1> QED
    BY <1>1, <1>2

LEMMA RedeemCopies ==
    ASSUME OwnInv, OwnInv', CopiesInv, Redeem
    PROVE  CopiesInv'
  <1>1. /\ pc = "redeem"
        /\ UNCHANGED <<session, store, chain, todo, round, refreshed, prior, forced, bearer,
                       wire, late, ledger, srvCat, srvOld>>
    BY DEF Redeem
  <1>2. /\ \/ pc' = "persist" /\ answer' = <<>>
           \/ pc' = "persist" /\ answer' = All("retry")
           \/ /\ pc' \in {"refresh", "apply"} /\ UNCHANGED work
              /\ \E a \in {"retry", "unauthorized", "refused"} : answer' = All(a)
        /\ pc' = "persist" => \A i \in Sending, g \in Fixes :
              work'[i][g] = work[i][g] \/ work[i][g].st = "held"
    BY <1>1, RedeemLearns DEF Redeem
  <1>3. Sending' = Sending /\ UNCHANGED <<row, lapsed>> /\ Stray' = Stray /\ wire'.st = "none"
        /\ Sending \subseteq Items
    BY <1>1, Running, StrayStill DEF Sending, store, session
  <1>4. \A i \in Items : PlayInv(i)' /\ (~Copied(i) => ~Copied(i)')
    BY <1>1, <1>3, PlaysStill
  <1>5. \A i \in Sending : ~Copied(i)' /\ row'[i].status = "sent"
    BY <1>1, <1>3, <1>4 DEF CopiesInv, SendInv, RedeemInv, StatusInv
  <1>6. RoundInv' /\ StatusInv' /\ RedeemInv' /\ PostInv'
    BY <1>1, <1>2, <1>3, <1>5
       DEF RoundInv, StatusInv, RedeemInv, PostInv, CopiesInv, SendInv
  <1>7. WorkInv'
    <2>1. \A i \in Sending, f \in Fixes : InRow(i, f)
      BY <1>1 DEF CopiesInv, SendInv, WorkInv, Working
    <2>2. \A i \in Sending, f \in Fixes :
              work[i][f] = row[i].ch[f] \/ row[i].ch[f].st = "held"
      BY <2>1 DEF InRow
    <2>3. CASE pc' = "persist"
      BY <1>2, <1>3, <2>2, <2>3 DEF WorkInv
    <2>4. CASE pc' # "persist"
      BY <1>2, <1>3, <2>1, <2>4 DEF WorkInv, InRow
    <2> QED
      BY <2>3, <2>4
  <1>8. AnswerInv'
    BY <1>2, <1>3, <1>5, SafeAnswers
  <1> QED
    BY <1>4, <1>6, <1>7, <1>8 DEF CopiesInv, SendInv

\* What was learned is in the store before anything is sent.
LEMMA PersistCopies ==
    ASSUME StoreFaults = FALSE, OwnInv, OwnInv', CopiesInv, Persist
    PROVE  CopiesInv'
  <1>1. /\ pc = "persist"
        /\ UNCHANGED <<session, aged, devCat, chain, todo, round, refreshed, prior, forced,
                       bearer, answer, late, server>>
        /\ row' = [i \in Items |-> IF i \in Sending
                      THEN [row[i] EXCEPT !.ch = work[i]] ELSE row[i]]
    BY DEF Persist
  <1>2. /\ wire.st = "none" /\ Sending \subseteq Items /\ DOMAIN work = Sending
        /\ work \in [Sending -> [Fixes -> Challenges]]
    BY <1>1, Running DEF OwnInv, FlowInv, PassInv, Working
  <1>3. /\ UNCHANGED <<lapsed, ledger, srvCat, srvOld>> /\ Sending' = Sending
    BY <1>1 DEF session, server, Sending
  <1>4. ASSUME NEW i \in Items
        PROVE  /\ row'[i].status = row[i].status /\ row'[i].cat = row[i].cat
               /\ row'[i].rematch = row[i].rematch
               /\ row'[i].ch = IF i \in Sending THEN work[i] ELSE row[i].ch
    <2>1. CASE i \in Sending
      <3> DEFINE q == [row[i] EXCEPT !.ch = work[i]]
      <3>1. row[i] \in Rows /\ work[i] \in [Fixes -> Challenges]
        BY <1>2, <2>1 DEF OwnInv, TypeOK
      <3>2. /\ q.status = row[i].status /\ q.cat = row[i].cat /\ q.rematch = row[i].rematch
            /\ q.ch = work[i]
        BY <3>1, TokensEdit
      <3>3. row'[i] = q
        BY <1>1, <2>1
      <3> HIDE DEF q
      <3> QED
        BY <2>1, <3>2, <3>3
    <2>2. CASE i \notin Sending
      BY <1>1, <2>2
    <2> QED
      BY <2>1, <2>2
  <1>5. \A i \in Sending : ~Copied(i) /\ row[i].status = "sent"
    BY <1>1 DEF CopiesInv, SendInv, RedeemInv, StatusInv
  <1>6. ASSUME NEW i \in Items PROVE PlayInv(i) /\ NoChallenge(i)'
    <2>1. PlayInv(i)
      BY DEF CopiesInv
    <2>2. CASE i \in Sending
      <3>1. \A f \in Fixes : work[i][f] = row[i].ch[f] \/ row[i].ch[f].st = "held"
        BY <1>1, <2>2 DEF CopiesInv, SendInv, WorkInv
      <3> QED
        BY <1>4, <2>1, <2>2, <3>1 DEF PlayInv, NoChallenge, None
    <2>3. CASE i \notin Sending
      BY <1>4, <2>1, <2>3 DEF PlayInv, NoChallenge
    <2> QED
      BY <2>1, <2>2, <2>3
  <1>7. CASE answer = <<>>
    <2>1. Continue(work) /\ answer' = <<>>
      BY <1>1, <1>7 DEF Persist
    <2>2. \A i \in Sending, f \in Fixes : work[i][f] = row'[i].ch[f]
      BY <1>2, <1>4
    <2>3. UNCHANGED <<prior, todo, round, late, lapsed, server>>
      BY <1>1, <1>3
    <2> QED
      BY <1>1, <1>2, <1>4, <1>5, <1>6, <2>1, <2>2, <2>3, ContinuedCopies
         DEF AfterToken, Working
  <1>8. CASE answer # <<>>
    <2>1. pc' = "apply" /\ UNCHANGED <<work, wire>>
      BY <1>8 DEF Persist
    <2>2. Stray' = Stray
      BY <1>1, <2>1, StrayStill
    <2>3. ASSUME NEW i \in Items PROVE PlayInv(i)'
      <3>1. UnderWay(i)' = UnderWay(i)
        BY <2>2 DEF UnderWay
      <3>2. Copied(i) => Frozen(i) /\ row'[i].ch = row[i].ch
        BY <1>4, <1>5, <1>6 DEF PlayInv, CopyInv
      <3>3. Copied(i) => Frozen(i)' /\ RowTokens(i)' = RowTokens(i)
        BY <1>3, <1>4, <3>2 DEF Frozen, RowTokens
      <3> QED
        BY <1>3, <1>4, <1>6, <3>1, <3>3, RowMoves DEF PlayInv, ToldInv
    <2>4. RoundInv' /\ StatusInv' /\ RedeemInv' /\ PostInv'
      BY <1>1, <1>3, <2>1 DEF RoundInv, StatusInv, RedeemInv, PostInv, CopiesInv, SendInv
    <2>5. WorkInv'
      BY <1>2, <1>3, <1>4, <2>1 DEF WorkInv, InRow
    <2>6. AnswerInv'
      <3>1. ASSUME NEW i \in DOMAIN answer PROVE Justified(i, answer[i])'
        <4>1. i \in Items /\ Justified(i, answer[i])
          BY Running DEF CopiesInv, SendInv, AnswerInv
        <4>2. UnderWay(i)' \subseteq UnderWay(i)
          BY <2>2 DEF UnderWay
        <4>3. UNCHANGED answer
          BY <1>1
        <4>4. Justified(i, answer[i])'
          BY <1>3, <1>4, <4>1, <4>2, <4>3, StillJustified DEF Justified
        <4> QED
          BY <4>4
      <3>2. UNCHANGED answer /\ wire'.st = "none"
        BY <1>1, <1>2, <2>1
      <3> QED
        BY <3>1, <3>2 DEF AnswerInv
    <2> QED
      BY <2>3, <2>4, <2>5, <2>6 DEF CopiesInv, SendInv
  <1> QED
    BY <1>7, <1>8


\* The answers of a request are there.
LEMMA AnsweredCopies ==
    ASSUME OwnInv, OwnInv', CopiesInv, pc = "post", NEW a, AfterAnswer(a), wire' = NoWire,
           Stray' = Stray,
           UNCHANGED <<session, store, chain, todo, round, refreshed, prior, work, forced,
                       bearer, server>>,
           AnswerInv'
    PROVE  CopiesInv'
  <1>1. /\ UNCHANGED <<row, lapsed, ledger, srvCat, srvOld, work, todo, round>>
        /\ Sending' = Sending /\ pc' \in {"refresh", "apply"}
    BY DEF session, store, server, Sending, AfterAnswer
  <1>2. \A i \in Items : PlayInv(i)'
    BY <1>1, PlaysStill
  <1>3. RoundInv' /\ StatusInv'
    BY <1>1 DEF RoundInv, StatusInv, CopiesInv, SendInv
  <1>4. WorkInv'
    BY <1>1 DEF WorkInv, InRow, Working, CopiesInv, SendInv
  <1>5. RedeemInv' /\ PostInv'
    BY <1>1 DEF RedeemInv, PostInv, HeldWork, CopiesInv, SendInv
  <1> QED
    BY <1>2, <1>3, <1>4, <1>5 DEF CopiesInv, SendInv

LEMMA ReceiveCopies ==
    ASSUME OwnInv, OwnInv', CopiesInv, Receive
    PROVE  CopiesInv'
  <1>1. /\ pc = "post" /\ wire.st = "answered" /\ AfterAnswer(wire.ans) /\ wire' = NoWire
        /\ UNCHANGED <<session, store, chain, todo, round, refreshed, prior, work, forced,
                       bearer, late, server, faults>>
    BY DEF Receive
  <1>2. Stray' = Stray /\ wire'.st = "none" /\ answer' = wire.ans
    BY <1>1, StrayStill DEF NoWire, AfterAnswer
  <1>3. DOMAIN wire.ans \subseteq Items
    BY <1>1, OwnedWire, RequestOut DEF OwnInv, TypeOK
  <1>4. UNCHANGED <<row, lapsed, ledger, srvCat, srvOld>>
    BY <1>1 DEF session, store, server
  <1>5. \A i \in Items : \A a : Justified(i, a) => Justified(i, a)'
    BY <1>2, <1>4, PlaysStill
  <1>6. \A i \in DOMAIN wire.ans : Justified(i, wire.ans[i])
    BY <1>1 DEF CopiesInv, SendInv, AnswerInv
  <1>7. AnswerInv'
    <2> DEFINE a == wire.ans
    <2>1. \A i \in DOMAIN a : Justified(i, a[i])
      BY <1>6
    <2>2. \A i \in DOMAIN a : i \in Items
      BY <1>3
    <2>3. answer' = a
      BY <1>2
    <2> HIDE DEF a
    <2>4. ASSUME NEW i \in DOMAIN answer' PROVE Justified(i, answer[i])'
      <3>1. Justified(i, a[i]) /\ i \in Items
        BY <2>1, <2>2, <2>3
      <3> DEFINE b == a[i]
      <3>2. Justified(i, b)
        BY <3>1
      <3>3. answer'[i] = b
        BY <2>3
      <3> HIDE DEF b
      <3> QED
        BY <1>2, <1>4, <3>1, <3>2, <3>3, StillJustified DEF Justified, UnderWay
    <2> QED
      BY <1>2, <2>4 DEF AnswerInv
  <1> QED
    BY <1>1, <1>2, <1>7, AnsweredCopies

LEMMA NetErrorCopies ==
    ASSUME OwnInv, OwnInv', CopiesInv, NetError
    PROVE  CopiesInv'
  <1>1. /\ pc = "post" /\ AfterAnswer(All("retry")) /\ wire' = NoWire /\ late' = Stray
        /\ UNCHANGED <<session, store, chain, todo, round, refreshed, prior, work, forced,
                       bearer, server>>
    BY DEF NetError
  <1>2. Stray' = Stray /\ wire'.st = "none" /\ answer' = All("retry")
    BY <1>1 DEF Stray, NoWire, AfterAnswer
  <1>3. AnswerInv'
    BY <1>2, SafeAnswers
  <1> QED
    BY <1>1, <1>2, <1>3, AnsweredCopies

LEMMA RefreshCopies ==
    ASSUME OwnInv, OwnInv', CopiesInv, Refresh
    PROVE  CopiesInv'
  <1>1. /\ pc = "refresh"
        /\ UNCHANGED <<lapsed, store, chain, todo, round, refreshed, prior, bearer, late, server>>
    BY DEF Refresh
  <1>2. /\ wire.st = "none" /\ Sending \subseteq Items
        /\ work \in [Sending -> [Fixes -> Challenges]] /\ DOMAIN answer = Sending
    BY <1>1, Running DEF OwnInv, FlowInv, PassInv, Working
  <1>3. /\ UNCHANGED <<row, lapsed, ledger, srvCat, srvOld, todo, round>> /\ Sending' = Sending
    BY <1>1 DEF store, server, Sending
  <1>4. \A i \in Sending, f \in Fixes : InRow(i, f)
    BY <1>1 DEF CopiesInv, SendInv, WorkInv, Working
  <1>5. CASE answer' = <<>> /\ Continue(work)
    <2>1. \A i \in Sending, f \in Fixes :
              \/ work[i][f] = row'[i].ch[f]
              \/ row'[i].ch[f].st = "held" /\ work[i][f] = None /\ lapsed[i]
      BY <1>3, <1>4 DEF InRow
    <2>2. \A i \in Items : NoChallenge(i)' /\ row'[i] = row[i]
      BY <1>3 DEF CopiesInv, PlayInv, NoChallenge
    <2>3. \A i \in Sending : row[i].status = "sent"
      BY <1>1 DEF CopiesInv, SendInv, StatusInv
    <2> QED
      BY <1>1, <1>2, <1>5, <2>1, <2>2, <2>3, ContinuedCopies DEF AfterToken, Working
  <1>6. CASE pc' = "apply" /\ UNCHANGED <<forced, answer, work, wire>>
    <2>1. Stray' = Stray
      BY <1>1, <1>6, StrayStill
    <2>2. \A i \in Items : PlayInv(i)' /\ \A a : Justified(i, a) => Justified(i, a)'
      BY <1>3, <2>1, PlaysStill
    <2>3. RoundInv' /\ StatusInv' /\ RedeemInv' /\ PostInv'
      BY <1>1, <1>3, <1>6 DEF RoundInv, StatusInv, RedeemInv, PostInv, CopiesInv, SendInv
    <2>4. WorkInv'
      BY <1>3, <1>4, <1>6 DEF WorkInv, InRow
    <2>5. AnswerInv'
      <3>1. ASSUME NEW i \in DOMAIN answer PROVE Justified(i, answer[i])'
        <4>1. i \in Items /\ Justified(i, answer[i])
          BY <1>2 DEF CopiesInv, SendInv, AnswerInv
        <4>2. UnderWay(i)' \subseteq UnderWay(i)
          BY <2>1 DEF UnderWay
        <4>3. UNCHANGED answer
          BY <1>6
        <4> QED
          BY <1>3, <4>1, <4>2, <4>3, StillJustified DEF Justified
      <3>2. UNCHANGED answer /\ wire'.st = "none"
        BY <1>2, <1>6
      <3> QED
        BY <3>1, <3>2 DEF AnswerInv
    <2> QED
      BY <2>2, <2>3, <2>4, <2>5 DEF CopiesInv, SendInv
  <1> QED
    BY <1>5, <1>6 DEF Refresh

\* The row is told what is so.
LEMMA ApplyCopies ==
    ASSUME OwnInv, OwnInv', CopiesInv, NEW k \in Items, Apply(k)
    PROVE  CopiesInv'
  <1> DEFINE p == [row[k] EXCEPT !.ch = work[k]]
             q == Answered(p, answer[k])
             a == answer[k]
  <1>1. /\ pc = "apply" /\ k \in DOMAIN answer /\ row' = [row EXCEPT ![k] = q]
        /\ UNCHANGED <<session, devCat, pass, wire, late, server, faults>>
    BY DEF Apply
  <1>2. /\ k \in Sending /\ work[k] \in [Fixes -> Challenges] /\ a \in Answers
        /\ row[k] \in Rows
    BY <1>1, Running DEF OwnInv, FlowInv, PassInv, Working, TypeOK
  <1>3. /\ q.status = AnswerStatus(a) /\ q.cat = row[k].cat /\ q.rematch = (a = "stale")
        /\ q.ch = work[k]
    <2>1. p \in Rows /\ p.cat = row[k].cat /\ p.ch = work[k]
      BY <1>2, TokensEdit
    <2> HIDE DEF p
    <2>2. q = [status |-> AnswerStatus(a), cat |-> p.cat, rematch |-> (a = "stale"),
               listed |-> p.listed, ch |-> p.ch]
      BY <1>2, <2>1, AnsweredRow
    <2> HIDE DEF q
    <2> QED
      BY <2>1, <2>2
  <1>4. a \in Answers /\ Justified(k, a)
    BY <1>1, <1>2 DEF CopiesInv, SendInv, AnswerInv
  <1> HIDE DEF q, a
  <1>5. \A i \in Items : row'[i] = IF i = k THEN q ELSE row[i]
    BY <1>1 DEF OwnInv, TypeOK
  <1>6. /\ UNCHANGED <<lapsed, ledger, srvCat, srvOld, pc, todo, round, work, answer, wire>>
        /\ Sending' = Sending /\ Stray' = Stray
    BY <1>1, StrayStill DEF session, server, pass, sending, Sending
  <1>7. \A i \in Sending, f \in Fixes : InRow(i, f)
    BY <1>1 DEF CopiesInv, SendInv, WorkInv, Working
  <1>8. \A i \in Items : UnderWay(i)' = UnderWay(i) /\ row'[i].cat = row[i].cat
    BY <1>3, <1>5, <1>6 DEF UnderWay
  <1>9. ASSUME NEW i \in Items PROVE PlayInv(i)'
    <2>1. PlayInv(i)
      BY DEF CopiesInv
    <2>2. CASE i = k
      <3>1. \A f \in Fixes : InRow(i, f) /\ row'[i].ch[f] = work[i][f]
        BY <1>2, <1>3, <1>5, <1>7, <2>2
      <3>2. None.st = "none" /\ Redeemed.st = "redeemed" /\ None # Redeemed
        BY DEF None, Redeemed
      <3>3. RowTokens(i)' = RowTokens(i)
        BY <3>1, <3>2 DEF RowTokens, InRow
      <3>4. row'[i].status = AnswerStatus(a) /\ row'[i].rematch = (a = "stale")
        BY <1>3, <1>5, <2>2
      <3>5. row'[i].status # "absent"
        BY <1>4, <3>4 DEF AnswerStatus, Answers
      <3>6. Frozen(i) => Frozen(i)'
        BY <1>6, <3>1, <3>2, <3>5 DEF Frozen, InRow
      <3>7. /\ row'[i].rematch => Outdated(i)
            /\ row'[i].status = "accepted" => Record(i).st = "accepted"
            /\ row'[i].status = "queued" => Recorded(i)
            /\ row'[i].status \in {"needs_attention", "gone"} => Hopeless(i)
        BY <1>4, <2>2, <3>4 DEF AnswerStatus, Answers, Justified
      <3>8. CopyInv(i)' /\ ToldInv(i)'
        BY <1>6, <1>8, <2>1, <3>3, <3>6, <3>7, RowMoves DEF PlayInv, CopyInv
      <3>9. NoChallenge(i)'
        BY <2>1, <3>1, <3>2 DEF PlayInv, NoChallenge, InRow
      <3> QED
        BY <3>8, <3>9 DEF PlayInv
    <2>3. CASE i # k
      <3>1. row'[i] = row[i]
        BY <1>5, <2>3
      <3> QED
        BY <1>6, <1>8, <2>1, <3>1, RowMoves
           DEF PlayInv, CopyInv, ToldInv, NoChallenge, Frozen, RowTokens
    <2> QED
      BY <2>2, <2>3
  <1>10. RoundInv' /\ StatusInv' /\ RedeemInv' /\ PostInv'
    BY <1>1, <1>6 DEF RoundInv, StatusInv, RedeemInv, PostInv, CopiesInv, SendInv
  <1>11. WorkInv'
    BY <1>1, <1>2, <1>3, <1>5, <1>6, <1>7, Running DEF WorkInv, InRow
  <1>12. AnswerInv'
    <2>1. ASSUME NEW i \in DOMAIN answer PROVE Justified(i, answer[i])'
      <3>1. i \in Items /\ Justified(i, answer[i])
        BY Running DEF CopiesInv, SendInv, AnswerInv
      <3> QED
        BY <1>6, <1>8, <3>1, StillJustified DEF Justified
    <2>2. wire'.st = "none"
      BY <1>1, <1>6, Running
    <2> QED
      BY <1>6, <2>1, <2>2 DEF AnswerInv
  <1> QED
    BY <1>9, <1>10, <1>11, <1>12 DEF CopiesInv, SendInv

LEMMA PassStepCopies ==
    ASSUME StoreFaults = FALSE, OwnInv, OwnInv', CopiesInv, PassStep
    PROVE  CopiesInv'
  BY StartPassCopies, ListingCopies, RematchCopies, MarkSentCopies, LastCheckCopies, RedeemCopies,
     PersistCopies, ReceiveCopies, NetErrorCopies, RefreshCopies, ApplyCopies DEF PassStep
-----------------------------------------------------------------------------
(* So does everything else. *)

\* The send under way, while the rows it has stay as they are.
LEMMA SendStill ==
    ASSUME OwnInv, OwnInv', CopiesInv, UNCHANGED <<pc, todo, round, sending>>,
           \A i \in Sending : /\ row'[i] = row[i] /\ (lapsed[i] => lapsed'[i])
                              /\ ~Copied(i) => ~Copied(i)',
           wire'.st # "none" => wire'.req = wire.req, AnswerInv'
    PROVE  SendInv'
  <1>1. Sending' = Sending /\ UNCHANGED work
    BY DEF Sending, sending
  <1>2. RoundInv' /\ StatusInv'
    BY <1>1 DEF RoundInv, StatusInv, CopiesInv, SendInv
  <1>3. WorkInv'
    BY <1>1 DEF WorkInv, InRow, CopiesInv, SendInv
  <1>4. RedeemInv'
    BY <1>1 DEF RedeemInv, HeldWork, CopiesInv, SendInv
  <1>5. pc' = "post" => wire'.st # "none"
    BY DEF OwnInv, FlowInv, WireInv
  <1>6. PostInv'
    BY <1>1, <1>5 DEF PostInv, HeldWork, CopiesInv, SendInv
  <1> QED
    BY <1>2, <1>3, <1>4, <1>6 DEF SendInv

LEMMA AnswerStill ==
    ASSUME OwnInv, CopiesInv, UNCHANGED <<answer, wire>>,
           \A i \in Sending : \A a : Justified(i, a) => Justified(i, a)'
    PROVE  AnswerInv'
  <1>1. DOMAIN answer \subseteq Sending /\ (wire.st = "answered" => DOMAIN wire.ans = Sending)
    BY NoFun DEF OwnInv, FlowInv, PassInv, WireInv, TypeOK
  <1>2. /\ \A i \in DOMAIN answer : Justified(i, answer[i])
        /\ wire.st = "answered" => \A i \in DOMAIN wire.ans : Justified(i, wire.ans[i])
    BY DEF CopiesInv, SendInv, AnswerInv
  <1> QED
    BY <1>1, <1>2 DEF AnswerInv, Justified

\* The world leaves the rows and the pass alone.
LEMMA WorldStill ==
    ASSUME OwnInv, OwnInv', CopiesInv, UNCHANGED <<row, pc, todo, round, sending>>,
           wire'.st # "none" => wire'.req = wire.req,
           UNCHANGED wire \/ AnswerInv',
           Stray' \subseteq Stray, srvCat' >= srvCat, srvOld' >= srvOld,
           \A i \in Items : lapsed[i] => lapsed'[i],
           \A i \in Items : \/ Record(i)' = Record(i)
                            \/ Resolves(i)
                            \/ \E q \in UnderWay(i) : Inserts(i, q.body[i])
    PROVE  CopiesInv'
  <1>1. ASSUME NEW i \in Items
        PROVE  /\ PlayInv(i)' /\ (~Copied(i) => ~Copied(i)')
               /\ \A a : Justified(i, a) => Justified(i, a)'
    <2>1. UnderWay(i)' \subseteq UnderWay(i)
      BY DEF UnderWay
    <2>2. PlayInv(i)
      BY DEF CopiesInv
    <2>3. /\ CopyInv(i)' /\ ToldInv(i)' /\ (~Copied(i) => ~Copied(i)')
          /\ \A a : Justified(i, a) => Justified(i, a)'
      BY <2>1, <2>2, ServerMoves DEF PlayInv
    <2> QED
      BY <2>2, <2>3 DEF PlayInv, NoChallenge
  <1>2. Sending \subseteq Items
    BY Running
  <1>3. AnswerInv'
    BY <1>1, <1>2, AnswerStill DEF sending
  <1>4. SendInv'
    BY <1>1, <1>2, <1>3, SendStill
  <1> QED
    BY <1>1, <1>4 DEF CopiesInv

LEMMA AroundCopies ==
    ASSUME OwnInv, OwnInv', CopiesInv,
           \/ RunOutbox \/ CatalogArrives \/ Import \/ Retire
           \/ \E u \in Users \cup {Nobody} : SignIn(u)
           \/ \E i \in Items : Tick(i) \/ Lapse(i)
           \/ \E i \in Items, f \in Fixes : TokenExpires(i, f)
    PROVE  CopiesInv'
  <1>1. UNCHANGED <<row, pc, todo, round, sending, wire, late, ledger>>
    BY DEF RunOutbox, CatalogArrives, Import, Retire, SignIn, Tick, Lapse, TokenExpires,
       store, pass, server
  <1>2. \A i \in Items : lapsed[i] => lapsed'[i]
    BY DEF RunOutbox, CatalogArrives, Import, Retire, SignIn, Tick, Lapse, TokenExpires,
       session, OwnInv, TypeOK
  <1>3. srvOld \in Nat /\ srvCat \in Nat
    BY BoundsAssumption DEF OwnInv, TypeOK, Cats
  <1>4. srvCat' >= srvCat /\ srvOld' >= srvOld
    BY <1>3 DEF RunOutbox, CatalogArrives, Import, Retire, SignIn, Tick, Lapse, TokenExpires,
       server
  <1>5. Stray' = Stray
    BY <1>1, StrayStill
  <1>6. \A i \in Items : Record(i)' = Record(i)
    BY <1>1 DEF Record
  <1> QED
    BY <1>1, <1>2, <1>4, <1>5, <1>6, WorldStill

LEMMA CrashCopies ==
    ASSUME OwnInv, OwnInv', CopiesInv, Crash
    PROVE  CopiesInv'
  <1>1. pc' = "idle" /\ wire' = NoWire /\ late' = Stray /\ UNCHANGED <<session, store, server>>
    BY DEF Crash
  <1>2. Stray' = Stray
    BY <1>1 DEF Stray, NoWire
  <1>3. \A i \in Items : PlayInv(i)'
    BY <1>1, <1>2, PlaysStill DEF session, store, server
  <1> QED
    BY <1>1, <1>3, IdleSend DEF CopiesInv

LEMMA DrainCopies ==
    ASSUME OwnInv, OwnInv', CopiesInv, NEW u \in Users, NEW k \in Items, Drain(u, k)
    PROVE  CopiesInv'
  <1>1. /\ ledger[u][k].st = "queued"
        /\ UNCHANGED <<session, store, pass, wire, late, token, srvCat, srvOld, faults>>
    BY DEF Drain
  <1>2. PICK st \in {"accepted", "rejected"} : ledger' = [ledger EXCEPT ![u][k].st = st]
    BY DEF Drain
  <1> DEFINE q == [ledger[u][k] EXCEPT !.st = st]
  <1>3. q.st = st /\ q.body = ledger[u][k].body
    BY <1>1 DEF OwnInv, TypeOK, Records, NoRecord
  <1>4. ledger' = [ledger EXCEPT ![u][k] = q]
    BY <1>2
  <1> HIDE DEF q
  <1>5. \A i \in Items : Record(i)' = IF i = k /\ Owner[k] = u THEN q ELSE Record(i)
    BY <1>4, UsersAssumption DEF OwnInv, TypeOK, Record
  <1>6. \A i \in Items : Record(i)' = Record(i) \/ Resolves(i)
    BY <1>1, <1>2, <1>3, <1>5 DEF Resolves, Record
  <1>7. Stray' = Stray /\ srvCat' >= srvCat /\ srvOld' >= srvOld
    BY <1>1, StrayStill, BoundsAssumption DEF OwnInv, TypeOK, Cats
  <1>8. UNCHANGED <<row, lapsed, pc, todo, round, sending>>
    BY <1>1 DEF session, store, pass
  <1> QED
    BY <1>1, <1>6, <1>7, <1>8, WorldStill

\* What a request inserts is a copy that was under way.
LEMMA InsertedCopies ==
    ASSUME OwnInv, NEW q \in Stray, NEW S \in SUBSET DOMAIN q.body, Insert(q, S),
           UNCHANGED <<srvCat, srvOld>>
    PROVE  \A i \in Items : \/ Record(i)' = Record(i)
                            \/ \E r \in UnderWay(i) : Inserts(i, r.body[i])
  <1>1. q \in Requests /\ \A i \in DOMAIN q.body : q.user = Owner[i]
    BY StrayOwned
  <1>2. ASSUME NEW i \in Items, Record(i)' # Record(i)
        PROVE  q \in UnderWay(i) /\ Inserts(i, q.body[i])
    <2>1. Owner[i] \in Users
      BY UsersAssumption
    <2>2. /\ Owner[i] = q.user /\ i \in S /\ ledger[Owner[i]][i] = NoRecord
          /\ Intake(Owner[i], i, q.body[i]) \in {"accepted", "queued"}
          /\ ledger'[Owner[i]][i] = [st |-> Intake(Owner[i], i, q.body[i]), body |-> q.body[i]]
      BY <1>1, <1>2, <2>1, Inserted DEF Record
    <2> QED
      BY <2>2 DEF UnderWay, Inserts, Record, Recorded
  <1> QED
    BY <1>2

LEMMA ArrivesCopies ==
    ASSUME OwnInv, OwnInv', CopiesInv, NEW q \in late, Arrives(q)
    PROVE  CopiesInv'
  <1>1. /\ late' = late \ {q} /\ (Insert(q, DOMAIN q.body) \/ UNCHANGED <<ledger, token>>)
        /\ UNCHANGED <<session, store, pass, wire, srvCat, srvOld, faults>>
    BY DEF Arrives
  <1>2. q \in Stray /\ Stray' \subseteq Stray
    BY <1>1 DEF Stray
  <1>3. \A i \in Items : \/ Record(i)' = Record(i)
                         \/ \E r \in UnderWay(i) : Inserts(i, r.body[i])
    <2>1. CASE Insert(q, DOMAIN q.body)
      BY <1>1, <1>2, <2>1, InsertedCopies
    <2>2. CASE UNCHANGED <<ledger, token>>
      BY <2>2 DEF Record
    <2> QED
      BY <1>1, <2>1, <2>2
  <1>4. srvCat' >= srvCat /\ srvOld' >= srvOld
    BY <1>1, BoundsAssumption DEF OwnInv, TypeOK, Cats
  <1>5. UNCHANGED <<row, lapsed, pc, todo, round, sending, wire>>
    BY <1>1 DEF session, store, pass
  <1> QED
    BY <1>2, <1>3, <1>4, <1>5, WorldStill


\* What the intake answers to a copy that is like the row is so.
LEMMA AnswersJustified ==
    ASSUME OwnInv, OwnInv', CopiesInv, wire.st = "sent", UNCHANGED <<row, srvCat, srvOld>>,
           Stray' \subseteq Stray,
           NEW S \in SUBSET DOMAIN wire.req.body, Insert(wire.req, S), NEW i \in S,
           NEW c, c = Intake(wire.req.user, i, wire.req.body[i])
    PROVE  Justified(i, c)'
  <1> DEFINE q == wire.req
             b == wire.req.body[i]
  <1>1. /\ q \in Stray /\ q \in Requests /\ DOMAIN q.body = Sending /\ pc = "post"
        /\ i \in Sending /\ Owner[i] = q.user /\ q.user \in Users
    BY OwnedWire, RequestOut DEF Stray
  <1>2. i \in Items /\ q \in UnderWay(i)
    BY <1>1, Running DEF UnderWay
  <1>3. CopyInv(i) /\ b.cat = row[i].cat
    BY <1>1, <1>2 DEF CopiesInv, PlayInv, SendInv, PostInv
  <1>4. /\ Record(i) \in Records /\ srvOld \in Nat /\ srvCat \in Nat /\ row[i].cat \in Nat
        /\ b \in Bodies /\ \A r \in UnderWay(i) : r.body[i].cat \in Nat
    BY <1>2, CopyTypes
  <1>5. b = [cat |-> row[i].cat, jtis |-> RowTokens(i)]
    <2>1. b.jtis = RowTokens(i)
      BY <1>2, <1>3 DEF CopyInv
    <2> QED
      BY <1>3, <1>4, <2>1 DEF Bodies
  <1>6. UnderWay(i)' \subseteq UnderWay(i)
    BY DEF UnderWay
  <1>7. ledger[q.user][i] = Record(i) /\ ledger'[q.user][i] = Record(i)'
    BY <1>1 DEF Record
  <1>8. /\ \/ Record(i)' = Record(i)
           \/ /\ Record(i) = NoRecord /\ c \in {"accepted", "queued"}
              /\ Record(i)' = [st |-> c, body |-> b]
        /\ c \in {"accepted", "queued"} => Record(i)' # NoRecord
    <2>1. /\ \/ ledger'[q.user][i] = ledger[q.user][i]
             \/ /\ ledger[q.user][i] = NoRecord
                /\ Intake(q.user, i, b) \in {"accepted", "queued"}
                /\ ledger'[q.user][i] = [st |-> Intake(q.user, i, b), body |-> b]
          /\ Intake(q.user, i, b) \in {"accepted", "queued"} => ledger'[q.user][i] # NoRecord
      BY <1>1, <1>2, Inserted
    <2> QED
      BY <1>7, <2>1
  <1>9. CASE Recorded(i)
    <2>1. Record(i)' = Record(i) /\ Recorded(i)'
      BY <1>8, <1>9 DEF Recorded
    <2>2. c = Replay(Record(i).st)
      BY <1>3, <1>5, <1>7, <1>9 DEF Intake, CopyInv, Recorded
    <2>3. Record(i).st \in {"queued", "accepted", "rejected"}
      BY <1>4, <1>9 DEF Records, Recorded
    <2>4. /\ Record(i).st = "rejected" => c = "refused"
          /\ Record(i).st # "rejected" => c = Record(i).st
      BY <2>2 DEF Replay
    <2> QED
      BY <2>1, <2>3, <2>4 DEF Justified, Hopeless
  <1>10. CASE ~Recorded(i)
    <2>1. \/ c = "stale" /\ b.cat < srvOld
          \/ c = "refused" /\ b.cat <= srvCat /\ i \in Refused
          \/ c \in {"queued", "accepted"}
      BY <1>4, <1>7, <1>10 DEF Intake, Recorded, Bodies, Cats
    <2>2. CASE c \in {"queued", "accepted"}
      <3>1. Record(i)' = [st |-> c, body |-> b] /\ Record(i)' # NoRecord
        BY <1>8, <1>10, <2>2 DEF Recorded
      <3>2. Recorded(i)' /\ Record(i)'.st = c
        BY <3>1 DEF Recorded
      <3> QED
        BY <2>2, <3>2 DEF Justified
    <2>3. CASE c \notin {"queued", "accepted"}
      <3>1. Record(i)' = Record(i) /\ ~Recorded(i)'
        BY <1>8, <1>10, <2>3 DEF Recorded
      <3>2. c = "stale" => Outdated(i)'
        BY <1>3, <2>1, <3>1 DEF Outdated
      <3>3. c = "refused" => Hopeless(i)'
        <4>1. c = "refused" => row[i].cat <= srvCat /\ i \in Refused
          BY <1>3, <2>1
        <4>2. \A r \in UnderWay(i)' : r.body[i].cat = row[i].cat \/ r.body[i].cat < srvOld
          BY <1>3, <1>6 DEF CopyInv
        <4> QED
          BY <3>1, <4>1, <4>2 DEF Hopeless
      <3>4. c # "conflict"
        BY <2>1
      <3> QED
        BY <2>3, <3>2, <3>3, <3>4 DEF Justified
    <2> QED
      BY <2>2, <2>3
  <1> QED
    BY <1>9, <1>10

LEMMA DeliverCopies ==
    ASSUME OwnInv, OwnInv', CopiesInv, Deliver
    PROVE  CopiesInv'
  <1>1. wire.st = "sent" /\ UNCHANGED <<session, store, pass, late, srvCat, srvOld>>
    BY DEF Deliver
  <1>2. PICK S \in SUBSET DOMAIN wire.req.body, other \in {"retry", "unauthorized"} :
           /\ Insert(wire.req, S)
           /\ wire' = [st |-> "answered", req |-> wire.req,
                       ans |-> [i \in DOMAIN wire.req.body |->
                                   IF i \in S
                                   THEN Intake(wire.req.user, i, wire.req.body[i])
                                   ELSE other]]
    BY DEF Deliver
  <1>3. wire'.st = "answered" /\ wire'.req = wire.req
    BY <1>2
  <1>4. wire.req \in Stray /\ Stray' \subseteq Stray
    BY <1>1, <1>3 DEF Stray
  <1>5. /\ UNCHANGED <<row, lapsed, pc, todo, round, sending, answer, prior>>
        /\ srvCat' >= srvCat /\ srvOld' >= srvOld
    BY <1>1, BoundsAssumption DEF session, store, pass, sending, OwnInv, TypeOK, Cats
  <1>6. \A i \in Items : \/ Record(i)' = Record(i)
                         \/ \E q \in UnderWay(i) : Inserts(i, q.body[i])
    BY <1>1, <1>2, <1>4, InsertedCopies
  <1>7. AnswerInv'
    <2>1. answer' = <<>>
      BY <1>1, <1>5, OwnedWire DEF OwnInv, FlowInv, PassInv
    <2> DEFINE ans == [i \in DOMAIN wire.req.body |->
                          IF i \in S THEN Intake(wire.req.user, i, wire.req.body[i]) ELSE other]
    <2>2. wire'.ans = ans /\ DOMAIN ans = DOMAIN wire.req.body
      BY <1>2
    <2>3. ASSUME NEW i \in DOMAIN ans, NEW c, c = ans[i] PROVE Justified(i, c)'
      <3>1. CASE i \in S
        BY <1>1, <1>2, <1>4, <1>5, <2>3, <3>1, AnswersJustified
      <3>2. CASE i \notin S
        BY <2>3, <3>2 DEF Justified
      <3> QED
        BY <3>1, <3>2
    <2> HIDE DEF ans
    <2> QED
      BY <2>1, <2>2, <2>3, NoFun DEF AnswerInv, Justified
  <1> QED
    BY <1>3, <1>4, <1>5, <1>6, <1>7, WorldStill

LEMMA EnqueueCopies ==
    ASSUME OwnInv, OwnInv', CopiesInv, NEW k \in Items, Enqueue(k)
    PROVE  CopiesInv'
  <1>1. /\ row[k].status = "absent"
        /\ UNCHANGED <<session, aged, devCat, pass, wire, late, server, faults>>
    BY DEF Enqueue
  <1>2. PICK H \in SUBSET Fixes : /\ k \in Imports => H = {}
           /\ row' = [row EXCEPT ![k] =
                      [status |-> "pending", cat |-> devCat, rematch |-> FALSE,
                       listed |-> TRUE,
                       ch |-> [f \in Fixes |-> IF f \in H THEN Held(0) ELSE None]]]
    BY DEF Enqueue
  <1> DEFINE h == [f \in Fixes |-> IF f \in H THEN Held(0) ELSE None]
             q == [status |-> "pending", cat |-> devCat, rematch |-> FALSE, listed |-> TRUE,
                   ch |-> h]
  <1>3. k \in Imports => \A f \in Fixes : h[f] = None
    BY <1>2
  <1> HIDE DEF h
  <1>4. q.status = "pending" /\ ~q.rematch /\ q.ch = h
    OBVIOUS
  <1>5. row' = [row EXCEPT ![k] = q]
    BY <1>2 DEF h
  <1> HIDE DEF q
  <1>6. \A i \in Items : row'[i] = IF i = k THEN q ELSE row[i]
    BY <1>5 DEF OwnInv, TypeOK
  <1>7. /\ UNCHANGED <<lapsed, ledger, srvCat, srvOld, pc, todo, round, sending, wire, late>>
        /\ Stray' = Stray /\ UNCHANGED answer
    BY <1>1, StrayStill DEF session, server, pass, sending
  <1>8. k \notin Sending /\ Sending \subseteq Items
    BY <1>1, Running DEF OwnInv, FlowInv, MineInv
  <1>9. \A i \in Items : /\ UnderWay(i)' = UnderWay(i) /\ Record(i)' = Record(i)
                         /\ Recorded(i)' = Recorded(i) /\ Copied(i)' = Copied(i)
    BY <1>7 DEF UnderWay, Record, Recorded, Copied
  <1>10. ASSUME NEW i \in Items PROVE PlayInv(i)'
    <2>1. PlayInv(i)
      BY DEF CopiesInv
    <2>2. CASE i = k
      <3>1. ~Copied(i)
        BY <1>1, <2>1, <2>2 DEF PlayInv, CopyInv, Frozen
      <3>2. ~Recorded(i)' /\ UnderWay(i)' = {}
        BY <1>9, <3>1 DEF Copied
      <3>3. CopyInv(i)'
        BY <3>2 DEF CopyInv, Copied
      <3>4. ToldInv(i)'
        BY <1>4, <1>6, <2>2 DEF ToldInv
      <3>5. NoChallenge(i)'
        BY <1>3, <1>4, <1>6, <2>2 DEF NoChallenge
      <3> QED
        BY <3>3, <3>4, <3>5 DEF PlayInv
    <2>3. CASE i # k
      <3>1. row'[i] = row[i]
        BY <1>6, <2>3
      <3> QED
        BY <1>7, <1>9, <2>1, <3>1, RowMoves
           DEF PlayInv, CopyInv, ToldInv, NoChallenge, Frozen, RowTokens
    <2> QED
      BY <2>2, <2>3
  <1>11. ASSUME NEW i \in Sending
         PROVE  /\ row'[i] = row[i] /\ (~Copied(i) => ~Copied(i)')
                /\ \A a : Justified(i, a) => Justified(i, a)'
    <2>1. i \in Items /\ row'[i] = row[i]
      BY <1>6, <1>8
    <2> QED
      BY <1>7, <1>9, <2>1, StillJustified
  <1>12. AnswerInv'
    BY <1>7, <1>11, AnswerStill
  <1>13. SendInv'
    BY <1>7, <1>11, <1>12, SendStill
  <1> QED
    BY <1>10, <1>13 DEF CopiesInv

LEMMA WorldCopies ==
    ASSUME OwnInv, OwnInv', CopiesInv, World
    PROVE  CopiesInv'
  BY AroundCopies, CrashCopies, DrainCopies, ArrivesCopies, DeliverCopies, EnqueueCopies DEF World

LEMMA CopiesKept ==
    ASSUME StoreFaults = FALSE, OwnInv, CopiesInv, [Next]_vars
    PROVE  CopiesInv'
  <1>1. OwnInv'
    BY OwnKept
  <1>2. CASE UNCHANGED vars
    <2>1. /\ UNCHANGED <<row, pc, todo, round, sending, wire, late, ledger, lapsed, srvCat, srvOld>>
      BY <1>2 DEF vars, store, server, pass, session
    <2>2. Stray' = Stray /\ srvCat' >= srvCat /\ srvOld' >= srvOld
      BY <2>1, StrayStill, BoundsAssumption DEF OwnInv, TypeOK, Cats
    <2>3. \A i \in Items : Record(i)' = Record(i)
      BY <2>1 DEF Record
    <2> QED
      BY <1>1, <2>1, <2>2, <2>3, WorldStill
  <1> QED
    BY <1>1, <1>2, PassStepCopies, WorldCopies DEF Next

LEMMA CopiesInit == Init => CopiesInv
  <1> SUFFICES ASSUME Init PROVE CopiesInv
    OBVIOUS
  <1>1. Sending = {} /\ DOMAIN answer = {} /\ wire.st = "none" /\ pc = "idle" /\ todo = {}
    BY NoFun DEF Init, Sending, NoWire
  <1>2. ASSUME NEW i \in Items PROVE PlayInv(i)
    <2>1. /\ row[i].status = "absent" /\ ~row[i].rematch /\ \A f \in Fixes : row[i].ch[f] = None
      BY DEF Init
    <2>2. ~Recorded(i) /\ UnderWay(i) = {}
      BY <1>1, UsersAssumption DEF Init, Recorded, Record, UnderWay, Stray
    <2> QED
      BY <2>1, <2>2 DEF PlayInv, CopyInv, ToldInv, NoChallenge, Copied
  <1>3. SendInv
    BY <1>1 DEF SendInv, RoundInv, StatusInv, WorkInv, RedeemInv, PostInv, AnswerInv, Working
  <1> QED
    BY <1>2, <1>3 DEF CopiesInv

\* While the store keeps what it is told, every copy of a play says the same.
THEOREM CopiesAlike ==
    ASSUME StoreFaults = FALSE
    PROVE  Spec => [](OwnInv /\ CopiesInv)
  <1>1. Init => OwnInv /\ CopiesInv
    BY OwnInit, CopiesInit
  <1>2. OwnInv /\ CopiesInv /\ [Next]_vars => (OwnInv /\ CopiesInv)'
    BY OwnKept, CopiesKept
  <1> QED
    BY <1>1, <1>2, PTL DEF Spec

\* A request on its way repeats what the server recorded, byte for byte.
THEOREM ReplaysAreIdentical ==
    ASSUME StoreFaults = FALSE
    PROVE  Spec => []ReplaysIdentical
  <1>1. OwnInv /\ CopiesInv => ReplaysIdentical
    <2> SUFFICES ASSUME OwnInv, CopiesInv, wire.st = "sent", NEW i \in DOMAIN wire.req.body,
                        ledger[wire.req.user][i] # NoRecord
                 PROVE  ledger[wire.req.user][i].body = wire.req.body[i]
      BY DEF ReplaysIdentical
    <2>1. /\ wire.req \in UnderWay(i) /\ i \in Sending /\ i \in Items /\ pc = "post"
          /\ wire.req.user = Owner[i]
      BY OwnedWire, Running DEF UnderWay, Stray
    <2>2. Recorded(i) /\ ledger[wire.req.user][i] = Record(i)
      BY <2>1 DEF Recorded, Record
    <2>3. /\ Record(i).body = [cat |-> row[i].cat, jtis |-> RowTokens(i)]
          /\ wire.req.body[i].jtis = RowTokens(i) /\ wire.req.body[i].cat = row[i].cat
      BY <2>1, <2>2 DEF CopiesInv, PlayInv, CopyInv, SendInv, PostInv
    <2>4. wire.req.body[i] \in Bodies
      BY <2>1, CopyTypes
    <2> QED
      BY <2>2, <2>3, <2>4 DEF Bodies
  <1> QED
    BY <1>1, CopiesAlike, PTL
-----------------------------------------------------------------------------
(* The outbox and the intake keep the ledger of plays they promise.         *)

LEMMA ToldCases ==
    ASSUME OwnInv, NEW i \in Items
    PROVE  /\ Told(i) = "open" <=> row[i].status \in {"absent", "pending", "sent", "retry"}
           /\ Told(i) = "dead" <=> row[i].status \in {"needs_attention", "gone"}
           /\ Told(i) \in {"open", "dead"} \/ Told(i) = row[i].status
           /\ Told(i) \in {"open", "dead", "accepted", "queued"}
  <1>1. row[i].status \in Statuses
    BY DEF OwnInv, TypeOK, Rows
  <1> QED
    BY <1>1 DEF Told, Statuses

LEMMA KeptCases ==
    ASSUME OwnInv, NEW i \in Items
    PROVE  /\ Record(i).st \in {"none", "queued", "accepted", "rejected"}
           /\ Record(i).st = "none" <=> ~Recorded(i)
  <1>1. Record(i) \in Records
    BY CopyTypes
  <1> QED
    BY <1>1 DEF Records, NoRecord, Recorded

\* At most one play is told something else than before, and it was open.
LEMMA TellsOne ==
    ASSUME OwnInv, OwnInv', CopiesInv', UNCHANGED ledger, NEW k \in Items,
           \A i \in Items \ {k} : Told(i)' = Told(i), Told(k) = "open" \/ Told(k)' = Told(k)
    PROVE  [Promise!Next]_(Promise!vars)
  <1>1. \A i \in Items : ledger'[Owner[i]][i].st = ledger[Owner[i]][i].st
    OBVIOUS
  <1>2. CASE Told(k)' = Told(k)
    <2>1. UNCHANGED Promise!vars
      BY <1>1, <1>2 DEF Promise!vars
    <2> QED
      BY <2>1
  <1>3. CASE Told(k)' # Told(k)
    <2> DEFINE t == Told(k)'
    <2>1. Told(k) = "open" /\ t \in {"accepted", "queued", "dead"}
      <3>1. Told(k)' \in {"open", "dead", "accepted", "queued"}
        BY DEF Told, OwnInv, TypeOK, Rows, Statuses
      <3> QED
        BY <1>3, <3>1
    <2>2. /\ t = "accepted" => row'[k].status = "accepted"
          /\ t = "queued" => row'[k].status = "queued"
          /\ t = "dead" => row'[k].status \in {"needs_attention", "gone"}
      BY DEF Told, OwnInv, TypeOK, Rows, Statuses
    <2>3. /\ t = "accepted" => Record(k)'.st = "accepted"
          /\ t = "queued" => Recorded(k)'
          /\ t = "dead" => Record(k)'.st = "rejected" \/ ~Recorded(k)'
      BY <2>2 DEF CopiesInv, PlayInv, ToldInv, Hopeless
    <2>4. Record(k)'.st = Record(k).st /\ (Recorded(k)' <=> Record(k).st # "none")
      <3>1. Record(k)'.st = "none" <=> ~Recorded(k)'
        <4>1. Record(k)' \in Records
          BY UsersAssumption DEF OwnInv, TypeOK, Record
        <4>2. Recorded(k)' <=> Record(k)' # NoRecord
          BY DEF Recorded
        <4> QED
          BY <4>1, <4>2 DEF Records, NoRecord
      <3> QED
        BY <3>1 DEF Record
    <2>5. \/ t = "accepted" /\ ledger[Owner[k]][k].st = "accepted"
          \/ t = "queued" /\ ledger[Owner[k]][k].st # "none"
          \/ t = "dead" /\ ledger[Owner[k]][k].st \in {"none", "rejected"}
      BY <2>1, <2>3, <2>4 DEF Record
    <2>6. \A i \in Items : Told(i)' = IF i = k THEN t ELSE Told(i)
      OBVIOUS
    <2> HIDE DEF t
    <2>7. Promise!Tell(k, t)
      BY <1>1, <2>1, <2>5, <2>6 DEF Promise!Tell
    <2>8. t \in Promise!Tellings
      BY <2>1 DEF Promise!Tellings
    <2> QED
      BY <2>7, <2>8 DEF Promise!Next
  <1> QED
    BY <1>2, <1>3

LEMMA RecordsSome ==
    ASSUME OwnInv, CopiesInv, UNCHANGED row,
           \A i \in Items : \/ Record(i)' = Record(i)
                            \/ \E q \in UnderWay(i) : Inserts(i, q.body[i])
    PROVE  [Promise!Next]_(Promise!vars)
  <1> PICK S \in SUBSET Items : S = {i \in Items : Record(i)' # Record(i)}
    OBVIOUS
  <1> DEFINE k == [i \in S |-> Record(i)'.st]
  <1>1. ASSUME NEW i \in S
        PROVE  /\ ledger[Owner[i]][i].st = "none" /\ Told(i) = "open"
               /\ Record(i)'.st \in {"queued", "accepted"}
    <2>1. PICK q \in UnderWay(i) : Inserts(i, q.body[i])
      OBVIOUS
    <2>2. /\ ~Recorded(i) /\ Record(i)'.st = Intake(Owner[i], i, q.body[i])
          /\ Intake(Owner[i], i, q.body[i]) \in {"accepted", "queued"}
      BY <2>1 DEF Inserts
    <2>3. q.body[i].cat \in Nat /\ srvOld \in Nat /\ srvCat \in Nat
      BY CopyTypes
    <2>4. ~(q.body[i].cat < srvOld) /\ ~(q.body[i].cat <= srvCat /\ i \in Refused)
      BY <2>2, <2>3 DEF Intake, Recorded, Record
    <2>5. Record(i).st = "none"
      BY <2>2, KeptCases
    <2>6. ~Hopeless(i)
      BY <2>4, <2>5 DEF Hopeless
    <2>7. row[i].status \notin {"accepted", "queued", "needs_attention", "gone"}
      BY <2>2, <2>5, <2>6 DEF CopiesInv, PlayInv, ToldInv
    <2>8. row[i].status \in {"absent", "pending", "sent", "retry"}
      BY <2>7 DEF OwnInv, TypeOK, Rows, Statuses
    <2> QED
      BY <2>2, <2>5, <2>8, ToldCases DEF Record
  <1>2. k \in [S -> {"queued", "accepted"}]
    BY <1>1
  <1>3. \A i \in Items : ledger'[Owner[i]][i].st = IF i \in S THEN k[i] ELSE ledger[Owner[i]][i].st
    BY DEF Record
  <1>4. \A i \in Items : Told(i)' = Told(i)
    BY DEF Told
  <1> HIDE DEF k
  <1>5. Promise!Record(S)
    <2>1. \A i \in S : /\ [j \in Items |-> ledger[Owner[j]][j].st][i] = "none"
                       /\ [j \in Items |-> Told(j)][i] = "open"
      BY <1>1
    <2>2. [i \in Items |-> ledger'[Owner[i]][i].st] =
              [i \in Items |-> IF i \in S THEN k[i]
                               ELSE [j \in Items |-> ledger[Owner[j]][j].st][i]]
      BY <1>3
    <2>3. [i \in Items |-> Told(i)]' = [i \in Items |-> Told(i)]
      BY <1>4
    <2> QED
      BY <1>2, <2>1, <2>2, <2>3 DEF Promise!Record
  <1> QED
    BY <1>5 DEF Promise!Next

LEMMA ResolvesOne ==
    ASSUME OwnInv, NEW u \in Users, NEW k \in Items, Drain(u, k)
    PROVE  [Promise!Next]_(Promise!vars)
  <1>1. ledger[u][k].st = "queued" /\ UNCHANGED row
    BY DEF Drain, store
  <1>2. PICK st \in {"accepted", "rejected"} : ledger' = [ledger EXCEPT ![u][k].st = st]
    BY DEF Drain
  <1>3. u = Owner[k]
    BY <1>1 DEF OwnInv, PlaysBelongToOwner, NoRecord
  <1> DEFINE q == [ledger[u][k] EXCEPT !.st = st]
  <1>4. q.st = st
    BY <1>1 DEF OwnInv, TypeOK, Records, NoRecord
  <1>5. ledger' = [ledger EXCEPT ![u][k] = q]
    BY <1>2
  <1> HIDE DEF q
  <1>6. \A i \in Items : ledger'[Owner[i]][i].st = IF i = k THEN st ELSE ledger[Owner[i]][i].st
    BY <1>3, <1>4, <1>5, UsersAssumption DEF OwnInv, TypeOK
  <1>7. \A i \in Items : Told(i)' = Told(i)
    BY <1>1 DEF Told
  <1>8. Promise!Resolve(k)
    <2>1. [i \in Items |-> ledger[Owner[i]][i].st][k] = "queued"
      BY <1>1, <1>3
    <2>2. [i \in Items |-> ledger'[Owner[i]][i].st] =
              [[i \in Items |-> ledger[Owner[i]][i].st] EXCEPT ![k] = st]
      BY <1>6
    <2>3. [i \in Items |-> Told(i)]' = [i \in Items |-> Told(i)]
      BY <1>7
    <2> QED
      BY <1>2, <2>1, <2>2, <2>3 DEF Promise!Resolve
  <1> QED
    BY <1>8 DEF Promise!Next

\* A step that tells nothing new and records nothing.
LEMMA SaysNothing ==
    ASSUME UNCHANGED ledger, \A i \in Items : Told(i)' = Told(i)
    PROVE  [Promise!Next]_(Promise!vars)
  <1>1. UNCHANGED Promise!vars
    BY DEF Promise!vars
  <1> QED
    BY <1>1


\* A play that is told to be open, and one other row at most.
Opens(i) == /\ row[i].status \in {"absent", "pending", "sent", "retry"}
            /\ row'[i].status \in {"absent", "pending", "sent", "retry"}

LEMMA SameTelling ==
    ASSUME NEW i \in Items, row'[i].status = row[i].status \/ Opens(i)
    PROVE  Told(i)' = Told(i)
  BY DEF Told, Opens

LEMMA StepKeepsPromise ==
    ASSUME OwnInv, OwnInv', CopiesInv, CopiesInv', [Next]_vars
    PROVE  [Promise!Next]_(Promise!vars)
  <1>1. CASE UNCHANGED <<row, ledger>>
    <2>1. \A i \in Items : Told(i)' = Told(i)
      BY <1>1 DEF Told
    <2> QED
      BY <1>1, <2>1, SaysNothing
  <1>2. CASE StartPass
    <2>1. UNCHANGED ledger
      BY <1>2 DEF StartPass, server
    <2>2. PICK u : row' = [i \in Items |-> AtPassStart(i, u)]
      BY <1>2 DEF StartPass
    <2>3. \A i \in Items : Told(i)' = Told(i)
      BY <2>2, StartedRow DEF Told, OwnInv
    <2> QED
      BY <2>1, <2>3, SaysNothing
  <1>3. CASE Rematch
    <2> PICK k \in Sending : \E r \in Rematched(row[k], devCat') : row' = [row EXCEPT ![k] = r]
      BY <1>3 DEF Rematch
    <2>1. UNCHANGED ledger /\ pc = "rematch"
      BY <1>3 DEF Rematch, server
    <2>2. k \in Items /\ row[k].status = "pending"
      BY <2>1, Running DEF CopiesInv, SendInv, StatusInv
    <2>3. Told(k) = "open"
      BY <2>2, ToldCases
    <2>4. \A i \in Items \ {k} : Told(i)' = Told(i)
      BY SameTelling DEF OwnInv, TypeOK
    <2> QED
      BY <2>1, <2>2, <2>3, <2>4, TellsOne
  <1>4. ASSUME NEW k \in Items, MarkSent(k) PROVE [Promise!Next]_(Promise!vars)
    <2>1. /\ pc = "mark" /\ k \in Sending /\ row' = [row EXCEPT ![k].status = "sent"]
          /\ UNCHANGED ledger
      BY <1>4 DEF MarkSent, server
    <2>2. row[k].status \in {"pending", "retry", "sent"}
      BY <2>1 DEF CopiesInv, SendInv, StatusInv
    <2> DEFINE q == [row[k] EXCEPT !.status = "sent"]
    <2>3. row[k] \in Rows /\ "sent" \in Statuses
      BY DEF OwnInv, TypeOK, Statuses
    <2>4. q.status = "sent"
      BY <2>3, StatusEdit
    <2>5. row' = [row EXCEPT ![k] = q]
      BY <2>1
    <2> HIDE DEF q
    <2>6. \A i \in Items : row'[i].status = row[i].status \/ Opens(i)
      BY <2>2, <2>4, <2>5 DEF Opens, OwnInv, TypeOK
    <2> QED
      BY <2>1, <2>6, SameTelling, SaysNothing
  <1>5. CASE LastCheck
    <2>1. /\ UNCHANGED ledger /\ pc = "mark" /\ \A i \in Sending : row[i].status = "sent"
      BY <1>5 DEF LastCheck, server
    <2>2. \/ row' = row
          \/ row' = [i \in Items |-> IF i \in Sending
                        THEN [row[i] EXCEPT !.status = prior[i]] ELSE row[i]]
      BY <1>5 DEF LastCheck
    <2>3. ASSUME NEW i \in Items PROVE row'[i].status = row[i].status \/ Opens(i)
      <3>1. CASE row'[i] = row[i]
        BY <3>1
      <3>2. CASE i \in Sending /\ row'[i] = [row[i] EXCEPT !.status = prior[i]]
        <4> DEFINE q == [row[i] EXCEPT !.status = prior[i]]
        <4>1. row[i] \in Rows /\ prior[i] \in Statuses /\ prior[i] \in {"pending", "retry"}
          BY <3>2, Running DEF OwnInv, TypeOK, Statuses
        <4>2. q.status = prior[i]
          BY <4>1, StatusEdit
        <4> HIDE DEF q
        <4>3. row'[i] = q
          BY <3>2 DEF q
        <4> QED
          BY <2>1, <3>2, <4>1, <4>2, <4>3 DEF Opens
      <3> QED
        BY <2>2, <3>1, <3>2
    <2> QED
      BY <2>1, <2>3, SameTelling, SaysNothing
  <1>6. CASE Persist
    <2>1. UNCHANGED ledger /\ pc = "persist"
      BY <1>6 DEF Persist, server
    <2>2. \/ row' = row
          \/ row' = [i \in Items |-> IF i \in Sending
                        THEN [row[i] EXCEPT !.ch = work[i]] ELSE row[i]]
      BY <1>6 DEF Persist
    <2>3. ASSUME NEW i \in Items PROVE row'[i].status = row[i].status
      <3>1. CASE row'[i] = row[i]
        BY <3>1
      <3>2. CASE i \in Sending /\ row'[i] = [row[i] EXCEPT !.ch = work[i]]
        <4>1. row[i] \in Rows /\ work[i] \in [Fixes -> Challenges]
          BY <2>1, <3>2, Running DEF OwnInv, FlowInv, PassInv, Working, TypeOK
        <4> QED
          BY <3>2, <4>1, TokensEdit
      <3> QED
        BY <2>2, <3>1, <3>2
    <2> QED
      BY <2>1, <2>3, SameTelling, SaysNothing
  <1>7. ASSUME NEW k \in Items, Apply(k) \/ Enqueue(k) PROVE [Promise!Next]_(Promise!vars)
    <2>1. /\ UNCHANGED ledger /\ row[k].status \in {"sent", "absent"}
          /\ \E r : row' = [row EXCEPT ![k] = r]
      BY <1>7 DEF Apply, Enqueue, server
    <2>2. Told(k) = "open"
      BY <2>1, ToldCases
    <2>3. \A i \in Items \ {k} : Told(i)' = Told(i)
      BY <2>1, SameTelling DEF OwnInv, TypeOK
    <2> QED
      BY <2>1, <2>2, <2>3, TellsOne
  <1>8. CASE Deliver
    <2>1. wire.st = "sent" /\ UNCHANGED <<row, srvCat, srvOld>>
      BY <1>8 DEF Deliver, store
    <2>2. wire.req \in Stray
      BY <2>1 DEF Stray
    <2>3. \E S \in SUBSET DOMAIN wire.req.body : Insert(wire.req, S)
      BY <1>8 DEF Deliver
    <2> QED
      BY <2>1, <2>2, <2>3, InsertedCopies, RecordsSome
  <1>9. ASSUME NEW q \in late, Arrives(q) PROVE [Promise!Next]_(Promise!vars)
    <2>1. UNCHANGED <<row, srvCat, srvOld>> /\ q \in Stray
      BY <1>9 DEF Arrives, store, Stray
    <2>2. CASE Insert(q, DOMAIN q.body)
      BY <2>1, <2>2, InsertedCopies, RecordsSome
    <2>3. CASE UNCHANGED <<ledger, token>>
      BY <1>1, <2>1, <2>3
    <2> QED
      BY <1>9, <2>2, <2>3 DEF Arrives
  <1>10. ASSUME NEW u \in Users, NEW k \in Items, Drain(u, k)
         PROVE  [Promise!Next]_(Promise!vars)
    BY <1>10, ResolvesOne
  <1>11. \/ UNCHANGED <<row, ledger>>
         \/ StartPass \/ Rematch \/ LastCheck \/ Persist \/ Deliver
         \/ \E k \in Items : MarkSent(k) \/ Apply(k) \/ Enqueue(k)
         \/ \E q \in late : Arrives(q)
         \/ \E u \in Users, k \in Items : Drain(u, k)
    BY DEF Next, PassStep, World, vars, store, server, RunOutbox, NextBatch, Turn, PassDone,
       GetToken, Redeem, Receive, NetError, Refresh, AfterApply, StoreRejects,
       SignIn, Crash, Tick, Lapse, TokenExpires, CatalogArrives, Import, Retire
  <1> QED
    BY <1>1, <1>2, <1>3, <1>4, <1>5, <1>6, <1>7, <1>8, <1>9, <1>10, <1>11

\* What the device tells about a play is what the server keeps of it, a play is
\* recorded once, and one the device gave up on never is.
THEOREM PromiseIsKept ==
    ASSUME StoreFaults = FALSE
    PROVE  Spec => KeepsPlayLedger
  <1>1. Init => Promise!Init
    BY UsersAssumption DEF Init, Promise!Init, Told, NoRecord
  <1>2. OwnInv /\ OwnInv' /\ CopiesInv /\ CopiesInv' /\ [Next]_vars
            => [Promise!Next]_(Promise!vars)
    BY StepKeepsPromise
  <1> QED
    BY <1>1, <1>2, CopiesAlike, PTL DEF Spec, KeepsPlayLedger, Promise!Spec
=============================================================================
