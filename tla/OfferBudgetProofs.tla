------------------------- MODULE OfferBudgetProofs -------------------------
(***************************************************************************)
(* For every set of codes, offers, plays and sessions, every face value    *)
(* and every cap: the budget of an offer balances within its cap, an       *)
(* issued code is payable, and no code of a held play is paid.             *)
(*                                                                         *)
(* The argument rests on the row locks: a transaction changes a code only  *)
(* while it has the lock on its row, so that what it read of the code      *)
(* under the lock still holds when it commits (TxInv).  The sums of the    *)
(* budget are counts, since a code claims its offer's face value or        *)
(* nothing.                                                                *)
(***************************************************************************)
EXTENDS OfferBudget, FiniteSetTheorems, WellFoundedInduction, TLAPS

-----------------------------------------------------------------------------
(* Numbers and finite sets. *)

LEMMA MinIsThere ==
    ASSUME NEW S \in SUBSET Nat, S # {}
    PROVE  Min(S) \in S /\ \A y \in S : Min(S) <= y
  <1>1. \E x \in S : \A y \in S : ~ (<<y, x>> \in OpToRel(<, Nat))
    BY NatLessThanWellFounded, WFMin
  <1>2. \E x \in S : \A y \in S : x =< y
    <2>1. PICK x \in S : \A y \in S : ~ (<<y, x>> \in OpToRel(<, Nat))
      BY <1>1
    <2>2. \A y \in S : ~ (y < x)
      BY <2>1 DEF OpToRel
    <2> QED
      BY <2>2
  <1> QED
    BY <1>2 DEF Min

LEMMA Distributes ==
    ASSUME NEW a \in Nat, NEW m \in Nat, NEW n \in Nat
    PROVE  a * (m + n) = a * m + a * n /\ a * m \in Nat
  OBVIOUS

LEMMA DisjointCount ==
    ASSUME NEW S, NEW T, IsFiniteSet(S), IsFiniteSet(T), S \cap T = {}
    PROVE  /\ Cardinality(S \cup T) = Cardinality(S) + Cardinality(T)
           /\ {Cardinality(S), Cardinality(T), Cardinality(S \cup T)} \subseteq Nat
  <1>1. Cardinality(S \cap T) = 0
    BY FS_EmptySet
  <1>2. /\ IsFiniteSet(S \cup T)
        /\ Cardinality(S \cup T) = Cardinality(S) + Cardinality(T) - Cardinality(S \cap T)
    BY FS_Union
  <1>3. /\ Cardinality(S) \in Nat /\ Cardinality(T) \in Nat
        /\ Cardinality(S \cup T) \in Nat
    BY <1>2, FS_CardinalityType
  <1> QED
    BY <1>1, <1>2, <1>3

LEMMA CountedCodes ==
    ASSUME NEW S \in SUBSET Codes
    PROVE  IsFiniteSet(S) /\ Cardinality(S) \in Nat
  BY CodesAreFinite, FS_Subset, FS_CardinalityType

-----------------------------------------------------------------------------
(* The invariant. *)

\* A transaction has the lock on a row, or its statement still asks for it.
Asks(t, r) == r \in tx[t].todo \/ lock[r] = t

InPlace(t, op, at) == tx[t].op = op /\ tx[t].at = at

\* A transaction of each kind is about an object of its kind, and a session
\* between transactions holds no lock.
ObjectInv(t) ==
    /\ tx[t].op = "idle" => tx[t] = Idle /\ \A r \in Rows : lock[r] # t
    /\ tx[t].op \in {"activate", "resolve", "redeem"} => tx[t].obj \in Codes
    /\ tx[t].op = "redeem" => tx[t].arg \in Tokens
    /\ tx[t].op \in {"hold", "free"} => tx[t].obj \in Plays
    /\ tx[t].op = "delete" => tx[t].obj \in Users

\* What an activation, a review and a redemption read of their code is true
\* of it until they end.
OneCodeInv(t) ==
    /\ InPlace(t, "activate", "own") \/ InPlace(t, "resolve", "code")
         \/ InPlace(t, "redeem", "code") => Asks(t, tx[t].obj)
    /\ InPlace(t, "activate", "hold") \/ InPlace(t, "activate", "issue")
         => lock[tx[t].obj] = t /\ code[tx[t].obj].st \in {"earned", "issued"}
    /\ InPlace(t, "resolve", "approve") \/ InPlace(t, "resolve", "reject")
         => lock[tx[t].obj] = t /\ code[tx[t].obj].st = "held"
    /\ InPlace(t, "redeem", "pay")
         => lock[tx[t].obj] = t /\ code[tx[t].obj].st = "issued"

\* The cascade has locked only codes it may hold.
HoldInv(t) ==
    tx[t].op = "hold" => \A c \in Codes : lock[c] = t => Holdable(c)

\* A deletion has every code of its account before it reads what they reserve.
DeleteInv(t) ==
    /\ InPlace(t, "delete", "release") =>
         \A c \in OwnCodes(tx[t].obj) : Asks(t, c)
    /\ InPlace(t, "delete", "wipe") \/ InPlace(t, "delete", "commit") =>
         /\ \A c \in OwnCodes(tx[t].obj) : lock[c] = t
         /\ tx[t].rows = Reserving(tx[t].obj)

TxInv(t) == ObjectInv(t) /\ OneCodeInv(t) /\ HoldInv(t) /\ DeleteInv(t)

\* A code that is still outstanding has paid nothing; an issued one is payable.
CodeInv ==
    \A c \in Codes :
      /\ code[c].st \in Outstanding => code[c].paid = 0
      /\ code[c].st = "issued" => code[c].res = Face[OfferOf[c]]

Money == CodeInv /\ BudgetBalances

Inv == TypeOK /\ (\A t \in Txs : TxInv(t)) /\ Money

-----------------------------------------------------------------------------
(* A step of one session leaves the others what they know. *)

\* What every step of t does to the others: it changes codes only under their
\* locks, takes no lock of theirs, and brings no deleted code back.
StepOf(t) ==
    /\ \A s \in Txs : s # t => tx'[s] = tx[s]
    /\ \A s \in Txs, r \in Rows : s # t => (lock'[r] = s <=> lock[r] = s)
    /\ \A c \in Codes : lock[c] # t /\ code[c].st # "gone" => code'[c] = code[c]
    /\ \A c \in Codes : code[c].st = "gone" => code'[c].st = "gone"

LEMMA OthersKeep ==
    ASSUME Inv, NEW t \in Txs, StepOf(t), NEW s \in Txs, s # t
    PROVE  TxInv(s)'
  <1> USE DEF Inv, StepOf, Rows
  <1>0. TxInv(s) /\ tx'[s] = tx[s]
    OBVIOUS
  <1>1. ObjectInv(s)'
    BY <1>0 DEF TxInv, ObjectInv
  <1>2. OneCodeInv(s)'
    <2>1. ASSUME NEW c \in Codes, Asks(s, c) PROVE Asks(s, c)'
      BY <1>0, <2>1 DEF Asks
    <2>2. ASSUME NEW c \in Codes, lock[c] = s, code[c].st # "gone"
          PROVE  lock'[c] = s /\ code'[c] = code[c]
      BY <2>2
    <2>3. tx[s].op \in {"activate", "resolve", "redeem"} => tx[s].obj \in Codes
      BY <1>0 DEF TxInv, ObjectInv
    <2> QED
      BY <1>0, <2>1, <2>2, <2>3 DEF TxInv, OneCodeInv, InPlace
  <1>3. HoldInv(s)'
    BY <1>0 DEF TxInv, HoldInv, Holdable
  <1>4. DeleteInv(s)'
    <2>1. ASSUME NEW u, NEW c \in OwnCodes(u)' PROVE c \in OwnCodes(u)
      BY <2>1 DEF OwnCodes
    <2>2. CASE InPlace(s, "delete", "release")
      BY <1>0, <2>1, <2>2 DEF TxInv, DeleteInv, InPlace, Asks, OwnCodes
    <2>3. CASE InPlace(s, "delete", "wipe") \/ InPlace(s, "delete", "commit")
      <3>1. PICK u : u = tx[s].obj
        OBVIOUS
      <3>2. (\A c \in OwnCodes(u) : lock[c] = s) /\ tx[s].rows = Reserving(u)
        BY <1>0, <2>3, <3>1 DEF TxInv, DeleteInv
      <3>3. \A c \in OwnCodes(u) : lock'[c] = s /\ code'[c] = code[c]
        BY <3>2 DEF OwnCodes
      <3>4. OwnCodes(u)' = OwnCodes(u)
        BY <2>1, <3>3 DEF OwnCodes
      <3>5. Reserving(u)' = Reserving(u)
        BY <3>3, <3>4 DEF Reserving
      <3>6. (\A c \in OwnCodes(u)' : lock'[c] = s) /\ tx'[s].rows = Reserving(u)'
        BY <1>0, <3>2, <3>3, <3>4, <3>5
      <3>7. tx'[s].op = "delete" /\ tx'[s].obj = u /\ tx'[s].at # "release"
        BY <1>0, <2>3, <3>1 DEF InPlace
      <3> QED
        BY <3>6, <3>7 DEF DeleteInv, InPlace
    <2>4. CASE ~ InPlace(s, "delete", "release") /\ ~ InPlace(s, "delete", "wipe")
               /\ ~ InPlace(s, "delete", "commit")
      BY <1>0, <2>4 DEF DeleteInv, InPlace
    <2> QED
      BY <2>2, <2>3, <2>4
  <1> QED
    BY <1>1, <1>2, <1>3, <1>4 DEF TxInv

-----------------------------------------------------------------------------
(* Opening a transaction, its statements, its locks and its end. *)

LEMMA IdleFields ==
    Idle.op = "idle" /\ Idle.at = "" /\ Idle.todo = {} /\ Idle \in TxTyped
  <1>1. Idle.op = "idle" /\ Idle.at = "" /\ Idle.todo = {}
    BY Zenon DEF Idle
  <1>2. Idle \in TxTyped
    BY DEF Idle, TxTyped, Ops, Places
  <1> QED
    BY <1>1, <1>2

LEMMA Begins ==
    ASSUME Inv, NEW t \in Txs, NEW op \in Ops, NEW at \in Places,
           NEW obj \in Nat \union Users, NEW arg \in Nat, NEW todo \in SUBSET Rows,
           Begin(t, op, at, obj, arg, todo)
    PROVE  /\ TypeOK' /\ StepOf(t) /\ HoldInv(t)'
           /\ UNCHANGED <<code, offer, play, consumed, lock>>
           /\ tx'[t].op = op /\ tx'[t].at = at /\ tx'[t].obj = obj
           /\ tx'[t].arg = arg /\ tx'[t].todo = todo
  <1> DEFINE new == [op |-> op, at |-> at, obj |-> obj, arg |-> arg,
                     rows |-> {}, todo |-> todo]
  <1>1. /\ new.op = op /\ new.at = at /\ new.obj = obj /\ new.arg = arg
        /\ new.todo = todo
    BY Zenon
  <1>2. new \in TxTyped
    BY DEF TxTyped
  <1>3. /\ tx[t] = Idle /\ tx' = [tx EXCEPT ![t] = new]
        /\ UNCHANGED <<code, offer, play, consumed, lock>>
    BY DEF Begin
  <1> HIDE DEF new
  <1>4. TypeOK' /\ StepOf(t) /\ tx'[t] = new
    BY <1>2, <1>3 DEF Inv, TypeOK, StepOf
  <1>5. \A r \in Rows : lock'[r] # t
    BY <1>3, IdleFields DEF Inv, TxInv, ObjectInv
  <1>6. HoldInv(t)'
    BY <1>5 DEF HoldInv, Rows
  <1> QED
    BY <1>1, <1>3, <1>4, <1>6

LEMMA Opens ==
    ASSUME Inv, NEW t \in Txs, Starts(t)
    PROVE  TypeOK' /\ StepOf(t) /\ TxInv(t)' /\ UNCHANGED <<code, offer>>
  <1> USE IdsAreNumbers DEF Rows
  <1>0. /\ "activate" \in Ops /\ "resolve" \in Ops /\ "hold" \in Ops /\ "free" \in Ops
        /\ "redeem" \in Ops /\ "delete" \in Ops
        /\ "own" \in Places /\ "code" \in Places /\ "play" \in Places
        /\ "token" \in Places /\ "release" \in Places
        /\ 0 \in Nat
        /\ \A u \in Rows \union Users : u \in Nat \union Users
        /\ \A r \in Rows : r \in Nat /\ {r} \in SUBSET Rows
    BY DEF Ops, Places
  <1>1. CASE \E c \in Codes : Activate(t, c)
    <2>1. PICK c \in Codes : Begin(t, "activate", "own", c, 0, {c})
      BY <1>1 DEF Activate
    <2>2. /\ TypeOK' /\ StepOf(t) /\ HoldInv(t)' /\ UNCHANGED <<code, offer>>
          /\ tx'[t].op = "activate" /\ tx'[t].at = "own"
          /\ tx'[t].obj = c /\ tx'[t].todo = {c}
      BY <1>0, <2>1, Begins
    <2> QED
      BY <2>2 DEF TxInv, ObjectInv, OneCodeInv, DeleteInv, InPlace, Asks
  <1>2. CASE \E c \in Codes : Resolve(t, c)
    <2>1. PICK c \in Codes : Begin(t, "resolve", "code", c, 0, {c})
      BY <1>2 DEF Resolve
    <2>2. /\ TypeOK' /\ StepOf(t) /\ HoldInv(t)' /\ UNCHANGED <<code, offer>>
          /\ tx'[t].op = "resolve" /\ tx'[t].at = "code"
          /\ tx'[t].obj = c /\ tx'[t].todo = {c}
      BY <1>0, <2>1, Begins
    <2> QED
      BY <2>2 DEF TxInv, ObjectInv, OneCodeInv, DeleteInv, InPlace, Asks
  <1>3. CASE \E p \in Plays : HoldPlay(t, p)
    <2>1. PICK p \in Plays : Begin(t, "hold", "play", p, 0, {p})
      BY <1>3 DEF HoldPlay
    <2>2. /\ TypeOK' /\ StepOf(t) /\ HoldInv(t)' /\ UNCHANGED <<code, offer>>
          /\ tx'[t].op = "hold" /\ tx'[t].at = "play"
          /\ tx'[t].obj = p /\ tx'[t].todo = {p}
      BY <1>0, <2>1, Begins
    <2> QED
      BY <2>2 DEF TxInv, ObjectInv, OneCodeInv, DeleteInv, InPlace
  <1>4. CASE \E p \in Plays : FreePlay(t, p)
    <2>1. PICK p \in Plays : Begin(t, "free", "play", p, 0, {p})
      BY <1>4 DEF FreePlay
    <2>2. /\ TypeOK' /\ StepOf(t) /\ HoldInv(t)' /\ UNCHANGED <<code, offer>>
          /\ tx'[t].op = "free" /\ tx'[t].at = "play"
          /\ tx'[t].obj = p /\ tx'[t].todo = {p}
      BY <1>0, <2>1, Begins
    <2> QED
      BY <2>2 DEF TxInv, ObjectInv, OneCodeInv, DeleteInv, InPlace
  <1>5. CASE \E c \in Codes, j \in Tokens : Redeem(t, c, j)
    <2>1. PICK c \in Codes, j \in Tokens : Begin(t, "redeem", "token", c, j, {j})
      BY <1>5 DEF Redeem
    <2>2. /\ TypeOK' /\ StepOf(t) /\ HoldInv(t)' /\ UNCHANGED <<code, offer>>
          /\ tx'[t].op = "redeem" /\ tx'[t].at = "token"
          /\ tx'[t].obj = c /\ tx'[t].todo = {j} /\ tx'[t].arg = j
      BY <1>0, <2>1, Begins
    <2> QED
      BY <2>2 DEF TxInv, ObjectInv, OneCodeInv, DeleteInv, InPlace
  <1>6. CASE \E u \in Users : Delete(t, u)
    <2>1. PICK u \in Users : Begin(t, "delete", "release", u, 0, OwnCodes(u))
      BY <1>6 DEF Delete, DeleteLocks
    <2>2. OwnCodes(u) \in SUBSET Rows
      BY DEF OwnCodes
    <2>3. /\ TypeOK' /\ StepOf(t) /\ HoldInv(t)' /\ UNCHANGED <<code, offer>>
          /\ tx'[t].op = "delete" /\ tx'[t].at = "release"
          /\ tx'[t].obj = u /\ tx'[t].todo = OwnCodes(u)
      BY <1>0, <2>1, <2>2, Begins
    <2>4. OwnCodes(u)' = OwnCodes(u)
      BY <2>3 DEF OwnCodes
    <2>5. ObjectInv(t)' /\ OneCodeInv(t)'
      BY <2>3 DEF ObjectInv, OneCodeInv, InPlace
    <2>6. DeleteInv(t)'
      BY <2>3, <2>4 DEF DeleteInv, InPlace, Asks
    <2> QED
      BY <2>3, <2>5, <2>6 DEF TxInv
  <1> QED
    BY <1>1, <1>2, <1>3, <1>4, <1>5, <1>6 DEF Starts

LEMMA Locks ==
    ASSUME Inv, NEW t \in Txs, Lock(t)
    PROVE  TypeOK' /\ StepOf(t) /\ TxInv(t)'
  <1> USE IdsAreNumbers, NoTxIsNone DEF Inv, Rows
  <1>1. tx[t].todo \in SUBSET Rows /\ tx[t].todo # {} /\ tx[t] \in TxTyped
    BY DEF Lock, TypeOK, TxTyped
  <1>2. PICK r \in Rows : r = Min(tx[t].todo) /\ r \in tx[t].todo
    BY <1>1, MinIsThere
  <1>3. /\ lock[r] \in {NoTx, t}
        /\ tx' = [tx EXCEPT ![t].todo = @ \ {r}]
        /\ UNCHANGED <<code, offer, play, consumed>>
        /\ \/ lock' = [lock EXCEPT ![r] = t]
           \/ lock' = lock /\ tx[t].op = "hold" /\ r \in Codes /\ ~ Holdable(r)
        /\ tx[t].op = "hold" /\ r \in Codes /\ ~ Holdable(r) => lock' = lock
    BY <1>2 DEF Lock
  <1>4. /\ tx'[t].op = tx[t].op /\ tx'[t].at = tx[t].at /\ tx'[t].obj = tx[t].obj
        /\ tx'[t].arg = tx[t].arg /\ tx'[t].rows = tx[t].rows
        /\ tx'[t].todo = tx[t].todo \ {r}
    BY <1>3 DEF TypeOK, TxTyped
  <1>5. TypeOK'
    <2>1. tx' = [tx EXCEPT ![t] = [tx[t] EXCEPT !.todo = tx[t].todo \ {r}]]
      BY <1>3
    <2>2. [tx[t] EXCEPT !.todo = tx[t].todo \ {r}] \in TxTyped
      BY <1>1 DEF TxTyped
    <2>3. tx' \in [Txs -> TxTyped]
      BY <2>1, <2>2 DEF TypeOK
    <2>4. lock' \in [Rows -> Txs \union {NoTx}]
      BY <1>3 DEF TypeOK
    <2> QED
      BY <1>3, <2>3, <2>4 DEF TypeOK
  <1>6. StepOf(t)
    BY <1>3 DEF TypeOK, StepOf
  <1>7. ASSUME NEW q \in Rows, Asks(t, q), tx[t].op # "hold" PROVE Asks(t, q)'
    BY <1>3, <1>4, <1>7 DEF Asks, TypeOK
  <1>8. \A q \in Rows : lock[q] = t => lock'[q] = t
    BY <1>3 DEF TypeOK
  <1>9. tx[t].op # "idle"
    BY <1>1, IdleFields DEF TxInv, ObjectInv
  <1>10. ObjectInv(t)'
    BY <1>4, <1>9 DEF TxInv, ObjectInv
  <1>11. OneCodeInv(t)'
    <2>1. PICK c : c = tx[t].obj
      OBVIOUS
    <2>2. tx[t].op \in {"activate", "resolve", "redeem"} => c \in Codes
      BY <2>1 DEF TxInv, ObjectInv
    <2>3. OneCodeInv(t)
      BY DEF TxInv
    <2> QED
      BY <1>3, <1>4, <1>7, <1>8, <2>1, <2>2, <2>3 DEF OneCodeInv, InPlace
  <1>12. HoldInv(t)'
    <2>1. \A c \in Codes : Holdable(c)' <=> Holdable(c)
      BY <1>3 DEF Holdable
    <2>2. \A c \in Codes : tx[t].op = "hold" /\ lock'[c] = t => lock[c] = t \/ Holdable(c)
      BY <1>3 DEF TypeOK
    <2> QED
      BY <1>4, <2>1, <2>2 DEF TxInv, HoldInv
  <1>13. DeleteInv(t)'
    <2>1. PICK u : u = tx[t].obj
      OBVIOUS
    <2>2. OwnCodes(u)' = OwnCodes(u) /\ Reserving(u)' = Reserving(u)
      BY <1>3 DEF OwnCodes, Reserving
    <2>3. OwnCodes(u) \subseteq Rows
      BY DEF OwnCodes
    <2>4. DeleteInv(t)
      BY DEF TxInv
    <2> QED
      BY <1>4, <1>7, <1>8, <2>1, <2>2, <2>3, <2>4 DEF DeleteInv, InPlace
  <1> QED
    BY <1>5, <1>6, <1>10, <1>11, <1>12, <1>13 DEF TxInv

\* A transaction that ends gives its locks back and forgets what it read.
LEMMA Closes ==
    ASSUME Inv, NEW t \in Txs, Close(t)
    PROVE  /\ tx' \in [Txs -> TxTyped] /\ lock' \in [Rows -> Txs \union {NoTx}]
           /\ \A s \in Txs : s # t => tx'[s] = tx[s]
           /\ \A s \in Txs, r \in Rows : s # t => (lock'[r] = s <=> lock[r] = s)
           /\ TxInv(t)'
  <1> USE NoTxIsNone DEF Inv
  <1>1. tx' \in [Txs -> TxTyped] /\ tx'[t] = Idle /\ (\A s \in Txs : s # t => tx'[s] = tx[s])
    BY IdleFields DEF Close, TypeOK
  <1>2. /\ lock' \in [Rows -> Txs \union {NoTx}]
        /\ \A s \in Txs, r \in Rows : s # t => (lock'[r] = s <=> lock[r] = s)
        /\ \A r \in Rows : lock'[r] # t
    BY DEF Close, TypeOK, Released
  <1>3. TxInv(t)'
    BY <1>1, <1>2, IdleFields DEF TxInv, ObjectInv, OneCodeInv, HoldInv, DeleteInv,
                                   InPlace, Rows
  <1> QED
    BY <1>1, <1>2, <1>3

LEMMA Ends ==
    ASSUME Inv, NEW t \in Txs, End(t)
    PROVE  TypeOK' /\ StepOf(t) /\ TxInv(t)'
  BY Closes DEF End, StepOf, Inv, TypeOK

LEMMA Moves ==
    ASSUME Inv, NEW t \in Txs, NEW at \in Places, NEW rows \in SUBSET Codes,
           NEW todo \in SUBSET Rows, Statement(t, at, rows, todo)
    PROVE  /\ TypeOK' /\ StepOf(t)
           /\ UNCHANGED <<code, offer, play, consumed, lock>>
           /\ tx'[t].op = tx[t].op /\ tx'[t].obj = tx[t].obj /\ tx'[t].arg = tx[t].arg
           /\ tx'[t].at = at /\ tx'[t].rows = rows /\ tx'[t].todo = todo
  <1>1. tx[t] \in TxTyped
    BY DEF Inv, TypeOK
  <1>2. /\ tx' = [tx EXCEPT ![t].at = at, ![t].rows = rows, ![t].todo = todo]
        /\ UNCHANGED <<code, offer, play, consumed, lock>>
    BY DEF Statement
  <1>3. TypeOK'
    BY <1>1, <1>2 DEF Inv, TypeOK, TxTyped
  <1>4. StepOf(t)
    BY <1>1, <1>2 DEF Inv, TypeOK, TxTyped, StepOf
  <1> QED
    BY <1>1, <1>2, <1>3, <1>4 DEF Inv, TypeOK, TxTyped

\* The steps that only read.
Reads(t) ==
    \/ ActivateDecides(t) \/ ResolveDecides(t)
    \/ HoldLocksCodes(t) \/ HoldLocksOffers(t) \/ HoldUpdates(t)
    \/ RedeemChecksToken(t) \/ RedeemChecksCode(t)
    \/ DeleteReleases(t) \/ DeleteWipes(t)

\* Of the code of an activation, a review or a redemption: its row is locked
\* once the statement that asked for it is through.
LEMMA OwnRow ==
    ASSUME Inv, NEW t \in Txs, tx[t].todo = {},
           InPlace(t, "activate", "own") \/ InPlace(t, "resolve", "code")
             \/ InPlace(t, "redeem", "code")
    PROVE  tx[t].obj \in Codes /\ lock[tx[t].obj] = t
  BY DEF Inv, TxInv, ObjectInv, OneCodeInv, InPlace, Asks

LEMMA CodesOfTyped ==
    ASSUME NEW p
    PROVE  CodesOf(p) \in SUBSET Rows /\ CodesOf(p) \in SUBSET Codes
  BY DEF CodesOf, Rows

LEMMA OffersTyped ==
    ASSUME NEW C \in SUBSET Codes
    PROVE  OffersOf(C) \in SUBSET Rows
  BY CatalogTyped DEF OffersOf, Rows

LEMMA ReadsKeep ==
    ASSUME Inv, NEW t \in Txs, Reads(t)
    PROVE  TypeOK' /\ StepOf(t) /\ TxInv(t)' /\ (UNCHANGED <<code, offer>> \/ End(t))
  <1> DEFINE Done == TypeOK' /\ StepOf(t) /\ TxInv(t)'
                       /\ (UNCHANGED <<code, offer>> \/ End(t))
  <1>1. ASSUME End(t) PROVE Done
    BY <1>1, Ends
  <1>2. ASSUME NEW c \in Codes, NEW at \in {"hold", "issue"}, tx[t].op = "activate",
               c = tx[t].obj, lock[c] = t, code[c].st \in {"earned", "issued"},
               Statement(t, at, {}, OfferToClaim(c))
        PROVE  Done
    <2>1. at \in Places /\ OfferToClaim(c) \in SUBSET Rows
      BY CatalogTyped DEF Places, OfferToClaim, Rows
    <2>2. /\ TypeOK' /\ StepOf(t) /\ UNCHANGED <<code, offer, lock>>
          /\ tx'[t].op = "activate" /\ tx'[t].at = at /\ tx'[t].obj = c
      BY <1>2, <2>1, Moves
    <2> QED
      BY <1>2, <2>2 DEF TxInv, ObjectInv, OneCodeInv, HoldInv, DeleteInv, InPlace
  <1>3. ASSUME NEW c \in Codes, NEW at \in {"approve", "reject"}, tx[t].op = "resolve",
               c = tx[t].obj, lock[c] = t, code[c].st = "held",
               NEW todo \in SUBSET Rows, Statement(t, at, {}, todo)
        PROVE  Done
    <2>1. at \in Places
      BY DEF Places
    <2>2. /\ TypeOK' /\ StepOf(t) /\ UNCHANGED <<code, offer, lock>>
          /\ tx'[t].op = "resolve" /\ tx'[t].at = at /\ tx'[t].obj = c
      BY <1>3, <2>1, Moves
    <2> QED
      BY <1>3, <2>2 DEF TxInv, ObjectInv, OneCodeInv, HoldInv, DeleteInv, InPlace
  <1>4. ASSUME NEW at \in Places, NEW rows \in SUBSET Codes, NEW todo \in SUBSET Rows,
               tx[t].op = "hold", Statement(t, at, rows, todo)
        PROVE  Done
    <2>1. /\ TypeOK' /\ StepOf(t) /\ UNCHANGED <<code, offer, lock>>
          /\ tx'[t].op = "hold" /\ tx'[t].obj = tx[t].obj
      BY <1>4, Moves
    <2>2. ObjectInv(t)' /\ OneCodeInv(t)' /\ DeleteInv(t)'
      BY <1>4, <2>1 DEF Inv, TxInv, ObjectInv, OneCodeInv, DeleteInv, InPlace
    <2>3. HoldInv(t)'
      BY <1>4, <2>1 DEF Inv, TxInv, HoldInv, Holdable
    <2> QED
      BY <2>1, <2>2, <2>3 DEF TxInv
  <1>5. ASSUME NEW c \in Codes, c = tx[t].obj, tx[t].op = "redeem",
               \/ Statement(t, "code", {}, {c})
               \/ /\ Statement(t, "pay", {}, {OfferOf[c]})
                  /\ lock[c] = t /\ code[c].st = "issued"
        PROVE  Done
    <2>1. /\ "code" \in Places /\ "pay" \in Places
          /\ {c} \in SUBSET Rows /\ {OfferOf[c]} \in SUBSET Rows
      BY CatalogTyped DEF Places, Rows
    <2>2. /\ TypeOK' /\ StepOf(t) /\ UNCHANGED <<code, offer, lock>>
          /\ tx'[t].op = "redeem" /\ tx'[t].obj = c /\ tx'[t].arg = tx[t].arg
          /\ \/ tx'[t].at = "code" /\ tx'[t].todo = {c}
             \/ tx'[t].at = "pay" /\ lock[c] = t /\ code[c].st = "issued"
      BY <1>5, <2>1, Moves
    <2>3. tx[t].arg \in Tokens
      BY <1>5 DEF Inv, TxInv, ObjectInv
    <2> QED
      BY <1>5, <2>2, <2>3 DEF TxInv, ObjectInv, OneCodeInv, HoldInv, DeleteInv, InPlace,
                              Asks
  <1>6. ASSUME NEW u \in Users, u = tx[t].obj, tx[t].op = "delete",
               NEW at \in {"wipe", "commit"}, NEW todo \in SUBSET Rows,
               Statement(t, at, Reserving(u), todo),
               \A c \in OwnCodes(u) : lock[c] = t
        PROVE  Done
    <2>1. at \in Places /\ Reserving(u) \in SUBSET Codes
      BY DEF Places, Reserving, OwnCodes
    <2>2. /\ TypeOK' /\ StepOf(t) /\ UNCHANGED <<code, offer, lock>>
          /\ tx'[t].op = "delete" /\ tx'[t].obj = u /\ tx'[t].at = at
          /\ tx'[t].rows = Reserving(u)
      BY <1>6, <2>1, Moves
    <2>3. OwnCodes(u)' = OwnCodes(u) /\ Reserving(u)' = Reserving(u)
      BY <2>2 DEF OwnCodes, Reserving
    <2>4. ObjectInv(t)' /\ OneCodeInv(t)' /\ HoldInv(t)'
      BY <1>6, <2>2 DEF ObjectInv, OneCodeInv, HoldInv, InPlace
    <2>5. DeleteInv(t)'
      BY <1>6, <2>2, <2>3 DEF DeleteInv, InPlace
    <2> QED
      BY <2>2, <2>4, <2>5 DEF TxInv
  <1> SUFFICES Done
    OBVIOUS
  <1> HIDE DEF Done
  <1>7. CASE ActivateDecides(t)
    <2>1. tx[t].obj \in Codes /\ lock[tx[t].obj] = t
      BY <1>7, OwnRow DEF ActivateDecides, At, InPlace
    <2>2. PICK c \in Codes : c = tx[t].obj
      BY <2>1
    <2>3. /\ tx[t].op = "activate"
          /\ \/ End(t)
             \/ /\ code[c].st \in {"earned", "issued"}
                /\ \/ Statement(t, "hold", {}, OfferToClaim(c))
                   \/ Statement(t, "issue", {}, OfferToClaim(c))
      BY <1>7, <2>2 DEF ActivateDecides, At
    <2>4. "hold" \in {"hold", "issue"} /\ "issue" \in {"hold", "issue"}
      OBVIOUS
    <2> QED
      BY <1>1, <1>2, <2>1, <2>2, <2>3, <2>4
  <1>8. CASE ResolveDecides(t)
    <2>1. tx[t].obj \in Codes /\ lock[tx[t].obj] = t
      BY <1>8, OwnRow DEF ResolveDecides, At, InPlace
    <2>2. /\ OfferToClaim(tx[t].obj) \in SUBSET Rows
          /\ (IF code[tx[t].obj].res > 0 THEN {OfferOf[tx[t].obj]} ELSE {}) \in SUBSET Rows
      BY <2>1, CatalogTyped DEF OfferToClaim, Rows
    <2>3. PICK c \in Codes, todo \in SUBSET Rows :
            c = tx[t].obj /\ todo = IF code[c].res > 0 THEN {OfferOf[c]} ELSE {}
      BY <2>1, <2>2
    <2>4. /\ tx[t].op = "resolve"
          /\ \/ End(t)
             \/ /\ code[c].st = "held"
                /\ \/ Statement(t, "approve", {}, OfferToClaim(c))
                   \/ Statement(t, "reject", {}, todo)
      BY <1>8, <2>3 DEF ResolveDecides, At
    <2>5. "approve" \in {"approve", "reject"} /\ "reject" \in {"approve", "reject"}
      OBVIOUS
    <2> QED
      BY <1>1, <1>3, <2>1, <2>2, <2>3, <2>4, <2>5
  <1>9. CASE HoldLocksCodes(t) \/ HoldLocksOffers(t)
    <2>1. "offers" \in Places /\ "update" \in Places /\ {} \in SUBSET Codes
      BY DEF Places
    <2>2. PICK C \in SUBSET Codes : C = CodesOf(tx[t].obj) /\ C \in SUBSET Rows
      BY CodesOfTyped
    <2>3. OffersOf(C) \in SUBSET Rows
      BY OffersTyped
    <2>4. /\ tx[t].op = "hold"
          /\ \/ End(t)
             \/ Statement(t, "offers", {}, C)
             \/ Statement(t, "update", {}, OffersOf(C))
      BY <1>9, <2>2 DEF HoldLocksCodes, HoldLocksOffers, At
    <2> QED
      BY <1>1, <1>4, <2>1, <2>2, <2>3, <2>4
  <1>10. CASE HoldUpdates(t)
    <2>1. PICK C \in SUBSET Codes : C = CodesOf(tx[t].obj)
      BY CodesOfTyped
    <2>2. PICK C0 \in SUBSET Codes : C0 = {c \in C : code[c].res = 0}
      OBVIOUS
    <2>3. "commit" \in Places /\ (C \union OffersOf(C0)) \ Mine(t) \in SUBSET Rows
      BY OffersTyped DEF Places, Rows
    <2>4. /\ tx[t].op = "hold"
          /\ Statement(t, "commit", C, (C \union OffersOf(C0)) \ Mine(t))
      BY <1>10, <2>1, <2>2 DEF HoldUpdates, At
    <2> QED
      BY <1>4, <2>3, <2>4
  <1>11. CASE RedeemChecksToken(t)
    <2>1. tx[t].obj \in Codes
      BY <1>11 DEF RedeemChecksToken, At, Inv, TxInv, ObjectInv
    <2>2. PICK c \in Codes : c = tx[t].obj
      BY <2>1
    <2>3. tx[t].op = "redeem" /\ (End(t) \/ Statement(t, "code", {}, {c}))
      BY <1>11, <2>2 DEF RedeemChecksToken, At
    <2> QED
      BY <1>1, <1>5, <2>2, <2>3
  <1>12. CASE RedeemChecksCode(t)
    <2>1. tx[t].obj \in Codes /\ lock[tx[t].obj] = t
      BY <1>12, OwnRow DEF RedeemChecksCode, At, InPlace
    <2>2. PICK c \in Codes : c = tx[t].obj
      BY <2>1
    <2>3. /\ tx[t].op = "redeem"
          /\ End(t) \/ (code[c].st = "issued" /\ Statement(t, "pay", {}, {OfferOf[c]}))
      BY <1>12, <2>2 DEF RedeemChecksCode, At
    <2> QED
      BY <1>1, <1>5, <2>1, <2>2, <2>3
  <1>13. CASE DeleteReleases(t)
    <2>1. PICK u \in Users : u = tx[t].obj /\ \A c \in OwnCodes(u) : lock[c] = t
      BY <1>13 DEF DeleteReleases, At, Inv, TxInv, ObjectInv, DeleteInv, InPlace, Asks
    <2>2. OffersOf(Reserving(u)) \in SUBSET Rows
      BY CatalogTyped DEF OffersOf, Reserving, OwnCodes, Rows
    <2> QED
      BY <1>6, <1>13, <2>1, <2>2 DEF DeleteReleases, At
  <1>14. CASE DeleteWipes(t)
    <2>1. PICK u \in Users : /\ u = tx[t].obj /\ \A c \in OwnCodes(u) : lock[c] = t
                             /\ tx[t].rows = Reserving(u)
      BY <1>14 DEF DeleteWipes, At, Inv, TxInv, ObjectInv, DeleteInv, InPlace
    <2>2. (OwnCodes(u) \union {p \in Plays : UserOf[p] = u /\ play[p] # "gone"}) \ Mine(t)
            \in SUBSET Rows
      BY DEF OwnCodes, Rows
    <2> QED
      BY <1>6, <1>14, <2>1, <2>2 DEF DeleteWipes, At
  <1> QED
    BY <1>7, <1>8, <1>9, <1>10, <1>11, <1>12, <1>13, <1>14 DEF Reads

-----------------------------------------------------------------------------
(* The money. *)

LEMMA Without ==
    ASSUME NEW S \in SUBSET Codes, NEW c \in Codes, NEW f \in Nat
    PROVE  /\ f * Cardinality(S) = f * Cardinality(S \ {c}) + (IF c \in S THEN f ELSE 0)
           /\ f * Cardinality(S \ {c}) \in Nat
  <1>1. /\ IsFiniteSet(S) /\ Cardinality(S) \in Nat
        /\ IsFiniteSet(S \ {c}) /\ Cardinality(S \ {c}) \in Nat
    BY CountedCodes
  <1>2. CASE c \in S
    <2>1. Cardinality(S \ {c}) = Cardinality(S) - 1
      BY <1>1, <1>2, FS_RemoveElement
    <2>2. Cardinality(S) = Cardinality(S \ {c}) + 1
      BY <1>1, <2>1
    <2>3. f * Cardinality(S) = f * Cardinality(S \ {c}) + f * 1
      BY <1>1, <2>2, Distributes
    <2> QED
      BY <1>1, <1>2, <2>3, Distributes
  <1>3. CASE c \notin S
    <2>1. S \ {c} = S
      BY <1>3
    <2>2. f * Cardinality(S) \in Nat
      BY <1>1, Distributes
    <2>3. PICK n \in Nat : n = f * Cardinality(S) /\ n = f * Cardinality(S \ {c})
      BY <2>1, <2>2
    <2> QED
      BY <1>3, <2>3
  <1> QED
    BY <1>2, <1>3

\* What a code takes of its offer's reserve.
Claimed(c) == IF code[c].st \in Outstanding THEN code[c].res ELSE 0

LEMMA Facts ==
    ASSUME Inv, NEW c \in Codes
    PROVE  /\ code[c] \in [st : CodeStates, res : Nat, paid : Nat, dev : BOOLEAN]
           /\ OfferOf[c] \in Offers
           /\ offer[OfferOf[c]] \in [used : Nat, reserved : Nat]
           /\ Face[OfferOf[c]] \in Nat \ {0} /\ Cap[OfferOf[c]] \in Nat
           /\ {code[c].res, code[c].paid} \subseteq {0, Face[OfferOf[c]]}
           /\ offer[OfferOf[c]].used + offer[OfferOf[c]].reserved <= Cap[OfferOf[c]]
           /\ Claimed(c) \in Nat /\ Claimed(c) <= offer[OfferOf[c]].reserved
  <1>1. PICK o \in Offers : o = OfferOf[c]
    BY CatalogTyped
  <1>2. /\ code[c] \in [st : CodeStates, res : Nat, paid : Nat, dev : BOOLEAN]
        /\ offer[o] \in [used : Nat, reserved : Nat]
        /\ Face[o] \in Nat \ {0} /\ Cap[o] \in Nat
    BY CatalogTyped DEF Inv, TypeOK
  <1>3. /\ {code[c].res, code[c].paid} \subseteq {0, Face[o]}
        /\ offer[o].used + offer[o].reserved <= Cap[o]
        /\ offer[o].reserved = Face[o] * Cardinality(Claiming(o))
    BY <1>1 DEF Inv, Money, BudgetBalances
  <1>4. PICK S \in SUBSET Codes : S = Claiming(o)
    BY DEF Claiming
  <1>5. Claimed(c) # 0 => c \in S /\ Claimed(c) = Face[o]
    BY <1>1, <1>2, <1>3, <1>4 DEF Claiming, Claimed
  <1>6. /\ Face[o] * Cardinality(S)
             = Face[o] * Cardinality(S \ {c}) + (IF c \in S THEN Face[o] ELSE 0)
        /\ Face[o] * Cardinality(S \ {c}) \in Nat
    BY <1>2, Without
  <1>7. Claimed(c) \in Nat /\ Claimed(c) <= offer[o].reserved
    BY <1>2, <1>3, <1>4, <1>5, <1>6
  <1> QED
    BY <1>1, <1>2, <1>3, <1>7

\* A step that changes one code balances when its offer follows.
LEMMA OneCodeBalances ==
    ASSUME Inv, NEW c \in Codes, NEW o \in Offers, o = OfferOf[c],
           \A d \in Codes : d # c => code'[d] = code[d],
           {code'[c].res, code'[c].paid} \subseteq {0, Face[o]},
           \A q \in Offers : q # o => offer'[q] = offer[q],
           offer'[o].reserved = offer[o].reserved - Claimed(c) + Claimed(c)',
           offer'[o].used = offer[o].used - code[c].paid + code'[c].paid,
           offer'[o].used + offer'[o].reserved <= Cap[o]
    PROVE  BudgetBalances'
  <1>1. \A d \in Codes : {code'[d].res, code'[d].paid} \subseteq {0, Face[OfferOf[d]]}
    BY DEF Inv, Money, BudgetBalances
  <1>2. ASSUME NEW q \in Offers, q # o
        PROVE  /\ offer'[q].reserved = Face[q] * Cardinality(Claiming(q)')
               /\ offer'[q].used = Face[q] * Cardinality(PaidBy(q)')
               /\ offer'[q].used + offer'[q].reserved <= Cap[q]
    <2>1. Claiming(q)' = Claiming(q)
      BY <1>2 DEF Claiming
    <2>2. PaidBy(q)' = PaidBy(q)
      BY <1>2 DEF PaidBy
    <2> QED
      BY <1>2, <2>1, <2>2 DEF Inv, Money, BudgetBalances
  <1>3. /\ Face[o] \in Nat \ {0}
        /\ offer[o] \in [used : Nat, reserved : Nat]
        /\ code[c] \in [st : CodeStates, res : Nat, paid : Nat, dev : BOOLEAN]
        /\ {code[c].res, code[c].paid} \subseteq {0, Face[o]}
    BY Facts
  <1>4. offer'[o].reserved = Face[o] * Cardinality(Claiming(o)')
    <2>1. PICK S \in SUBSET Codes, T \in SUBSET Codes : S = Claiming(o) /\ T = Claiming(o)'
      BY DEF Claiming
    <2>2. S \ {c} = T \ {c}
      BY <2>1 DEF Claiming
    <2>3. /\ Claimed(c) = IF c \in S THEN Face[o] ELSE 0
          /\ Claimed(c)' = IF c \in T THEN Face[o] ELSE 0
      BY <1>3, <2>1 DEF Claiming, Claimed
    <2>4. offer[o].reserved = Face[o] * Cardinality(S)
      BY <2>1 DEF Inv, Money, BudgetBalances
    <2>5. PICK f \in Nat : f = Face[o]
      BY <1>3
    <2>6. PICK n \in Nat : /\ f * Cardinality(S) = n + (IF c \in S THEN f ELSE 0)
                           /\ f * Cardinality(T) = n + (IF c \in T THEN f ELSE 0)
      <3>1. /\ f * Cardinality(S) = f * Cardinality(S \ {c}) + (IF c \in S THEN f ELSE 0)
            /\ f * Cardinality(S \ {c}) \in Nat
        BY Without
      <3>2. f * Cardinality(T) = f * Cardinality(T \ {c}) + (IF c \in T THEN f ELSE 0)
        BY Without
      <3> QED
        BY <2>2, <3>1, <3>2
    <2>7. offer'[o].reserved = Face[o] * Cardinality(T)
      BY <1>3, <2>3, <2>4, <2>5, <2>6
    <2> QED
      BY <2>1, <2>7
  <1>5. offer'[o].used = Face[o] * Cardinality(PaidBy(o)')
    <2>1. PICK S \in SUBSET Codes, T \in SUBSET Codes : S = PaidBy(o) /\ T = PaidBy(o)'
      BY DEF PaidBy
    <2>2. S \ {c} = T \ {c}
      BY <2>1 DEF PaidBy
    <2>3. /\ code[c].paid = IF c \in S THEN Face[o] ELSE 0
          /\ code'[c].paid = IF c \in T THEN Face[o] ELSE 0
      BY <1>3, <2>1 DEF PaidBy
    <2>4. offer[o].used = Face[o] * Cardinality(S)
      BY <2>1 DEF Inv, Money, BudgetBalances
    <2>5. PICK f \in Nat : f = Face[o]
      BY <1>3
    <2>6. PICK n \in Nat : /\ f * Cardinality(S) = n + (IF c \in S THEN f ELSE 0)
                           /\ f * Cardinality(T) = n + (IF c \in T THEN f ELSE 0)
      <3>1. /\ f * Cardinality(S) = f * Cardinality(S \ {c}) + (IF c \in S THEN f ELSE 0)
            /\ f * Cardinality(S \ {c}) \in Nat
        BY Without
      <3>2. f * Cardinality(T) = f * Cardinality(T \ {c}) + (IF c \in T THEN f ELSE 0)
        BY Without
      <3> QED
        BY <2>2, <3>1, <3>2
    <2>7. offer'[o].used = Face[o] * Cardinality(T)
      BY <1>3, <2>3, <2>4, <2>5, <2>6
    <2> QED
      BY <2>1, <2>7
  <1>6. \A q \in Offers :
          /\ offer'[q].reserved = Face[q] * Cardinality(Claiming(q)')
          /\ offer'[q].used = Face[q] * Cardinality(PaidBy(q)')
          /\ offer'[q].used + offer'[q].reserved <= Cap[q]
    BY <1>2, <1>4, <1>5
  <1> QED
    BY <1>1, <1>6 DEF BudgetBalances

\* A new state for an outstanding code, with what it can claim or with nothing.
LEMMA ClaimKeeps ==
    ASSUME Inv, NEW t \in Txs, NEW c \in Codes, lock[c] = t,
           code[c].st \in Outstanding,
           NEW st \in Outstanding \union {"void"}, NEW res \in {0, Reservable(c)},
           NEW dev \in BOOLEAN,
           res = 0 => st = "void" \/ code[c].res = 0,
           st = "issued" => res # 0,
           st = "void" => res = 0,
           Claim(c, st, res, dev), Close(t), UNCHANGED <<play, consumed>>
    PROVE  TypeOK' /\ StepOf(t) /\ TxInv(t)' /\ Money'
  <1>1. PICK o \in Offers : o = OfferOf[c]
    BY Facts
  <1>2. /\ code[c] \in [st : CodeStates, res : Nat, paid : Nat, dev : BOOLEAN]
        /\ offer[o] \in [used : Nat, reserved : Nat]
        /\ Face[o] \in Nat \ {0} /\ Cap[o] \in Nat
        /\ {code[c].res, code[c].paid} \subseteq {0, Face[o]}
        /\ offer[o].used + offer[o].reserved <= Cap[o]
        /\ Claimed(c) \in Nat /\ Claimed(c) <= offer[o].reserved
    BY <1>1, Facts
  <1>3. Claimed(c) = code[c].res /\ code[c].paid = 0
    BY DEF Claimed, Inv, Money, CodeInv
  <1>4. /\ res \in {0, Face[o]} /\ res \in Nat
        /\ res - code[c].res <= Cap[o] - offer[o].used - offer[o].reserved
    BY <1>1, <1>2 DEF Reservable, Covers
  <1>5. /\ code' = [code EXCEPT ![c].st = st, ![c].res = res, ![c].dev = dev]
        /\ offer' = [offer EXCEPT ![o].reserved = NonNegative(@ + res - code[c].res)]
    BY <1>1 DEF Claim
  <1>6. st \in CodeStates /\ st # "gone"
    BY DEF CodeStates, Outstanding
  <1>7. NonNegative(offer[o].reserved + res - code[c].res) = offer[o].reserved + res - code[c].res
        /\ offer[o].reserved + res - code[c].res \in Nat
    BY <1>2, <1>3, <1>4 DEF NonNegative
  <1>8. /\ \A d \in Codes : d # c => code'[d] = code[d]
        /\ code' \in [Codes -> [st : CodeStates, res : Nat, paid : Nat, dev : BOOLEAN]]
        /\ code'[c].st = st /\ code'[c].res = res /\ code'[c].paid = 0
    BY <1>2, <1>3, <1>4, <1>5, <1>6 DEF Inv, TypeOK
  <1>9. /\ \A q \in Offers : q # o => offer'[q] = offer[q]
        /\ offer' \in [Offers -> [used : Nat, reserved : Nat]]
        /\ offer'[o].reserved = offer[o].reserved + res - code[c].res
        /\ offer'[o].used = offer[o].used
    BY <1>2, <1>5, <1>7 DEF Inv, TypeOK
  <1>10. Claimed(c)' = res
    BY <1>8 DEF Claimed, Outstanding
  <1>11. /\ offer'[o].reserved = offer[o].reserved - Claimed(c) + Claimed(c)'
         /\ offer'[o].used = offer[o].used - code[c].paid + code'[c].paid
         /\ offer'[o].used + offer'[o].reserved <= Cap[o]
         /\ {code'[c].res, code'[c].paid} \subseteq {0, Face[o]}
    <2>1. PICK r \in Nat, n \in Nat, m \in Nat :
            r = code[c].res /\ n = offer[o].reserved /\ m = offer[o].used
      BY <1>2
    <2>2. offer'[o].reserved = n - r + res
      BY <1>4, <1>9, <2>1
    <2>3. offer'[o].used = m /\ code[c].paid = 0 /\ code'[c].paid = 0
      BY <1>3, <1>8, <1>9, <2>1
    <2>4. m + (n - r + res) <= Cap[o]
      BY <1>2, <1>4, <2>1
    <2>5. {code'[c].res, code'[c].paid} \subseteq {0, Face[o]}
      BY <1>4, <1>8
    <2> QED
      BY <1>3, <1>10, <2>1, <2>2, <2>3, <2>4, <2>5
  <1>12. BudgetBalances'
    BY <1>1, <1>8, <1>9, <1>11, OneCodeBalances
  <1>13. CodeInv'
    BY <1>1, <1>4, <1>8 DEF Inv, Money, CodeInv
  <1>14. TypeOK' /\ StepOf(t) /\ TxInv(t)'
    BY <1>8, <1>9, Closes DEF Inv, TypeOK, StepOf, Outstanding
  <1> QED
    BY <1>12, <1>13, <1>14 DEF Money

LEMMA ClaimsKeep ==
    ASSUME Inv, NEW t \in Txs,
           ActivateHolds(t) \/ ActivateIssues(t) \/ ResolveApproves(t) \/ ResolveRejects(t)
    PROVE  TypeOK' /\ StepOf(t) /\ TxInv(t)' /\ Money'
  <1>1. PICK c \in Codes : c = tx[t].obj
    BY DEF ActivateHolds, ActivateIssues, ResolveApproves, ResolveRejects, At, Inv, TxInv,
           ObjectInv
  <1>2. lock[c] = t /\ code[c].st \in Outstanding
    BY <1>1 DEF ActivateHolds, ActivateIssues, ResolveApproves, ResolveRejects, At, Inv,
                TxInv, OneCodeInv, InPlace, Outstanding
  <1>3. code[c].dev \in BOOLEAN /\ (Reservable(c) = 0 => code[c].res = 0)
    BY Facts DEF Reservable
  <1>4. CASE ActivateHolds(t)
    <2>1. /\ Claim(c, "held", Reservable(c), TRUE)
          /\ Close(t) /\ UNCHANGED <<play, consumed>>
      BY <1>1, <1>4 DEF ActivateHolds
    <2>2. "held" \in Outstanding \union {"void"}
      BY DEF Outstanding
    <2> QED
      BY <1>2, <1>3, <2>1, <2>2, ClaimKeeps
  <1>5. CASE ActivateIssues(t)
    <2>1. /\ Claim(c, IssueState(c), Reservable(c), TRUE)
          /\ Close(t) /\ UNCHANGED <<play, consumed>>
      BY <1>1, <1>5 DEF ActivateIssues
    <2>2. /\ IssueState(c) \in Outstanding \union {"void"} /\ IssueState(c) # "void"
          /\ IssueState(c) = "issued" => Reservable(c) # 0
      BY DEF Outstanding, IssueState
    <2> QED
      BY <1>2, <1>3, <2>1, <2>2, ClaimKeeps
  <1>6. CASE ResolveApproves(t)
    <2>1. /\ Claim(c, ApprovedState(c), Reservable(c), code[c].dev) /\ Reservable(c) # 0
          /\ Close(t) /\ UNCHANGED <<play, consumed>>
      BY <1>1, <1>6 DEF ResolveApproves
    <2>2. ApprovedState(c) \in Outstanding \union {"void"} /\ ApprovedState(c) # "void"
      BY DEF Outstanding, ApprovedState
    <2> QED
      BY <1>2, <1>3, <2>1, <2>2, ClaimKeeps
  <1>7. CASE ResolveRejects(t)
    <2>1. /\ Claim(c, "void", 0, code[c].dev)
          /\ Close(t) /\ UNCHANGED <<play, consumed>>
      BY <1>1, <1>7 DEF ResolveRejects
    <2> QED
      BY <1>2, <1>3, <2>1, ClaimKeeps
  <1> QED
    BY <1>4, <1>5, <1>6, <1>7

LEMMA PayKeeps ==
    ASSUME Inv, NEW t \in Txs, RedeemPays(t), ~ End(t)
    PROVE  TypeOK' /\ StepOf(t) /\ TxInv(t)' /\ Money'
  <1>1. PICK c \in Codes : c = tx[t].obj
    BY DEF RedeemPays, At, Inv, TxInv, ObjectInv
  <1>2. lock[c] = t /\ code[c].st = "issued" /\ tx[t].arg \in Tokens
    BY <1>1 DEF RedeemPays, At, Inv, TxInv, ObjectInv, OneCodeInv, InPlace
  <1>3. PICK o \in Offers : o = OfferOf[c]
    BY Facts
  <1>4. /\ code[c] \in [st : CodeStates, res : Nat, paid : Nat, dev : BOOLEAN]
        /\ offer[o] \in [used : Nat, reserved : Nat]
        /\ Face[o] \in Nat \ {0} /\ Cap[o] \in Nat
        /\ offer[o].used + offer[o].reserved <= Cap[o]
        /\ Claimed(c) <= offer[o].reserved
    BY <1>3, Facts
  <1>5. code[c].res = Face[o] /\ code[c].paid = 0 /\ Claimed(c) = Face[o]
    BY <1>2, <1>3 DEF Claimed, Outstanding, Inv, Money, CodeInv
  <1>6. /\ code' = [code EXCEPT ![c].st = "redeemed", ![c].paid = code[c].res]
        /\ offer' = [offer EXCEPT ![o].reserved = NonNegative(@ - code[c].res),
                                  ![o].used = @ + code[c].res]
        /\ consumed' = consumed \union {tx[t].arg} /\ Close(t) /\ UNCHANGED play
    BY <1>1, <1>3 DEF RedeemPays, Pay
  <1>7. NonNegative(offer[o].reserved - code[c].res) = offer[o].reserved - Face[o]
        /\ offer[o].reserved - Face[o] \in Nat
    BY <1>4, <1>5 DEF NonNegative
  <1>8. /\ \A d \in Codes : d # c => code'[d] = code[d]
        /\ code' \in [Codes -> [st : CodeStates, res : Nat, paid : Nat, dev : BOOLEAN]]
        /\ code'[c].st = "redeemed" /\ code'[c].res = Face[o] /\ code'[c].paid = Face[o]
    BY <1>4, <1>5, <1>6 DEF Inv, TypeOK, CodeStates
  <1>9. /\ \A q \in Offers : q # o => offer'[q] = offer[q]
        /\ offer' \in [Offers -> [used : Nat, reserved : Nat]]
        /\ offer'[o].reserved = offer[o].reserved - Face[o]
        /\ offer'[o].used = offer[o].used + Face[o]
    BY <1>4, <1>5, <1>6, <1>7 DEF Inv, TypeOK
  <1>10. Claimed(c)' = 0
    BY <1>8 DEF Claimed, Outstanding
  <1>11. /\ offer'[o].reserved = offer[o].reserved - Claimed(c) + Claimed(c)'
         /\ offer'[o].used = offer[o].used - code[c].paid + code'[c].paid
         /\ offer'[o].used + offer'[o].reserved <= Cap[o]
         /\ {code'[c].res, code'[c].paid} \subseteq {0, Face[o]}
    <2>1. PICK f \in Nat, n \in Nat, m \in Nat :
            f = Face[o] /\ n = offer[o].reserved /\ m = offer[o].used
      BY <1>4
    <2>2. offer'[o].reserved = n - f + 0 /\ offer'[o].used = m - 0 + f
      BY <1>9, <2>1
    <2>3. (m + f) + (n - f) <= Cap[o]
      BY <1>4, <2>1
    <2> QED
      BY <1>5, <1>8, <1>10, <2>1, <2>2, <2>3
  <1>12. BudgetBalances'
    BY <1>3, <1>8, <1>9, <1>11, OneCodeBalances
  <1>13. CodeInv'
    BY <1>8 DEF Inv, Money, CodeInv, Outstanding
  <1>14. TypeOK' /\ StepOf(t) /\ TxInv(t)'
    BY <1>2, <1>6, <1>8, <1>9, Closes DEF Inv, TypeOK, StepOf
  <1> QED
    BY <1>12, <1>13, <1>14 DEF Money

LEMMA FreeKeeps ==
    ASSUME Inv, NEW t \in Txs, FreeCommits(t)
    PROVE  TypeOK' /\ StepOf(t) /\ TxInv(t)' /\ UNCHANGED <<code, offer>>
  <1>1. tx[t].obj \in Plays /\ Close(t) /\ UNCHANGED <<code, offer, consumed>>
    BY DEF FreeCommits, At, Inv, TxInv, ObjectInv
  <1>2. play' \in [Plays -> {"free", "held", "gone"}]
    BY <1>1 DEF FreeCommits, Inv, TypeOK
  <1> QED
    BY <1>1, <1>2, Closes DEF Inv, TypeOK, StepOf

LEMMA HoldKeeps ==
    ASSUME Inv, NEW t \in Txs, HoldCommits(t)
    PROVE  TypeOK' /\ StepOf(t) /\ TxInv(t)' /\ Money'
  <1>1. tx[t].obj \in Plays /\ tx[t].rows \in SUBSET Codes
        /\ \A c \in Codes : lock[c] = t => Holdable(c)
    BY DEF HoldCommits, At, Inv, TypeOK, TxTyped, TxInv, ObjectInv, HoldInv
  <1>2. PICK C \in SUBSET Codes : C = tx[t].rows \intersect Mine(t)
    BY <1>1
  <1>3. PICK f \in Claims(C) : HoldRows(C, f)
    BY <1>2 DEF HoldCommits
  <1>4. play' = [play EXCEPT ![tx[t].obj] = "held"] /\ Close(t) /\ UNCHANGED consumed
    BY DEF HoldCommits
  <1>5. \A c \in Codes :
          /\ code[c] \in [st : CodeStates, res : Nat, paid : Nat, dev : BOOLEAN]
          /\ OfferOf[c] \in Offers /\ Face[OfferOf[c]] \in Nat \ {0}
          /\ {code[c].res, code[c].paid} \subseteq {0, Face[OfferOf[c]]}
    BY Facts
  <1>6. \A c \in C : lock[c] = t /\ code[c].st \in {"earned", "issued"}
    BY <1>1, <1>2, <1>5 DEF Mine, Holdable, CodeStates
  <1>7. \A c \in C : /\ f[c] \in {0, Face[OfferOf[c]]} /\ f[c] \in Nat
                     /\ code[c].res # 0 => f[c] = code[c].res
    BY <1>5 DEF Claims
  <1>8. /\ \A c \in C : /\ code'[c].st = "held" /\ code'[c].res = f[c]
                        /\ code'[c].paid = code[c].paid
                        /\ code'[c] \in [st : CodeStates, res : Nat, paid : Nat, dev : BOOLEAN]
        /\ \A c \in Codes \ C : code'[c] = code[c]
        /\ code' \in [Codes -> [st : CodeStates, res : Nat, paid : Nat, dev : BOOLEAN]]
    <2>1. code' = [c \in Codes |-> IF c \in C
                     THEN [code[c] EXCEPT !.st = "held", !.res = f[c]] ELSE code[c]]
      BY <1>3 DEF HoldRows
    <2>2. ASSUME NEW c \in C
          PROVE  /\ code'[c].st = "held" /\ code'[c].res = f[c]
                 /\ code'[c].paid = code[c].paid
                 /\ code'[c] \in [st : CodeStates, res : Nat, paid : Nat, dev : BOOLEAN]
      BY <1>5, <1>7, <2>1 DEF CodeStates
    <2>3. \A c \in Codes \ C : code'[c] = code[c]
      BY <2>1
    <2> QED
      BY <1>5, <2>1, <2>2, <2>3
  <1>9. CodeInv'
    BY <1>6, <1>8 DEF Inv, Money, CodeInv, Outstanding
  <1>10. \A c \in Codes : {code'[c].res, code'[c].paid} \subseteq {0, Face[OfferOf[c]]}
    BY <1>5, <1>7, <1>8
  <1>11. ASSUME NEW o \in Offers
         PROVE  /\ offer'[o] \in [used : Nat, reserved : Nat]
                /\ offer'[o].reserved = Face[o] * Cardinality(Claiming(o)')
                /\ offer'[o].used = Face[o] * Cardinality(PaidBy(o)')
                /\ offer'[o].used + offer'[o].reserved <= Cap[o]
    <2>1. PICK S \in SUBSET Codes, G \in SUBSET Codes :
            /\ S = Claiming(o)
            /\ G = {c \in C : OfferOf[c] = o /\ code[c].res # f[c]}
      BY DEF Claiming
    <2>2. /\ offer[o] \in [used : Nat, reserved : Nat] /\ Face[o] \in Nat /\ Cap[o] \in Nat
          /\ offer[o].reserved = Face[o] * Cardinality(S)
          /\ offer[o].used = Face[o] * Cardinality(PaidBy(o))
          /\ offer[o].used + offer[o].reserved <= Cap[o]
      BY <2>1, CatalogTyped DEF Inv, TypeOK, Money, BudgetBalances
    <2>3. /\ IsFiniteSet(S) /\ IsFiniteSet(G)
          /\ Cardinality(S) \in Nat /\ Cardinality(G) \in Nat
      BY CountedCodes
    <2>4. PICK n \in Nat, m \in Nat, g \in Nat :
            n = offer[o].reserved /\ m = offer[o].used /\ g = Face[o] * Cardinality(G)
      BY <2>2, <2>3, Distributes
    <2>5. /\ offer'[o].reserved = n + g /\ offer'[o].used = m
          /\ offer'[o] \in [used : Nat, reserved : Nat]
      <3>1. offer'[o] = [offer[o] EXCEPT !.reserved = @ + Face[o] * Cardinality(G)]
        BY <1>3, <2>1 DEF HoldRows
      <3> QED
        BY <2>2, <2>4, <3>1
    <2>6. Claiming(o)' = S \union G /\ S \intersect G = {}
      BY <1>5, <1>6, <1>7, <1>8, <2>1 DEF Claiming, Outstanding
    <2>7. offer'[o].reserved = Face[o] * Cardinality(Claiming(o)')
      <3>1. Cardinality(S \union G) = Cardinality(S) + Cardinality(G)
        BY <2>3, <2>6, DisjointCount
      <3>2. Face[o] * (Cardinality(S) + Cardinality(G))
              = Face[o] * Cardinality(S) + Face[o] * Cardinality(G)
        BY <2>2, <2>3, Distributes
      <3>3. Face[o] * Cardinality(Claiming(o)')
              = Face[o] * Cardinality(S) + Face[o] * Cardinality(G)
        BY <2>6, <3>1, <3>2
      <3> QED
        BY <2>2, <2>4, <2>5, <3>3
    <2>8. PaidBy(o)' = PaidBy(o)
      BY <1>8 DEF PaidBy
    <2>9. g <= Cap[o] - m - n
      <3>1. CASE G = {}
        BY <2>2, <2>3, <2>4, <3>1, FS_EmptySet
      <3>2. CASE G # {}
        <4>1. o \in OffersOf(C)
          BY <2>1, <3>2 DEF OffersOf
        <4>2. G = {c \in {c \in C : OfferOf[c] = o /\ code[c].res = 0} : f[c] # 0}
          BY <1>7, <2>1
        <4>3. Cardinality({c \in {c \in C : OfferOf[c] = o /\ code[c].res = 0} : f[c] # 0})
                * Face[o] <= Cap[o] - offer[o].used - offer[o].reserved
          BY <4>1 DEF Claims
        <4>4. Cardinality(G) * Face[o] <= Cap[o] - m - n
          BY <2>4, <4>2, <4>3
        <4>5. Cardinality(G) * Face[o] = Face[o] * Cardinality(G)
          BY <2>2, <2>3
        <4> QED
          BY <2>4, <4>4, <4>5
      <3> QED
        BY <3>1, <3>2
    <2>10. m + (n + g) <= Cap[o]
      BY <2>2, <2>9
    <2> QED
      BY <2>2, <2>4, <2>5, <2>7, <2>8, <2>10
  <1>12. offer' \in [Offers -> [used : Nat, reserved : Nat]]
    BY <1>3, <1>11 DEF HoldRows
  <1>13. BudgetBalances'
    BY <1>10, <1>11 DEF BudgetBalances
  <1>14. TypeOK' /\ StepOf(t) /\ TxInv(t)'
    BY <1>1, <1>4, <1>6, <1>8, <1>12, Closes DEF Inv, TypeOK, StepOf
  <1> QED
    BY <1>9, <1>13, <1>14 DEF Money

LEMMA DeleteKeeps ==
    ASSUME Inv, NEW t \in Txs, DeleteCommits(t)
    PROVE  TypeOK' /\ StepOf(t) /\ TxInv(t)' /\ Money'
  <1>1. PICK u \in Users : /\ u = tx[t].obj /\ \A c \in OwnCodes(u) : lock[c] = t
                           /\ tx[t].rows = Reserving(u)
    BY DEF DeleteCommits, At, Inv, TxInv, ObjectInv, DeleteInv, InPlace
  <1>2. /\ code' = [c \in Codes |-> IF UserOf[c] = u
                      THEN [code[c] EXCEPT !.st = "gone", !.res = 0] ELSE code[c]]
        /\ offer' = [o \in Offers |-> [offer[o] EXCEPT !.reserved =
                       NonNegative(offer[o].reserved
                         - Face[o] * Cardinality({c \in Reserving(u) : OfferOf[c] = o}))]]
        /\ play' = [p \in Plays |-> IF UserOf[p] = u THEN "gone" ELSE play[p]]
        /\ Close(t) /\ UNCHANGED consumed
    BY <1>1 DEF DeleteCommits
  <1>3. \A c \in Codes :
          /\ code[c] \in [st : CodeStates, res : Nat, paid : Nat, dev : BOOLEAN]
          /\ {code[c].res, code[c].paid} \subseteq {0, Face[OfferOf[c]]}
    BY Facts
  <1>4. \A c \in Codes :
          /\ code'[c] \in [st : CodeStates, res : Nat, paid : Nat, dev : BOOLEAN]
          /\ code'[c].paid = code[c].paid
          /\ UserOf[c] = u => code'[c].st = "gone" /\ code'[c].res = 0
          /\ UserOf[c] # u => code'[c] = code[c]
    BY <1>2, <1>3 DEF CodeStates
  <1>5. code' \in [Codes -> [st : CodeStates, res : Nat, paid : Nat, dev : BOOLEAN]]
    BY <1>2, <1>4
  <1>6. CodeInv'
    BY <1>4 DEF Inv, Money, CodeInv, Outstanding
  <1>7. \A c \in Codes : {code'[c].res, code'[c].paid} \subseteq {0, Face[OfferOf[c]]}
    BY <1>3, <1>4
  <1>8. ASSUME NEW o \in Offers
        PROVE  /\ offer'[o] \in [used : Nat, reserved : Nat]
               /\ offer'[o].reserved = Face[o] * Cardinality(Claiming(o)')
               /\ offer'[o].used = Face[o] * Cardinality(PaidBy(o)')
               /\ offer'[o].used + offer'[o].reserved <= Cap[o]
    <2>1. PICK S \in SUBSET Codes, T \in SUBSET Codes, R \in SUBSET Codes :
            /\ S = Claiming(o) /\ T = Claiming(o)'
            /\ R = {c \in Reserving(u) : OfferOf[c] = o}
      BY DEF Claiming, Reserving, OwnCodes
    <2>2. S = T \union R /\ T \intersect R = {}
      BY <1>3, <1>4, <2>1 DEF Claiming, Reserving, OwnCodes, Outstanding
    <2>3. /\ offer[o] \in [used : Nat, reserved : Nat] /\ Face[o] \in Nat /\ Cap[o] \in Nat
          /\ offer[o].reserved = Face[o] * Cardinality(S)
          /\ offer[o].used = Face[o] * Cardinality(PaidBy(o))
          /\ offer[o].used + offer[o].reserved <= Cap[o]
      BY <2>1, CatalogTyped DEF Inv, TypeOK, Money, BudgetBalances
    <2>4. /\ IsFiniteSet(T) /\ IsFiniteSet(R)
          /\ Cardinality(T) \in Nat /\ Cardinality(R) \in Nat
      BY CountedCodes
    <2>5. PICK a \in Nat, b \in Nat :
            a = Face[o] * Cardinality(T) /\ b = Face[o] * Cardinality(R)
      BY <2>3, <2>4, Distributes
    <2>6. offer[o].reserved = a + b
      <3>1. Cardinality(S) = Cardinality(T) + Cardinality(R)
        BY <2>2, <2>4, DisjointCount
      <3>2. Face[o] * (Cardinality(T) + Cardinality(R))
              = Face[o] * Cardinality(T) + Face[o] * Cardinality(R)
        BY <2>3, <2>4, Distributes
      <3> QED
        BY <2>3, <2>5, <3>1, <3>2
    <2>7. offer'[o] = [offer[o] EXCEPT !.reserved = NonNegative(offer[o].reserved - b)]
      BY <1>2, <2>1, <2>5
    <2>8. NonNegative(offer[o].reserved - b) = a
      BY <2>6 DEF NonNegative
    <2>9. /\ offer'[o].reserved = a /\ offer'[o].used = offer[o].used
          /\ offer'[o] \in [used : Nat, reserved : Nat]
      BY <2>3, <2>7, <2>8
    <2>10. PaidBy(o)' = PaidBy(o)
      BY <1>4 DEF PaidBy
    <2>11. offer[o].used + a <= Cap[o]
      BY <2>3, <2>6
    <2> QED
      BY <2>1, <2>3, <2>5, <2>9, <2>10, <2>11
  <1>9. offer' \in [Offers -> [used : Nat, reserved : Nat]]
    BY <1>2, <1>8
  <1>10. BudgetBalances'
    BY <1>7, <1>8 DEF BudgetBalances
  <1>11. play' \in [Plays -> {"free", "held", "gone"}]
    BY <1>2 DEF Inv, TypeOK
  <1>12. \A c \in Codes : lock[c] # t /\ code[c].st # "gone" => code'[c] = code[c]
    BY <1>1, <1>4 DEF OwnCodes
  <1>13. \A c \in Codes : code[c].st = "gone" => code'[c].st = "gone"
    BY <1>4
  <1>14. TypeOK' /\ StepOf(t) /\ TxInv(t)'
    BY <1>2, <1>5, <1>9, <1>11, <1>12, <1>13, Closes DEF Inv, TypeOK, StepOf
  <1> QED
    BY <1>6, <1>10, <1>14 DEF Money

-----------------------------------------------------------------------------
(* The invariant holds, and what follows. *)

LEMMA MoneyStays ==
    ASSUME Money, UNCHANGED <<code, offer>>
    PROVE  Money'
  BY DEF Money, CodeInv, BudgetBalances, Claiming, PaidBy

LEMMA Initially == Init => Inv
  <1> SUFFICES ASSUME Init PROVE Inv
    OBVIOUS
  <1>1. TypeOK
    BY IdleFields DEF Init, TypeOK, CodeStates
  <1>2. ASSUME NEW t \in Txs PROVE TxInv(t)
    <2>1. tx[t] = Idle /\ \A r \in Rows : lock[r] # t
      BY NoTxIsNone DEF Init
    <2> QED
      BY <2>1, IdleFields DEF TxInv, ObjectInv, OneCodeInv, HoldInv, DeleteInv, InPlace, Rows
  <1>3. CodeInv
    BY DEF Init, CodeInv
  <1>4. ASSUME NEW o \in Offers
        PROVE  /\ offer[o].reserved = Face[o] * Cardinality(Claiming(o))
               /\ offer[o].used = Face[o] * Cardinality(PaidBy(o))
               /\ offer[o].used + offer[o].reserved <= Cap[o]
    <2>1. Claiming(o) = {} /\ PaidBy(o) = {}
      BY DEF Init, Claiming, PaidBy
    <2>2. Face[o] \in Nat /\ Cap[o] \in Nat /\ Cardinality({}) = 0
      BY CatalogTyped, FS_EmptySet
    <2>3. offer[o].used = 0 /\ offer[o].reserved = 0
      BY DEF Init
    <2> QED
      BY <2>1, <2>2, <2>3
  <1>5. \A c \in Codes : {code[c].res, code[c].paid} \subseteq {0, Face[OfferOf[c]]}
    BY DEF Init
  <1> QED
    BY <1>1, <1>2, <1>3, <1>4, <1>5 DEF Inv, Money, BudgetBalances

LEMMA StepKeeps ==
    ASSUME Inv, NEW t \in Txs, Starts(t) \/ Lock(t) \/ Steps(t) \/ Abort(t)
    PROVE  Inv'
  <1>1. TypeOK' /\ StepOf(t) /\ TxInv(t)' /\ Money'
    <2>1. CASE Starts(t)
      BY <2>1, Opens, MoneyStays DEF Inv
    <2>2. CASE Lock(t)
      BY <2>2, Locks, MoneyStays DEF Inv, Lock
    <2>3. CASE End(t)
      BY <2>3, Ends, MoneyStays DEF Inv, End
    <2>4. CASE Reads(t)
      BY <2>4, <2>3, ReadsKeep, MoneyStays DEF Inv
    <2>5. CASE ActivateHolds(t) \/ ActivateIssues(t) \/ ResolveApproves(t)
               \/ ResolveRejects(t)
      BY <2>5, ClaimsKeep
    <2>6. CASE HoldCommits(t)
      BY <2>6, HoldKeeps
    <2>7. CASE FreeCommits(t)
      BY <2>7, FreeKeeps, MoneyStays DEF Inv
    <2>8. CASE RedeemPays(t)
      BY <2>8, <2>3, PayKeeps
    <2>9. CASE DeleteCommits(t)
      BY <2>9, DeleteKeeps
    <2> QED
      BY <2>1, <2>2, <2>3, <2>4, <2>5, <2>6, <2>7, <2>8, <2>9 DEF Steps, Reads, Abort
  <1>2. ASSUME NEW s \in Txs PROVE TxInv(s)'
    BY <1>1, OthersKeep
  <1> QED
    BY <1>1, <1>2 DEF Inv

\* All that Inv says is true of every state.
THEOREM InvHolds == Spec => []Inv
  <1>1. Inv /\ [Next]_vars => Inv'
    <2> SUFFICES ASSUME Inv, [Next]_vars PROVE Inv'
      OBVIOUS
    <2>1. CASE Next
      BY <2>1, StepKeeps DEF Next
    <2>2. CASE UNCHANGED vars
      <3>1. UNCHANGED <<code, offer, play, consumed, lock, tx>>
        BY <2>2 DEF vars
      <3>2. TypeOK' /\ Money'
        BY <3>1, MoneyStays DEF Inv, TypeOK
      <3>3. ASSUME NEW t \in Txs PROVE TxInv(t)'
        <4>1. ObjectInv(t)' /\ OneCodeInv(t)' /\ HoldInv(t)'
          BY <3>1 DEF Inv, TxInv, ObjectInv, OneCodeInv, HoldInv, InPlace, Asks, Holdable
        <4>2. DeleteInv(t)'
          BY <3>1 DEF Inv, TxInv, DeleteInv, InPlace, Asks, OwnCodes, Reserving
        <4> QED
          BY <4>1, <4>2 DEF TxInv
      <3> QED
        BY <3>2, <3>3 DEF Inv
    <2> QED
      BY <2>1, <2>2
  <1> QED
    BY <1>1, Initially, PTL DEF Spec

\* The rows of 0017 and the sessions have their types, whatever the instance.
THEOREM OffersAreTyped == Spec => []TypeOK
  <1>1. Inv => TypeOK
    BY DEF Inv
  <1> QED
    BY <1>1, InvHolds, PTL

\* An offer reserves exactly what its outstanding codes claim, has used exactly
\* what its codes were paid, and never owes more than its cap (0017, 0027).
\* It follows that the clamp of a release at zero never hides a difference.
THEOREM TheBudgetBalances == Spec => []BudgetBalances
  <1>1. Inv => BudgetBalances
    BY DEF Inv, Money
  <1> QED
    BY <1>1, InvHolds, PTL

\* A till never meets an issued code that the budget does not cover (0027 N1).
THEOREM IssuedCodesArePayable == Spec => []IssuedIsPayable
  <1>1. Inv => IssuedIsPayable
    BY DEF Inv, Money, CodeInv, IssuedIsPayable
  <1> QED
    BY <1>1, InvHolds, PTL

\* Only the till makes a code redeemed, and its deferred guard looks at the play.
LEMMA OnlyThePayPays ==
    ASSUME Inv, NEW t \in Txs, Starts(t) \/ Lock(t) \/ Steps(t) \/ Abort(t),
           NEW c \in Codes, code[c].st # "redeemed", code'[c].st = "redeemed"
    PROVE  ~ Held(PlayOf[c])
  <1>1. ~ UNCHANGED code
    OBVIOUS
  <1>2. ~ Starts(t) /\ ~ Lock(t) /\ ~ End(t) /\ ~ FreeCommits(t)
    BY <1>1, Opens DEF Lock, End, FreeCommits
  <1>3. ~ Reads(t)
    BY <1>1, <1>2, ReadsKeep
  <1>4. \A d \in Codes : code[d] \in [st : CodeStates, res : Nat, paid : Nat, dev : BOOLEAN]
    BY Facts
  <1>5. ASSUME NEW d, NEW st, NEW res, NEW dev, Claim(d, st, res, dev), st # "redeemed"
        PROVE  FALSE
    <2>1. code' = [code EXCEPT ![d].st = st, ![d].res = res, ![d].dev = dev]
      BY <1>5 DEF Claim
    <2> QED
      BY <1>4, <1>5, <2>1 DEF Inv, TypeOK
  <1>6. ~ ActivateHolds(t) /\ ~ ActivateIssues(t) /\ ~ ResolveApproves(t)
        /\ ~ ResolveRejects(t)
    BY <1>5 DEF ActivateHolds, ActivateIssues, ResolveApproves, ResolveRejects, IssueState,
                ApprovedState
  <1>7. ~ HoldCommits(t)
    <2> SUFFICES ASSUME NEW C, NEW f, HoldRows(C, f) PROVE FALSE
      BY DEF HoldCommits
    <2> QED
      BY <1>4 DEF HoldRows
  <1>8. ~ DeleteCommits(t)
    <2> SUFFICES ASSUME DeleteCommits(t) PROVE FALSE
      OBVIOUS
    <2>1. PICK u : code' = [d \in Codes |-> IF UserOf[d] = u
                     THEN [code[d] EXCEPT !.st = "gone", !.res = 0] ELSE code[d]]
      BY DEF DeleteCommits
    <2>2. code'[c].st \in {"gone", code[c].st}
      BY <1>4, <2>1
    <2> QED
      BY <2>2
  <1>9. RedeemPays(t) /\ Pay(t, tx[t].obj)
    BY <1>2, <1>3, <1>6, <1>7, <1>8 DEF Steps, Reads, Abort, RedeemPays
  <1>10. c = tx[t].obj
    BY <1>9 DEF Pay, Inv, TypeOK
  <1> QED
    BY <1>9, <1>10 DEF Pay, Guarded

\* No code is ever paid while its play is held for review, whatever came
\* between the cascade and the till (0017 offer_code_play_guard).
THEOREM HeldPlaysPayNothing == Spec => HeldPlayPaysNothing
  <1>1. Inv /\ [Next]_vars =>
          [\A c \in Codes : code[c].st # "redeemed" /\ code'[c].st = "redeemed"
             => ~Held(PlayOf[c])]_vars
    BY OnlyThePayPays DEF Next
  <1> QED
    BY <1>1, InvHolds, PTL DEF Spec, HeldPlayPaysNothing
-----------------------------------------------------------------------------
(* The order of the locks.                                                 *)

\* Every writer goes from plays and tokens to codes, and from codes to offers.
Rank(r) == IF r \in Offers THEN 2 ELSE IF r \in Codes THEN 1 ELSE 0

\* What the statement before each place locks.
Level(at) == CASE at \in {"token", "play"} -> 0
               [] at \in {"own", "code", "offers", "release"} -> 1
               [] OTHER -> 2

\* A session asks for rows of one kind at a time, has none of a later kind, and
\* of the same kind only earlier ones; except with its last statement, which
\* after a deletion's releases can lack nothing but plays.
InOrder(t) ==
    /\ \A r \in Rows : lock[r] = t => Rank(r) <= Level(tx[t].at)
    /\ \A q \in tx[t].todo :
         IF tx[t].at = "commit" THEN tx[t].op = "hold" \/ q \in Plays
         ELSE Rank(q) = Level(tx[t].at)
    /\ tx[t].at # "commit" =>
         \A r \in Rows, q \in tx[t].todo : lock[r] = t /\ Rank(r) = Rank(q) => r < q

OrderInv == \A t \in Txs : InOrder(t)

\* The kinds of the rows, as numbers.
LEMMA Ranks ==
    /\ \A r : Rank(r) \in 0..2
    /\ \A c \in Codes : Rank(c) = 1
    /\ \A o \in Offers : Rank(o) = 2
    /\ \A r \in Plays \union Tokens : Rank(r) = 0
    /\ \A at : Level(at) \in 0..2
  <1>1. \A at : Level(at) \in 0..2
    BY DEF Level
  <1> QED
    BY <1>1, IdsAreDistinct DEF Rank

\* A session that waits for nothing and has nothing is in order.
LEMMA NothingHeld ==
    ASSUME NEW t \in Txs, \A r \in Rows : lock'[r] # t,
           tx'[t].at # "commit", \A q \in tx'[t].todo : Rank(q) = Level(tx'[t].at)
    PROVE  InOrder(t)'
  BY DEF InOrder, Rows, Rank, Level

LEMMA ClosesInOrder ==
    ASSUME Inv, NEW t \in Txs, Close(t)
    PROVE  InOrder(t)' /\ \A s \in Txs : s # t =>
               tx'[s] = tx[s] /\ \A r \in Rows : lock'[r] = s <=> lock[r] = s
  <1>1. tx'[t] = Idle
    BY DEF Close, Inv, TypeOK
  <1>2. \A r \in Rows : lock'[r] # t
    BY <1>1, Closes, IdleFields DEF TxInv, ObjectInv
  <1> QED
    BY <1>1, <1>2, Closes, NothingHeld, IdleFields

LEMMA OpensInOrder ==
    ASSUME Inv, NEW t \in Txs, Starts(t)
    PROVE  InOrder(t)'
  <1>1. ASSUME NEW op, NEW at \in {"own", "code", "play", "token", "release"},
               NEW obj, NEW arg, NEW todo,
               Begin(t, op, at, obj, arg, todo), \A q \in todo : Rank(q) = Level(at)
        PROVE  InOrder(t)'
    <2>1. /\ tx[t] = Idle /\ lock' = lock
          /\ tx'[t] = [op |-> op, at |-> at, obj |-> obj, arg |-> arg,
                       rows |-> {}, todo |-> todo]
      BY <1>1 DEF Begin, Inv, TypeOK
    <2>2. tx'[t].at = at /\ tx'[t].todo = todo
      BY <2>1
    <2>3. \A r \in Rows : lock'[r] # t
      BY <2>1, IdleFields DEF Inv, TxInv, ObjectInv
    <2> QED
      BY <1>1, <2>2, <2>3, NothingHeld
  <1>2. /\ Level("own") = 1 /\ Level("code") = 1 /\ Level("release") = 1
        /\ Level("play") = 0 /\ Level("token") = 0
    BY DEF Level
  <1>3. ASSUME NEW u PROVE \A q \in OwnCodes(u) : Rank(q) = 1
    BY Ranks DEF OwnCodes
  <1>4. CASE \E c \in Codes : Activate(t, c) \/ Resolve(t, c)
    BY <1>1, <1>2, <1>4, Ranks DEF Activate, Resolve
  <1>5. CASE \E p \in Plays : HoldPlay(t, p) \/ FreePlay(t, p)
    BY <1>1, <1>2, <1>5, Ranks DEF HoldPlay, FreePlay
  <1>6. CASE \E c \in Codes, j \in Tokens : Redeem(t, c, j)
    BY <1>1, <1>2, <1>6, Ranks DEF Redeem
  <1>7. CASE \E u \in Users : Delete(t, u)
    BY <1>1, <1>2, <1>3, <1>7 DEF Delete, DeleteLocks
  <1> QED
    BY <1>4, <1>5, <1>6, <1>7 DEF Starts

\* The lowest row of one kind is taken first.
LEMMA LocksInOrder ==
    ASSUME Inv, NEW t \in Txs, InOrder(t), Lock(t)
    PROVE  InOrder(t)'
  <1> USE IdsAreNumbers DEF Rows
  <1>1. tx[t].todo \in SUBSET Rows /\ tx[t].todo # {} /\ tx[t] \in TxTyped
    BY DEF Lock, Inv, TypeOK, TxTyped
  <1>2. PICK m \in tx[t].todo : /\ m = Min(tx[t].todo) /\ \A q \in tx[t].todo : m <= q
    BY <1>1, MinIsThere
  <1>3. /\ tx'[t].at = tx[t].at /\ tx'[t].op = tx[t].op /\ tx'[t].todo = tx[t].todo \ {m}
        /\ lock' = lock \/ lock' = [lock EXCEPT ![m] = t]
    BY <1>1, <1>2 DEF Lock, Inv, TypeOK, TxTyped
  <1>4. \A r \in Rows : lock'[r] = t => lock[r] = t \/ r = m
    BY <1>3 DEF Inv, TypeOK
  <1>5. Rank(m) <= Level(tx[t].at)
    BY <1>1, <1>2, Ranks DEF InOrder, Level
  <1>6. \A q \in tx'[t].todo : q \in tx[t].todo /\ q \in Nat /\ m < q
    BY <1>1, <1>2, <1>3
  <1> QED
    BY <1>3, <1>4, <1>5, <1>6 DEF InOrder

\* The next statement asks for rows of a later kind than the last one.
LEMMA GoesUp ==
    ASSUME Inv, NEW t \in Txs, InOrder(t), tx[t].at # "commit",
           NEW at \in Places \ {"commit"}, NEW rows \in SUBSET Codes,
           NEW todo \in SUBSET Rows, Statement(t, at, rows, todo),
           Level(tx[t].at) < Level(at), \A q \in todo : Rank(q) = Level(at)
    PROVE  InOrder(t)'
  <1>1. lock' = lock /\ tx'[t].at = at /\ tx'[t].todo = todo
    BY Moves
  <1> QED
    BY <1>1, Ranks DEF InOrder

LEMMA ReadsInOrder ==
    ASSUME Inv, NEW t \in Txs, InOrder(t), Reads(t)
    PROVE  InOrder(t)'
  <1>1. ASSUME End(t) PROVE InOrder(t)'
    BY <1>1, ClosesInOrder DEF End
  <1>2. /\ Level("own") = 1 /\ Level("code") = 1 /\ Level("release") = 1
        /\ Level("offers") = 1 /\ Level("play") = 0 /\ Level("token") = 0
        /\ \A at \in {"hold", "issue", "approve", "reject", "update", "pay", "wipe"} :
             Level(at) = 2
        /\ \A at \in {"hold", "issue", "approve", "reject", "update", "pay", "wipe",
                      "code", "offers"} : at \in Places \ {"commit"}
    BY DEF Level, Places
  <1>3. \A c \in Codes : OfferOf[c] \in Offers
    BY CatalogTyped
  <1>4. ASSUME NEW C \in SUBSET Codes
        PROVE  /\ OffersOf(C) \in SUBSET Rows /\ \A q \in OffersOf(C) : Rank(q) = 2
               /\ \A c \in C : OfferToClaim(c) \in SUBSET OffersOf(C)
    BY <1>3, Ranks DEF OffersOf, OfferToClaim, Rows
  <1>5. ASSUME NEW c \in Codes, NEW todo \in SUBSET {OfferOf[c]},
               NEW at \in {"hold", "issue", "approve", "reject", "pay"},
               tx[t].at \in {"own", "code"}, Statement(t, at, {}, todo)
        PROVE  InOrder(t)'
    <2>1. todo \in SUBSET Rows /\ \A q \in todo : Rank(q) = 2
      BY <1>3, Ranks DEF Rows
    <2> QED
      BY <1>2, <1>5, <2>1, GoesUp
  <1>6. CASE ActivateDecides(t)
    <2>1. tx[t].obj \in Codes /\ tx[t].at = "own"
      BY <1>6 DEF ActivateDecides, At, Inv, TxInv, ObjectInv
    <2> QED
      BY <1>1, <1>5, <1>6, <2>1 DEF ActivateDecides, OfferToClaim
  <1>7. CASE ResolveDecides(t)
    <2>1. tx[t].obj \in Codes /\ tx[t].at = "code"
      BY <1>7 DEF ResolveDecides, At, Inv, TxInv, ObjectInv
    <2> QED
      BY <1>1, <1>5, <1>7, <2>1 DEF ResolveDecides, OfferToClaim
  <1>8. CASE HoldLocksCodes(t)
    <2>1. \A p : CodesOf(p) \in SUBSET Rows /\ \A q \in CodesOf(p) : Rank(q) = 1
      BY Ranks DEF CodesOf, Rows
    <2> QED
      BY <1>1, <1>2, <1>8, <2>1, GoesUp DEF HoldLocksCodes, At
  <1>9. CASE HoldLocksOffers(t)
    <2>1. CodesOf(tx[t].obj) \in SUBSET Codes
      BY CodesOfTyped
    <2> QED
      BY <1>2, <1>4, <1>9, <2>1, GoesUp DEF HoldLocksOffers, At
  <1>10. CASE HoldUpdates(t)
    <2>1. PICK rows \in SUBSET Codes, todo \in SUBSET Rows :
              Statement(t, "commit", rows, todo)
      <3> DEFINE C == CodesOf(tx[t].obj)
      <3>1. C \in SUBSET Codes /\ {c \in C : code[c].res = 0} \in SUBSET Codes
        BY CodesOfTyped
      <3>2. (C \union OffersOf({c \in C : code[c].res = 0})) \ Mine(t) \in SUBSET Rows
        BY <3>1, CodesOfTyped, OffersTyped
      <3> QED
        BY <1>10, <3>1, <3>2 DEF HoldUpdates
    <2>2. "commit" \in Places /\ Level("commit") = 2
      BY DEF Places, Level
    <2>3. tx'[t].at = "commit" /\ tx'[t].op = "hold" /\ lock' = lock
      BY <1>10, <2>1, <2>2, Moves DEF HoldUpdates, At
    <2> QED
      BY <2>2, <2>3, Ranks DEF InOrder
  <1>11. CASE RedeemChecksToken(t)
    <2>1. tx[t].obj \in Codes /\ {tx[t].obj} \in SUBSET Rows
      BY <1>11 DEF RedeemChecksToken, At, Inv, TxInv, ObjectInv, Rows
    <2> QED
      BY <1>1, <1>2, <1>11, <2>1, Ranks, GoesUp DEF RedeemChecksToken, At
  <1>12. CASE RedeemChecksCode(t)
    <2>1. tx[t].obj \in Codes /\ tx[t].at = "code"
      BY <1>12 DEF RedeemChecksCode, At, Inv, TxInv, ObjectInv
    <2> QED
      BY <1>1, <1>5, <1>12, <2>1 DEF RedeemChecksCode
  <1>13. CASE DeleteReleases(t)
    <2>1. Reserving(tx[t].obj) \in SUBSET Codes
      BY DEF Reserving, OwnCodes
    <2> QED
      BY <1>2, <1>4, <1>13, <2>1, GoesUp DEF DeleteReleases, At
  <1>14. CASE DeleteWipes(t)
    <2> DEFINE u == tx[t].obj
               todo == (OwnCodes(u) \union {p \in Plays : UserOf[p] = u /\ play[p] # "gone"})
                         \ Mine(t)
    <2>1. \A c \in OwnCodes(u) : c \in Rows /\ lock[c] = t
      BY <1>14 DEF DeleteWipes, At, Inv, TxInv, DeleteInv, InPlace, OwnCodes, Rows
    <2>2. todo \in SUBSET Plays /\ todo \in SUBSET Rows
      BY <2>1 DEF Mine, Rows
    <2>3. tx[t].rows \in SUBSET Codes /\ "commit" \in Places /\ Level("commit") = 2
      BY DEF Inv, TypeOK, TxTyped, Places, Level
    <2>4. Statement(t, "commit", tx[t].rows, todo)
      BY <1>14 DEF DeleteWipes
    <2>5. tx'[t].at = "commit" /\ tx'[t].todo = todo /\ lock' = lock
      BY <2>2, <2>3, <2>4, Moves
    <2> QED
      BY <2>2, <2>3, <2>5, Ranks DEF InOrder
  <1> QED
    BY <1>6, <1>7, <1>8, <1>9, <1>10, <1>11, <1>12, <1>13, <1>14 DEF Reads

LEMMA OrderKept ==
    ASSUME Inv, OrderInv, NEW t \in Txs, Starts(t) \/ Lock(t) \/ Steps(t) \/ Abort(t)
    PROVE  OrderInv'
  <1> DEFINE Others == \A s \in Txs : s # t =>
                 tx'[s] = tx[s] /\ \A r \in Rows : lock'[r] = s <=> lock[r] = s
  <1>1. CASE Starts(t)
    BY <1>1, Opens, OpensInOrder DEF OrderInv, StepOf, InOrder
  <1>2. CASE Lock(t)
    BY <1>2, Locks, LocksInOrder DEF OrderInv, StepOf, InOrder
  <1>3. CASE Reads(t)
    BY <1>3, ReadsKeep, ReadsInOrder DEF OrderInv, StepOf, InOrder
  <1>4. CASE Close(t)
    BY <1>4, ClosesInOrder DEF OrderInv, InOrder
  <1> QED
    BY <1>1, <1>2, <1>3, <1>4
       DEF Steps, Reads, Abort, End, ActivateHolds, ActivateIssues, ResolveApproves,
           ResolveRejects, HoldCommits, FreeCommits, RedeemPays, DeleteCommits

THEOREM OrderHolds == Spec => []OrderInv
  <1>1. Init => OrderInv
    BY IdleFields, NoTxIsNone DEF Init, OrderInv, InOrder
  <1>2. Inv /\ OrderInv /\ [Next]_vars => OrderInv'
    <2> SUFFICES ASSUME Inv, OrderInv, [Next]_vars PROVE OrderInv'
      OBVIOUS
    <2>1. CASE Next
      BY <2>1, OrderKept DEF Next
    <2>2. CASE UNCHANGED vars
      BY <2>2 DEF vars, OrderInv, InOrder
    <2> QED
      BY <2>1, <2>2
  <1> QED
    BY <1>1, <1>2, InvHolds, PTL DEF Spec

\* Of the rows that the sessions of a ring wait for, one has the lowest kind,
\* and of its kind the lowest id.
LEMMA FirstOfThem ==
    ASSUME NEW W \in SUBSET Rows, W # {}
    PROVE  \E m \in W : \A r \in W : \/ Rank(m) < Rank(r)
                                     \/ Rank(m) = Rank(r) /\ m <= r
  <1> DEFINE K == {Rank(r) : r \in W}
  <1>1. K \in SUBSET Nat /\ K # {}
    BY Ranks
  <1>2. PICK k \in K : \A j \in K : k <= j
    BY <1>1, MinIsThere
  <1> DEFINE V == {r \in W : Rank(r) = k}
  <1>3. V \in SUBSET Nat /\ V # {}
    BY <1>2, IdsAreNumbers
  <1>4. PICK m \in V : \A r \in V : m <= r
    BY <1>3, MinIsThere
  <1> QED
    BY <1>2, <1>4, Ranks

\* Sessions wait for each other in a ring only through a play that a deletion
\* deletes, or through the last UPDATE of a cascade (0027:650-652, N5).
THEOREM LocksHaveOneOrder == Spec => []OneLockOrder
  <1>1. Inv /\ OrderInv => OneLockOrder
    <2> SUFFICES ASSUME Inv, OrderInv, NEW D \in SUBSET Txs, Ring(D),
                        \A t \in D : /\ Min(tx[t].todo) \notin Plays
                                     /\ ~(tx[t].op = "hold" /\ tx[t].at = "commit")
                 PROVE  FALSE
      BY DEF OneLockOrder
    <2> DEFINE W == {Min(tx[t].todo) : t \in D}
    <2>1. \A t \in D : Min(tx[t].todo) \in tx[t].todo /\ Min(tx[t].todo) \in Rows
      <3> TAKE t \in D
      <3>1. tx[t].todo \in SUBSET Rows /\ tx[t].todo # {} /\ Rows \subseteq Nat
        BY IdsAreNumbers DEF Ring, Waits, Inv, TypeOK, TxTyped
      <3> QED
        BY <3>1, MinIsThere
    <2>2. PICK m \in W : \A r \in W : \/ Rank(m) < Rank(r)
                                      \/ Rank(m) = Rank(r) /\ m <= r
      <3>1. W \in SUBSET Rows /\ W # {}
        BY <2>1 DEF Ring
      <3> QED
        BY <3>1, FirstOfThem
    <2>3. PICK t \in D : m = Min(tx[t].todo)
      BY <2>2
    <2>4. PICK s \in D : lock[Min(tx[s].todo)] = t
      BY <2>3 DEF Ring, WaitsOn
    <2>5. PICK r \in W : r \in Rows /\ lock[r] = t
      BY <2>1, <2>4
    <2>6. tx[t].at # "commit" /\ Rank(m) = Level(tx[t].at)
      BY <2>1, <2>3 DEF OrderInv, InOrder
    <2>7. /\ Rank(r) <= Rank(m)
          /\ Rank(r) = Rank(m) => r < m
      BY <2>1, <2>3, <2>5, <2>6 DEF OrderInv, InOrder
    <2>8. m \in Nat /\ r \in Nat
      BY <2>1, <2>3, <2>5, IdsAreNumbers
    <2> QED
      BY <2>2, <2>5, <2>7, <2>8, Ranks
  <1> QED
    BY <1>1, InvHolds, OrderHolds, PTL
=============================================================================
