---------------------------- MODULE OfferBudget ----------------------------
(***************************************************************************)
(* The budget of a partner's offers, and the codes that claim it           *)
(* (migrations 0017, 0027, 0032, 0057, 0060, 0061).                        *)
(*                                                                         *)
(* An offer may pay out `budget_cap`.  A code claims the offer's face      *)
(* value when it is issued or held for review: the claim is written twice, *)
(* as the code's `reserved_amount` and inside the offer's                  *)
(* `budget_reserved`, and becomes `budget_used` when the code is redeemed. *)
(* Five kinds of transaction move these rows: a player's activation, an    *)
(* admin's review, a re-score that holds (or frees) the play behind a      *)
(* code, a hand-over of the code at the till, and the deletion of an       *)
(* account.  They run under READ COMMITTED and are kept apart by row locks *)
(* alone, so a transaction is modelled as what Postgres makes of it: rows  *)
(* locked one at a time, in the order the code asks for them, each kept    *)
(* until the end; unlocked reads of committed rows in between; and all of  *)
(* its writes visible at once when it commits.                             *)
(*                                                                         *)
(* A lock is asked for by its row id, and `ORDER BY id` is the order of    *)
(* the ids: codes, offers, plays and the advisory lock of a check-in token *)
(* are all named by numbers.                                               *)
(***************************************************************************)
EXTENDS Integers, FiniteSets, FiniteSetsExt

CONSTANTS Codes,   \* ids of app.offer_code rows
          Offers,  \* ids of app.offer rows
          Plays,   \* ids of app.play rows
          Tokens,  \* ids (jti) of the players' check-in tokens
          Users,   \* accounts
          Txs,     \* database sessions
          NoTx,    \* the holder of a free lock
          OfferOf, \* the offer of a code
          PlayOf,  \* the play that backs a code
          UserOf,  \* the account a code, a play or a token belongs to
          Face,    \* face_value of an offer
          Cap      \* budget_cap of an offer

Rows == Codes \union Offers \union Plays \union Tokens

ASSUME IdsAreNumbers == Rows \subseteq Nat
ASSUME IdsAreDistinct ==
    /\ Codes \intersect (Offers \union Plays \union Tokens) = {}
    /\ Offers \intersect (Plays \union Tokens) = {}
    /\ Plays \intersect Tokens = {}
ASSUME CodesAreFinite == IsFiniteSet(Codes)
ASSUME NoTxIsNone == NoTx \notin Txs
ASSUME CatalogTyped ==
    /\ OfferOf \in [Codes -> Offers]
    /\ PlayOf \in [Codes -> Plays]
    /\ UserOf \in [Codes \union Plays \union Tokens -> Users]
    /\ Face \in [Offers -> Nat \ {0}]
    /\ Cap \in [Offers -> Nat]

VARIABLES code,      \* per code: state, reserved_amount, the amount it was paid,
                     \* and whether a device ever ran the decision table on it
          offer,     \* per offer: budget_used and budget_reserved
          play,      \* per play: "free", "held" or "gone"
          consumed,  \* tokens in private.consumed_nonce
          lock,      \* the transaction that holds each row's lock
          tx         \* per session: its operation, its place in it, its object,
                     \* the rows of its current statement and those still to lock

vars == <<code, offer, play, consumed, lock, tx>>

CodeStates == {"earned", "held", "issued", "redeemed", "void", "gone"}

Ops == {"idle", "activate", "resolve", "hold", "free", "redeem", "delete"}

Idle == [op |-> "idle", at |-> "", obj |-> 0, arg |-> 0, rows |-> {}, todo |-> {}]

Init ==
    /\ code = [c \in Codes |-> [st |-> "earned", res |-> 0, paid |-> 0, dev |-> FALSE]]
    /\ offer = [o \in Offers |-> [used |-> 0, reserved |-> 0]]
    /\ play = [p \in Plays |-> "free"]
    /\ consumed = {}
    /\ lock = [r \in Rows |-> NoTx]
    /\ tx = [t \in Txs |-> Idle]

---------------------------------------------------------------------------
(* Transactions. *)

Mine(t) == {r \in Rows : lock[r] = t}

Released(t) == [r \in Rows |-> IF lock[r] = t THEN NoTx ELSE lock[r]]

\* A session opens a transaction whose first statement locks `todo`.
Begin(t, op, at, obj, arg, todo) ==
    /\ tx[t] = Idle
    /\ tx' = [tx EXCEPT ![t] = [op |-> op, at |-> at, obj |-> obj, arg |-> arg,
                                rows |-> {}, todo |-> todo]]
    /\ UNCHANGED <<code, offer, play, consumed, lock>>

\* Its next statement: the place after it, and the rows it locks.
Statement(t, at, rows, todo) ==
    /\ tx' = [tx EXCEPT ![t].at = at, ![t].rows = rows, ![t].todo = todo]
    /\ UNCHANGED <<code, offer, play, consumed, lock>>

At(t, op, at) == tx[t].op = op /\ tx[t].at = at /\ tx[t].todo = {}

Close(t) ==
    /\ lock' = Released(t)
    /\ tx' = [tx EXCEPT ![t] = Idle]

\* It ends with nothing written: a status that changes nothing, or a rollback.
End(t) == Close(t) /\ UNCHANGED <<code, offer, play, consumed>>

Held(p) == play[p] = "held"

\* app.hold_play_rewards touches a code in none of these states.
Holdable(c) == code[c].st \notin {"held", "redeemed", "void", "gone"}

\* Mutant: the locks of a statement are taken in the order of the scan.
LockUnordered(t) ==
    /\ \E r \in tx[t].todo :
         /\ lock[r] \in {NoTx, t}
         /\ lock' = IF tx[t].op = "hold" /\ r \in Codes /\ ~Holdable(r)
                      THEN lock ELSE [lock EXCEPT ![r] = t]
         /\ tx' = [tx EXCEPT ![t].todo = @ \ {r}]
    /\ UNCHANGED <<code, offer, play, consumed>>

\* One row of the statement is locked, the lowest id first.  A row whose
\* predicate fails once the wait is over is skipped, not locked.
Lock(t) ==
    /\ tx[t].todo # {}
    /\ LET r == Min(tx[t].todo)
           skip == tx[t].op = "hold" /\ r \in Codes /\ ~Holdable(r)
       IN  /\ lock[r] \in {NoTx, t}
           /\ lock' = IF skip THEN lock ELSE [lock EXCEPT ![r] = t]
           /\ tx' = [tx EXCEPT ![t].todo = @ \ {r}]
    /\ UNCHANGED <<code, offer, play, consumed>>

\* A lock_timeout, a statement_timeout, a deadlock or a lost connection.
Abort(t) == tx[t] # Idle /\ End(t)

\* Mutant: nothing looks at the play when the transaction commits.
GuardedNever(c, st) == c \in Codes

\* private.offer_code_play_guard, deferred to the commit: a code leaves or
\* keeps a payable state only while its play is not held.
Guarded(c, st) ==
    Held(PlayOf[c]) => st \in {"held", "void"}

---------------------------------------------------------------------------
(* The budget. *)

\* app.reserve_offer_for_code, under the offer's lock.
Covers(o) == offer[o].used + offer[o].reserved + Face[o] <= Cap[o]

NonNegative(n) == IF n < 0 THEN 0 ELSE n

\* The code and its offer after a state change that leaves `res` reserved.
Claim(c, st, res, dev) ==
    /\ code' = [code EXCEPT ![c].st = st, ![c].res = res, ![c].dev = dev]
    /\ offer' = [offer EXCEPT ![OfferOf[c]].reserved = NonNegative(@ + res - code[c].res)]

\* What a code that holds nothing can claim, given the lock on its offer.
Reservable(c) ==
    IF code[c].res # 0 THEN code[c].res
    ELSE IF Covers(OfferOf[c]) THEN Face[OfferOf[c]] ELSE 0

\* The offer's lock is asked for only to take a claim that is not there yet.
OfferToClaim(c) == IF code[c].res = 0 THEN {OfferOf[c]} ELSE {}

---------------------------------------------------------------------------
(* rewards-activate: the player opens the code on a device. *)

Activate(t, c) == Begin(t, "activate", "own", c, 0, {c})

\* lockOwnReward has the row.  A held code stays as it is and a finished one
\* is refused; otherwise the decision table holds or activates, on facts
\* about devices and signals that are free here.  It never activates over a
\* held play, and app.activate_offer_code asks that again.
ActivateDecides(t) ==
    /\ At(t, "activate", "own")
    /\ LET c == tx[t].obj IN
       \/ End(t)
       \/ /\ code[c].st \in {"earned", "issued"}
          /\ Statement(t, "hold", {}, OfferToClaim(c))
       \/ /\ code[c].st \in {"earned", "issued"}
          /\ ~Held(PlayOf[c])
          /\ Statement(t, "issue", {}, OfferToClaim(c))

\* The device's decision is a hold: the trigger reserves what it can.
ActivateHolds(t) ==
    /\ At(t, "activate", "hold")
    /\ Claim(tx[t].obj, "held", Reservable(tx[t].obj), TRUE)
    /\ Close(t) /\ UNCHANGED <<play, consumed>>

\* Mutant: a code the cap cannot cover is issued all the same.
IssueStateAlways(c) == "issued"

\* An issued code is payable: one the cap cannot cover is held instead.
IssueState(c) == IF Reservable(c) = 0 THEN "held" ELSE "issued"

ActivateIssues(t) ==
    /\ At(t, "activate", "issue")
    /\ LET c == tx[t].obj IN
       /\ Guarded(c, IssueState(c))
       /\ Claim(c, IssueState(c), Reservable(c), TRUE)
    /\ Close(t) /\ UNCHANGED <<play, consumed>>

---------------------------------------------------------------------------
(* The review of a held code by an admin. *)

Resolve(t, c) == Begin(t, "resolve", "code", c, 0, {c})

ResolveDecides(t) ==
    /\ At(t, "resolve", "code")
    /\ LET c == tx[t].obj IN
       \/ /\ code[c].st # "held" /\ End(t)
       \/ /\ code[c].st = "held"
          /\ Statement(t, "approve", {}, OfferToClaim(c))
       \/ /\ code[c].st = "held"
          /\ Statement(t, "reject", {}, IF code[c].res > 0 THEN {OfferOf[c]} ELSE {})

\* Approved: issued if a device ever ran the table on it, else earned again.
\* Without a reservation, and with a cap that still cannot cover one, the
\* approval is refused (which is an abort).
ApprovedState(c) == IF code[c].dev THEN "issued" ELSE "earned"

ResolveApproves(t) ==
    /\ At(t, "resolve", "approve")
    /\ LET c == tx[t].obj IN
       /\ Reservable(c) # 0
       /\ Guarded(c, ApprovedState(c))
       /\ Claim(c, ApprovedState(c), Reservable(c), code[c].dev)
    /\ Close(t) /\ UNCHANGED <<play, consumed>>

ResolveRejects(t) ==
    /\ At(t, "resolve", "reject")
    /\ Claim(tx[t].obj, "void", 0, code[tx[t].obj].dev)
    /\ Close(t) /\ UNCHANGED <<play, consumed>>

---------------------------------------------------------------------------
(* A re-score writes held_review of a play; the cascade follows it. *)

HoldPlay(t, p) == Begin(t, "hold", "play", p, 0, {p})

CodesOf(p) == {c \in Codes : PlayOf[c] = p /\ Holdable(c)}

OffersOf(C) == {OfferOf[c] : c \in C}

\* The cascade fires on the change only.  Its first statement locks the codes
\* that are holdable when it starts,
HoldLocksCodes(t) ==
    /\ At(t, "hold", "play")
    /\ \/ play[tx[t].obj] # "free" /\ End(t)
       \/ /\ play[tx[t].obj] = "free"
          /\ Statement(t, "offers", {}, CodesOf(tx[t].obj))

\* its second their offers,
HoldLocksOffers(t) ==
    /\ At(t, "hold", "offers")
    /\ Statement(t, "update", {}, OffersOf(CodesOf(tx[t].obj)))

\* and the UPDATE takes the rows that are holdable when it starts: those the
\* transaction has, and any other with the offer its trigger reserves from.
HoldUpdates(t) ==
    /\ At(t, "hold", "update")
    /\ LET C == CodesOf(tx[t].obj) IN
       Statement(t, "commit", C,
                 (C \union OffersOf({c \in C : code[c].res = 0})) \ Mine(t))

\* The claims of the rows that are held: codes of one offer share what is left.
Claims(C) ==
    {f \in [C -> {0} \union {Face[o] : o \in OffersOf(C)}] :
        /\ \A c \in C : f[c] \in {code[c].res, Face[OfferOf[c]]}
        /\ \A c \in C : code[c].res # 0 => f[c] = code[c].res
        /\ \A o \in OffersOf(C) :
             LET new == {c \in C : OfferOf[c] = o /\ code[c].res = 0}
                 got == {c \in new : f[c] # 0}
                 room == Cap[o] - offer[o].used - offer[o].reserved
             IN  /\ Cardinality(got) * Face[o] <= room
                 /\ got # new => (Cardinality(got) + 1) * Face[o] > room}

\* The rows C are held, and their offers reserve what they claim.
HoldRows(C, f) ==
    /\ code' = [c \in Codes |-> IF c \in C
                  THEN [code[c] EXCEPT !.st = "held", !.res = f[c]] ELSE code[c]]
    /\ offer' = [o \in Offers |-> [offer[o] EXCEPT !.reserved =
                   @ + Face[o] * Cardinality({c \in C : /\ OfferOf[c] = o
                                                        /\ code[c].res # f[c]})]]

\* The rows it updates are those whose lock it got; it passes over the others.
HoldCommits(t) ==
    /\ At(t, "hold", "commit")
    /\ LET C == tx[t].rows \intersect Mine(t) IN \E f \in Claims(C) : HoldRows(C, f)
    /\ play' = [play EXCEPT ![tx[t].obj] = "held"]
    /\ Close(t) /\ UNCHANGED consumed

\* The next score of the play may clear the flag; nothing follows from it.
FreePlay(t, p) == Begin(t, "free", "play", p, 0, {p})

FreeCommits(t) ==
    /\ At(t, "free", "play")
    /\ play' = [play EXCEPT ![tx[t].obj] = IF @ = "held" THEN "free" ELSE @]
    /\ Close(t) /\ UNCHANGED <<code, offer, consumed>>

---------------------------------------------------------------------------
(* offers-redeem: the till. *)

\* The code is read without a lock, then the token's advisory lock is taken.
Redeem(t, c, j) ==
    /\ code[c].st = "issued"
    /\ UserOf[j] = UserOf[c]
    /\ Begin(t, "redeem", "token", c, j, {j})

RedeemChecksToken(t) ==
    /\ At(t, "redeem", "token")
    /\ IF tx[t].arg \in consumed THEN End(t)
       ELSE Statement(t, "code", {}, {tx[t].obj})

RedeemChecksCode(t) ==
    /\ At(t, "redeem", "code")
    /\ IF code[tx[t].obj].st # "issued" THEN End(t)
       ELSE Statement(t, "pay", {}, {OfferOf[tx[t].obj]})

\* Mutant: the nonce that is spent is named after the code.
PaySpendingCode(t, c) ==
    /\ Guarded(c, "redeemed")
    /\ code' = [code EXCEPT ![c].st = "redeemed", ![c].paid = code[c].res]
    /\ offer' = [offer EXCEPT ![OfferOf[c]].reserved = NonNegative(@ - code[c].res),
                              ![OfferOf[c]].used = @ + code[c].res]
    /\ consumed' = consumed \union {c}

\* consume_offer_budget, the attestation, the nonce and the code.  Where the
\* attestation is refused the consumption is undone and nothing changes.
Pay(t, c) ==
    /\ Guarded(c, "redeemed")
    /\ code' = [code EXCEPT ![c].st = "redeemed", ![c].paid = code[c].res]
    /\ offer' = [offer EXCEPT ![OfferOf[c]].reserved = NonNegative(@ - code[c].res),
                              ![OfferOf[c]].used = @ + code[c].res]
    /\ consumed' = consumed \union {tx[t].arg}

RedeemPays(t) ==
    /\ At(t, "redeem", "pay")
    /\ \/ End(t)
       \/ Pay(t, tx[t].obj) /\ Close(t) /\ UNCHANGED play

---------------------------------------------------------------------------
(* The deletion of an account. *)

Outstanding == {"earned", "held", "issued"}

OwnCodes(u) == {c \in Codes : UserOf[c] = u /\ code[c].st # "gone"}

\* Mutant: phase 1 locks only the codes that reserve something now.
DeleteLocksReserving(u) == {c \in OwnCodes(u) : code[c].res > 0}

\* release_account_reservations, phase 1: every code of the account.
DeleteLocks(u) == OwnCodes(u)

Delete(t, u) ==
    /\ \E c \in Codes : UserOf[c] = u /\ code[c].st # "gone"
    /\ Begin(t, "delete", "release", u, 0, DeleteLocks(u))

Reserving(u) == {c \in OwnCodes(u) : code[c].res > 0 /\ code[c].st \in Outstanding}

\* Phase 2 reads the rows again and releases from each one's offer.
DeleteReleases(t) ==
    /\ At(t, "delete", "release")
    /\ LET C == Reserving(tx[t].obj) IN Statement(t, "wipe", C, OffersOf(C))

\* delete_my_data deletes the plays and the codes, whose release trigger does
\* nothing for a role that may not update app.offer.
DeleteWipes(t) ==
    /\ At(t, "delete", "wipe")
    /\ LET u == tx[t].obj IN
       Statement(t, "commit", tx[t].rows,
                 (OwnCodes(u) \union
                    {p \in Plays : UserOf[p] = u /\ play[p] # "gone"}) \ Mine(t))

DeleteCommits(t) ==
    /\ At(t, "delete", "commit")
    /\ LET u == tx[t].obj
           back(o) == Face[o] * Cardinality({c \in tx[t].rows : OfferOf[c] = o})
       IN  /\ code' = [c \in Codes |-> IF UserOf[c] = u
                         THEN [code[c] EXCEPT !.st = "gone", !.res = 0] ELSE code[c]]
           /\ offer' = [o \in Offers |-> [offer[o] EXCEPT
                          !.reserved = NonNegative(offer[o].reserved - back(o))]]
           /\ play' = [p \in Plays |-> IF UserOf[p] = u THEN "gone" ELSE play[p]]
    /\ Close(t) /\ UNCHANGED consumed

---------------------------------------------------------------------------
Starts(t) ==
    \/ \E c \in Codes : Activate(t, c) \/ Resolve(t, c)
    \/ \E p \in Plays : HoldPlay(t, p) \/ FreePlay(t, p)
    \/ \E c \in Codes, j \in Tokens : Redeem(t, c, j)
    \/ \E u \in Users : Delete(t, u)

Steps(t) ==
    \/ ActivateDecides(t) \/ ActivateHolds(t) \/ ActivateIssues(t)
    \/ ResolveDecides(t) \/ ResolveApproves(t) \/ ResolveRejects(t)
    \/ HoldLocksCodes(t) \/ HoldLocksOffers(t) \/ HoldUpdates(t) \/ HoldCommits(t)
    \/ FreeCommits(t)
    \/ RedeemChecksToken(t) \/ RedeemChecksCode(t) \/ RedeemPays(t)
    \/ DeleteReleases(t) \/ DeleteWipes(t) \/ DeleteCommits(t)

Next == \E t \in Txs : Starts(t) \/ Lock(t) \/ Steps(t) \/ Abort(t)

Spec == Init /\ [][Next]_vars

---------------------------------------------------------------------------
(* Properties. *)

\* The places of a transaction, one before each of its statements.
Places == {"", "own", "hold", "issue", "code", "approve", "reject", "play", "offers",
           "update", "commit", "token", "pay", "release", "wipe"}

TxTyped ==
    [op : Ops, at : Places, obj : Nat \union Users, arg : Nat,
     rows : SUBSET Codes, todo : SUBSET Rows]

TypeOK ==
    /\ code \in [Codes -> [st : CodeStates, res : Nat, paid : Nat, dev : BOOLEAN]]
    /\ offer \in [Offers -> [used : Nat, reserved : Nat]]
    /\ play \in [Plays -> {"free", "held", "gone"}]
    /\ consumed \in SUBSET Tokens
    /\ lock \in [Rows -> Txs \union {NoTx}]
    /\ tx \in [Txs -> TxTyped]

\* The codes that claim budget of an offer, and those it has paid.
Claiming(o) == {c \in Codes : /\ OfferOf[c] = o
                              /\ code[c].st \in Outstanding /\ code[c].res # 0}
PaidBy(o) == {c \in Codes : OfferOf[c] = o /\ code[c].paid # 0}

(* The two records of a claim agree, whatever transactions met on the rows: *)
(* a code reserves its offer's face value or nothing, an offer reserves     *)
(* exactly what its outstanding codes do, has used exactly what its codes   *)
(* were paid, and owes no more than its cap (0027:18-21, 0017               *)
(* offer_budget_within_cap).                                                *)
BudgetBalances ==
    /\ \A c \in Codes : {code[c].res, code[c].paid} \subseteq {0, Face[OfferOf[c]]}
    /\ \A o \in Offers :
         /\ offer[o].reserved = Face[o] * Cardinality(Claiming(o))
         /\ offer[o].used = Face[o] * Cardinality(PaidBy(o))
         /\ offer[o].used + offer[o].reserved <= Cap[o]

(* An issued code is payable: it holds its offer's face value, so a till     *)
(* never meets a code that the budget cannot cover (0027:51-56, N1).         *)
IssuedIsPayable ==
    \A c \in Codes : code[c].st = "issued" => code[c].res = Face[OfferOf[c]]

Waits(t) == tx[t].todo # {} /\ lock[Min(tx[t].todo)] \notin {NoTx, t}

WaitsOn(t) == lock[Min(tx[t].todo)]

\* Sessions that wait for each other in a ring.
Ring(D) ==
    /\ D # {}
    /\ \A t \in D : Waits(t)
    /\ {WaitsOn(t) : t \in D} = D

(* Every writer of codes and offers takes their locks in one global order,   *)
(* codes and then offers, each by id (0027:650-652, N5), so sessions do not  *)
(* wait for each other in a ring.  Two rings are left.  One passes through a *)
(* play: a re-score that holds a play waits for a code, and the deletion     *)
(* that has the code waits for the play.  The other passes through a code    *)
(* that was held, and so skipped, when the cascade took its locks, and that  *)
(* an approval made holdable again before the cascade's UPDATE.              *)
OneLockOrder ==
    \A D \in SUBSET Txs :
      Ring(D) => \E t \in D : \/ Min(tx[t].todo) \in Plays
                              \/ tx[t].op = "hold" /\ tx[t].at = "commit"

(* A code is never paid while its play is held for review, not even one that *)
(* an approval left issued behind a cascade that had already passed it       *)
(* (0017 offer_code_play_guard, deferred to the commit).                     *)
HeldPlayPaysNothing ==
    [][\A c \in Codes : code[c].st # "redeemed" /\ code'[c].st = "redeemed"
         => ~Held(PlayOf[c])]_vars

(* When a play is put on hold every code it backs is held with it, so that   *)
(* the guard, which looks when the code changes, can never be stale          *)
(* (0017:464-468).                                                           *)
HeldPlayHoldsItsCodes ==
    \A c \in Codes : Held(PlayOf[c]) => code[c].st \notin {"earned", "issued"}
============================================================================
