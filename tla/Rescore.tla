------------------------------ MODULE Rescore ------------------------------
(***************************************************************************)
(* Re-scoring after a catalog import.  The import only queues one backlog  *)
(* row per promoted or split course; passes (drainRescoreBacklog in        *)
(* catalog/rescore-orchestrator.ts) work the rows page by page, along the  *)
(* keyset (created_at, id) of the course's plays, while live intake goes   *)
(* on inserting plays in transactions that may commit long after they      *)
(* began.  Every database call of a pass is a transaction of its own, and  *)
(* the pass works on the copy of the row it listed.                        *)
(*                                                                         *)
(* A play is `stale` when it was scored from the catalog of before the     *)
(* import.  A play's created_at is the clock when its transaction began.   *)
(***************************************************************************)
EXTENDS Naturals, FiniteSets

CONSTANTS
    Plays,          \* ids of plays; their order is the order of the uuids
    Courses,        \* numbered in the order their backlog rows are inserted
    CourseOf,
    Passes,         \* passes that may run at a time: one per import under way
    TxMax,          \* transaction_timeout
    Delay, Overlap, \* RESCORE_SWEEP_DELAY_SECONDS, RESCORE_SWEEP_OVERLAP_SECONDS
    PageMax,        \* MAX_RESCORE_PAGE
    Budget,         \* DEFAULT_RESCORE_MAX_PLAYS
    MaxClock,       \* bound: no play begins at or after it
    MaxFaults       \* bound on crashes, failed plays and expired deadlines

ASSUME PlaysAssumption == /\ Plays \subseteq Nat \ {0} /\ IsFiniteSet(Plays)
                          /\ Courses \subseteq Nat \ {0}
                          /\ CourseOf \in [Plays -> Courses]
ASSUME SweepAssumption == /\ {TxMax, Delay, Overlap, MaxClock, MaxFaults} \subseteq Nat
                          /\ TxMax < Delay /\ TxMax < Overlap
ASSUME PageAssumption == {PageMax, Budget} \subseteq Nat \ {0}

VARIABLES
    now, faults,
    play,           \* play -> its transaction's state, created_at, age and staleness
    imported,
    row,            \* course -> its row of app.catalog_rescore_backlog
    pass            \* pass -> where it is, and its locals

vars == <<now, faults, play, imported, row, pass>>

Cursors == (0..MaxClock) \X (Plays \cup {0})
NoCursor == <<0, 0>>
After(k, c) == k[1] > c[1] \/ (k[1] = c[1] /\ k[2] > c[2])
Key(p) == <<play[p].at, p>>

\* What a pass holds of a row it listed (RescoreBacklogRow).
Copies == [course : Courses, cursor : Cursors, finished : BOOLEAN, swept : BOOLEAN, ready : BOOLEAN]
NoCopy == [course |-> 0, cursor |-> NoCursor, finished |-> FALSE, swept |-> FALSE, ready |-> FALSE]
Idle == [pc |-> "idle", copy |-> NoCopy, todo |-> {}, cursor |-> NoCursor, page |-> {},
         full |-> FALSE, failed |-> FALSE, budget |-> 0]

PlayState == [st : {"new", "open", "in", "gone"}, at : 0..MaxClock, age : 0..TxMax,
              stale : BOOLEAN]
RowState == [cursor : Cursors, finished : BOOLEAN, grace : 0..Delay, swept : BOOLEAN,
             done : BOOLEAN]
PassState == [pc : {"idle", "page", "play", "end", "sweep"}, copy : Copies \cup {NoCopy},
              todo : SUBSET Copies, cursor : Cursors, page : SUBSET Plays, full : BOOLEAN,
              failed : BOOLEAN, budget : 0..Budget]
TypeOK == /\ now \in 0..MaxClock /\ faults \in 0..MaxFaults /\ imported \in BOOLEAN
          /\ play \in [Plays -> PlayState] /\ row \in [Courses -> RowState]
          /\ pass \in [Passes -> PassState]
          /\ \A w \in Passes : /\ pass[w].pc # "idle" => pass[w].copy \in Copies
                               /\ pass[w].page # {} => pass[w].pc = "play"
                               /\ Cardinality(pass[w].page) <= pass[w].budget

Init == /\ now = 0 /\ faults = 0 /\ imported = FALSE
        /\ play = [p \in Plays |-> [st |-> "new", at |-> 0, age |-> 0, stale |-> FALSE]]
        /\ row = [c \in Courses |-> [cursor |-> NoCursor, finished |-> FALSE, grace |-> 0,
                                     swept |-> FALSE, done |-> FALSE]]
        /\ pass = [w \in Passes |-> Idle]

Fault == faults < MaxFaults /\ faults' = faults + 1

(***************************************************************************)
(* Time, live intake and the import.                                       *)
(***************************************************************************)
Min2(a, b) == IF a < b THEN a ELSE b
Less(a, b) == IF a < b THEN 0 ELSE a - b

\* A transaction that has reached the timeout commits or dies before time
\* goes on.
Tick == /\ \A p \in Plays : play[p].st = "open" => play[p].age < TxMax
        /\ now' = Min2(now + 1, MaxClock)
        /\ play' = [p \in Plays |-> IF play[p].st = "open"
                                    THEN [play[p] EXCEPT !.age = @ + 1] ELSE play[p]]
        /\ row' = [c \in Courses |-> [row[c] EXCEPT !.grace = Less(@, 1)]]
        /\ UNCHANGED <<faults, imported, pass>>

\* An intake transaction begins; before the import it scores from the old
\* catalog.
BeginPlay(p) == /\ play[p].st = "new" /\ now < MaxClock
                /\ play' = [play EXCEPT ![p] = [st |-> "open", at |-> now, age |-> 0,
                                                stale |-> ~imported]]
                /\ UNCHANGED <<now, faults, imported, row, pass>>

CommitPlay(p) == /\ play[p].st = "open"
                 /\ play' = [play EXCEPT ![p] = [@ EXCEPT !.st = "in", !.age = 0]]
                 /\ UNCHANGED <<now, faults, imported, row, pass>>

\* The transaction dies, or the owner deletes the play.
RemovePlay(p) == /\ play[p].st \in {"open", "in"} /\ Fault
                 /\ play' = [play EXCEPT ![p] = [@ EXCEPT !.st = "gone", !.age = 0]]
                 /\ UNCHANGED <<now, imported, row, pass>>

\* The import commits and with it the backlog rows (enqueueRescore).
Import == /\ ~imported /\ imported' = TRUE
          /\ UNCHANGED <<now, faults, play, row, pass>>

(***************************************************************************)
(* One pass.                                                               *)
(***************************************************************************)
Copy(c) == [course |-> c, cursor |-> row[c].cursor, finished |-> row[c].finished,
            swept |-> row[c].swept, ready |-> row[c].finished /\ row[c].grace = 0]
Goes(w, s) == pass' = [pass EXCEPT ![w] = s]
OpenRows == {c \in Courses : ~row[c].done}
\* The first of the copies, in the order of their rows.
First(copies) == {r \in copies : \A q \in copies : r.course <= q.course}

\* rescoreBacklog.listOpen.
StartPass(w) == /\ pass[w].pc = "idle" /\ imported
                /\ LET copies == {Copy(c) : c \in OpenRows}
                   IN  \E r \in First(copies) :
                           Goes(w, [Idle EXCEPT !.pc = "page", !.copy = r,
                                                !.todo = copies \ {r}, !.budget = Budget])
                /\ UNCHANGED <<now, faults, play, imported, row>>

\* The plays of the keyset page (list_rescore_plays): committed, of the course,
\* after the cursor; none once the row is closed (the policy it reads under).
PlaysAfter(c, cursor) ==
    {p \in Plays : /\ ~row[c].done
                   /\ play[p].st = "in" /\ CourseOf[p] = c /\ After(Key(p), cursor)}

\* nextPlays, in the order of the keyset and limited to what is requested; a
\* pass with no budget left ends.
NextPlays(w) ==
    /\ pass[w].pc = "page"
    /\ \/ pass[w].budget = 0 /\ Goes(w, Idle)
       \/ /\ pass[w].budget > 0
          /\ LET requested == Min2(pass[w].budget, PageMax)
                 all == PlaysAfter(pass[w].copy.course, pass[w].copy.cursor)
                 full == Cardinality(all) >= requested
             IN  \E page \in SUBSET all :
                    /\ IF full THEN /\ Cardinality(page) = requested
                                    /\ \A p \in page, q \in all \ page : After(Key(q), Key(p))
                               ELSE page = all
                    /\ Goes(w, [pass[w] EXCEPT !.pc = "play", !.cursor = pass[w].copy.cursor,
                                               !.page = page, !.full = full, !.failed = FALSE])
    /\ UNCHANGED <<now, faults, play, imported, row>>

\* bind_delegate_for_rescore: the row is open, the play still there.
Bound(w, p) == ~row[pass[w].copy.course].done /\ play[p].st = "in"

\* One play is re-scored in its owner's transaction; doing it twice is
\* harmless.
IsNext(w, p) == p \in pass[w].page /\ \A q \in pass[w].page \ {p} : After(Key(q), Key(p))
RescorePlay(w) ==
    /\ pass[w].pc = "play"
    /\ \E p \in pass[w].page :
          /\ IsNext(w, p) /\ Bound(w, p)
          /\ play' = [play EXCEPT ![p] = [@ EXCEPT !.stale = FALSE]]
          /\ Goes(w, [pass[w] EXCEPT !.cursor = Key(p), !.budget = @ - 1, !.page = @ \ {p}])
    /\ UNCHANGED <<now, faults, imported, row>>

\* Re-scoring throws, or the deadline expires: the page ends there.
Stop(w) == Goes(w, [pass[w] EXCEPT !.pc = "end", !.failed = TRUE, !.page = {}])
RescoreThrows(w) ==
    /\ pass[w].pc = "play" /\ Stop(w)
    /\ \E p \in pass[w].page : IsNext(w, p) /\ IF Bound(w, p) THEN Fault ELSE UNCHANGED faults
    /\ UNCHANGED <<now, play, imported, row>>

PageDone(w) == /\ pass[w].pc = "play" /\ pass[w].page = {}
               /\ Goes(w, [pass[w] EXCEPT !.pc = "end"])
               /\ UNCHANGED <<now, faults, play, imported, row>>

GoesOn(w, r) == [pass[w] EXCEPT !.pc = "page", !.copy = r, !.todo = @ \ {r}]

\* Mutant: the last row's end does not end the pass.
NextRowAlways(w) == IF pass[w].todo = {} THEN {GoesOn(w, NoCopy)}
                    ELSE {GoesOn(w, r) : r \in First(pass[w].todo)}

\* The pass goes on to the next row it listed, or ends.
NextRow(w) == IF pass[w].todo = {} THEN {Idle}
              ELSE {GoesOn(w, r) : r \in First(pass[w].todo)}

\* advance writes done_at either way: closing, or reopening.
Advance(c, cursor, done) ==
    row' = [row EXCEPT ![c] = [@ EXCEPT !.cursor = cursor, !.done = done]]
\* markFinished keeps the first finished_at.
MarkFinished(c, cursor) ==
    row' = [row EXCEPT ![c] = [@ EXCEPT !.cursor = cursor, !.finished = TRUE,
                                        !.grace = IF row[c].finished THEN row[c].grace ELSE Delay]]

\* Mutant: only a failed page's cursor is saved.
AdvanceFailedPage(w) ==
    /\ pass[w].pc = "end" /\ (pass[w].failed \/ pass[w].full)
    /\ IF pass[w].failed THEN Advance(pass[w].copy.course, pass[w].cursor, FALSE) ELSE UNCHANGED row
    /\ Goes(w, IF pass[w].failed THEN Idle
               ELSE [pass[w] EXCEPT !.pc = "page", !.copy = [@ EXCEPT !.cursor = pass[w].cursor]])
    /\ UNCHANGED <<now, faults, play, imported>>

\* A page that was full, or that stopped early.
AdvancePage(w) ==
    /\ pass[w].pc = "end" /\ (pass[w].failed \/ pass[w].full)
    /\ Advance(pass[w].copy.course, pass[w].cursor, FALSE)
    /\ Goes(w, IF pass[w].failed THEN Idle
               ELSE [pass[w] EXCEPT !.pc = "page", !.copy = [@ EXCEPT !.cursor = pass[w].cursor]])
    /\ UNCHANGED <<now, faults, play, imported>>

Short(w) == pass[w].pc = "end" /\ ~pass[w].failed /\ ~pass[w].full

\* Mutant: the end after the grace closes the course.
CloseUnswept(w) == /\ Short(w) /\ (pass[w].copy.swept \/ pass[w].copy.ready)
                   /\ Advance(pass[w].copy.course, pass[w].cursor, TRUE)
                   /\ \E next \in NextRow(w) : Goes(w, next)
                   /\ UNCHANGED <<now, faults, play, imported>>

\* The sweep has reached the end: the course is closed.
Close(w) == /\ Short(w) /\ pass[w].copy.swept
            /\ Advance(pass[w].copy.course, pass[w].cursor, TRUE)
            /\ \E next \in NextRow(w) : Goes(w, next)
            /\ UNCHANGED <<now, faults, play, imported>>

\* The end, for the first time: the grace starts.
Finish(w) == /\ Short(w) /\ ~pass[w].copy.swept /\ ~pass[w].copy.finished
             /\ MarkFinished(pass[w].copy.course, pass[w].cursor)
             /\ \E next \in NextRow(w) : Goes(w, next)
             /\ UNCHANGED <<now, faults, play, imported>>

\* The end again: wait on, or sweep when the grace had passed at listing.
FinishAgain(w) ==
    /\ Short(w) /\ ~pass[w].copy.swept /\ pass[w].copy.finished
    /\ Advance(pass[w].copy.course, pass[w].cursor, FALSE)
    /\ IF pass[w].copy.ready THEN Goes(w, [pass[w] EXCEPT !.pc = "sweep"])
       ELSE \E next \in NextRow(w) : Goes(w, next)
    /\ UNCHANGED <<now, faults, play, imported>>

\* Mutant: the sweep starts where the pass ended.
NotRewound(cursor) == cursor

\* beginSweep rewinds the cursor by the overlap, to the nil uuid.
Rewound(cursor) == <<Less(cursor[1], Overlap), 0>>
BeginSweep(w) ==
    /\ pass[w].pc = "sweep"
    /\ LET c == pass[w].copy.course
           back == Rewound(pass[w].cursor)
       IN  /\ row' = [row EXCEPT ![c] = [@ EXCEPT !.swept = TRUE, !.cursor = back]]
           /\ Goes(w, [pass[w] EXCEPT !.pc = "page",
                                      !.copy = [@ EXCEPT !.cursor = back, !.swept = TRUE]])
    /\ UNCHANGED <<now, faults, play, imported>>

\* The function is killed, a call fails, or the deadline passes between pages.
Die(w) == /\ pass[w].pc # "idle" /\ Fault
          /\ Goes(w, Idle)
          /\ UNCHANGED <<now, play, imported, row>>

Step(w) == \/ NextPlays(w) \/ RescorePlay(w) \/ RescoreThrows(w) \/ PageDone(w)
           \/ AdvancePage(w) \/ Close(w) \/ Finish(w) \/ FinishAgain(w) \/ BeginSweep(w)

Next == \/ Tick \/ Import
        \/ \E p \in Plays : BeginPlay(p) \/ CommitPlay(p) \/ RemovePlay(p)
        \/ \E w \in Passes : StartPass(w) \/ Step(w) \/ Die(w)

\* Time passes, a transaction ends by its timeout, a pass runs on, and passes
\* keep being started: an import runs one.
Fairness == /\ WF_vars(Tick) /\ WF_vars(\E p \in Plays : CommitPlay(p))
            /\ \A w \in Passes : WF_vars(StartPass(w) \/ Step(w))
Spec == Init /\ [][Next]_vars /\ Fairness

(***************************************************************************)
(* Properties.                                                             *)
(***************************************************************************)
\* A play of p's course, begun later than `limit` and scored from the new catalog,
\* which may have carried the cursor farther than the sweep goes back.
Overtaken(p, limit) ==
    \E q \in Plays : /\ CourseOf[q] = CourseOf[p] /\ play[q].at > limit
                     /\ play[q].st # "new" /\ ~play[q].stale

\* Once a course is closed, none of its plays has, or can still commit, the
\* score of the catalog of before the import (drainRescoreBacklog, the sweep
\* of migration 0026): except a play that a newer one of its course, begun
\* Overlap later, had overtaken.
AllRescored ==
    \A p \in Plays :
        row[CourseOf[p]].done /\ play[p].st \in {"open", "in"} /\ play[p].stale
            => Overtaken(p, play[p].at + Overlap)

\* A stale play is only ever behind the cursor of its row while the sweep is
\* still to come, and within what the sweep goes back (the keyset of nextPlays,
\* beginSweep): with the same exception no play that could be read is skipped.
NothingSkipped ==
    \A p \in Plays :
        LET r == row[CourseOf[p]]
        IN  play[p].st \in {"open", "in"} /\ play[p].stale /\ ~After(Key(p), r.cursor)
                => \/ ~r.swept /\ After(Key(p), Rewound(r.cursor))
                   \/ Overtaken(p, play[p].at + Overlap)

\* Every course with queued work is closed in the end.
EveryCourseCloses == imported ~> \A c \in Courses : row[c].done
=============================================================================
