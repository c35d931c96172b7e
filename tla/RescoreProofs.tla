--------------------------- MODULE RescoreProofs ---------------------------
(***************************************************************************)
(* For every set of plays and courses, every page size and budget, every   *)
(* timeout, grace and overlap (with the grace and the overlap longer than  *)
(* the timeout) and any number of faults: as long as passes do not overlap *)
(* (OnePass), no stale play is skipped and a course is closed with none    *)
(* left, except where a newer play had overtaken it.                       *)
(*                                                                         *)
(* The argument has two layers.  Clocked needs no assumption on passes:    *)
(* when the grace is over, no transaction of before the import is open     *)
(* (GraceInv).  On top of it, and with one pass at a time, a cursor is     *)
(* never ahead of what was re-scored (Reached), the copies a pass works on *)
(* are like their rows (CopyOK), and in a sweep everything stale that is   *)
(* behind a cursor had been overtaken and everything before it is still to *)
(* be read (Passed, PageOK).                                               *)
(***************************************************************************)
EXTENDS Rescore, FiniteSetTheorems, TLAPS

-----------------------------------------------------------------------------
(* The invariant.  Its parts are stated of a value of `play`, `row` and    *)
(* `pass[w]`, so that a step compares two values.                          *)

OnePass == \A v, w \in Passes : v = w

\* A play that may still show the score of the catalog of before the import.
Stale(ps, p) == ps[p].st \in {"open", "in"} /\ ps[p].stale
KeyOf(ps, p) == <<ps[p].at, p>>

\* Whose transaction is open has begun before the row was finished.
GraceInv ==
    /\ \A w \in Passes : pass[w].pc # "idle" => imported
    /\ \A c \in Courses : row[c].finished => imported
    /\ \A c \in Courses : row[c].finished =>
          \A p \in Plays : Stale(play, p) /\ play[p].st = "open"
                               => play[p].age + row[c].grace >= Delay

Clocked == TypeOK /\ GraceInv

\* A cursor is not ahead of every play that was re-scored.
Reached(ps, c, k) ==
    k[1] = 0 \/ \E q \in Plays : /\ CourseOf[q] = c /\ ps[q].at >= k[1]
                                 /\ ps[q].st # "new" /\ ~ps[q].stale

\* A newer play of its course, scored from the new catalog, has overtaken p.
IsOvertaken(ps, p) ==
    \E q \in Plays : /\ CourseOf[q] = CourseOf[p] /\ ps[q].at > ps[p].at + Overlap
                     /\ ps[q].st # "new" /\ ~ps[q].stale

\* What is stale and behind the cursor was overtaken.
Passed(ps, c, k) ==
    \A p \in Plays : CourseOf[p] = c /\ Stale(ps, p) /\ ~After(KeyOf(ps, p), k)
                         => IsOvertaken(ps, p)

\* A row of the backlog.
RowOK(ps, c, r) ==
    /\ Reached(ps, c, r.cursor)
    /\ r.swept => r.finished /\ r.grace = 0 /\ Passed(ps, c, r.cursor)
    /\ r.done => /\ r.finished
                 /\ \A p \in Plays : CourseOf[p] = c /\ Stale(ps, p) => IsOvertaken(ps, p)

\* The copy of a row.
Like(y, r) ==
    /\ ~r.done /\ y.finished = r.finished /\ y.swept = r.swept
    /\ y.ready => r.finished /\ r.grace = 0

\* The copies that a pass holds.
CopyOK(rows, s) ==
    s.pc # "idle" =>
        /\ Like(s.copy, rows[s.copy.course])
        /\ s.pc = "sweep" => /\ s.cursor = rows[s.copy.course].cursor
                             /\ s.copy.ready /\ ~s.copy.swept
        /\ s.pc # "sweep" => s.copy.cursor = rows[s.copy.course].cursor
        /\ \A y \in s.todo : /\ Like(y, rows[y.course]) /\ y.cursor = rows[y.course].cursor
                             /\ y.course # s.copy.course
                             /\ \A z \in s.todo : z.course = y.course => z = y

\* The page in flight.  In a sweep: what is stale, beyond the cursor and not
\* in the page comes after the page, and a page that was not full has it all.
PageOK(ps, s) ==
    LET c == s.copy.course
    IN  s.pc \in {"play", "end"} =>
            /\ Reached(ps, c, s.cursor)
            /\ \A p \in s.page : /\ CourseOf[p] = c /\ ps[p].st # "new"
                                 /\ After(KeyOf(ps, p), s.cursor)
            /\ s.copy.swept =>
                  /\ Passed(ps, c, s.cursor)
                  /\ \A q \in Plays :
                        CourseOf[q] = c /\ Stale(ps, q) /\ After(KeyOf(ps, q), s.cursor)
                            => \/ q \in s.page
                               \/ /\ s.full \/ s.failed
                                  /\ \A p \in s.page : After(KeyOf(ps, q), KeyOf(ps, p))

PassInv == /\ \A c \in Courses : RowOK(play, c, row[c])
           /\ \A w \in Passes : CopyOK(row, pass[w]) /\ PageOK(play, pass[w])

Inv == Clocked /\ PassInv

-----------------------------------------------------------------------------
(* The keyset. *)

LEMMA PlayFields ==
  ASSUME NEW ps \in [Plays -> PlayState], NEW p \in Plays
  PROVE  /\ ps[p].st \in {"new", "open", "in", "gone"} /\ ps[p].at \in 0..MaxClock
         /\ ps[p].age \in 0..TxMax /\ ps[p].stale \in BOOLEAN
         /\ p \in Nat /\ p > 0 /\ ps[p].at \in Nat /\ ps[p].age \in Nat
         /\ CourseOf[p] \in Courses
  BY PlaysAssumption, SweepAssumption DEF PlayState

LEMMA KeyFields ==
  ASSUME NEW ps \in [Plays -> PlayState], NEW p \in Plays
  PROVE  /\ KeyOf(ps, p)[1] = ps[p].at /\ KeyOf(ps, p)[2] = p
         /\ KeyOf(ps, p) \in Cursors
  BY PlayFields DEF KeyOf, Cursors

LEMMA CursorFields ==
  ASSUME NEW k \in Cursors
  PROVE  k[1] \in 0..MaxClock /\ k[1] \in Nat /\ k[2] \in Nat /\ k = <<k[1], k[2]>>
  <1>1. k[1] \in 0..MaxClock /\ k[2] \in Plays \cup {0} /\ k = <<k[1], k[2]>>
    BY DEF Cursors
  <1>2. MaxClock \in Nat /\ Plays \cup {0} \subseteq Nat
    BY PlaysAssumption, SweepAssumption
  <1> QED
    BY <1>1, <1>2

LEMMA NoCursorFields == NoCursor \in Cursors /\ NoCursor[1] = 0
  BY SweepAssumption DEF NoCursor, Cursors

LEMMA AfterTrans ==
  ASSUME NEW a \in Cursors, NEW b \in Cursors, NEW c \in Cursors,
         After(a, b), After(b, c)
  PROVE  After(a, c)
  BY CursorFields DEF After

LEMMA AfterTotal ==
  ASSUME NEW a \in Cursors, NEW b \in Cursors
  PROVE  After(a, b) \/ After(b, a) \/ a = b
  BY CursorFields DEF After

LEMMA AfterAsym ==
  ASSUME NEW a \in Cursors, NEW b \in Cursors, After(a, b)
  PROVE  ~After(b, a)
  BY CursorFields DEF After

\* The sweep comes back for a play that the cursor has passed, unless it was
\* overtaken.
LEMMA RewoundReaches ==
  ASSUME NEW ps \in [Plays -> PlayState], NEW p \in Plays, NEW k \in Cursors,
         Reached(ps, CourseOf[p], k)
  PROVE  After(KeyOf(ps, p), Rewound(k)) \/ IsOvertaken(ps, p)
  <1>1. /\ k[1] \in Nat /\ Overlap \in Nat /\ ps[p].at \in Nat /\ p \in Nat /\ p > 0
        /\ KeyOf(ps, p)[1] = ps[p].at /\ KeyOf(ps, p)[2] = p
    BY CursorFields, PlayFields, KeyFields, SweepAssumption
  <1>2. /\ Rewound(k)[1] = IF k[1] < Overlap THEN 0 ELSE k[1] - Overlap
        /\ Rewound(k)[2] = 0
    BY DEF Rewound, Less
  <1>3. CASE k[1] <= ps[p].at + Overlap
    BY <1>1, <1>2, <1>3 DEF After
  <1>4. CASE k[1] > ps[p].at + Overlap
    <2>1. k[1] # 0
      BY <1>1, <1>4
    <2>2. PICK q \in Plays : /\ CourseOf[q] = CourseOf[p] /\ ps[q].at >= k[1]
                             /\ ps[q].st # "new" /\ ~ps[q].stale
      BY <2>1 DEF Reached
    <2>3. ps[q].at \in Nat
      BY PlayFields
    <2>4. ps[q].at > ps[p].at + Overlap
      BY <1>1, <1>4, <2>2, <2>3
    <2> QED
      BY <2>2, <2>4 DEF IsOvertaken
  <1> QED
    BY <1>1, <1>3, <1>4

LEMMA RewoundCursor ==
  ASSUME NEW k \in Cursors
  PROVE  Rewound(k) \in Cursors /\ Rewound(k)[1] <= k[1] /\ Rewound(k)[1] \in Nat
  <1>1. k[1] \in 0..MaxClock /\ Overlap \in Nat /\ MaxClock \in Nat
    BY CursorFields, SweepAssumption
  <1>2. Less(k[1], Overlap) \in 0..MaxClock /\ Less(k[1], Overlap) <= k[1]
    BY <1>1 DEF Less
  <1> QED
    BY <1>1, <1>2 DEF Rewound, Cursors

-----------------------------------------------------------------------------
(* The plays go on: what has begun keeps its time, and what was scored     *)
(* from the new catalog stays so.                                          *)

Evolves(ps, qs) ==
    \A p \in Plays : ps[p].st # "new" => /\ qs[p].st # "new" /\ qs[p].at = ps[p].at
                                         /\ ~ps[p].stale => ~qs[p].stale
NoMoreStale(ps, qs) == \A p \in Plays : Stale(qs, p) => Stale(ps, p)

LEMMA ReachedStays ==
  ASSUME NEW ps, NEW qs, NEW c, NEW k, Evolves(ps, qs), Reached(ps, c, k)
  PROVE  Reached(qs, c, k)
  BY DEF Evolves, Reached

LEMMA OvertakenStays ==
  ASSUME NEW ps, NEW qs, Evolves(ps, qs), NEW p \in Plays, ps[p].st # "new",
         IsOvertaken(ps, p)
  PROVE  IsOvertaken(qs, p)
  BY DEF Evolves, IsOvertaken

LEMMA PassedStays ==
  ASSUME NEW ps, NEW qs, Evolves(ps, qs), NoMoreStale(ps, qs), NEW c, NEW k,
         Passed(ps, c, k)
  PROVE  Passed(qs, c, k)
  <1> SUFFICES ASSUME NEW p \in Plays, CourseOf[p] = c, Stale(qs, p), ~After(KeyOf(qs, p), k)
               PROVE  IsOvertaken(qs, p)
    BY DEF Passed
  <1>1. Stale(ps, p) /\ ps[p].st # "new"
    BY DEF NoMoreStale, Stale
  <1>2. KeyOf(qs, p) = KeyOf(ps, p)
    BY <1>1 DEF Evolves, KeyOf
  <1>3. IsOvertaken(ps, p)
    BY <1>1, <1>2 DEF Passed
  <1> QED
    BY <1>1, <1>3, OvertakenStays

LEMMA RowStays ==
  ASSUME NEW ps, NEW qs, NEW c, NEW r, NEW t, RowOK(ps, c, r), Evolves(ps, qs),
         r.finished => NoMoreStale(ps, qs),
         t.cursor = r.cursor, t.finished = r.finished, t.swept = r.swept, t.done = r.done,
         r.grace = 0 => t.grace = 0
  PROVE  RowOK(qs, c, t)
  <1>1. Reached(qs, c, t.cursor)
    BY ReachedStays DEF RowOK
  <1>2. r.swept => Passed(qs, c, r.cursor)
    BY PassedStays DEF RowOK
  <1>3. ASSUME r.done, NEW p \in Plays, CourseOf[p] = c, Stale(qs, p)
        PROVE  IsOvertaken(qs, p)
    <2>1. Stale(ps, p) /\ ps[p].st # "new" /\ IsOvertaken(ps, p)
      BY <1>3 DEF RowOK, NoMoreStale, Stale
    <2> QED
      BY <2>1, OvertakenStays
  <1> QED
    BY <1>1, <1>2, <1>3 DEF RowOK

LEMMA PageStays ==
  ASSUME NEW ps, NEW qs, NEW s, PageOK(ps, s), Evolves(ps, qs), NoMoreStale(ps, qs),
         s.page \subseteq Plays
  PROVE  PageOK(qs, s)
  <1> DEFINE c == s.copy.course
  <1> SUFFICES ASSUME s.pc \in {"play", "end"} PROVE PageOK(qs, s)
    BY DEF PageOK
  <1>1. Reached(qs, c, s.cursor)
    BY ReachedStays DEF PageOK
  <1>2. \A p \in s.page : CourseOf[p] = c /\ ps[p].st # "new" /\ After(KeyOf(ps, p), s.cursor)
    BY DEF PageOK
  <1>3. \A p \in s.page : qs[p].st # "new" /\ KeyOf(qs, p) = KeyOf(ps, p)
    BY <1>2 DEF Evolves, KeyOf
  <1>4. s.copy.swept => Passed(qs, c, s.cursor)
    BY PassedStays DEF PageOK
  <1>5. ASSUME s.copy.swept, NEW q \in Plays, CourseOf[q] = c, Stale(qs, q),
               After(KeyOf(qs, q), s.cursor), q \notin s.page
        PROVE  /\ s.full \/ s.failed
               /\ \A p \in s.page : After(KeyOf(qs, q), KeyOf(qs, p))
    <2>1. Stale(ps, q) /\ ps[q].st # "new"
      BY <1>5 DEF NoMoreStale, Stale
    <2>2. KeyOf(qs, q) = KeyOf(ps, q)
      BY <2>1 DEF Evolves, KeyOf
    <2>3. /\ s.full \/ s.failed
          /\ \A p \in s.page : After(KeyOf(ps, q), KeyOf(ps, p))
      BY <1>5, <2>1, <2>2 DEF PageOK
    <2> QED
      BY <1>3, <2>2, <2>3
  <1> QED
    BY <1>1, <1>2, <1>3, <1>4, <1>5 DEF PageOK

-----------------------------------------------------------------------------
(* Types. *)

PassTyped(s) == /\ s \in PassState
                /\ s.pc # "idle" => s.copy \in Copies
                /\ s.page # {} => s.pc = "play"
                /\ Cardinality(s.page) <= s.budget

LEMMA NumbersTyped ==
  /\ TxMax \in Nat /\ Delay \in Nat /\ Overlap \in Nat /\ MaxClock \in Nat
  /\ MaxFaults \in Nat /\ PageMax \in Nat /\ Budget \in Nat
  /\ PageMax > 0 /\ Budget > 0 /\ TxMax < Delay /\ TxMax < Overlap
  BY SweepAssumption, PageAssumption

LEMMA IdleTyped == PassTyped(Idle) /\ Idle.pc = "idle"
  <1>1. NoCursor \in Cursors
    BY NoCursorFields
  <1>2. 0 \in 0..Budget
    BY NumbersTyped
  <1>3. Idle \in PassState
    BY <1>1, <1>2 DEF Idle, PassState
  <1>4. Cardinality(Idle.page) <= Idle.budget
    BY FS_EmptySet DEF Idle
  <1> QED
    BY <1>3, <1>4 DEF PassTyped, Idle

LEMMA Small ==
  ASSUME NEW S \in SUBSET Plays
  PROVE  IsFiniteSet(S) /\ Cardinality(S) \in Nat
  BY FS_Subset, FS_CardinalityType, PlaysAssumption

LEMMA CopyTyped ==
  ASSUME row \in [Courses -> RowState], NEW c \in Courses
  PROVE  Copy(c) \in Copies
  <1>1. /\ row[c].cursor \in Cursors /\ row[c].finished \in BOOLEAN
        /\ row[c].swept \in BOOLEAN
    BY DEF RowState
  <1>2. (row[c].finished /\ row[c].grace = 0) \in BOOLEAN
    OBVIOUS
  <1> QED
    BY <1>1, <1>2 DEF Copy, Copies

LEMMA RowFields ==
  ASSUME NEW r \in RowState
  PROVE  /\ r.cursor \in Cursors /\ r.finished \in BOOLEAN /\ r.grace \in 0..Delay
         /\ r.swept \in BOOLEAN /\ r.done \in BOOLEAN /\ r.grace \in Nat
  BY NumbersTyped DEF RowState

LEMMA PassFields ==
  ASSUME NEW s, PassTyped(s)
  PROVE  /\ s \in PassState /\ s.pc \in {"idle", "page", "play", "end", "sweep"}
         /\ s.todo \in SUBSET Copies /\ s.cursor \in Cursors /\ s.page \in SUBSET Plays
         /\ s.full \in BOOLEAN /\ s.failed \in BOOLEAN /\ s.budget \in 0..Budget
         /\ s.pc # "idle" => s.copy \in Copies /\ s.copy.course \in Courses
         /\ s.copy \in Copies \cup {NoCopy}
         /\ s.budget \in Nat /\ Cardinality(s.page) \in Nat /\ Cardinality(s.page) <= s.budget
         /\ s.page # {} => s.pc = "play"
  <1>1. /\ s \in PassState /\ s.pc \in {"idle", "page", "play", "end", "sweep"}
        /\ s.todo \in SUBSET Copies /\ s.cursor \in Cursors /\ s.page \in SUBSET Plays
        /\ s.full \in BOOLEAN /\ s.failed \in BOOLEAN /\ s.budget \in 0..Budget
        /\ s.copy \in Copies \cup {NoCopy}
    BY DEF PassTyped, PassState
  <1>2. s.pc # "idle" => s.copy \in Copies /\ s.copy.course \in Courses
    BY DEF PassTyped, Copies
  <1>3. s.budget \in Nat /\ Cardinality(s.page) \in Nat
    BY <1>1, NumbersTyped, Small
  <1> QED
    BY <1>1, <1>2, <1>3 DEF PassTyped

LEMMA TypedPasses == TypeOK => \A w \in Passes : PassTyped(pass[w])
  <1> SUFFICES ASSUME TypeOK, NEW w \in Passes PROVE PassTyped(pass[w])
    OBVIOUS
  <1>1. pass[w] \in PassState
    BY DEF TypeOK
  <1>2. /\ pass[w].pc # "idle" => pass[w].copy \in Copies
        /\ pass[w].page # {} => pass[w].pc = "play"
        /\ Cardinality(pass[w].page) <= pass[w].budget
    BY DEF TypeOK
  <1> QED
    BY <1>1, <1>2 DEF PassTyped

LEMMA GoesTyped ==
  ASSUME TypeOK, NEW w \in Passes, NEW s, PassTyped(s), Goes(w, s)
  PROVE  /\ pass' \in [Passes -> PassState] /\ \A v \in Passes : PassTyped(pass'[v])
         /\ pass'[w] = s
  <1>1. s \in PassState
    BY DEF PassTyped
  <1>2. \A v \in Passes : pass'[v] = IF v = w THEN s ELSE pass[v]
    BY DEF Goes, TypeOK
  <1> QED
    BY <1>1, <1>2, TypedPasses DEF Goes, TypeOK

LEMMA TypedAgain ==
  ASSUME now' \in 0..MaxClock, faults' \in 0..MaxFaults, imported' \in BOOLEAN,
         play' \in [Plays -> PlayState], row' \in [Courses -> RowState],
         pass' \in [Passes -> PassState], \A v \in Passes : PassTyped(pass'[v])
  PROVE  TypeOK'
  BY DEF TypeOK, PassTyped

\* The pass goes on, and nothing else changes but the row it holds.
LEMMA PassStepTyped ==
  ASSUME TypeOK, NEW w \in Passes, NEW s, PassTyped(s), Goes(w, s),
         UNCHANGED <<now, play, imported>>, faults' \in 0..MaxFaults,
         row' \in [Courses -> RowState]
  PROVE  TypeOK'
  <1>1. pass' \in [Passes -> PassState] /\ \A v \in Passes : PassTyped(pass'[v])
    BY GoesTyped
  <1> QED
    BY <1>1, TypedAgain DEF TypeOK

LEMMA FaultTyped == TypeOK /\ (Fault \/ UNCHANGED faults) => faults' \in 0..MaxFaults
  BY NumbersTyped DEF TypeOK, Fault

LEMMA FirstIn == \A copies : First(copies) \subseteq copies
  BY DEF First

LEMMA NextRowTyped ==
  ASSUME TypeOK, NEW w \in Passes, pass[w].pc \notin {"idle", "play"}, NEW s \in NextRow(w)
  PROVE  PassTyped(s)
  <1>1. PassTyped(pass[w])
    BY TypedPasses
  <1>2. CASE pass[w].todo = {}
    BY <1>2, IdleTyped DEF NextRow
  <1>3. CASE pass[w].todo # {}
    <2>1. PICK r \in pass[w].todo : s = GoesOn(w, r)
      BY <1>3, FirstIn DEF NextRow
    <2>2. r \in Copies /\ pass[w].todo \ {r} \in SUBSET Copies
      BY <1>1, PassFields
    <2>3. pass[w] \in PassState /\ pass[w].page = {}
      BY <1>1, PassFields
    <2>4. s = [pass[w] EXCEPT !.pc = "page", !.copy = r, !.todo = pass[w].todo \ {r}]
      BY <2>1 DEF GoesOn
    <2>5. s \in PassState
      BY <2>2, <2>3, <2>4 DEF PassState
    <2>6. s.page = pass[w].page /\ s.budget = pass[w].budget /\ s.copy = r
      BY <2>3, <2>4 DEF PassState
    <2> QED
      BY <1>1, <2>2, <2>3, <2>5, <2>6 DEF PassTyped
  <1> QED
    BY <1>2, <1>3

-----------------------------------------------------------------------------
(* Every action keeps the types. *)

LEMMA EnvTyped ==
  ASSUME TypeOK, pass' = pass, now' \in 0..MaxClock, faults' \in 0..MaxFaults,
         imported' \in BOOLEAN, play' \in [Plays -> PlayState], row' \in [Courses -> RowState]
  PROVE  TypeOK'
  <1>1. pass' \in [Passes -> PassState] /\ \A v \in Passes : PassTyped(pass'[v])
    BY TypedPasses DEF TypeOK
  <1> QED
    BY <1>1, TypedAgain

LEMMA TickTyped == TypeOK /\ Tick => TypeOK'
  <1> SUFFICES ASSUME TypeOK, Tick PROVE TypeOK'
    OBVIOUS
  <1>1. now' \in 0..MaxClock
    BY NumbersTyped DEF TypeOK, Tick, Min2
  <1>2. play' \in [Plays -> PlayState]
    <2>1. ASSUME NEW p \in Plays, play[p].st = "open"
          PROVE  [play[p] EXCEPT !.age = play[p].age + 1] \in PlayState
      <3>1. play[p] \in PlayState /\ play[p].age \in 0..TxMax /\ play[p].age < TxMax
        BY <2>1, PlayFields DEF TypeOK, Tick
      <3>2. play[p].age + 1 \in 0..TxMax
        BY <3>1, NumbersTyped
      <3> QED
        BY <3>1, <3>2 DEF PlayState
    <2>2. \A p \in Plays : play[p] \in PlayState
      BY DEF TypeOK
    <2> QED
      BY <2>1, <2>2 DEF Tick
  <1>3. row' \in [Courses -> RowState]
    <2>1. ASSUME NEW c \in Courses
          PROVE  [row[c] EXCEPT !.grace = Less(row[c].grace, 1)] \in RowState
      <3>1. row[c] \in RowState /\ row[c].grace \in 0..Delay
        BY RowFields DEF TypeOK
      <3>2. Less(row[c].grace, 1) \in 0..Delay
        BY <3>1, NumbersTyped DEF Less
      <3> QED
        BY <3>1, <3>2 DEF RowState
    <2> QED
      BY <2>1 DEF Tick
  <1> QED
    BY <1>1, <1>2, <1>3, EnvTyped DEF TypeOK, Tick

LEMMA BeginPlayTyped == \A p \in Plays : TypeOK /\ BeginPlay(p) => TypeOK'
  <1> SUFFICES ASSUME TypeOK, NEW p \in Plays, BeginPlay(p) PROVE TypeOK'
    OBVIOUS
  <1>1. now \in 0..MaxClock /\ 0 \in 0..TxMax /\ (~imported) \in BOOLEAN
    BY NumbersTyped DEF TypeOK
  <1>2. [st |-> "open", at |-> now, age |-> 0, stale |-> ~imported] \in PlayState
    BY <1>1 DEF PlayState
  <1>3. play' \in [Plays -> PlayState]
    BY <1>2 DEF TypeOK, BeginPlay
  <1> QED
    BY <1>3, EnvTyped DEF TypeOK, BeginPlay

LEMMA EndPlayTyped ==
  \A p \in Plays : TypeOK /\ (CommitPlay(p) \/ RemovePlay(p)) => TypeOK'
  <1> SUFFICES ASSUME TypeOK, NEW p \in Plays, CommitPlay(p) \/ RemovePlay(p) PROVE TypeOK'
    OBVIOUS
  <1>1. play[p] \in PlayState /\ 0 \in 0..TxMax
    BY NumbersTyped DEF TypeOK
  <1>2. ASSUME NEW st \in {"in", "gone"}
        PROVE  [play[p] EXCEPT !.st = st, !.age = 0] \in PlayState
    BY <1>1 DEF PlayState
  <1>3. play' \in [Plays -> PlayState]
    BY <1>2 DEF TypeOK, CommitPlay, RemovePlay
  <1>4. faults' \in 0..MaxFaults
    BY FaultTyped DEF CommitPlay, RemovePlay
  <1> QED
    BY <1>3, <1>4, EnvTyped DEF TypeOK, CommitPlay, RemovePlay

LEMMA ImportTyped == TypeOK /\ Import => TypeOK'
  BY EnvTyped DEF TypeOK, Import

LEMMA StartPassTyped == \A w \in Passes : TypeOK /\ StartPass(w) => TypeOK'
  <1> SUFFICES ASSUME TypeOK, NEW w \in Passes, StartPass(w) PROVE TypeOK'
    OBVIOUS
  <1> DEFINE copies == {Copy(c) : c \in OpenRows}
  <1>1. PICK r \in First(copies) :
          Goes(w, [Idle EXCEPT !.pc = "page", !.copy = r, !.todo = copies \ {r},
                               !.budget = Budget])
    BY DEF StartPass
  <1>2. copies \subseteq Copies
    BY CopyTyped DEF OpenRows, TypeOK
  <1>3. r \in Copies /\ copies \ {r} \in SUBSET Copies
    BY <1>2, FirstIn
  <1> HIDE DEF copies
  <1> DEFINE s == [Idle EXCEPT !.pc = "page", !.copy = r, !.todo = copies \ {r},
                               !.budget = Budget]
  <1>4. PassTyped(s)
    <2>1. Idle \in PassState /\ Budget \in 0..Budget
      BY IdleTyped, NumbersTyped DEF PassTyped
    <2>2. s \in PassState
      BY <1>3, <2>1 DEF PassState
    <2>3. s.copy = r /\ s.page = {} /\ s.budget = Budget
      BY DEF Idle
    <2>4. Cardinality(s.page) <= s.budget
      BY <2>3, FS_EmptySet, NumbersTyped
    <2> QED
      BY <1>3, <2>2, <2>3, <2>4 DEF PassTyped
  <1> HIDE DEF s
  <1>5. Goes(w, s)
    BY <1>1 DEF s
  <1> QED
    BY <1>4, <1>5, PassStepTyped DEF TypeOK, StartPass

LEMMA NextPlaysTyped == \A w \in Passes : TypeOK /\ NextPlays(w) => TypeOK'
  <1> SUFFICES ASSUME TypeOK, NEW w \in Passes, NextPlays(w) PROVE TypeOK'
    OBVIOUS
  <1>1. PassTyped(pass[w])
    BY TypedPasses
  <1>2. CASE Goes(w, Idle)
    BY <1>2, IdleTyped, PassStepTyped DEF TypeOK, NextPlays
  <1>3. CASE ~Goes(w, Idle)
    <2> DEFINE requested == Min2(pass[w].budget, PageMax)
               all == PlaysAfter(pass[w].copy.course, pass[w].copy.cursor)
               full == Cardinality(all) >= requested
    <2>1. PICK page \in SUBSET all :
            /\ IF full THEN /\ Cardinality(page) = requested
                            /\ \A p \in page, q \in all \ page : After(Key(q), Key(p))
                       ELSE page = all
            /\ Goes(w, [pass[w] EXCEPT !.pc = "play", !.cursor = pass[w].copy.cursor,
                                       !.page = page, !.full = full, !.failed = FALSE])
      BY <1>3 DEF NextPlays
    <2> DEFINE s == [pass[w] EXCEPT !.pc = "play", !.cursor = pass[w].copy.cursor,
                                    !.page = page, !.full = full, !.failed = FALSE]
    <2>2. page \in SUBSET Plays /\ all \in SUBSET Plays
      BY DEF PlaysAfter
    <2>3. Cardinality(page) <= pass[w].budget
      <3>1. requested <= pass[w].budget /\ requested \in Nat
        BY <1>1, PassFields, NumbersTyped DEF Min2
      <3>2. Cardinality(all) \in Nat
        BY <2>2, Small
      <3> HIDE DEF requested, all
      <3> QED
        BY <1>1, <2>1, <3>1, <3>2, PassFields
    <2>4. pass[w].copy \in Copies /\ pass[w].copy.cursor \in Cursors
      BY <1>1, PassFields DEF NextPlays, Copies
    <2>5. full \in BOOLEAN
      OBVIOUS
    <2> HIDE DEF full
    <2>6. s \in PassState
      <3>1. pass[w] \in PassState
        BY <1>1, PassFields
      <3> QED
        BY <2>2, <2>4, <2>5, <3>1 DEF PassState
    <2>7. s.copy = pass[w].copy /\ s.page = page /\ s.budget = pass[w].budget /\ s.pc = "play"
      BY <1>1, PassFields DEF PassState
    <2>8. PassTyped(s)
      BY <2>3, <2>4, <2>6, <2>7 DEF PassTyped
    <2> HIDE DEF s
    <2>9. Goes(w, s)
      BY <2>1 DEF s
    <2> QED
      BY <2>8, <2>9, PassStepTyped DEF TypeOK, NextPlays
  <1> QED
    BY <1>2, <1>3

LEMMA RescorePlayTyped == \A w \in Passes : TypeOK /\ RescorePlay(w) => TypeOK'
  <1> SUFFICES ASSUME TypeOK, NEW w \in Passes, RescorePlay(w) PROVE TypeOK'
    OBVIOUS
  <1>1. PassTyped(pass[w])
    BY TypedPasses
  <1>2. PICK p \in pass[w].page :
          /\ play' = [play EXCEPT ![p] = [@ EXCEPT !.stale = FALSE]]
          /\ Goes(w, [pass[w] EXCEPT !.cursor = Key(p), !.budget = @ - 1, !.page = @ \ {p}])
    BY DEF RescorePlay
  <1>3. p \in Plays /\ pass[w].page \in SUBSET Plays /\ pass[w].pc = "play"
    BY <1>1, PassFields
  <1>4. play' \in [Plays -> PlayState]
    <2>1. play[p] \in PlayState
      BY <1>3 DEF TypeOK
    <2>2. [play[p] EXCEPT !.stale = FALSE] \in PlayState
      BY <2>1 DEF PlayState
    <2> QED
      BY <1>2, <2>2 DEF TypeOK
  <1> DEFINE s == [pass[w] EXCEPT !.cursor = Key(p), !.budget = @ - 1, !.page = @ \ {p}]
  <1>5. PassTyped(s)
    <2>1. Key(p) \in Cursors
      BY <1>3, KeyFields DEF Key, KeyOf, TypeOK
    <2>2. /\ Cardinality(pass[w].page \ {p}) = Cardinality(pass[w].page) - 1
          /\ Cardinality(pass[w].page) \in Nat /\ Cardinality(pass[w].page \ {p}) \in Nat
      BY <1>3, Small, FS_RemoveElement
    <2>3. pass[w].budget \in 0..Budget /\ Cardinality(pass[w].page) <= pass[w].budget
      BY <1>1, PassFields
    <2>4. /\ pass[w].budget - 1 \in 0..Budget
          /\ Cardinality(pass[w].page \ {p}) <= pass[w].budget - 1
      BY <2>2, <2>3, NumbersTyped
    <2>5. pass[w].page \ {p} \in SUBSET Plays
      BY <1>3
    <2>6. s \in PassState
      <3>1. pass[w] \in PassState
        BY <1>1, PassFields
      <3> QED
        BY <2>1, <2>4, <2>5, <3>1 DEF PassState
    <2>7. /\ s.copy = pass[w].copy /\ s.page = pass[w].page \ {p}
          /\ s.budget = pass[w].budget - 1 /\ s.pc = pass[w].pc
      BY <1>1, PassFields DEF PassState
    <2> QED
      BY <1>1, <1>3, <2>4, <2>6, <2>7 DEF PassTyped
  <1> HIDE DEF s
  <1>6. Goes(w, s)
    BY <1>2 DEF s
  <1>7. pass' \in [Passes -> PassState] /\ \A v \in Passes : PassTyped(pass'[v])
    BY <1>5, <1>6, GoesTyped
  <1> QED
    BY <1>4, <1>7, TypedAgain DEF TypeOK, RescorePlay

\* A pass that is only moved keeps its page empty.
LEMMA MovedTyped ==
  ASSUME NEW s, PassTyped(s), s.page = {}, s.pc # "idle",
         NEW pc \in {"page", "end", "sweep"}, NEW copy \in Copies
  PROVE  /\ PassTyped([s EXCEPT !.pc = pc])
         /\ PassTyped([s EXCEPT !.pc = pc, !.copy = copy])
  <1>1. s \in PassState /\ s.copy \in Copies
    BY PassFields
  <1>2. [s EXCEPT !.pc = pc] \in PassState /\ [s EXCEPT !.pc = pc, !.copy = copy] \in PassState
    BY <1>1 DEF PassState
  <1>3. /\ [s EXCEPT !.pc = pc].copy = s.copy /\ [s EXCEPT !.pc = pc].page = {}
        /\ [s EXCEPT !.pc = pc].budget = s.budget
        /\ [s EXCEPT !.pc = pc, !.copy = copy].copy = copy
        /\ [s EXCEPT !.pc = pc, !.copy = copy].page = {}
        /\ [s EXCEPT !.pc = pc, !.copy = copy].budget = s.budget
    BY <1>1 DEF PassState
  <1>4. Cardinality(s.page) <= s.budget
    BY DEF PassTyped
  <1> QED
    BY <1>1, <1>2, <1>3, <1>4 DEF PassTyped

LEMMA RescoreThrowsTyped == \A w \in Passes : TypeOK /\ RescoreThrows(w) => TypeOK'
  <1> SUFFICES ASSUME TypeOK, NEW w \in Passes, RescoreThrows(w) PROVE TypeOK'
    OBVIOUS
  <1>1. PassTyped(pass[w])
    BY TypedPasses
  <1> DEFINE s == [pass[w] EXCEPT !.pc = "end", !.failed = TRUE, !.page = {}]
  <1>2. s \in PassState
    <2>1. pass[w] \in PassState
      BY <1>1, PassFields
    <2> QED
      BY <2>1 DEF PassState
  <1>3. s.copy = pass[w].copy /\ s.page = {} /\ s.budget = pass[w].budget
    BY <1>1, PassFields DEF PassState
  <1>4. pass[w].pc = "play" /\ pass[w].budget \in Nat
    BY <1>1, PassFields DEF RescoreThrows
  <1>5. PassTyped(s)
    <2>1. s.copy \in Copies
      BY <1>1, <1>3, <1>4, PassFields
    <2>2. Cardinality(s.page) <= s.budget
      BY <1>3, <1>4, FS_EmptySet
    <2> QED
      BY <1>2, <1>3, <2>1, <2>2 DEF PassTyped
  <1> HIDE DEF s
  <1>6. Goes(w, s)
    BY DEF RescoreThrows, Stop, s
  <1>7. faults' \in 0..MaxFaults
    BY FaultTyped DEF RescoreThrows
  <1> QED
    BY <1>5, <1>6, <1>7, PassStepTyped DEF TypeOK, RescoreThrows

LEMMA PageDoneTyped == \A w \in Passes : TypeOK /\ PageDone(w) => TypeOK'
  <1> SUFFICES ASSUME TypeOK, NEW w \in Passes, PageDone(w) PROVE TypeOK'
    OBVIOUS
  <1>1. PassTyped(pass[w])
    BY TypedPasses
  <1>2. PassTyped([pass[w] EXCEPT !.pc = "end"])
    <2>1. pass[w].page = {} /\ pass[w].pc # "idle" /\ pass[w].copy \in Copies
      BY <1>1, PassFields DEF PageDone
    <2> QED
      BY <1>1, <2>1, MovedTyped
  <1>3. Goes(w, [pass[w] EXCEPT !.pc = "end"])
    BY DEF PageDone
  <1> QED
    BY <1>2, <1>3, PassStepTyped DEF TypeOK, PageDone

LEMMA DieTyped == \A w \in Passes : TypeOK /\ Die(w) => TypeOK'
  <1> SUFFICES ASSUME TypeOK, NEW w \in Passes, Die(w) PROVE TypeOK'
    OBVIOUS
  <1>1. faults' \in 0..MaxFaults
    BY FaultTyped DEF Die
  <1> QED
    BY <1>1, IdleTyped, PassStepTyped DEF TypeOK, Die

\* The end of a page writes a row and moves the pass.
LEMMA RowWritten ==
  ASSUME TypeOK, NEW c \in Courses, NEW k \in Cursors, NEW done \in BOOLEAN
  PROVE  /\ Advance(c, k, done) => row' \in [Courses -> RowState]
         /\ MarkFinished(c, k) => row' \in [Courses -> RowState]
         /\ row' = [row EXCEPT ![c] = [@ EXCEPT !.swept = TRUE, !.cursor = k]]
               => row' \in [Courses -> RowState]
  <1>1. row \in [Courses -> RowState] /\ row[c] \in RowState
    BY DEF TypeOK
  <1>2. [row[c] EXCEPT !.cursor = k, !.done = done] \in RowState
    BY <1>1 DEF RowState
  <1>3. ASSUME NEW g \in 0..Delay
        PROVE  [row[c] EXCEPT !.cursor = k, !.finished = TRUE, !.grace = g] \in RowState
    BY <1>1 DEF RowState
  <1>4. [row[c] EXCEPT !.swept = TRUE, !.cursor = k] \in RowState
    BY <1>1 DEF RowState
  <1>5. (IF row[c].finished THEN row[c].grace ELSE Delay) \in 0..Delay
    BY <1>1, RowFields, NumbersTyped
  <1> QED
    BY <1>1, <1>2, <1>3, <1>4, <1>5 DEF Advance, MarkFinished

\* The row a pass at the end of a page writes.
LEMMA AtEnd ==
  ASSUME TypeOK, NEW w \in Passes, pass[w].pc \in {"end", "sweep"}
  PROVE  /\ PassTyped(pass[w]) /\ pass[w].copy \in Copies /\ pass[w].copy.course \in Courses
         /\ pass[w].cursor \in Cursors /\ pass[w].page = {} /\ pass[w] \in PassState
         /\ pass[w].pc # "idle"
  BY TypedPasses, PassFields

LEMMA CopyMoved ==
  ASSUME NEW y \in Copies, NEW k \in Cursors
  PROVE  /\ [y EXCEPT !.cursor = k] \in Copies
         /\ [y EXCEPT !.cursor = k, !.swept = TRUE] \in Copies
  BY DEF Copies

LEMMA AdvancePageTyped == \A w \in Passes : TypeOK /\ AdvancePage(w) => TypeOK'
  <1> SUFFICES ASSUME TypeOK, NEW w \in Passes, AdvancePage(w) PROVE TypeOK'
    OBVIOUS
  <1>1. pass[w].pc = "end"
    BY DEF AdvancePage
  <1>2. row' \in [Courses -> RowState]
    BY <1>1, AtEnd, RowWritten DEF AdvancePage
  <1>3. CASE pass[w].failed
    BY <1>2, <1>3, IdleTyped, PassStepTyped DEF AdvancePage, TypeOK
  <1>4. CASE ~pass[w].failed
    <2> DEFINE y == [pass[w].copy EXCEPT !.cursor = pass[w].cursor]
               s == [pass[w] EXCEPT !.pc = "page", !.copy = y]
    <2>1. y \in Copies
      BY <1>1, AtEnd, CopyMoved
    <2>2. Goes(w, s)
      <3>1. Goes(w, [pass[w] EXCEPT !.pc = "page", !.copy = [@ EXCEPT !.cursor = pass[w].cursor]])
        BY <1>4 DEF AdvancePage
      <3>2. s = [pass[w] EXCEPT !.pc = "page", !.copy = [@ EXCEPT !.cursor = pass[w].cursor]]
        BY <1>1, AtEnd DEF PassState
      <3> QED
        BY <3>1, <3>2
    <2> HIDE DEF y
    <2>3. PassTyped(s)
      BY <1>1, <2>1, AtEnd, MovedTyped
    <2> HIDE DEF s
    <2> QED
      BY <1>2, <2>2, <2>3, PassStepTyped DEF AdvancePage, TypeOK
  <1> QED
    BY <1>3, <1>4

LEMMA CloseTyped == \A w \in Passes : TypeOK /\ Close(w) => TypeOK'
  <1> SUFFICES ASSUME TypeOK, NEW w \in Passes, Close(w) PROVE TypeOK'
    OBVIOUS
  <1>1. pass[w].pc = "end"
    BY DEF Close, Short
  <1>2. row' \in [Courses -> RowState]
    BY <1>1, AtEnd, RowWritten DEF Close
  <1>3. PICK s \in NextRow(w) : Goes(w, s)
    BY DEF Close
  <1> QED
    BY <1>1, <1>2, <1>3, NextRowTyped, PassStepTyped DEF Close, TypeOK

LEMMA FinishTyped == \A w \in Passes : TypeOK /\ Finish(w) => TypeOK'
  <1> SUFFICES ASSUME TypeOK, NEW w \in Passes, Finish(w) PROVE TypeOK'
    OBVIOUS
  <1>1. pass[w].pc = "end"
    BY DEF Finish, Short
  <1>2. row' \in [Courses -> RowState]
    BY <1>1, AtEnd, RowWritten DEF Finish
  <1>3. PICK s \in NextRow(w) : Goes(w, s)
    BY DEF Finish
  <1> QED
    BY <1>1, <1>2, <1>3, NextRowTyped, PassStepTyped DEF Finish, TypeOK

LEMMA FinishAgainTyped == \A w \in Passes : TypeOK /\ FinishAgain(w) => TypeOK'
  <1> SUFFICES ASSUME TypeOK, NEW w \in Passes, FinishAgain(w) PROVE TypeOK'
    OBVIOUS
  <1>1. pass[w].pc = "end"
    BY DEF FinishAgain, Short
  <1>2. row' \in [Courses -> RowState]
    BY <1>1, AtEnd, RowWritten DEF FinishAgain
  <1>3. CASE pass[w].copy.ready
    <2>1. Goes(w, [pass[w] EXCEPT !.pc = "sweep"])
      BY <1>3 DEF FinishAgain
    <2>2. PassTyped([pass[w] EXCEPT !.pc = "sweep"])
      BY <1>1, AtEnd, MovedTyped
    <2> QED
      BY <1>2, <2>1, <2>2, PassStepTyped DEF FinishAgain, TypeOK
  <1>4. CASE ~pass[w].copy.ready
    <2>1. PICK s \in NextRow(w) : Goes(w, s)
      BY <1>4 DEF FinishAgain
    <2> QED
      BY <1>1, <1>2, <2>1, NextRowTyped, PassStepTyped DEF FinishAgain, TypeOK
  <1> QED
    BY <1>3, <1>4

LEMMA BeginSweepTyped == \A w \in Passes : TypeOK /\ BeginSweep(w) => TypeOK'
  <1> SUFFICES ASSUME TypeOK, NEW w \in Passes, BeginSweep(w) PROVE TypeOK'
    OBVIOUS
  <1> DEFINE c == pass[w].copy.course
             back == Rewound(pass[w].cursor)
  <1>1. pass[w].pc = "sweep"
    BY DEF BeginSweep
  <1>2. back \in Cursors /\ c \in Courses
    BY <1>1, AtEnd, RewoundCursor
  <1>3. row' = [row EXCEPT ![c] = [@ EXCEPT !.swept = TRUE, !.cursor = back]]
    BY DEF BeginSweep
  <1>4. Goes(w, [pass[w] EXCEPT !.pc = "page", !.copy = [@ EXCEPT !.cursor = back, !.swept = TRUE]])
    BY DEF BeginSweep
  <1> HIDE DEF back, c
  <1>5. row' \in [Courses -> RowState]
    BY <1>2, <1>3, RowWritten
  <1> DEFINE y == [pass[w].copy EXCEPT !.cursor = back, !.swept = TRUE]
             s == [pass[w] EXCEPT !.pc = "page", !.copy = y]
  <1>6. y \in Copies
    BY <1>1, <1>2, AtEnd, CopyMoved
  <1>7. Goes(w, s)
    <2>1. s = [pass[w] EXCEPT !.pc = "page", !.copy = [@ EXCEPT !.cursor = back, !.swept = TRUE]]
      BY <1>1, AtEnd DEF PassState
    <2> QED
      BY <1>4, <2>1
  <1> HIDE DEF y
  <1>8. PassTyped(s)
    BY <1>1, <1>6, AtEnd, MovedTyped
  <1> HIDE DEF s
  <1> QED
    BY <1>5, <1>7, <1>8, PassStepTyped DEF BeginSweep, TypeOK

LEMMA InitTyped == Init => TypeOK
  <1> SUFFICES ASSUME Init PROVE TypeOK
    OBVIOUS
  <1>1. 0 \in 0..MaxClock /\ 0 \in 0..MaxFaults /\ 0 \in 0..TxMax /\ 0 \in 0..Delay
    BY NumbersTyped
  <1>2. [st |-> "new", at |-> 0, age |-> 0, stale |-> FALSE] \in PlayState
    BY <1>1 DEF PlayState
  <1>3. [cursor |-> NoCursor, finished |-> FALSE, grace |-> 0, swept |-> FALSE, done |-> FALSE]
            \in RowState
    BY <1>1, NoCursorFields DEF RowState
  <1>4. \A w \in Passes : pass[w] = Idle
    BY DEF Init
  <1>5. \A w \in Passes : /\ pass[w].pc = "idle" /\ pass[w].page = {}
                          /\ Cardinality(pass[w].page) <= pass[w].budget
    BY <1>4, IdleTyped DEF PassTyped, Idle
  <1>6. pass \in [Passes -> PassState]
    BY IdleTyped DEF Init, PassTyped
  <1> QED
    BY <1>1, <1>2, <1>3, <1>5, <1>6 DEF Init, TypeOK

-----------------------------------------------------------------------------
(* The grace: when it is over no transaction of before the import is open. *)

LEMMA InitGrace == Init => GraceInv
  BY DEF Init, GraceInv, Idle

\* A pass writes at most its row, and starts the grace when it finishes it.
KeepsGrace ==
    \A c \in Courses : \/ row'[c].finished = row[c].finished /\ row'[c].grace = row[c].grace
                       \/ row'[c].grace = Delay
FewerOpen ==
    \A p \in Plays : Stale(play', p) /\ play'[p].st = "open"
        => Stale(play, p) /\ play[p].st = "open" /\ play'[p].age = play[p].age

LEMMA GraceStays ==
  ASSUME Clocked, KeepsGrace, FewerOpen, imported' = imported, TypeOK',
         \A w \in Passes : pass'[w].pc # "idle" => imported,
         \A c \in Courses : row'[c].finished => imported
  PROVE  GraceInv'
  <1>1. ASSUME NEW c \in Courses, row'[c].finished, NEW p \in Plays,
               Stale(play', p), play'[p].st = "open"
        PROVE  play'[p].age + row'[c].grace >= Delay
    <2>1. Stale(play, p) /\ play[p].st = "open" /\ play'[p].age = play[p].age
      BY <1>1 DEF FewerOpen
    <2>2. CASE row'[c].finished = row[c].finished /\ row'[c].grace = row[c].grace
      BY <1>1, <2>1, <2>2 DEF Clocked, GraceInv
    <2>3. CASE row'[c].grace = Delay
      BY <2>1, <2>3, PlayFields, NumbersTyped DEF Clocked, TypeOK
    <2> QED
      BY <2>2, <2>3 DEF KeepsGrace
  <1> QED
    BY <1>1 DEF GraceInv

LEMMA GoesPc ==
  ASSUME Clocked, NEW w \in Passes, NEW s, Goes(w, s),
         s.pc # "idle" => imported
  PROVE  \A v \in Passes : pass'[v].pc # "idle" => imported
  <1>1. \A v \in Passes : pass'[v] = IF v = w THEN s ELSE pass[v]
    BY DEF Goes, Clocked, TypeOK
  <1> QED
    BY <1>1 DEF Clocked, GraceInv

LEMMA RunsImported ==
  /\ Clocked => \A w \in Passes : pass[w].pc # "idle" => imported
  /\ Clocked => \A c \in Courses : row[c].finished => imported
  BY DEF Clocked, GraceInv

LEMMA TickGrace == Clocked /\ Tick => GraceInv'
  <1> SUFFICES ASSUME Clocked, Tick PROVE GraceInv'
    OBVIOUS
  <1>1. /\ \A w \in Passes : pass'[w].pc # "idle" => imported'
        /\ \A c \in Courses : row'[c].finished => imported'
    <2>1. \A c \in Courses : row'[c].finished = row[c].finished
      BY DEF Tick, Clocked, TypeOK, RowState
    <2> QED
      BY <2>1, RunsImported DEF Tick
  <1>2. ASSUME NEW c \in Courses, row'[c].finished, NEW p \in Plays,
               Stale(play', p), play'[p].st = "open"
        PROVE  play'[p].age + row'[c].grace >= Delay
    <2>1. row[c] \in RowState /\ play[p] \in PlayState
      BY DEF Clocked, TypeOK
    <2>2. play'[p] = IF play[p].st = "open" THEN [play[p] EXCEPT !.age = play[p].age + 1] ELSE play[p]
      BY DEF Tick
    <2>3. row'[c] = [row[c] EXCEPT !.grace = Less(row[c].grace, 1)]
      BY DEF Tick
    <2>4. /\ play[p].st = "open" /\ Stale(play, p) /\ play'[p].age = play[p].age + 1
      BY <1>2, <2>1, <2>2 DEF PlayState, Stale
    <2>5. row[c].finished /\ row'[c].grace = Less(row[c].grace, 1)
      BY <1>2, <2>1, <2>3 DEF RowState
    <2>6. play[p].age + row[c].grace >= Delay
      BY <2>4, <2>5 DEF Clocked, GraceInv
    <2>7. play[p].age < TxMax /\ play[p].age \in Nat /\ row[c].grace \in Nat
      BY <2>1, <2>4, RowFields, PlayFields DEF Tick, Clocked, TypeOK
    <2> QED
      BY <2>4, <2>5, <2>6, <2>7, NumbersTyped DEF Less
  <1> QED
    BY <1>1, <1>2 DEF GraceInv

LEMMA EnvGrace ==
  \A p \in Plays : Clocked /\ (BeginPlay(p) \/ CommitPlay(p) \/ RemovePlay(p)) => GraceInv'
  <1> SUFFICES ASSUME Clocked, NEW p \in Plays, BeginPlay(p) \/ CommitPlay(p) \/ RemovePlay(p)
               PROVE  GraceInv'
    OBVIOUS
  <1>1. row' = row /\ pass' = pass /\ imported' = imported
    BY DEF BeginPlay, CommitPlay, RemovePlay
  <1>2. TypeOK'
    BY BeginPlayTyped, EndPlayTyped DEF Clocked
  <1>3. imported => FewerOpen
    <2>1. \A q \in Plays : play[q] \in PlayState
      BY DEF Clocked, TypeOK
    <2>2. ASSUME imported, NEW q \in Plays, Stale(play', q), play'[q].st = "open"
          PROVE  Stale(play, q) /\ play[q].st = "open" /\ play'[q].age = play[q].age
      <3>1. CASE q # p
        <4>1. play'[q] = play[q]
          BY <3>1 DEF BeginPlay, CommitPlay, RemovePlay, Clocked, TypeOK
        <4> QED
          BY <2>2, <4>1 DEF Stale
      <3>2. CASE q = p
        <4>1. CASE BeginPlay(p)
          <5>1. play'[p].stale = FALSE
            BY <2>2, <4>1 DEF BeginPlay, Clocked, TypeOK
          <5> QED
            BY <2>2, <3>2, <5>1 DEF Stale
        <4>2. CASE CommitPlay(p) \/ RemovePlay(p)
          <5>1. play'[p].st # "open"
            BY <2>1, <4>2 DEF CommitPlay, RemovePlay, PlayState, Clocked, TypeOK
          <5> QED
            BY <2>2, <3>2, <5>1
        <4> QED
          BY <4>1, <4>2
      <3> QED
        BY <3>1, <3>2
    <2> QED
      BY <2>2 DEF FewerOpen
  <1>4. CASE imported
    BY <1>1, <1>2, <1>3, <1>4, GraceStays, RunsImported DEF KeepsGrace
  <1>5. CASE ~imported
    BY <1>1, <1>5, RunsImported DEF GraceInv
  <1> QED
    BY <1>4, <1>5

LEMMA ImportGrace == Clocked /\ Import => GraceInv'
  BY DEF Clocked, GraceInv, Import

\* A pass that changes no row.
LEMMA QuietGrace ==
  ASSUME Clocked, NEW w \in Passes, NEW s, Goes(w, s), s.pc # "idle" => imported,
         UNCHANGED <<imported, row, play>>, TypeOK'
  PROVE  GraceInv'
  <1>1. KeepsGrace /\ FewerOpen
    BY DEF KeepsGrace, FewerOpen
  <1> QED
    BY <1>1, GoesPc, GraceStays, RunsImported

LEMMA PassGrace ==
  \A w \in Passes :
     Clocked /\ (StartPass(w) \/ NextPlays(w) \/ RescoreThrows(w) \/ PageDone(w) \/ Die(w))
         => GraceInv'
  <1> SUFFICES ASSUME Clocked, NEW w \in Passes,
                      StartPass(w) \/ NextPlays(w) \/ RescoreThrows(w) \/ PageDone(w) \/ Die(w)
               PROVE  GraceInv'
    OBVIOUS
  <1>1. TypeOK'
    BY StartPassTyped, NextPlaysTyped, RescoreThrowsTyped, PageDoneTyped, DieTyped DEF Clocked
  <1>2. UNCHANGED <<imported, row, play>>
    BY DEF StartPass, NextPlays, RescoreThrows, PageDone, Die
  <1>3. imported
    BY RunsImported DEF StartPass, NextPlays, RescoreThrows, PageDone, Die
  <1>4. \E s : Goes(w, s)
    BY DEF StartPass, NextPlays, RescoreThrows, PageDone, Die, Stop
  <1> QED
    BY <1>1, <1>2, <1>3, <1>4, QuietGrace

LEMMA RescorePlayGrace == \A w \in Passes : Clocked /\ RescorePlay(w) => GraceInv'
  <1> SUFFICES ASSUME Clocked, NEW w \in Passes, RescorePlay(w) PROVE GraceInv'
    OBVIOUS
  <1>1. TypeOK' /\ imported
    BY RescorePlayTyped, RunsImported DEF RescorePlay, Clocked
  <1>2. PICK p \in pass[w].page :
          /\ play' = [play EXCEPT ![p] = [@ EXCEPT !.stale = FALSE]]
          /\ \E s : Goes(w, s)
    BY DEF RescorePlay
  <1>3. FewerOpen
    <2>1. \A q \in Plays : play[q] \in PlayState
      BY DEF Clocked, TypeOK
    <2>2. \A q \in Plays : play'[q] = IF q = p THEN [play[q] EXCEPT !.stale = FALSE] ELSE play[q]
      BY <1>2 DEF Clocked, TypeOK
    <2> QED
      BY <2>1, <2>2 DEF FewerOpen, Stale, PlayState
  <1>4. KeepsGrace /\ UNCHANGED <<imported, row>>
    BY DEF KeepsGrace, RescorePlay
  <1> QED
    BY <1>1, <1>2, <1>3, <1>4, GoesPc, GraceStays, RunsImported

\* How the end of a page writes the row.
LEMMA AdvanceRow ==
  ASSUME TypeOK, NEW c \in Courses, NEW k, NEW done, Advance(c, k, done)
  PROVE  /\ \A d \in Courses : d # c => row'[d] = row[d]
         /\ row'[c].cursor = k /\ row'[c].done = done /\ row'[c].finished = row[c].finished
         /\ row'[c].grace = row[c].grace /\ row'[c].swept = row[c].swept
  <1>1. row[c] \in RowState
    BY DEF TypeOK
  <1>2. \A d \in Courses : row'[d] = IF d = c THEN [row[c] EXCEPT !.cursor = k, !.done = done]
                                     ELSE row[d]
    BY DEF TypeOK, Advance
  <1> QED
    BY <1>1, <1>2 DEF RowState

LEMMA FinishRow ==
  ASSUME TypeOK, NEW c \in Courses, NEW k, MarkFinished(c, k)
  PROVE  /\ \A d \in Courses : d # c => row'[d] = row[d]
         /\ row'[c].cursor = k /\ row'[c].done = row[c].done /\ row'[c].finished = TRUE
         /\ row'[c].grace = (IF row[c].finished THEN row[c].grace ELSE Delay)
         /\ row'[c].swept = row[c].swept
  <1>1. row[c] \in RowState
    BY DEF TypeOK
  <1>2. \A d \in Courses :
          row'[d] = IF d = c THEN [row[c] EXCEPT !.cursor = k, !.finished = TRUE,
                                       !.grace = IF row[c].finished THEN row[c].grace ELSE Delay]
                    ELSE row[d]
    BY DEF TypeOK, MarkFinished
  <1> QED
    BY <1>1, <1>2 DEF RowState

Sweeps(c, k) == row' = [row EXCEPT ![c] = [@ EXCEPT !.swept = TRUE, !.cursor = k]]

LEMMA SweepRow ==
  ASSUME TypeOK, NEW c \in Courses, NEW k, Sweeps(c, k)
  PROVE  /\ \A d \in Courses : d # c => row'[d] = row[d]
         /\ row'[c].cursor = k /\ row'[c].done = row[c].done
         /\ row'[c].finished = row[c].finished
         /\ row'[c].grace = row[c].grace /\ row'[c].swept = TRUE
  <1>1. row[c] \in RowState
    BY DEF TypeOK
  <1>2. \A d \in Courses : row'[d] = IF d = c THEN [row[c] EXCEPT !.swept = TRUE, !.cursor = k]
                                     ELSE row[d]
    BY DEF TypeOK, Sweeps
  <1> QED
    BY <1>1, <1>2 DEF RowState

LEMMA EndGrace ==
  \A w \in Passes :
     Clocked /\ (AdvancePage(w) \/ Close(w) \/ Finish(w) \/ FinishAgain(w) \/ BeginSweep(w))
         => GraceInv'
  <1> SUFFICES ASSUME Clocked, NEW w \in Passes,
                  AdvancePage(w) \/ Close(w) \/ Finish(w) \/ FinishAgain(w) \/ BeginSweep(w)
               PROVE  GraceInv'
    OBVIOUS
  <1> DEFINE c == pass[w].copy.course
  <1>1. TypeOK'
    BY AdvancePageTyped, CloseTyped, FinishTyped, FinishAgainTyped, BeginSweepTyped DEF Clocked
  <1>2. imported /\ UNCHANGED <<imported, play>> /\ pass[w].pc \in {"end", "sweep"}
    BY RunsImported DEF AdvancePage, Close, Finish, FinishAgain, BeginSweep, Short
  <1>3. \E s : Goes(w, s)
    BY DEF AdvancePage, Close, Finish, FinishAgain, BeginSweep
  <1>4. c \in Courses
    BY <1>2, AtEnd DEF Clocked
  <1>5. \/ \E k, done : Advance(c, k, done)
        \/ \E k : MarkFinished(c, k)
        \/ \E k : Sweeps(c, k)
    BY DEF AdvancePage, Close, Finish, FinishAgain, BeginSweep, Sweeps
  <1> HIDE DEF c
  <1>6. KeepsGrace
    <2>1. CASE \E k, done : Advance(c, k, done)
      BY <1>4, <2>1, AdvanceRow DEF KeepsGrace, Clocked
    <2>2. CASE \E k : MarkFinished(c, k)
      BY <1>4, <2>2, FinishRow DEF KeepsGrace, Clocked
    <2>3. CASE \E k : Sweeps(c, k)
      BY <1>4, <2>3, SweepRow DEF KeepsGrace, Clocked
    <2> QED
      BY <1>5, <2>1, <2>2, <2>3
  <1>7. FewerOpen
    BY <1>2 DEF FewerOpen
  <1> QED
    BY <1>1, <1>2, <1>3, <1>6, <1>7, GoesPc, GraceStays

\* For any number of passes.
LEMMA ClockedStep == Clocked /\ [Next]_vars => Clocked'
  <1> SUFFICES ASSUME Clocked, [Next]_vars PROVE Clocked'
    OBVIOUS
  <1> USE DEF Clocked
  <1>1. CASE Tick
    BY <1>1, TickTyped, TickGrace
  <1>2. CASE Import
    BY <1>2, ImportTyped, ImportGrace
  <1>3. CASE \E p \in Plays : BeginPlay(p) \/ CommitPlay(p) \/ RemovePlay(p)
    BY <1>3, BeginPlayTyped, EndPlayTyped, EnvGrace
  <1>4. CASE \E w \in Passes : StartPass(w) \/ NextPlays(w) \/ RescoreThrows(w)
                                  \/ PageDone(w) \/ Die(w)
    BY <1>4, StartPassTyped, NextPlaysTyped, RescoreThrowsTyped, PageDoneTyped, DieTyped, PassGrace
  <1>5. CASE \E w \in Passes : RescorePlay(w)
    BY <1>5, RescorePlayTyped, RescorePlayGrace
  <1>6. CASE \E w \in Passes : AdvancePage(w) \/ Close(w) \/ Finish(w) \/ FinishAgain(w)
                                  \/ BeginSweep(w)
    BY <1>6, AdvancePageTyped, CloseTyped, FinishTyped, FinishAgainTyped, BeginSweepTyped,
       EndGrace
  <1>7. CASE UNCHANGED vars
    <2>1. TypeOK'
      BY <1>7, EnvTyped DEF vars, TypeOK
    <2>2. GraceInv'
      BY <1>7 DEF vars, GraceInv, Stale
    <2> QED
      BY <2>1, <2>2
  <1> QED
    BY <1>1, <1>2, <1>3, <1>4, <1>5, <1>6, <1>7 DEF Next, Step

-----------------------------------------------------------------------------
(* From here on passes do not overlap.  First what intake, time and the    *)
(* import leave as it is.                                                  *)

LEMMA InitPassInv == Init => PassInv
  <1> SUFFICES ASSUME Init PROVE PassInv
    OBVIOUS
  <1>1. ASSUME NEW c \in Courses PROVE RowOK(play, c, row[c])
    <2>1. row[c].cursor = NoCursor /\ ~row[c].swept /\ ~row[c].done
      BY DEF Init
    <2> QED
      BY <2>1, NoCursorFields DEF RowOK, Reached
  <1>2. \A w \in Passes : pass[w].pc = "idle"
    BY DEF Init, Idle
  <1> QED
    BY <1>1, <1>2 DEF PassInv, CopyOK, PageOK

LikeRow(r, t) == /\ t.cursor = r.cursor /\ t.finished = r.finished /\ t.swept = r.swept
                 /\ t.done = r.done
                 /\ r.grace = 0 => t.grace = 0

LEMMA CopyStays ==
  ASSUME NEW rows, NEW rows1, NEW s, PassTyped(s), CopyOK(rows, s),
         \A c \in Courses : LikeRow(rows[c], rows1[c])
  PROVE  CopyOK(rows1, s)
  <1> SUFFICES ASSUME s.pc # "idle" PROVE CopyOK(rows1, s)
    BY DEF CopyOK
  <1>1. s.copy.course \in Courses /\ \A y \in s.todo : y.course \in Courses
    BY PassFields DEF Copies
  <1>2. /\ LikeRow(rows[s.copy.course], rows1[s.copy.course])
        /\ \A y \in s.todo : LikeRow(rows[y.course], rows1[y.course])
    BY <1>1
  <1> QED
    BY <1>2 DEF CopyOK, LikeRow, Like

LEMMA EnvPassInv ==
  ASSUME Clocked, PassInv, pass' = pass, Evolves(play, play'),
         imported => NoMoreStale(play, play'),
         \A c \in Courses : LikeRow(row[c], row'[c])
  PROVE  PassInv'
  <1>1. ASSUME NEW c \in Courses PROVE RowOK(play', c, row'[c])
    <2>1. RowOK(play, c, row[c]) /\ LikeRow(row[c], row'[c])
      BY DEF PassInv
    <2>2. row[c].finished => NoMoreStale(play, play')
      BY RunsImported
    <2> QED
      BY <2>1, <2>2, RowStays DEF LikeRow
  <1>2. ASSUME NEW w \in Passes PROVE CopyOK(row', pass[w])
    BY CopyStays, TypedPasses DEF PassInv, Clocked
  <1>3. ASSUME NEW w \in Passes PROVE PageOK(play', pass[w])
    <2>1. CASE pass[w].pc = "idle"
      BY <2>1 DEF PageOK
    <2>2. CASE pass[w].pc # "idle"
      <3>1. NoMoreStale(play, play')
        BY <2>2, RunsImported
      <3>2. pass[w].page \subseteq Plays
        BY TypedPasses, PassFields DEF Clocked
      <3> QED
        BY <3>1, <3>2, PageStays DEF PassInv
    <2> QED
      BY <2>1, <2>2
  <1> QED
    BY <1>1, <1>2, <1>3 DEF PassInv

LEMMA TickPassInv == Clocked /\ PassInv /\ Tick => PassInv'
  <1> SUFFICES ASSUME Clocked, PassInv, Tick PROVE PassInv'
    OBVIOUS
  <1>1. ASSUME NEW p \in Plays
        PROVE  /\ play'[p].st = play[p].st /\ play'[p].at = play[p].at
               /\ play'[p].stale = play[p].stale
    <2>1. play[p] \in PlayState
      BY DEF Clocked, TypeOK
    <2>2. play'[p] = IF play[p].st = "open" THEN [play[p] EXCEPT !.age = play[p].age + 1] ELSE play[p]
      BY DEF Tick
    <2> QED
      BY <2>1, <2>2 DEF PlayState
  <1>2. Evolves(play, play') /\ NoMoreStale(play, play')
    BY <1>1 DEF Evolves, NoMoreStale, Stale
  <1>3. ASSUME NEW c \in Courses PROVE LikeRow(row[c], row'[c])
    <2>1. row[c] \in RowState
      BY DEF Clocked, TypeOK
    <2>2. row'[c] = [row[c] EXCEPT !.grace = Less(row[c].grace, 1)]
      BY DEF Tick
    <2>3. row[c].grace = 0 => Less(row[c].grace, 1) = 0
      BY DEF Less
    <2> QED
      BY <2>1, <2>2, <2>3 DEF RowState, LikeRow
  <1> QED
    BY <1>2, <1>3, EnvPassInv DEF Tick

LEMMA ImportPassInv == Clocked /\ PassInv /\ Import => PassInv'
  BY DEF PassInv, Import

LEMMA PlayPassInv ==
  \A p \in Plays :
     Clocked /\ PassInv /\ (BeginPlay(p) \/ CommitPlay(p) \/ RemovePlay(p)) => PassInv'
  <1> SUFFICES ASSUME Clocked, PassInv, NEW p \in Plays,
                      BeginPlay(p) \/ CommitPlay(p) \/ RemovePlay(p)
               PROVE  PassInv'
    OBVIOUS
  <1>1. row' = row /\ pass' = pass /\ imported' = imported
    BY DEF BeginPlay, CommitPlay, RemovePlay
  <1>2. \A q \in Plays : q # p => play'[q] = play[q]
    BY DEF BeginPlay, CommitPlay, RemovePlay, Clocked, TypeOK
  <1>3. CASE BeginPlay(p)
    <2>1. play[p].st = "new" /\ (imported => play'[p].stale = FALSE)
      BY <1>3 DEF BeginPlay, Clocked, TypeOK
    <2>2. Evolves(play, play') /\ (imported => NoMoreStale(play, play'))
      BY <1>2, <2>1 DEF Evolves, NoMoreStale, Stale
    <2> QED
      BY <1>1, <2>2, EnvPassInv DEF LikeRow
  <1>4. CASE CommitPlay(p) \/ RemovePlay(p)
    <2>1. /\ play[p].st \in {"open", "in"} /\ play'[p].st \in {"in", "gone"}
          /\ play'[p].at = play[p].at /\ play'[p].stale = play[p].stale
      <3>1. play[p] \in PlayState
        BY DEF Clocked, TypeOK
      <3>2. play[p].st \in {"open", "in"}
        BY <1>4 DEF CommitPlay, RemovePlay
      <3>3. PICK st \in {"in", "gone"} : play'[p] = [play[p] EXCEPT !.st = st, !.age = 0]
        BY <1>4 DEF CommitPlay, RemovePlay, Clocked, TypeOK
      <3> QED
        BY <3>1, <3>2, <3>3 DEF PlayState
    <2>2. Evolves(play, play') /\ NoMoreStale(play, play')
      BY <1>2, <2>1 DEF Evolves, NoMoreStale, Stale
    <2> QED
      BY <1>1, <2>2, EnvPassInv DEF LikeRow
  <1> QED
    BY <1>3, <1>4

-----------------------------------------------------------------------------
(* The steps of the pass. *)

\* What the only pass does is what becomes of all of them.
LEMMA OnlyPass ==
  ASSUME OnePass, TypeOK, NEW w \in Passes, NEW s, Goes(w, s),
         CopyOK(row', s), PageOK(play', s),
         \A c \in Courses : RowOK(play', c, row'[c])
  PROVE  PassInv'
  <1>1. \A v \in Passes : pass'[v] = s
    BY DEF OnePass, Goes, TypeOK
  <1> QED
    BY <1>1 DEF PassInv

LEMMA IdleOK == \A rows, ps : CopyOK(rows, Idle) /\ PageOK(ps, Idle)
  BY DEF CopyOK, PageOK, Idle

LEMMA StartPassOK ==
  ASSUME OnePass, Clocked, PassInv, NEW w \in Passes, StartPass(w)
  PROVE  PassInv'
  <1> DEFINE copies == {Copy(c) : c \in OpenRows}
  <1>1. PICK r \in First(copies) :
          Goes(w, [Idle EXCEPT !.pc = "page", !.copy = r, !.todo = copies \ {r},
                               !.budget = Budget])
    BY DEF StartPass
  <1>2. ASSUME NEW y \in copies
        PROVE  /\ y.course \in Courses /\ Like(y, row[y.course])
               /\ y.cursor = row[y.course].cursor /\ y = Copy(y.course)
    <2>1. PICK d \in Courses : ~row[d].done /\ y = Copy(d)
      BY DEF OpenRows
    <2>2. /\ y.course = d /\ y.cursor = row[d].cursor /\ y.finished = row[d].finished
          /\ y.swept = row[d].swept /\ y.ready = (row[d].finished /\ row[d].grace = 0)
      BY <2>1 DEF Copy
    <2> QED
      BY <2>1, <2>2 DEF Like
  <1>3. r \in copies
    BY FirstIn
  <1> HIDE DEF copies
  <1> DEFINE s == [Idle EXCEPT !.pc = "page", !.copy = r, !.todo = copies \ {r},
                               !.budget = Budget]
  <1>4. s.pc = "page" /\ s.copy = r /\ s.todo = copies \ {r}
    BY DEF Idle
  <1>5. Goes(w, s)
    BY <1>1
  <1> HIDE DEF s
  <1>6. CopyOK(row, s)
    <2>1. \A y \in s.todo : y.course # s.copy.course
      BY <1>2, <1>3, <1>4
    <2>2. \A y, z \in s.todo : z.course = y.course => z = y
      BY <1>2, <1>4
    <2> QED
      BY <1>2, <1>3, <1>4, <2>1, <2>2 DEF CopyOK
  <1>7. PageOK(play, s)
    BY <1>4 DEF PageOK
  <1>8. row' = row /\ play' = play
    BY DEF StartPass
  <1> QED
    BY <1>5, <1>6, <1>7, <1>8, OnlyPass DEF PassInv, Clocked

\* In a sweep no transaction of before the import is open.
LEMMA SweptIn ==
  ASSUME Clocked, NEW c \in Courses, RowOK(play, c, row[c]), row[c].swept,
         NEW p \in Plays, Stale(play, p)
  PROVE  play[p].st = "in"
  <1>1. row[c].finished /\ row[c].grace = 0
    BY DEF RowOK
  <1>2. play[p].age \in 0..TxMax
    BY PlayFields DEF Clocked, TypeOK
  <1>3. play[p].st = "open" => play[p].age + 0 >= Delay
    BY <1>1 DEF Clocked, GraceInv
  <1>4. play[p].st # "open"
    BY <1>2, <1>3, NumbersTyped
  <1> QED
    BY <1>4 DEF Stale

LEMMA NextPlaysOK ==
  ASSUME OnePass, Clocked, PassInv, NEW w \in Passes, NextPlays(w)
  PROVE  PassInv'
  <1>1. row' = row /\ play' = play /\ TypeOK
    BY DEF NextPlays, Clocked
  <1>2. PassTyped(pass[w]) /\ pass[w].pc = "page"
    BY TypedPasses DEF NextPlays, Clocked
  <1>3. CASE Goes(w, Idle)
    BY <1>1, <1>3, IdleOK, OnlyPass DEF PassInv
  <1>4. CASE ~Goes(w, Idle)
    <2> DEFINE c == pass[w].copy.course
               k == pass[w].copy.cursor
               requested == Min2(pass[w].budget, PageMax)
               all == PlaysAfter(c, k)
               full == Cardinality(all) >= requested
    <2>1. PICK page \in SUBSET all :
            /\ IF full THEN /\ Cardinality(page) = requested
                            /\ \A p \in page, q \in all \ page : After(Key(q), Key(p))
                       ELSE page = all
            /\ Goes(w, [pass[w] EXCEPT !.pc = "play", !.cursor = k,
                                       !.page = page, !.full = full, !.failed = FALSE])
      BY <1>4 DEF NextPlays
    <2> DEFINE s == [pass[w] EXCEPT !.pc = "play", !.cursor = k,
                                    !.page = page, !.full = full, !.failed = FALSE]
    <2> HIDE DEF full
    <2>2. /\ s.pc = "play" /\ s.cursor = k /\ s.page = page /\ s.full = full
          /\ s.copy = pass[w].copy /\ s.todo = pass[w].todo
      <3>1. pass[w] \in PassState
        BY <1>2, PassFields
      <3> QED
        BY <3>1 DEF PassState
    <2>3. Goes(w, s)
      BY <2>1
    <2> HIDE DEF s
    <2>4. CopyOK(row, pass[w]) /\ k = row[c].cursor /\ Like(pass[w].copy, row[c])
      BY <1>2 DEF PassInv, CopyOK
    <2>5. CopyOK(row, s)
      BY <1>2, <2>2, <2>4 DEF CopyOK
    <2>6. c \in Courses /\ RowOK(play, c, row[c])
      BY <1>2, PassFields DEF PassInv
    <2>7. \A p \in all : /\ p \in Plays /\ CourseOf[p] = c /\ play[p].st = "in"
                         /\ After(KeyOf(play, p), k)
      BY DEF PlaysAfter, Key, KeyOf
    <2>8. \A p \in Plays : CourseOf[p] = c /\ play[p].st = "in" /\ After(KeyOf(play, p), k)
                             => p \in all
      BY <2>4 DEF PlaysAfter, Key, KeyOf, Like
    <2> HIDE DEF all
    <2>9. PageOK(play, s)
      <3>1. Reached(play, c, k)
        BY <2>4, <2>6 DEF RowOK
      <3>2. \A p \in page : /\ CourseOf[p] = c /\ play[p].st # "new"
                            /\ After(KeyOf(play, p), k)
        BY <2>7
      <3>3. ASSUME pass[w].copy.swept
            PROVE  /\ Passed(play, c, k)
                   /\ \A q \in Plays :
                        CourseOf[q] = c /\ Stale(play, q) /\ After(KeyOf(play, q), k)
                            => \/ q \in page
                               \/ /\ full
                                  /\ \A p \in page : After(KeyOf(play, q), KeyOf(play, p))
        <4>1. row[c].swept
          BY <2>4, <3>3 DEF Like
        <4>2. Passed(play, c, k)
          BY <2>4, <2>6, <4>1 DEF RowOK
        <4>3. ASSUME NEW q \in Plays, CourseOf[q] = c, Stale(play, q), After(KeyOf(play, q), k),
                     q \notin page
              PROVE  full /\ \A p \in page : After(KeyOf(play, q), KeyOf(play, p))
          <5>1. play[q].st = "in"
            BY <2>6, <4>1, <4>3, SweptIn
          <5>2. q \in all \ page
            BY <2>8, <4>3, <5>1
          <5>3. full
            BY <2>1, <5>2
          <5>4. \A p \in page : After(Key(q), Key(p))
            BY <2>1, <5>2, <5>3
          <5> QED
            BY <5>3, <5>4 DEF Key, KeyOf
        <4> QED
          BY <4>2, <4>3
      <3> QED
        BY <2>2, <3>1, <3>2, <3>3 DEF PageOK
    <2> QED
      BY <1>1, <2>3, <2>5, <2>9, OnlyPass DEF PassInv
  <1> QED
    BY <1>3, <1>4

LEMMA RescorePlayOK ==
  ASSUME OnePass, Clocked, PassInv, NEW w \in Passes, RescorePlay(w)
  PROVE  PassInv'
  <1> DEFINE c == pass[w].copy.course
  <1>1. PICK p \in pass[w].page :
          /\ IsNext(w, p) /\ Bound(w, p)
          /\ play' = [play EXCEPT ![p] = [@ EXCEPT !.stale = FALSE]]
          /\ Goes(w, [pass[w] EXCEPT !.cursor = Key(p), !.budget = @ - 1, !.page = @ \ {p}])
    BY DEF RescorePlay
  <1>2. /\ PassTyped(pass[w]) /\ pass[w].pc = "play" /\ pass[w].page \subseteq Plays
        /\ p \in Plays /\ row' = row /\ c \in Courses
    BY TypedPasses, PassFields DEF RescorePlay, Clocked
  <1>3. /\ \A q \in Plays : q # p => play'[q] = play[q]
        /\ play'[p].st = play[p].st /\ play'[p].at = play[p].at /\ play'[p].stale = FALSE
        /\ play[p].st = "in"
    <2>1. play[p] \in PlayState
      BY <1>2 DEF Clocked, TypeOK
    <2>2. play[p].st = "in"
      BY <1>1 DEF Bound
    <2>3. play'[p] = [play[p] EXCEPT !.stale = FALSE]
      BY <1>1, <1>2 DEF Clocked, TypeOK
    <2> QED
      BY <1>1, <2>1, <2>2, <2>3 DEF PlayState, Clocked, TypeOK
  <1>4. /\ Evolves(play, play') /\ NoMoreStale(play, play')
    BY <1>3 DEF Evolves, NoMoreStale, Stale
  <1>5. \A q \in Plays : KeyOf(play', q) = KeyOf(play, q)
    BY <1>3 DEF KeyOf
  <1> DEFINE s == [pass[w] EXCEPT !.cursor = Key(p), !.budget = @ - 1, !.page = @ \ {p}]
  <1>6. /\ s.pc = "play" /\ s.cursor = KeyOf(play, p) /\ s.page = pass[w].page \ {p}
        /\ s.full = pass[w].full /\ s.failed = pass[w].failed
        /\ s.copy = pass[w].copy /\ s.todo = pass[w].todo
    <2>1. pass[w] \in PassState
      BY <1>2, PassFields
    <2> QED
      BY <1>2, <2>1 DEF PassState, Key, KeyOf
  <1>7. Goes(w, s)
    BY <1>1
  <1> HIDE DEF s
  <1>8. CopyOK(row, s)
    BY <1>2, <1>6 DEF CopyOK, PassInv
  <1>9. \A d \in Courses : RowOK(play', d, row[d])
    BY <1>4, RowStays DEF PassInv
  <1>10. PageOK(play, pass[w])
    BY DEF PassInv
  <1>11. PageOK(play', s)
    <2>1. \A q \in pass[w].page : /\ CourseOf[q] = c /\ play[q].st # "new"
                                  /\ After(KeyOf(play, q), pass[w].cursor)
      BY <1>2, <1>10 DEF PageOK
    <2>2. \A q \in pass[w].page \ {p} : After(KeyOf(play, q), KeyOf(play, p))
      BY <1>1 DEF IsNext, Key, KeyOf
    <2>3. Reached(play', c, s.cursor)
      <3>1. s.cursor[1] = play[p].at /\ play[p].at \in Nat
        BY <1>2, <1>6, PlayFields DEF KeyOf, Clocked, TypeOK
      <3>2. play[p].at >= s.cursor[1]
        BY <3>1
      <3> QED
        BY <1>2, <1>3, <2>1, <3>2 DEF Reached
    <2>4. \A q \in s.page : /\ CourseOf[q] = c /\ play'[q].st # "new"
                            /\ After(KeyOf(play', q), s.cursor)
      BY <1>2, <1>3, <1>5, <1>6, <2>1, <2>2
    <2>5. ASSUME pass[w].copy.swept, NEW q \in Plays, CourseOf[q] = c, Stale(play', q)
          PROVE  /\ ~After(KeyOf(play', q), s.cursor) => IsOvertaken(play', q)
                 /\ After(KeyOf(play', q), s.cursor)
                      => \/ q \in s.page
                         \/ /\ s.full \/ s.failed
                            /\ \A r \in s.page : After(KeyOf(play', q), KeyOf(play', r))
      <3>1. q # p /\ Stale(play, q) /\ play[q].st # "new"
        BY <1>3, <1>4, <2>5 DEF Stale, NoMoreStale
      <3>2. KeyOf(play, p) \in Cursors /\ KeyOf(play, q) \in Cursors /\ pass[w].cursor \in Cursors
        BY <1>2, KeyFields, PassFields DEF Clocked, TypeOK
      <3>3. CASE ~After(KeyOf(play, q), pass[w].cursor)
        <4>1. IsOvertaken(play, q)
          BY <1>2, <1>10, <2>5, <3>1, <3>3 DEF PageOK, Passed
        <4>2. IsOvertaken(play', q)
          BY <1>4, <3>1, <4>1, OvertakenStays
        <4>3. ~After(KeyOf(play, q), KeyOf(play, p))
          BY <2>1, <3>2, <3>3, AfterTrans
        <4> QED
          BY <1>5, <1>6, <4>2, <4>3
      <3>4. CASE After(KeyOf(play, q), pass[w].cursor)
        <4>1. \/ q \in pass[w].page
              \/ /\ pass[w].full \/ pass[w].failed
                 /\ \A r \in pass[w].page : After(KeyOf(play, q), KeyOf(play, r))
          BY <1>2, <1>10, <2>5, <3>1, <3>4 DEF PageOK
        <4>2. After(KeyOf(play, q), KeyOf(play, p))
          BY <2>2, <3>1, <4>1
        <4> QED
          BY <1>2, <1>5, <1>6, <3>1, <4>1, <4>2
      <3> QED
        BY <3>3, <3>4
    <2> QED
      BY <1>6, <2>3, <2>4, <2>5 DEF PageOK, Passed
  <1> QED
    BY <1>2, <1>7, <1>8, <1>9, <1>11, OnlyPass DEF Clocked

\* A page that ends: early, or with nothing left of it.
LEMMA PageEndOK ==
  ASSUME OnePass, Clocked, PassInv, NEW w \in Passes, RescoreThrows(w) \/ PageDone(w)
  PROVE  PassInv'
  <1>1. /\ PassTyped(pass[w]) /\ pass[w].pc = "play" /\ row' = row /\ play' = play
        /\ pass[w] \in PassState
    BY TypedPasses, PassFields DEF RescoreThrows, PageDone, Clocked
  <1>2. PICK s : /\ Goes(w, s) /\ s.pc = "end" /\ s.cursor = pass[w].cursor /\ s.page = {}
                 /\ s.copy = pass[w].copy /\ s.todo = pass[w].todo
                 /\ s.failed \/ (s.full = pass[w].full /\ s.failed = pass[w].failed /\ pass[w].page = {})
    <2>1. CASE RescoreThrows(w)
      <3> DEFINE s == [pass[w] EXCEPT !.pc = "end", !.failed = TRUE, !.page = {}]
      <3>1. Goes(w, s)
        BY <2>1 DEF RescoreThrows, Stop
      <3>2. /\ s.pc = "end" /\ s.cursor = pass[w].cursor /\ s.page = {}
            /\ s.copy = pass[w].copy /\ s.todo = pass[w].todo /\ s.failed
        BY <1>1 DEF PassState
      <3> QED
        BY <3>1, <3>2
    <2>2. CASE PageDone(w)
      <3> DEFINE s == [pass[w] EXCEPT !.pc = "end"]
      <3>1. Goes(w, s) /\ pass[w].page = {}
        BY <2>2 DEF PageDone
      <3>2. /\ s.pc = "end" /\ s.cursor = pass[w].cursor /\ s.page = pass[w].page
            /\ s.copy = pass[w].copy /\ s.todo = pass[w].todo
            /\ s.full = pass[w].full /\ s.failed = pass[w].failed
        BY <1>1 DEF PassState
      <3> QED
        BY <3>1, <3>2
    <2> QED
      BY <2>1, <2>2
  <1>3. CopyOK(row, s)
    BY <1>1, <1>2 DEF CopyOK, PassInv
  <1>4. PageOK(play, s)
    <2>1. PageOK(play, pass[w])
      BY DEF PassInv
    <2>2. ASSUME s.copy.swept, NEW q \in Plays, CourseOf[q] = s.copy.course, Stale(play, q),
                 After(KeyOf(play, q), s.cursor)
          PROVE  s.full \/ s.failed
      BY <1>1, <1>2, <2>1, <2>2 DEF PageOK
    <2> QED
      BY <1>1, <1>2, <2>1, <2>2 DEF PageOK
  <1> QED
    BY <1>1, <1>2, <1>3, <1>4, OnlyPass DEF PassInv, Clocked

\* A row written at the end leaves the others, and what the pass goes on to.
LEMMA OthersStay ==
  ASSUME PassInv, play' = play, NEW c \in Courses,
         \A d \in Courses : d # c => row'[d] = row[d],
         RowOK(play, c, row'[c])
  PROVE  \A d \in Courses : RowOK(play', d, row'[d])
  BY DEF PassInv

LEMMA NextRowOK ==
  ASSUME TypeOK, NEW w \in Passes, CopyOK(row, pass[w]), pass[w].pc = "end",
         \A d \in Courses : d # pass[w].copy.course => row'[d] = row[d],
         NEW s \in NextRow(w)
  PROVE  CopyOK(row', s) /\ PageOK(play', s)
  <1>1. PassTyped(pass[w]) /\ pass[w] \in PassState /\ pass[w].todo \subseteq Copies
    BY TypedPasses, PassFields
  <1>2. CASE pass[w].todo = {}
    BY <1>2, IdleOK DEF NextRow
  <1>3. CASE pass[w].todo # {}
    <2>1. PICK r \in pass[w].todo : s = GoesOn(w, r)
      BY <1>3, FirstIn DEF NextRow
    <2>2. s.pc = "page" /\ s.copy = r /\ s.todo = pass[w].todo \ {r}
      BY <1>1, <2>1 DEF GoesOn, PassState
    <2>3. \A y \in pass[w].todo :
             /\ Like(y, row[y.course]) /\ y.cursor = row[y.course].cursor
             /\ y.course # pass[w].copy.course
             /\ \A z \in pass[w].todo : z.course = y.course => z = y
      BY DEF CopyOK
    <2>4. \A y \in pass[w].todo : row'[y.course] = row[y.course]
      <3>1. \A y \in pass[w].todo : y.course \in Courses
        BY <1>1 DEF Copies
      <3> QED
        BY <2>3, <3>1
    <2>5. CopyOK(row', s)
      BY <2>1, <2>2, <2>3, <2>4 DEF CopyOK
    <2> QED
      BY <2>2, <2>5 DEF PageOK
  <1> QED
    BY <1>2, <1>3

\* What a pass at the end of a page knows of its row.
LEMMA EndKnows ==
  ASSUME Clocked, PassInv, NEW w \in Passes, pass[w].pc = "end"
  PROVE  LET c == pass[w].copy.course
             k == pass[w].cursor
         IN  /\ TypeOK /\ c \in Courses /\ pass[w] \in PassState
             /\ CopyOK(row, pass[w]) /\ RowOK(play, c, row[c])
             /\ Like(pass[w].copy, row[c]) /\ Reached(play, c, k)
             /\ \A y \in pass[w].todo : /\ Like(y, row[y.course])
                                        /\ y.cursor = row[y.course].cursor
                                        /\ y.course # c /\ y.course \in Courses
                                        /\ \A z \in pass[w].todo : z.course = y.course => z = y
             /\ row[c].swept => /\ Passed(play, c, k)
                                /\ ~pass[w].full /\ ~pass[w].failed =>
                                      \A p \in Plays : CourseOf[p] = c /\ Stale(play, p)
                                                          => IsOvertaken(play, p)
  <1> DEFINE c == pass[w].copy.course
             k == pass[w].cursor
  <1>1. /\ TypeOK /\ c \in Courses /\ pass[w] \in PassState /\ pass[w].page = {}
        /\ pass[w].todo \subseteq Copies
    BY AtEnd, PassFields DEF Clocked
  <1>2. CopyOK(row, pass[w]) /\ RowOK(play, c, row[c]) /\ PageOK(play, pass[w])
    BY <1>1 DEF PassInv
  <1>3. /\ Like(pass[w].copy, row[c])
        /\ \A y \in pass[w].todo : /\ Like(y, row[y.course])
                                   /\ y.cursor = row[y.course].cursor
                                   /\ y.course # c
                                   /\ \A z \in pass[w].todo : z.course = y.course => z = y
    BY <1>2 DEF CopyOK
  <1>4. \A y \in pass[w].todo : y.course \in Courses
    BY <1>1 DEF Copies
  <1>5. Reached(play, c, k)
    BY <1>2 DEF PageOK
  <1>6. ASSUME row[c].swept
        PROVE  /\ Passed(play, c, k)
               /\ ~pass[w].full /\ ~pass[w].failed =>
                     \A p \in Plays : CourseOf[p] = c /\ Stale(play, p) => IsOvertaken(play, p)
    <2>1. pass[w].copy.swept
      BY <1>3, <1>6 DEF Like
    <2>2. Passed(play, c, k)
      BY <1>2, <2>1 DEF PageOK
    <2>3. ASSUME ~pass[w].full, ~pass[w].failed, NEW p \in Plays, CourseOf[p] = c, Stale(play, p)
          PROVE  IsOvertaken(play, p)
      <3>1. ~After(KeyOf(play, p), k)
        BY <1>1, <1>2, <2>1, <2>3 DEF PageOK
      <3> QED
        BY <2>2, <2>3, <3>1 DEF Passed
    <2> QED
      BY <2>2, <2>3
  <1> QED
    BY <1>1, <1>2, <1>3, <1>4, <1>5, <1>6

\* The rows of the copies still to come are left alone.
LEMMA TodoStays ==
  ASSUME NEW T, NEW c, NEW rows, NEW news,
         \A d \in Courses : d # c => news[d] = rows[d],
         \A y \in T : /\ Like(y, rows[y.course]) /\ y.cursor = rows[y.course].cursor
                      /\ y.course # c /\ y.course \in Courses
                      /\ \A z \in T : z.course = y.course => z = y
  PROVE  \A y \in T : /\ Like(y, news[y.course]) /\ y.cursor = news[y.course].cursor
                      /\ y.course # c
                      /\ \A z \in T : z.course = y.course => z = y
  <1>1. \A y \in T : news[y.course] = rows[y.course]
    OBVIOUS
  <1> QED
    BY <1>1

LEMMA AdvancePageOK ==
  ASSUME OnePass, Clocked, PassInv, NEW w \in Passes, AdvancePage(w)
  PROVE  PassInv'
  <1> DEFINE c == pass[w].copy.course
             k == pass[w].cursor
  <1>1. pass[w].pc = "end" /\ play' = play /\ Advance(c, k, FALSE)
    BY DEF AdvancePage
  <1>2. /\ TypeOK /\ c \in Courses /\ pass[w] \in PassState
        /\ RowOK(play, c, row[c]) /\ Like(pass[w].copy, row[c]) /\ Reached(play, c, k)
        /\ row[c].swept => Passed(play, c, k)
    BY <1>1, EndKnows
  <1>3. \A y \in pass[w].todo : /\ Like(y, row[y.course])
                                /\ y.cursor = row[y.course].cursor
                                /\ y.course # c /\ y.course \in Courses
                                /\ \A z \in pass[w].todo : z.course = y.course => z = y
    BY <1>1, EndKnows
  <1>4. /\ \A d \in Courses : d # c => row'[d] = row[d]
        /\ row'[c].cursor = k /\ row'[c].done = FALSE /\ row'[c].finished = row[c].finished
        /\ row'[c].grace = row[c].grace /\ row'[c].swept = row[c].swept
    BY <1>1, <1>2, AdvanceRow
  <1>5. RowOK(play, c, row'[c])
    BY <1>2, <1>4 DEF RowOK
  <1>6. \A d \in Courses : RowOK(play', d, row'[d])
    BY <1>1, <1>2, <1>4, <1>5, OthersStay
  <1>7. CASE pass[w].failed
    BY <1>2, <1>6, <1>7, IdleOK, OnlyPass DEF AdvancePage
  <1>8. CASE ~pass[w].failed
    <2> DEFINE s == [pass[w] EXCEPT !.pc = "page", !.copy = [@ EXCEPT !.cursor = pass[w].cursor]]
    <2>1. Goes(w, s)
      BY <1>8 DEF AdvancePage
    <2>2. /\ s.pc = "page" /\ s.todo = pass[w].todo
          /\ s.copy = [pass[w].copy EXCEPT !.cursor = k]
      BY <1>2 DEF PassState
    <2> HIDE DEF s
    <2>3. /\ s.copy.course = c /\ s.copy.cursor = k /\ s.copy.finished = pass[w].copy.finished
          /\ s.copy.swept = pass[w].copy.swept /\ s.copy.ready = pass[w].copy.ready
      <3>1. pass[w].copy \in Copies
        BY <1>1, <1>2, AtEnd
      <3> QED
        BY <2>2, <3>1 DEF Copies
    <2>4. Like(s.copy, row'[c])
      BY <1>2, <1>4, <2>3 DEF Like
    <2>5. CopyOK(row', s)
      <3>1. \A y \in s.todo : /\ Like(y, row'[y.course]) /\ y.cursor = row'[y.course].cursor
                              /\ y.course # c
                              /\ \A z \in s.todo : z.course = y.course => z = y
        BY <1>3, <1>4, <2>2, TodoStays
      <3> QED
        BY <1>4, <2>2, <2>3, <2>4, <3>1 DEF CopyOK
    <2>6. PageOK(play', s)
      BY <2>2 DEF PageOK
    <2> QED
      BY <1>2, <1>6, <2>1, <2>5, <2>6, OnlyPass
  <1> QED
    BY <1>7, <1>8

LEMMA CloseOK ==
  ASSUME OnePass, Clocked, PassInv, NEW w \in Passes, Close(w)
  PROVE  PassInv'
  <1> DEFINE c == pass[w].copy.course
             k == pass[w].cursor
  <1>1. /\ pass[w].pc = "end" /\ play' = play /\ Advance(c, k, TRUE)
        /\ ~pass[w].failed /\ ~pass[w].full /\ pass[w].copy.swept
    BY DEF Close, Short
  <1>2. /\ TypeOK /\ c \in Courses /\ CopyOK(row, pass[w])
        /\ RowOK(play, c, row[c]) /\ Like(pass[w].copy, row[c]) /\ Reached(play, c, k)
    BY <1>1, EndKnows
  <1>3. row[c].swept
    BY <1>1, <1>2 DEF Like
  <1>4. /\ Passed(play, c, k)
        /\ \A p \in Plays : CourseOf[p] = c /\ Stale(play, p) => IsOvertaken(play, p)
    BY <1>1, <1>3, EndKnows
  <1>5. /\ \A d \in Courses : d # c => row'[d] = row[d]
        /\ row'[c].cursor = k /\ row'[c].finished = row[c].finished
        /\ row'[c].grace = row[c].grace /\ row'[c].swept = row[c].swept
    BY <1>1, <1>2, AdvanceRow
  <1>6. RowOK(play, c, row'[c])
    BY <1>2, <1>3, <1>4, <1>5 DEF RowOK
  <1>7. \A d \in Courses : RowOK(play', d, row'[d])
    BY <1>1, <1>2, <1>5, <1>6, OthersStay
  <1>8. PICK s \in NextRow(w) : Goes(w, s)
    BY DEF Close
  <1>9. CopyOK(row', s) /\ PageOK(play', s)
    BY <1>1, <1>2, <1>5, NextRowOK
  <1> QED
    BY <1>2, <1>7, <1>8, <1>9, OnlyPass

LEMMA FinishOK ==
  ASSUME OnePass, Clocked, PassInv, NEW w \in Passes, Finish(w)
  PROVE  PassInv'
  <1> DEFINE c == pass[w].copy.course
             k == pass[w].cursor
  <1>1. /\ pass[w].pc = "end" /\ play' = play /\ MarkFinished(c, k)
        /\ ~pass[w].copy.swept
    BY DEF Finish, Short
  <1>2. /\ TypeOK /\ c \in Courses /\ CopyOK(row, pass[w])
        /\ RowOK(play, c, row[c]) /\ Like(pass[w].copy, row[c]) /\ Reached(play, c, k)
    BY <1>1, EndKnows
  <1>3. ~row[c].swept /\ ~row[c].done
    BY <1>1, <1>2 DEF Like
  <1>4. /\ \A d \in Courses : d # c => row'[d] = row[d]
        /\ row'[c].cursor = k /\ row'[c].done = row[c].done /\ row'[c].swept = row[c].swept
    BY <1>1, <1>2, FinishRow
  <1>5. RowOK(play, c, row'[c])
    BY <1>2, <1>3, <1>4 DEF RowOK
  <1>6. \A d \in Courses : RowOK(play', d, row'[d])
    BY <1>1, <1>2, <1>4, <1>5, OthersStay
  <1>7. PICK s \in NextRow(w) : Goes(w, s)
    BY DEF Finish
  <1>8. CopyOK(row', s) /\ PageOK(play', s)
    BY <1>1, <1>2, <1>4, NextRowOK
  <1> QED
    BY <1>2, <1>6, <1>7, <1>8, OnlyPass

LEMMA FinishAgainOK ==
  ASSUME OnePass, Clocked, PassInv, NEW w \in Passes, FinishAgain(w)
  PROVE  PassInv'
  <1> DEFINE c == pass[w].copy.course
             k == pass[w].cursor
  <1>1. /\ pass[w].pc = "end" /\ play' = play /\ Advance(c, k, FALSE)
        /\ ~pass[w].copy.swept
    BY DEF FinishAgain, Short
  <1>2. /\ TypeOK /\ c \in Courses /\ CopyOK(row, pass[w]) /\ pass[w] \in PassState
        /\ RowOK(play, c, row[c]) /\ Like(pass[w].copy, row[c]) /\ Reached(play, c, k)
    BY <1>1, EndKnows
  <1>3. ~row[c].swept /\ ~row[c].done
    BY <1>1, <1>2 DEF Like
  <1>4. /\ \A d \in Courses : d # c => row'[d] = row[d]
        /\ row'[c].cursor = k /\ row'[c].done = FALSE /\ row'[c].finished = row[c].finished
        /\ row'[c].grace = row[c].grace /\ row'[c].swept = row[c].swept
    BY <1>1, <1>2, AdvanceRow
  <1>5. RowOK(play, c, row'[c])
    BY <1>2, <1>3, <1>4 DEF RowOK
  <1>6. \A d \in Courses : RowOK(play', d, row'[d])
    BY <1>1, <1>2, <1>4, <1>5, OthersStay
  <1>7. CASE pass[w].copy.ready
    <2> DEFINE s == [pass[w] EXCEPT !.pc = "sweep"]
    <2>1. Goes(w, s)
      BY <1>7 DEF FinishAgain
    <2>2. s.pc = "sweep" /\ s.copy = pass[w].copy /\ s.todo = pass[w].todo /\ s.cursor = k
      BY <1>2 DEF PassState
    <2> HIDE DEF s
    <2>3. \A y \in pass[w].todo : /\ Like(y, row[y.course])
                                  /\ y.cursor = row[y.course].cursor
                                  /\ y.course # c /\ y.course \in Courses
                                  /\ \A z \in pass[w].todo : z.course = y.course => z = y
      BY <1>1, EndKnows
    <2>4. Like(s.copy, row'[c])
      BY <1>2, <1>4, <2>2 DEF Like
    <2>5. CopyOK(row', s)
      <3>1. \A y \in s.todo : /\ Like(y, row'[y.course]) /\ y.cursor = row'[y.course].cursor
                              /\ y.course # c
                              /\ \A z \in s.todo : z.course = y.course => z = y
        BY <1>4, <2>2, <2>3, TodoStays
      <3> QED
        BY <1>1, <1>4, <1>7, <2>2, <2>4, <3>1, SMTT(30) DEF CopyOK
    <2>6. PageOK(play', s)
      BY <2>2 DEF PageOK
    <2> QED
      BY <1>2, <1>6, <2>1, <2>5, <2>6, OnlyPass
  <1>8. CASE ~pass[w].copy.ready
    <2>1. PICK s \in NextRow(w) : Goes(w, s)
      BY <1>8 DEF FinishAgain
    <2>2. CopyOK(row', s) /\ PageOK(play', s)
      BY <1>1, <1>2, <1>4, <2>1, NextRowOK
    <2> QED
      BY <1>2, <1>6, <2>1, <2>2, OnlyPass
  <1> QED
    BY <1>7, <1>8

LEMMA BeginSweepOK ==
  ASSUME OnePass, Clocked, PassInv, NEW w \in Passes, BeginSweep(w)
  PROVE  PassInv'
  <1> DEFINE c == pass[w].copy.course
             back == Rewound(pass[w].cursor)
  <1>1. /\ pass[w].pc = "sweep" /\ play' = play /\ TypeOK
        /\ Sweeps(c, back)
        /\ Goes(w, [pass[w] EXCEPT !.pc = "page",
                                   !.copy = [@ EXCEPT !.cursor = back, !.swept = TRUE]])
    BY DEF BeginSweep, Sweeps, Clocked
  <1>2. /\ c \in Courses /\ pass[w].copy \in Copies /\ pass[w] \in PassState
        /\ pass[w].todo \subseteq Copies
    BY <1>1, AtEnd, PassFields
  <1>3. CopyOK(row, pass[w]) /\ RowOK(play, c, row[c])
    BY <1>2 DEF PassInv
  <1>4. /\ Like(pass[w].copy, row[c]) /\ pass[w].cursor = row[c].cursor
        /\ pass[w].copy.ready
        /\ \A y \in pass[w].todo : /\ Like(y, row[y.course])
                                   /\ y.cursor = row[y.course].cursor
                                   /\ y.course # c
                                   /\ \A z \in pass[w].todo : z.course = y.course => z = y
    BY <1>1, <1>3 DEF CopyOK
  <1>5. \A y \in pass[w].todo : y.course \in Courses
    BY <1>2 DEF Copies
  <1>6. row[c].finished /\ row[c].grace = 0 /\ ~row[c].done
    BY <1>4 DEF Like
  <1>7. row[c].cursor \in Cursors /\ play \in [Plays -> PlayState]
    BY <1>2, RowFields DEF Clocked, TypeOK
  <1>8. Reached(play, c, row[c].cursor)
    BY <1>3 DEF RowOK
  <1>9. Reached(play, c, back)
    <2>1. back[1] \in Nat /\ back[1] <= row[c].cursor[1] /\ row[c].cursor[1] \in Nat
      BY <1>4, <1>7, RewoundCursor, CursorFields
    <2>2. CASE row[c].cursor[1] = 0
      <3>1. back[1] = 0
        BY <2>1, <2>2
      <3> QED
        BY <3>1 DEF Reached
    <2>3. CASE row[c].cursor[1] # 0
      <3>1. PICK q \in Plays : /\ CourseOf[q] = c /\ play[q].at >= row[c].cursor[1]
                               /\ play[q].st # "new" /\ ~play[q].stale
        BY <1>8, <2>3 DEF Reached
      <3>2. play[q].at \in Nat
        BY <1>7, PlayFields
      <3>3. play[q].at >= back[1]
        BY <2>1, <3>1, <3>2
      <3> QED
        BY <3>1, <3>3 DEF Reached
    <2> QED
      BY <2>2, <2>3
  <1>10. Passed(play, c, back)
    BY <1>4, <1>7, <1>8, RewoundReaches DEF Passed
  <1> HIDE DEF back
  <1>11. /\ \A d \in Courses : d # c => row'[d] = row[d]
         /\ row'[c].cursor = back /\ row'[c].done = row[c].done
         /\ row'[c].finished = row[c].finished
         /\ row'[c].grace = row[c].grace /\ row'[c].swept = TRUE
    BY <1>1, <1>2, SweepRow
  <1>12. RowOK(play, c, row'[c])
    BY <1>6, <1>9, <1>10, <1>11 DEF RowOK
  <1>13. \A d \in Courses : RowOK(play', d, row'[d])
    BY <1>1, <1>2, <1>11, <1>12, OthersStay
  <1> DEFINE s == [pass[w] EXCEPT !.pc = "page",
                                  !.copy = [@ EXCEPT !.cursor = back, !.swept = TRUE]]
  <1>14. Goes(w, s)
    BY <1>1
  <1>15. /\ s.pc = "page" /\ s.todo = pass[w].todo
         /\ s.copy = [pass[w].copy EXCEPT !.cursor = back, !.swept = TRUE]
    BY <1>2 DEF PassState
  <1> HIDE DEF s
  <1>16. /\ s.copy.course = c /\ s.copy.cursor = back /\ s.copy.swept = TRUE
         /\ s.copy.finished = pass[w].copy.finished /\ s.copy.ready = pass[w].copy.ready
    BY <1>2, <1>15 DEF Copies
  <1>17. Like(s.copy, row'[c])
    BY <1>4, <1>6, <1>11, <1>16 DEF Like
  <1>18. CopyOK(row', s)
    <2>0. \A y \in s.todo : /\ Like(y, row[y.course]) /\ y.cursor = row[y.course].cursor
                            /\ y.course # c /\ y.course \in Courses
                            /\ \A z \in s.todo : z.course = y.course => z = y
      BY <1>4, <1>5, <1>15
    <2>1. \A y \in s.todo : /\ Like(y, row'[y.course]) /\ y.cursor = row'[y.course].cursor
                            /\ y.course # c
                            /\ \A z \in s.todo : z.course = y.course => z = y
      BY <1>11, <2>0, TodoStays
    <2> QED
      BY <1>11, <1>15, <1>16, <1>17, <2>1 DEF CopyOK
  <1>19. PageOK(play', s)
    BY <1>15 DEF PageOK
  <1> QED
    BY <1>1, <1>13, <1>14, <1>18, <1>19, OnlyPass

LEMMA DieOK ==
  ASSUME OnePass, Clocked, PassInv, NEW w \in Passes, Die(w)
  PROVE  PassInv'
  BY IdleOK, OnlyPass DEF Die, Clocked, PassInv

LEMMA PassInvStep == OnePass /\ Inv /\ [Next]_vars => PassInv'
  <1> SUFFICES ASSUME OnePass, Clocked, PassInv, [Next]_vars PROVE PassInv'
    BY DEF Inv
  <1>1. CASE Tick
    BY <1>1, TickPassInv
  <1>2. CASE Import
    BY <1>2, ImportPassInv
  <1>3. CASE \E p \in Plays : BeginPlay(p) \/ CommitPlay(p) \/ RemovePlay(p)
    BY <1>3, PlayPassInv
  <1>4. CASE \E w \in Passes : StartPass(w) \/ Die(w)
    BY <1>4, StartPassOK, DieOK
  <1>5. CASE \E w \in Passes : NextPlays(w) \/ RescorePlay(w)
    BY <1>5, NextPlaysOK, RescorePlayOK
  <1>6. CASE \E w \in Passes : RescoreThrows(w) \/ PageDone(w)
    BY <1>6, PageEndOK
  <1>7. CASE \E w \in Passes : AdvancePage(w) \/ Close(w)
    BY <1>7, AdvancePageOK, CloseOK
  <1>8. CASE \E w \in Passes : Finish(w) \/ FinishAgain(w) \/ BeginSweep(w)
    BY <1>8, FinishOK, FinishAgainOK, BeginSweepOK
  <1>9. CASE UNCHANGED vars
    BY <1>9 DEF vars, PassInv
  <1> QED
    BY <1>1, <1>2, <1>3, <1>4, <1>5, <1>6, <1>7, <1>8, <1>9 DEF Next, Step

-----------------------------------------------------------------------------
(* The results. *)

\* For any number of passes: the grace outlasts what began before the import.
THEOREM ClockedHolds == Spec => []Clocked
  <1>1. Init => Clocked
    BY InitTyped, InitGrace DEF Clocked
  <1> QED
    BY <1>1, ClockedStep, PTL DEF Spec

\* Every variable keeps its type, for any number of passes; a page in flight
\* never outruns the budget of its request (drainRescoreBacklog, `remaining`).
THEOREM BacklogIsTyped == Spec => []TypeOK
  <1>1. Clocked => TypeOK
    BY DEF Clocked
  <1> QED
    BY <1>1, ClockedHolds, PTL

\* With one pass at a time the whole invariant holds.
THEOREM InvHolds ==
  ASSUME OnePass
  PROVE  Spec => []Inv
  <1>1. Init => Inv
    BY InitTyped, InitGrace, InitPassInv DEF Clocked, Inv
  <1>2. Inv /\ [Next]_vars => Inv'
    BY ClockedStep, PassInvStep DEF Inv
  <1> QED
    BY <1>1, <1>2, PTL DEF Spec

LEMMA OvertakenSame ==
  \A p \in Plays : IsOvertaken(play, p) => Overtaken(p, play[p].at + Overlap)
  BY DEF IsOvertaken, Overtaken

\* No stale play that could be read is skipped by the cursor of its course: it
\* is still ahead of it, or within what the sweep to come goes back
\* (drainRescoreBacklog with nextPlays, advance and beginSweep).
THEOREM NoPlayIsSkipped ==
  ASSUME OnePass
  PROVE  Spec => []NothingSkipped
  <1>1. ASSUME Inv, NEW p \in Plays, play[p].st \in {"open", "in"}, play[p].stale,
               ~After(Key(p), row[CourseOf[p]].cursor)
        PROVE  \/ ~row[CourseOf[p]].swept /\ After(Key(p), Rewound(row[CourseOf[p]].cursor))
               \/ Overtaken(p, play[p].at + Overlap)
    <2> DEFINE r == row[CourseOf[p]]
    <2>1. /\ play \in [Plays -> PlayState] /\ row \in [Courses -> RowState]
          /\ CourseOf[p] \in Courses
      BY <1>1, PlayFields DEF Inv, Clocked, TypeOK
    <2>2. RowOK(play, CourseOf[p], r) /\ r.cursor \in Cursors
      BY <1>1, <2>1, RowFields DEF Inv, PassInv
    <2>3. Stale(play, p) /\ KeyOf(play, p) = Key(p)
      BY <1>1 DEF Stale, KeyOf, Key
    <2>4. CASE r.swept
      BY <1>1, <2>2, <2>3, <2>4, OvertakenSame DEF RowOK, Passed
    <2>5. CASE ~r.swept
      <3>1. Reached(play, CourseOf[p], r.cursor)
        BY <2>2 DEF RowOK
      <3>2. After(KeyOf(play, p), Rewound(r.cursor)) \/ IsOvertaken(play, p)
        BY <2>1, <2>2, <3>1, RewoundReaches
      <3> QED
        BY <2>3, <2>5, <3>2, OvertakenSame
    <2> QED
      BY <2>4, <2>5
  <1>2. Inv => NothingSkipped
    BY <1>1 DEF NothingSkipped
  <1> QED
    BY <1>2, InvHolds, PTL

\* A course is closed only when none of its plays shows, or can still commit,
\* the score of before the import, unless it was overtaken (Close after the
\* sweep of beginSweep; the grace is longer than the transaction timeout).
THEOREM ClosedMeansRescored ==
  ASSUME OnePass
  PROVE  Spec => []AllRescored
  <1>1. ASSUME Inv, NEW p \in Plays, row[CourseOf[p]].done,
               play[p].st \in {"open", "in"}, play[p].stale
        PROVE  Overtaken(p, play[p].at + Overlap)
    <2>1. CourseOf[p] \in Courses /\ Stale(play, p)
      BY <1>1, PlayFields DEF Inv, Clocked, TypeOK, Stale
    <2>2. RowOK(play, CourseOf[p], row[CourseOf[p]])
      BY <1>1, <2>1 DEF Inv, PassInv
    <2> QED
      BY <1>1, <2>1, <2>2, OvertakenSame DEF RowOK
  <1>2. Inv => AllRescored
    BY <1>1 DEF AllRescored
  <1> QED
    BY <1>2, InvHolds, PTL

=============================================================================
