-------------------------- MODULE KeyedMutexProofs --------------------------
(***************************************************************************)
(* For every set of flows: at most one of them holds the assertion lock,   *)
(* and their assertion requests are serialized (KeyedMutex implements      *)
(* AssertionLock).  Both rest on the inductive invariant MutexInv.         *)
(***************************************************************************)
EXTENDS KeyedMutex, TLAPS

\* A call that is in line for the lock or holds it.
Active(c) == pc[c] \in {"queued", "running"} /\ ~released[c]

\* The promise chain: the tail is the last active call, it waits for every
\* other one, and of any two active calls one waits for the other.
ChainInv == /\ tail # NoCall => Active(tail)
            /\ \A c \in Calls : Active(c) =>
                   tail # NoCall /\ (c = tail \/ c \in ahead[tail])
            /\ \A c, d \in Calls : Active(c) /\ Active(d) =>
                   c = d \/ c \in ahead[d] \/ d \in ahead[c]
            /\ \A c \in Calls : pc[c] = "running" =>
                   \A d \in ahead[c] : released[d]

\* A call that has not started has no operation and no outcome; one that is
\* over has an outcome.
IdleInv(c) == /\ pc[c] \in {"idle", "queued"} =>
                     /\ op[c] = "none" /\ ~counted[c] /\ ~aborted[c]
                     /\ ~released[c] /\ outcome[c] = "none"
              /\ pc[c] = "over" =>
                     op[c] = "none" /\ ~counted[c] /\ outcome[c] # "none"

\* A running call has lost the lock only if it was told to stop, and never
\* with a request in flight.
RunningInv(c) == pc[c] = "running" =>
                     /\ released[c] <=> outcome[c] # "none"
                     /\ released[c] => aborted[c]
                     /\ op[c] = "effect" => counted[c] /\ ~released[c]

MutexInv == /\ TypeOK
            /\ ChainInv
            /\ \A c \in Calls : IdleInv(c) /\ RunningInv(c)

-----------------------------------------------------------------------------
(* Type correctness.                                                       *)

LEMMA ResumeType ==
    ASSUME TypeOK, NEW c \in Calls, Resume(c)
    PROVE  /\ tail' \in Calls \cup {NoCall}
           /\ ahead' \in [Calls -> SUBSET Calls]
           /\ pc' \in [Calls -> PCs]
           /\ op' \in [Calls -> Ops]
           /\ inner' \in [Calls -> Calls \cup {NoCall}]
           /\ counted' \in [Calls -> BOOLEAN]
           /\ released' \in [Calls -> BOOLEAN]
           /\ outcome' \in [Calls -> Outcomes]
  <1>1. CASE \E o \in {"read", "native", "effect"} :
                /\ Suspend(c, o)
                /\ UNCHANGED <<outcome, released, tail, ahead>>
                /\ inner' = [inner EXCEPT ![c] = NoCall]
    BY <1>1 DEF TypeOK, Suspend, PCs, Ops
  <1>2. CASE FnSettles(c) /\ inner' = [inner EXCEPT ![c] = NoCall]
                          /\ UNCHANGED ahead
    BY <1>2 DEF TypeOK, FnSettles, SettleCall, PCs, Ops, Outcomes
  <1> QED
    BY <1>1, <1>2 DEF Resume

LEMMA NestedType ==
    ASSUME TypeOK, NEW c \in Calls, AwaitNested(c), UNCHANGED aborted
    PROVE  TypeOK'
  BY DEF TypeOK, AwaitNested, PCs, Ops

LEMMA NextType ==
    ASSUME TypeOK, [Next]_vars
    PROVE  TypeOK'
  <1>1. CASE UNCHANGED vars
    BY <1>1 DEF TypeOK, vars
  <1>2. ASSUME NEW c \in Calls, Run(c) PROVE TypeOK'
    BY <1>2 DEF TypeOK, Run, Enter, PCs
  <1>3. ASSUME NEW c \in Calls, Acquire(c) PROVE TypeOK'
    BY <1>3, ResumeType DEF TypeOK, Acquire
  <1>4. ASSUME NEW c \in Calls, NEW d \in Calls, AcquireReentrant(c, d)
        PROVE  TypeOK'
    BY <1>4 DEF TypeOK, AcquireReentrant, PCs, Outcomes
  <1>5. ASSUME NEW c \in Calls, StepDone(c) PROVE TypeOK'
    BY <1>5, ResumeType, NestedType DEF TypeOK, StepDone
  <1>6. ASSUME NEW c \in Calls, EffectDone(c) \/ SettleDone(c) PROVE TypeOK'
    <2>1. CASE Resume(c) /\ UNCHANGED aborted
      BY <2>1, ResumeType DEF TypeOK
    <2>2. CASE /\ Suspend(c, "settle")
               /\ UNCHANGED <<outcome, released, tail, ahead, inner, aborted>>
      BY <2>2 DEF TypeOK, Suspend, PCs, Ops
    <2> QED
      BY <1>6, <2>1, <2>2 DEF EffectDone, SettleDone
  <1>7. ASSUME NEW c \in Calls, NestedDone(c) PROVE TypeOK'
    BY <1>7, ResumeType DEF TypeOK, NestedDone
  <1>8. ASSUME NEW c \in Calls, HoldTimeout(c) PROVE TypeOK'
    BY <1>8 DEF TypeOK, HoldTimeout, AbandonIfIdle, SettleCall, Outcomes
  <1>9. ASSUME NEW c \in Calls, SettleBound(c) PROVE TypeOK'
    BY <1>9 DEF TypeOK, SettleBound, AbandonIfIdle, SettleCall, Outcomes
  <1>10. ASSUME NEW c \in Calls, Forget(c) PROVE TypeOK'
    BY <1>10 DEF TypeOK, Forget, PCs, Outcomes
  <1> QED
    BY <1>1, <1>2, <1>3, <1>4, <1>5, <1>6, <1>7, <1>8, <1>9, <1>10 DEF Next

\* Every state the lock reaches has the types the module declares.
THEOREM TypeCorrect == Spec => []TypeOK
  <1>1. Init => TypeOK
    BY DEF Init, TypeOK, PCs, Ops, Outcomes
  <1>2. TypeOK /\ [Next]_vars => TypeOK'
    BY NextType
  <1> QED
    BY <1>1, <1>2, PTL DEF Spec

-----------------------------------------------------------------------------
(* The inductive invariant.  SettleCall and Resume are used by most actions, *)
(* so what they do to it is stated once.                                   *)

\* The chain changes by the holder c settling, at most.
ChainStep(c) ==
    /\ pc[c] \in {"queued", "running"}
    /\ \A d \in ahead[c] : released[d]
    /\ ahead' = ahead
    /\ \A d \in Calls \ {c} :
           pc'[d] = pc[d] \/ (~Active(d) /\ pc'[d] = "over")
    /\ \/ UNCHANGED <<released, tail>> /\ pc'[c] = "running"
       \/ /\ released' = [released EXCEPT ![c] = TRUE]
          /\ tail' = IF tail = c THEN NoCall ELSE tail
       \/ UNCHANGED <<released, tail>> /\ released[c]

LEMMA SettleKeepsChain ==
    ASSUME MutexInv, NEW c \in Calls, ChainStep(c)
    PROVE  ChainInv'
  <1> USE DEF MutexInv, TypeOK, ChainStep
  <1>1. \A d \in Calls : released[d] => released'[d]
    OBVIOUS
  <1>2. \A d \in Calls : Active(d)' => Active(d)
    BY <1>1 DEF Active
  <1>3. (tail # NoCall => Active(tail))'
    BY DEF ChainInv, Active
  <1>4. (\A d \in Calls : Active(d) =>
             tail # NoCall /\ (d = tail \/ d \in ahead[tail]))'
    <2>1. CASE tail' = tail
      BY <2>1, <1>2 DEF ChainInv
    <2>2. CASE tail = c /\ tail' = NoCall /\ released'[c]
      <3> SUFFICES ASSUME NEW d \in Calls, Active(d)' PROVE FALSE
        OBVIOUS
      <3>1. d # c
        BY <2>2 DEF Active
      <3>2. d \in ahead[c]
        BY <3>1, <1>2, <2>2 DEF ChainInv
      <3> QED
        BY <3>2, <1>2 DEF Active
    <2> QED
      BY <2>1, <2>2
  <1>5. (\A d, e \in Calls : Active(d) /\ Active(e) =>
             d = e \/ d \in ahead[e] \/ e \in ahead[d])'
    BY <1>2 DEF ChainInv
  <1>6. (\A d \in Calls : pc[d] = "running" => \A e \in ahead[d] : released[e])'
    BY <1>1 DEF ChainInv
  <1> QED
    BY <1>3, <1>4, <1>5, <1>6 DEF ChainInv

\* A call that gets in line, behind every active one.
LEMMA EnterKeepsChain ==
    ASSUME MutexInv, NEW c \in Calls, pc[c] = "idle",
           pc'[c] = "queued", \A d \in Calls \ {c} : pc'[d] = pc[d],
           tail' = c, released' = released,
           ahead' = [ahead EXCEPT ![c] = IF tail = NoCall THEN {}
                                         ELSE ahead[tail] \cup {tail}]
    PROVE  ChainInv'
  <1> USE DEF MutexInv, TypeOK
  <1>1. ~released[c]
    BY DEF IdleInv
  <1>2. \A d \in Calls : Active(d)' <=> d = c \/ Active(d)
    BY <1>1 DEF Active
  <1>3. \A d \in Calls : Active(d) => d \in ahead'[c]
    BY DEF ChainInv
  <1>4. \A d \in Calls \ {c} : ahead'[d] = ahead[d]
    OBVIOUS
  <1>5. (tail # NoCall => Active(tail))'
    BY <1>2
  <1>6. (\A d \in Calls : Active(d) =>
             tail # NoCall /\ (d = tail \/ d \in ahead[tail]))'
    BY <1>2, <1>3, NoCallAssumption
  <1>7. (\A d, e \in Calls : Active(d) /\ Active(e) =>
             d = e \/ d \in ahead[e] \/ e \in ahead[d])'
    BY <1>2, <1>3, <1>4 DEF ChainInv
  <1>8. (\A d \in Calls : pc[d] = "running" => \A e \in ahead[d] : released[e])'
    BY <1>4 DEF ChainInv
  <1> QED
    BY <1>5, <1>6, <1>7, <1>8 DEF ChainInv

\* fn of a holder runs to its next await, or settles.
LEMMA ResumeKeepsInv ==
    ASSUME MutexInv, NEW c \in Calls, pc[c] \in {"queued", "running"},
           \A d \in ahead[c] : released[d],
           Resume(c) \/ (/\ Suspend(c, "settle")
                         /\ UNCHANGED <<outcome, released, tail, ahead, inner>>),
           UNCHANGED aborted
    PROVE  ChainInv' /\ \A d \in Calls : IdleInv(d)' /\ RunningInv(d)'
  <1> USE DEF MutexInv, TypeOK
  <1>1. ASSUME NEW o \in Ops, o = "effect" => Check(c), Suspend(c, o), o # "none",
               UNCHANGED <<outcome, released, tail, ahead>>
        PROVE  ChainInv' /\ \A d \in Calls : IdleInv(d)' /\ RunningInv(d)'
    <2>1. ChainInv'
      <3>1. ChainStep(c)
        BY <1>1 DEF Suspend, ChainStep
      <3> QED
        BY <3>1, SettleKeepsChain
    <2>2. ASSUME NEW d \in Calls \ {c} PROVE IdleInv(d)' /\ RunningInv(d)'
      BY <1>1 DEF Suspend, IdleInv, RunningInv
    <2>3. IdleInv(c)'
      BY <1>1 DEF Suspend, IdleInv
    <2>4. RunningInv(c)'
      <3>1. (released[c] <=> outcome[c] # "none") /\ (released[c] => aborted[c])
        BY DEF IdleInv, RunningInv
      <3> QED
        BY <1>1, <3>1 DEF Suspend, RunningInv, Check
    <2> QED
      BY <2>1, <2>2, <2>3, <2>4
  <1>2. CASE FnSettles(c) /\ UNCHANGED ahead
    <2>1. released[c] <=> outcome[c] # "none"
      BY DEF IdleInv, RunningInv
    <2>2. ChainInv'
      <3>1. ChainStep(c)
        BY <1>2, <2>1 DEF FnSettles, SettleCall, ChainStep
      <3> QED
        BY <3>1, SettleKeepsChain
    <2>3. ASSUME NEW d \in Calls \ {c} PROVE IdleInv(d)' /\ RunningInv(d)'
      BY <1>2 DEF FnSettles, SettleCall, IdleInv, RunningInv
    <2>4. IdleInv(c)' /\ RunningInv(c)'
      BY <1>2 DEF FnSettles, SettleCall, IdleInv, RunningInv
    <2> QED
      BY <2>2, <2>3, <2>4
  <1> QED
    BY <1>1, <1>2 DEF Resume, Ops

\* A timer fires: the holder is abandoned only with nothing in flight.
LEMMA TimerKeepsInv ==
    ASSUME MutexInv, NEW c \in Calls, pc[c] = "running",
           HoldTimeout(c) \/ SettleBound(c)
    PROVE  ChainInv' /\ \A d \in Calls : IdleInv(d)' /\ RunningInv(d)'
  <1> USE DEF MutexInv, TypeOK
  <1>1. /\ ahead' = ahead /\ pc' = pc /\ op' = op
        /\ aborted' \in [Calls -> BOOLEAN] /\ counted' \in [Calls -> BOOLEAN]
        /\ \A d \in Calls \ {c} : /\ aborted'[d] = aborted[d]
                                  /\ counted'[d] = counted[d]
        /\ aborted[c] => aborted'[c]
        /\ op[c] = "effect" => counted'[c] = counted[c]
        /\ AbandonIfIdle(c, aborted'[c], counted'[c])
    BY DEF HoldTimeout, SettleBound
  <1>2. released[c] <=> outcome[c] # "none"
    BY DEF RunningInv
  <1>3. ChainInv'
    <2>1. \A d \in ahead[c] : released[d]
      BY DEF ChainInv
    <2>2. ChainStep(c)
      BY <1>1, <2>1 DEF AbandonIfIdle, SettleCall, ChainStep
    <2> QED
      BY <2>2, SettleKeepsChain
  <1>4. ASSUME NEW d \in Calls \ {c} PROVE IdleInv(d)' /\ RunningInv(d)'
    BY <1>1 DEF AbandonIfIdle, SettleCall, IdleInv, RunningInv
  <1>5. IdleInv(c)'
    BY <1>1 DEF IdleInv
  <1>6. RunningInv(c)'
    BY <1>1, <1>2 DEF AbandonIfIdle, SettleCall, RunningInv
  <1> QED
    BY <1>3, <1>4, <1>5, <1>6

\* Only a call that runs has an operation under way.
LEMMA BusyIsRunning ==
    ASSUME MutexInv, NEW c \in Calls, op[c] # "none" \/ counted[c]
    PROVE  pc[c] = "running"
  BY DEF MutexInv, TypeOK, IdleInv, PCs

LEMMA NextKeepsInv ==
    ASSUME MutexInv, [Next]_vars
    PROVE  MutexInv'
  <1> DEFINE Rest == ChainInv /\ \A d \in Calls : IdleInv(d) /\ RunningInv(d)
  <1> USE DEF MutexInv
  <1>1. CASE UNCHANGED vars
    BY <1>1, NextType DEF vars, ChainInv, Active, IdleInv, RunningInv
  <1>2. ASSUME NEW c \in Calls, Run(c) PROVE Rest'
    <2>1. ChainInv'
      BY <1>2, EnterKeepsChain DEF Run, Enter, TypeOK
    <2>2. ASSUME NEW d \in Calls PROVE IdleInv(d)' /\ RunningInv(d)'
      BY <1>2 DEF Run, Enter, TypeOK, IdleInv, RunningInv
    <2> QED
      BY <2>1, <2>2
  <1>3. ASSUME NEW c \in Calls, Acquire(c) PROVE Rest'
    BY <1>3, ResumeKeepsInv DEF Acquire
  <1>4. ASSUME NEW c \in Calls, NEW d \in Calls, AcquireReentrant(c, d)
        PROVE  Rest'
    <2>1. ChainStep(c)
      BY <1>4 DEF AcquireReentrant, TypeOK, Active, ChainStep
    <2>2. ChainInv'
      BY <2>1, SettleKeepsChain
    <2>3. ASSUME NEW e \in Calls PROVE IdleInv(e)' /\ RunningInv(e)'
      BY <1>4 DEF AcquireReentrant, TypeOK, IdleInv, RunningInv
    <2> QED
      BY <2>2, <2>3
  <1>5. ASSUME NEW c \in Calls, pc[c] = "running" PROVE \A d \in ahead[c] : released[d]
    BY <1>5 DEF ChainInv
  <1>6. ASSUME NEW c \in Calls, StepDone(c) PROVE Rest'
    <2>1. pc[c] = "running"
      BY <1>6, BusyIsRunning DEF StepDone
    <2>2. CASE Resume(c) /\ UNCHANGED aborted
      BY <2>1, <2>2, <1>5, ResumeKeepsInv
    <2>3. CASE AwaitNested(c) /\ UNCHANGED aborted
      <3>1. PICK d \in Calls \ {c} :
                /\ pc[d] = "idle"
                /\ pc' = [pc EXCEPT ![c] = "running", ![d] = "queued"]
                /\ ahead' = [ahead EXCEPT ![d] = IF tail = NoCall THEN {}
                                                 ELSE ahead[tail] \cup {tail}]
                /\ tail' = d
                /\ op' = [op EXCEPT ![c] = "nested"]
                /\ counted' = [counted EXCEPT ![c] = FALSE]
                /\ UNCHANGED <<outcome, released>>
        BY <2>3 DEF AwaitNested
      <3>2. ChainInv'
        BY <2>1, <3>1, EnterKeepsChain DEF TypeOK
      <3>3. ASSUME NEW e \in Calls PROVE IdleInv(e)' /\ RunningInv(e)'
        BY <2>1, <2>3, <3>1 DEF TypeOK, IdleInv, RunningInv
      <3> QED
        BY <3>2, <3>3
    <2> QED
      BY <1>6, <2>2, <2>3 DEF StepDone
  <1>7. ASSUME NEW c \in Calls, EffectDone(c) \/ SettleDone(c) \/ NestedDone(c)
        PROVE  Rest'
    <2>1. pc[c] = "running"
      BY <1>7, BusyIsRunning DEF EffectDone, SettleDone, NestedDone
    <2> QED
      BY <1>7, <2>1, <1>5, ResumeKeepsInv DEF EffectDone, SettleDone, NestedDone
  <1>8. ASSUME NEW c \in Calls, HoldTimeout(c) \/ SettleBound(c) PROVE Rest'
    <2>1. pc[c] = "running"
      BY <1>8, BusyIsRunning DEF HoldTimeout, SettleBound
    <2> QED
      BY <1>8, <2>1, TimerKeepsInv
  <1>9. ASSUME NEW c \in Calls, Forget(c) PROVE Rest'
    <2>1. \A d \in Calls : Active(d)' <=> Active(d)
      BY <1>9 DEF Forget, TypeOK, Active
    <2>2. \A d \in Calls \ {c} : ahead'[d] = ahead[d] \ {c} /\ released'[d] = released[d]
      BY <1>9 DEF Forget, TypeOK
    <2>3. ~Active(c)
      BY <1>9 DEF Forget, Active
    <2>4. tail # NoCall => tail \in Calls
      BY DEF TypeOK
    <2>5. (tail # NoCall => Active(tail))'
      BY <1>9, <2>1, <2>4 DEF Forget, ChainInv
    <2>6. (\A d \in Calls : Active(d) =>
               tail # NoCall /\ (d = tail \/ d \in ahead[tail]))'
      <3> SUFFICES ASSUME NEW d \in Calls, Active(d)
                   PROVE  tail # NoCall /\ (d = tail \/ d \in ahead'[tail])
        BY <1>9, <2>1 DEF Forget
      <3>1. tail # NoCall /\ Active(tail) /\ (d = tail \/ d \in ahead[tail])
        BY DEF ChainInv
      <3> QED
        BY <3>1, <2>2, <2>3, <2>4
    <2>7. (\A d, e \in Calls : Active(d) /\ Active(e) =>
               d = e \/ d \in ahead[e] \/ e \in ahead[d])'
      BY <2>1, <2>2, <2>3 DEF ChainInv
    <2>8. (\A d \in Calls : pc[d] = "running" => \A e \in ahead[d] : released[e])'
      <3> SUFFICES ASSUME NEW d \in Calls, pc'[d] = "running", NEW e \in ahead'[d]
                   PROVE  released'[e]
        OBVIOUS
      <3>1. d # c /\ pc[d] = "running"
        BY <1>9 DEF Forget, TypeOK
      <3>2. e \in ahead[d] /\ e # c /\ e \in Calls
        BY <3>1, <2>2 DEF TypeOK
      <3> QED
        BY <3>1, <3>2, <2>2 DEF ChainInv
    <2>9. ASSUME NEW d \in Calls PROVE IdleInv(d)' /\ RunningInv(d)'
      BY <1>9 DEF Forget, TypeOK, IdleInv, RunningInv
    <2> QED
      BY <2>5, <2>6, <2>7, <2>8, <2>9 DEF ChainInv
  <1>10. TypeOK'
    BY NextType
  <1> QED
    BY <1>1, <1>2, <1>3, <1>4, <1>6, <1>7, <1>8, <1>9, <1>10 DEF Next

LEMMA InitInv == Init => MutexInv
  BY DEF Init, MutexInv, TypeOK, PCs, Ops, Outcomes, ChainInv, Active, IdleInv,
         RunningInv

\* At most one flow holds the assertion lock, however the holders before it
\* ended: settled, refused, or abandoned by the hold timer or a settle bound.
THEOREM MutualExclusion == Spec => []OneHolder
  <1>1. MutexInv => OneHolder
    BY DEF MutexInv, ChainInv, OneHolder, Holds, Active
  <1>2. MutexInv /\ [Next]_vars => MutexInv'
    BY NextKeepsInv
  <1> QED
    BY InitInv, <1>1, <1>2, PTL DEF Spec

-----------------------------------------------------------------------------
(* The lock implements AssertionLock.                                      *)

Requesting == {c \in Calls : op[c] = "effect"}
Ended == {c \in Calls : outcome[c] # "none"}

\* At most one request is out, and it is that of a call that goes on.
Serial == /\ \A c, d \in Requesting : c = d
          /\ Requesting \cap Ended = {}

LEMMA InvSerial == MutexInv => Serial
  <1> SUFFICES ASSUME MutexInv PROVE Serial
    OBVIOUS
  <1>1. \A c \in Requesting : Holds(c) /\ outcome[c] = "none"
    BY BusyIsRunning DEF MutexInv, RunningInv, Requesting, Holds
  <1>2. OneHolder
    BY DEF MutexInv, ChainInv, OneHolder, Holds, Active
  <1> QED
    BY <1>1, <1>2 DEF OneHolder, Requesting, Ended, Serial

\* A step that changes the operation and the outcome of one call only.
LEMMA OneCallStep ==
    ASSUME MutexInv, MutexInv', NEW c \in Calls,
           \A d \in Calls \ {c} : op'[d] = op[d] /\ outcome'[d] = outcome[d],
           c \in Ended => c \in Ended'
    PROVE  [Promise!Next]_(Promise!vars)
  <1>1. Serial
    BY InvSerial
  <1>2. Serial'
    BY InvSerial, PTL
  <1>3. /\ \A d \in Calls \ {c} : d \in Requesting' <=> d \in Requesting
        /\ \A d \in Calls \ {c} : d \in Ended' <=> d \in Ended
        /\ Requesting \subseteq Calls /\ Requesting' \subseteq Calls
        /\ Ended \subseteq Calls /\ Ended' \subseteq Calls
    BY DEF Requesting, Ended
  <1> USE DEF Promise!Next, Promise!vars, Promise!Begin, Promise!Answer, Promise!End
  <1>4. CASE c \in Requesting /\ c \notin Requesting'
    <2>1. Requesting = {c} /\ Requesting' = {}
      BY <1>1, <1>3, <1>4 DEF Serial
    <2>2. Ended' \in {Ended, Ended \cup {c}}
      BY <1>3
    <2>3. Promise!Answer(c)
      BY <2>1, <2>2 DEF Requesting, Ended
    <2> QED
      BY <2>3
  <1>5. CASE c \notin Requesting /\ c \in Requesting'
    <2>1. Requesting = {} /\ Requesting' = {c} /\ c \notin Ended /\ Ended' = Ended
      BY <1>2, <1>3, <1>5 DEF Serial
    <2>2. Promise!Begin(c)
      BY <2>1 DEF Requesting, Ended
    <2> QED
      BY <2>2
  <1>6. CASE c \in Requesting /\ c \in Requesting'
    <2>1. Requesting' = Requesting /\ Ended' = Ended
      BY <1>1, <1>2, <1>3, <1>6 DEF Serial
    <2> QED
      BY <2>1 DEF Requesting, Ended
  <1>7. CASE c \notin Requesting /\ c \notin Requesting'
    <2>1. Requesting' = Requesting
      BY <1>3, <1>7
    <2>2. CASE c \notin Ended'
      <3>1. Ended' = Ended
        BY <1>3, <2>2
      <3> QED
        BY <2>1, <3>1 DEF Requesting, Ended
    <2>3. CASE c \in Ended'
      <3>1. Ended' = Ended \cup {c}
        BY <1>3, <2>3
      <3>2. Promise!End({c})
        BY <2>1, <3>1, <1>7 DEF Requesting, Ended
      <3> QED
        BY <3>2
    <2> QED
      BY <2>2, <2>3
  <1> QED
    BY <1>4, <1>5, <1>6, <1>7

\* What Resume and the timers do to the outcomes.
LEMMA OutcomesGrow ==
    ASSUME MutexInv, NEW c \in Calls,
           \/ Resume(c)
           \/ HoldTimeout(c) \/ SettleBound(c)
           \/ Suspend(c, "settle") /\ UNCHANGED outcome
           \/ AwaitNested(c)
    PROVE  /\ \A d \in Calls \ {c} : op'[d] = op[d] /\ outcome'[d] = outcome[d]
           /\ c \in Ended => c \in Ended'
  <1> USE DEF MutexInv, TypeOK, Ended
  <1>1. CASE \E o \in Ops : Suspend(c, o) /\ UNCHANGED outcome
    BY <1>1 DEF Suspend
  <1>2. CASE FnSettles(c)
    BY <1>2 DEF FnSettles, SettleCall
  <1>3. CASE HoldTimeout(c) \/ SettleBound(c)
    BY <1>3 DEF HoldTimeout, SettleBound, AbandonIfIdle, SettleCall
  <1>4. CASE AwaitNested(c)
    BY <1>4 DEF AwaitNested
  <1> QED
    BY <1>1, <1>2, <1>3, <1>4 DEF Resume, Ops

LEMMA StepImplements ==
    ASSUME MutexInv, [Next]_vars
    PROVE  [Promise!Next]_(Promise!vars)
  <1> MutexInv'
    BY NextKeepsInv
  <1>1. CASE UNCHANGED vars
    BY <1>1 DEF vars, Promise!vars
  <1>2. ASSUME NEW c \in Calls, Run(c) PROVE [Promise!Next]_(Promise!vars)
    BY <1>2 DEF Run, Promise!vars
  <1>3. ASSUME NEW c \in Calls,
               \/ Acquire(c) \/ StepDone(c) \/ EffectDone(c) \/ SettleDone(c)
               \/ NestedDone(c) \/ HoldTimeout(c) \/ SettleBound(c)
        PROVE  [Promise!Next]_(Promise!vars)
    <2>1. \/ Resume(c)
          \/ HoldTimeout(c) \/ SettleBound(c)
          \/ Suspend(c, "settle") /\ UNCHANGED outcome
          \/ AwaitNested(c)
      BY <1>3 DEF Acquire, StepDone, EffectDone, SettleDone, NestedDone
    <2>2. /\ \A d \in Calls \ {c} : op'[d] = op[d] /\ outcome'[d] = outcome[d]
          /\ c \in Ended => c \in Ended'
      BY <2>1, OutcomesGrow
    <2> QED
      BY <2>2, OneCallStep
  <1>4. ASSUME NEW c \in Calls, NEW d \in Calls, AcquireReentrant(c, d)
        PROVE  [Promise!Next]_(Promise!vars)
    <2>1. {c, d} \cap Requesting = {} /\ UNCHANGED op
      BY <1>4 DEF AcquireReentrant, MutexInv, IdleInv, Requesting
    <2>2. Ended' = Ended \cup {c, d}
      BY <1>4 DEF AcquireReentrant, MutexInv, TypeOK, Ended
    <2>3. Promise!End({c, d})
      BY <2>1, <2>2 DEF Promise!End, Requesting, Ended
    <2>4. {c, d} \in SUBSET Calls
      OBVIOUS
    <2> QED
      BY <2>3, <2>4 DEF Promise!Next
  <1>5. ASSUME NEW c \in Calls, Forget(c) PROVE [Promise!Next]_(Promise!vars)
    <2>1. c \in Ended /\ c \notin Requesting /\ UNCHANGED op
      BY <1>5 DEF Forget, MutexInv, IdleInv, Ended, Requesting
    <2>2. Ended' = Ended \ {c}
      BY <1>5 DEF Forget, MutexInv, TypeOK, Ended
    <2>3. Promise!Forget(c)
      BY <2>1, <2>2 DEF Promise!Forget, Requesting, Ended
    <2> QED
      BY <2>3 DEF Promise!Next
  <1> QED
    BY <1>1, <1>2, <1>3, <1>4, <1>5 DEF Next

\* The lock implements what it promises: assertion requests never overlap, and
\* a flow that has settled (timed out included) has none left and starts none.
THEOREM Serialization == Spec => SerializedRequests
  <1>1. Init => Promise!Init
    BY DEF Init, Promise!Init
  <1>2. MutexInv /\ [Next]_vars => MutexInv'
    BY NextKeepsInv
  <1>3. MutexInv /\ [Next]_vars => [Promise!Next]_(Promise!vars)
    BY StepImplements
  <1> QED
    BY InitInv, <1>1, <1>2, <1>3, PTL DEF Spec, SerializedRequests, Promise!Spec

-----------------------------------------------------------------------------
(* The timers.                                                             *)

\* A step settles at most the call that takes it, and that call only when it
\* has nothing in flight before or after the step.
LEMMA StepKeepsBusyLocks ==
    ASSUME MutexInv, [Next]_vars, NEW e \in Calls, counted[e], counted'[e]
    PROVE  released'[e] = released[e]
  <1> USE DEF MutexInv, TypeOK
  <1>1. CASE UNCHANGED vars
    BY <1>1 DEF vars
  <1>2. ASSUME NEW c \in Calls, Run(c) PROVE released'[e] = released[e]
    BY <1>2 DEF Run
  <1>3. ASSUME NEW c \in Calls, Resume(c) PROVE released'[e] = released[e]
    <2>1. CASE UNCHANGED released
      BY <2>1
    <2>2. CASE FnSettles(c)
      <3>1. e # c
        BY <2>2 DEF FnSettles
      <3> QED
        BY <2>2, <3>1 DEF FnSettles, SettleCall
    <2> QED
      BY <1>3, <2>1, <2>2 DEF Resume
  <1>4. ASSUME NEW c \in Calls,
               Acquire(c) \/ StepDone(c) \/ EffectDone(c) \/ SettleDone(c) \/ NestedDone(c)
        PROVE  released'[e] = released[e]
    <2>1. Resume(c) \/ UNCHANGED released
      BY <1>4 DEF Acquire, StepDone, EffectDone, SettleDone, NestedDone, AwaitNested
    <2> QED
      BY <1>3, <2>1
  <1>5. ASSUME NEW c \in Calls, NEW d \in Calls, AcquireReentrant(c, d)
        PROVE  released'[e] = released[e]
    <2>1. e # c /\ e # d
      BY <1>5 DEF AcquireReentrant, IdleInv
    <2> QED
      BY <1>5, <2>1 DEF AcquireReentrant
  <1>6. ASSUME NEW c \in Calls, HoldTimeout(c) PROVE released'[e] = released[e]
    BY <1>6 DEF HoldTimeout, AbandonIfIdle, SettleCall
  <1>7. ASSUME NEW c \in Calls, SettleBound(c) PROVE released'[e] = released[e]
    <2>1. e # c
      BY <1>7 DEF SettleBound
    <2> QED
      BY <1>7, <2>1 DEF SettleBound, AbandonIfIdle, SettleCall
  <1>8. ASSUME NEW c \in Calls, Forget(c) PROVE released'[e] = released[e]
    BY <1>8 DEF Forget, IdleInv
  <1> QED
    BY <1>1, <1>2, <1>4, <1>5, <1>6, <1>7, <1>8 DEF Next

\* While a flow has a request or a bounded settle write in flight, neither its
\* timers nor anybody else takes the lock from it.
THEOREM NoTimerUnderARequest == Spec => HeldUntilAnswered
  <1>1. MutexInv /\ [Next]_vars
            => [\A c \in Calls : counted[c] /\ counted'[c]
                   => released'[c] = released[c]]_vars
    BY StepKeepsBusyLocks
  <1>2. MutexInv /\ [Next]_vars => MutexInv'
    BY NextKeepsInv
  <1> QED
    BY InitInv, <1>1, <1>2, PTL DEF Spec, HeldUntilAnswered
=============================================================================
