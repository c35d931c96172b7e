------------------------- MODULE CatalogCacheProofs -------------------------
(***************************************************************************)
(* For every publication history of an honest publisher, every set of keys *)
(* and every compiled-in minimum: the cache never goes back behind a       *)
(* manifest once verified, no catalog of a revoked key stays on the        *)
(* screen, and a stored update requirement is not forgotten.               *)
(*                                                                         *)
(* Nothing but a refresh changes the trust rows while it runs, so what it  *)
(* read when it began is still in the database until its own steps change  *)
(* it (RefreshInv): in the order floor, revoked keys, screen, cache.       *)
(***************************************************************************)
EXTENDS CatalogCache, TLAPS

-----------------------------------------------------------------------------
(* The invariant. *)

AfterFetch == {"floor", "revoke", "reverify", "apply", "download"}
Refreshing == {"fetch"} \cup AfterFetch

\* What a refresh has read and done, step by step.
RefreshInv ==
    /\ pc \in Refreshing => /\ floor # Unreadable /\ revoked # Unreadable
                            /\ work.cached # None => cache # None
    /\ pc = "fetch" => work.floor >= floor
    /\ pc \in {"fetch", "floor", "revoke"} => revoked = work.trusted
    /\ pc \in AfterFetch => /\ work.v \in Versions
                            /\ work.v >= req \/ "reset_requirement" \in halfDone
                            /\ lineage[work.v].kid \notin revoked
    /\ pc \in AfterFetch \ {"floor"} => work.v <= floor

\* The catalog on the screen is of a trusted key, at every step but the one
\* that looks at it again.
ShownInv ==
    shown # None /\ revoked # Unreadable /\ pc # "reverify" /\ "reverify" \notin halfDone
        => lineage[shown].kid \notin revoked

\* A floor that can be read is behind nothing that was verified or required.
FloorInv ==
    /\ floor # Unreadable => best <= floor
    /\ floor # Unreadable /\ pc # "reset_requirement" /\ "reset_requirement" \notin halfDone
           => req <= floor
    /\ pc = "reset_requirement" => floor = CompiledMin

Inv == TypeOK /\ RefreshInv /\ ShownInv /\ FloorInv

-----------------------------------------------------------------------------
(* Types. *)

LEMMA History ==
    ASSUME TypeOK
    PROVE  /\ lineage \in [Versions -> [kid : Kids, revokes : SUBSET Kids, min : Builds]]
           /\ \A v \in Versions : lineage[v].kid \notin lineage[v].revokes
  <1>1. Honest(lineage)
    BY LineagesAssumption DEF TypeOK
  <1>2. \A v \in Versions : v \in 1..v
    BY NewestAssumption DEF Versions
  <1> QED
    BY <1>1, <1>2, LineagesAssumption DEF TypeOK, Honest

LEMMA Numbers ==
    /\ Newest \in Nat /\ CompiledMin \in 0..Newest /\ None \in 0..Newest
    /\ Versions \subseteq 0..Newest /\ \A n \in 0..Newest : n # None <=> n \in Versions
    /\ Unreadable \notin 0..Newest
    /\ \A a, b \in 0..Newest : Higher(a, b) \in 0..Newest /\ Higher(a, b) >= a /\ Higher(a, b) >= b
  BY NewestAssumption, UnreadableAssumption DEF Versions, None, Higher

\* The value of every variable, by its type.
LEMMA InRange ==
    ASSUME TypeOK
    PROVE  /\ floor # Unreadable => floor \in 0..Newest
           /\ revoked # Unreadable => revoked \in SUBSET Kids
           /\ work.v \in 0..Newest /\ work.trusted \in SUBSET Kids /\ work.floor \in 0..Newest
           /\ work.cached \in 0..Newest /\ work.etag \in 0..Newest
           /\ req \in 0..Newest /\ etag \in 0..Newest /\ shown \in 0..Newest
           /\ asked \in 0..Newest /\ best \in 0..Newest
           /\ faults \in 0..MaxFaults
  BY DEF TypeOK, Work

LEMMA FaultCounted ==
    ASSUME TypeOK, Fault
    PROVE  faults' \in 0..MaxFaults
  BY FaultsAssumption DEF TypeOK, Fault

LEMMA NoWorkTyped == NoWork \in Work
  BY Numbers DEF NoWork, Work

\* Loading shows a catalog of a trusted key, or none.
LEMMA Loads ==
    ASSUME TypeOK, NEW r \in 0..Newest, Load(r)
    PROVE  /\ loaded' \in BOOLEAN /\ shown' \in 0..Newest /\ asked' \in 0..Newest
           /\ halfDone' = halfDone \ {"reverify"}
           /\ shown' # None => lineage[shown'].kid \notin revoked
  <1>1. shown' = Verified(cache, revoked)
    BY DEF Load
  <1>2. Verified(cache, revoked) \in 0..Newest
    BY Numbers DEF Verified, TypeOK
  <1>3. Verified(cache, revoked) # None => lineage[Verified(cache, revoked)].kid \notin revoked
    BY DEF Verified
  <1>4. asked' \in 0..Newest
    BY Numbers DEF Load, Asking
  <1> QED
    BY <1>1, <1>2, <1>3, <1>4 DEF Load
-----------------------------------------------------------------------------
(* The invariant is kept. *)

StoreTyped == /\ floor' \in 0..Newest \cup {Unreadable}
              /\ revoked' = Unreadable \/ revoked' \in SUBSET Kids
              /\ req' \in 0..Newest /\ cache' \in 0..Newest \cup {Unreadable}
              /\ etag' \in 0..Newest /\ (etag' # None => cache' # None)
ScreenTyped == /\ loaded' \in BOOLEAN /\ shown' \in 0..Newest /\ asked' \in 0..Newest
               /\ halfDone' \subseteq HalfSteps
FlowTyped == /\ pc' \in Steps /\ work' \in Work
             /\ best' \in 0..Newest /\ faults' \in 0..MaxFaults

\* What a step leaves alone.
LEMMA Still ==
    ASSUME Inv
    PROVE  /\ UNCHANGED store => StoreTyped
           /\ UNCHANGED screen => ScreenTyped
           /\ UNCHANGED <<pc, work, best, faults>> => FlowTyped
           /\ UNCHANGED <<lineage, shown, revoked, halfDone, pc>> => ShownInv'
           /\ UNCHANGED <<floor, best, req, halfDone, pc>> => FloorInv'
           /\ pc' \notin Refreshing => RefreshInv'
  BY DEF Inv, TypeOK, StoreTyped, ScreenTyped, FlowTyped, ShownInv, FloorInv, RefreshInv,
         Refreshing, AfterFetch, store, screen

LEMMA AllTyped ==
    ASSUME TypeOK, UNCHANGED lineage, build' \in Builds, StoreTyped, ScreenTyped, FlowTyped
    PROVE  TypeOK'
  BY DEF TypeOK, StoreTyped, ScreenTyped, FlowTyped

LEMMA InvKept ==
    ASSUME Inv, [Next]_vars
    PROVE  Inv'
  <1>1. ASSUME LoadCached PROVE Inv'
    <2>1. ScreenTyped
      BY <1>1, Numbers, Loads DEF Inv, LoadCached, TypeOK, ScreenTyped, store, screen
    <2>2. ShownInv'
      BY <1>1, Numbers, Loads DEF Inv, LoadCached, TypeOK, ShownInv, Go, Finish, store,
         screen
    <2>3. FloorInv'
      BY <1>1, Numbers, Loads DEF Inv, LoadCached, TypeOK, FloorInv, Go, Finish, store,
         screen
    <2> QED
      BY <1>1, <2>1, <2>2, <2>3, Still, AllTyped DEF Inv, TypeOK, LoadCached, store,
         screen, Go, Finish, Refreshing, AfterFetch
  <1>2. ASSUME Begin PROVE Inv'
    <2>1. /\ pc = "idle" /\ UNCHANGED <<lineage, build, store, best, faults>>
          /\ ScreenTyped
          /\ shown' # None /\ revoked # Unreadable /\ "reverify" \notin halfDone'
                 => lineage[shown'].kid \notin revoked
          /\ halfDone' \cap {"reset_requirement"} = halfDone \cap {"reset_requirement"}
      BY <1>2, Numbers, Loads DEF Inv, ShownInv, Begin, TypeOK, ScreenTyped, store, screen
    <2>2. CASE ~TrustReadable
      <3>1. UNCHANGED <<pc, work>>
        BY <1>2, <2>2 DEF Begin
      <3>2. TypeOK'
        BY <2>1, <3>1, Still, AllTyped DEF Inv, TypeOK, store
      <3>3. RefreshInv'
        BY <2>1, <3>1, Still DEF Refreshing, AfterFetch
      <3> QED
        BY <2>1, <3>1, <3>2, <3>3 DEF Inv, ShownInv, FloorInv, store
    <2>3. CASE TrustReadable
      <3> DEFINE f == Higher(floor, CompiledMin)
                 c == IF shown' # None /\ cache # None THEN shown' ELSE None
                 e == IF shown' # None /\ cache # None THEN etag ELSE None
                 w == [v |-> None, trusted |-> revoked, floor |-> f, cached |-> c, etag |-> e]
      <3>1. pc' = "fetch" /\ work' = w
        BY <1>2, <2>3 DEF Begin, NoWork, Go
      <3>2. /\ floor # Unreadable /\ revoked # Unreadable
            /\ floor \in 0..Newest /\ revoked \in SUBSET Kids
        BY <2>3, InRange DEF Inv, TrustReadable
      <3>3. f \in 0..Newest /\ f >= floor
        BY <3>2, Numbers
      <3>4. c \in 0..Newest /\ e \in 0..Newest /\ (c # None => cache # None)
        BY <2>1, Numbers, InRange DEF ScreenTyped, Inv
      <3> HIDE DEF f, c, e
      <3>5. FlowTyped
        BY <2>1, <3>1, <3>2, <3>3, <3>4, Numbers, InRange DEF FlowTyped, Work, Steps, Inv
      <3>6. TypeOK'
        BY <2>1, <3>5, Still, AllTyped DEF Inv, TypeOK, store
      <3>7. RefreshInv'
        BY <2>1, <3>1, <3>2, <3>3, <3>4 DEF RefreshInv, Refreshing, AfterFetch, store
      <3>8. ShownInv' /\ FloorInv'
        BY <2>1, <3>1 DEF Inv, ShownInv, FloorInv, store
      <3> QED
        BY <3>6, <3>7, <3>8 DEF Inv
    <2> QED
      BY <2>2, <2>3
  <1>3. ASSUME NEW v \in Versions, Fetched(v) PROVE Inv'
    <2>1. /\ pc = "fetch" /\ UNCHANGED <<lineage, build, store, screen, best, faults>>
          /\ pc' \in {"idle", "floor"}
      BY <1>3 DEF Fetched, Go, Finish
    <2>2. FlowTyped
      BY <1>3, Numbers, NoWorkTyped DEF Inv, Fetched, TypeOK, FlowTyped, Go, Finish,
         Steps, HalfSteps, Fault, store, screen, Work
    <2>3. TypeOK' /\ ShownInv' /\ FloorInv'
      BY <2>1, <2>2, Still, AllTyped DEF Inv, TypeOK, ShownInv, FloorInv, store, screen
    <2>4. CASE v = work.etag
      BY <1>3, <2>3, <2>4, Still DEF Fetched, Finish, Inv, Refreshing, AfterFetch
    <2>5. CASE v # work.etag
      <3>1. /\ v >= work.floor /\ lineage[v].kid \notin work.trusted
            /\ pc' = "floor" /\ work' = [work EXCEPT !.v = v]
        BY <1>3, <2>5 DEF Fetched, VerifiesAgainst, Go
      <3>2. work'.v = v /\ work'.trusted = work.trusted /\ work'.cached = work.cached
        BY <3>1 DEF Inv, TypeOK, Work
      <3>3. /\ floor # Unreadable /\ revoked # Unreadable /\ revoked = work.trusted
            /\ work.floor >= floor /\ (work.cached # None => cache # None)
        BY <2>1 DEF Inv, RefreshInv, Refreshing
      <3>4. req <= floor \/ "reset_requirement" \in halfDone
        BY <2>1, <3>3 DEF Inv, FloorInv
      <3>5. v >= req \/ "reset_requirement" \in halfDone
        BY <3>1, <3>3, <3>4, Numbers, InRange DEF Inv, Versions
      <3> QED
        BY <2>1, <2>3, <3>1, <3>2, <3>3, <3>5
           DEF Inv, RefreshInv, Refreshing, AfterFetch, store, screen
    <2> QED
      BY <2>4, <2>5
  <1>4. ASSUME FetchFails PROVE Inv'
    <2>1. FlowTyped
      BY <1>4, Numbers, NoWorkTyped DEF Inv, FetchFails, TypeOK, FlowTyped, Go, Finish,
         Steps, HalfSteps, Fault, store, screen, Work
    <2>2. ShownInv'
      BY <1>4, Numbers DEF Inv, FetchFails, TypeOK, ShownInv, Go, Finish, store, screen
    <2>3. FloorInv'
      BY <1>4, Numbers DEF Inv, FetchFails, TypeOK, FloorInv, Go, Finish, store, screen
    <2> QED
      BY <1>4, <2>1, <2>2, <2>3, Still, AllTyped DEF Inv, TypeOK, FetchFails, store,
         screen, Go, Finish, Refreshing, AfterFetch
  <1>5. ASSUME RaiseFloor PROVE Inv'
    <2>1. /\ pc = "floor" /\ pc' = "revoke"
          /\ floor' = IF floor = Unreadable THEN floor ELSE Higher(floor, work.v)
          /\ best' = Higher(best, work.v)
          /\ UNCHANGED <<lineage, build, revoked, req, cache, etag, screen, work, faults>>
      BY <1>5 DEF RaiseFloor, Go
    <2>2. floor # Unreadable /\ floor \in 0..Newest
      BY <2>1, InRange DEF Inv, RefreshInv, Refreshing, AfterFetch
    <2>3. floor' \in 0..Newest /\ floor' >= floor /\ floor' >= work.v /\ floor' # Unreadable
      BY <2>1, <2>2, Numbers, InRange DEF Inv
    <2>4. best' \in 0..Newest /\ (best' = best \/ best' = work.v)
      BY <2>1, Numbers, InRange DEF Inv, Higher
    <2>5. TypeOK'
      BY <2>1, <2>3, <2>4 DEF Inv, TypeOK, Steps, screen
    <2>6. RefreshInv'
      BY <2>1, <2>2, <2>3 DEF Inv, RefreshInv, Refreshing, AfterFetch, screen
    <2>7. ShownInv'
      BY <2>1 DEF Inv, ShownInv, screen
    <2>8. best <= floor' /\ best' <= floor'
      BY <2>2, <2>3, <2>4, InRange DEF Inv, FloorInv
    <2>9. FloorInv'
      BY <2>1, <2>2, <2>3, <2>8, InRange DEF Inv, FloorInv, screen
    <2> QED
      BY <2>5, <2>6, <2>7, <2>9 DEF Inv
  <1>6. ASSUME Revoke PROVE Inv'
    <2>1. /\ pc = "revoke" /\ pc' \in {"reverify", "apply"}
          /\ revoked' = IF revoked = Unreadable THEN revoked
                        ELSE revoked \cup lineage[work.v].revokes
          /\ revoked' # Unreadable /\ revoked' # work.trusted => pc' = "reverify"
          /\ UNCHANGED <<lineage, build, floor, req, cache, etag, screen, work, best, faults>>
      BY <1>6 DEF Revoke, Go
    <2>2. /\ revoked # Unreadable /\ revoked = work.trusted /\ work.v \in Versions
          /\ lineage[work.v].kid \notin revoked
      BY <2>1 DEF Inv, RefreshInv, Refreshing, AfterFetch
    <2>3. /\ lineage[work.v].revokes \in SUBSET Kids
          /\ lineage[work.v].kid \notin lineage[work.v].revokes
      BY <2>2, History DEF Inv
    <2>4. revoked' \in SUBSET Kids /\ lineage[work.v].kid \notin revoked'
      BY <2>1, <2>2, <2>3, InRange DEF Inv
    <2>5. revoked' # Unreadable
      BY <2>4, UnreadableAssumption
    <2>6. TypeOK'
      BY <2>1, <2>4 DEF Inv, TypeOK, Steps, HalfSteps, screen
    <2>7. RefreshInv'
      BY <2>1, <2>4, <2>5 DEF Inv, RefreshInv, Refreshing, AfterFetch, screen
    <2>8. ShownInv'
      BY <2>1, <2>2, <2>5 DEF Inv, ShownInv, screen
    <2>9. FloorInv'
      BY <2>1 DEF Inv, FloorInv, screen
    <2> QED
      BY <2>6, <2>7, <2>8, <2>9 DEF Inv
  <1>7. ASSUME Reverify PROVE Inv'
    <2>1. ScreenTyped
      BY <1>7, Numbers, Loads DEF Inv, Reverify, TypeOK, ScreenTyped, store, screen
    <2>2. FlowTyped
      BY <1>7, Numbers, NoWorkTyped, Loads DEF Inv, Reverify, TypeOK, FlowTyped, Go,
         Finish, Steps, HalfSteps, Fault, store, screen, Work
    <2>3. RefreshInv'
      BY <1>7, Numbers, Loads DEF Inv, Reverify, TypeOK, RefreshInv, Refreshing,
         AfterFetch, Go, Finish, store, screen, Work
    <2>4. ShownInv'
      BY <1>7, Numbers, Loads DEF Inv, Reverify, TypeOK, ShownInv, Go, Finish, store,
         screen
    <2>5. FloorInv'
      BY <1>7, Numbers, Loads DEF Inv, Reverify, TypeOK, FloorInv, Go, Finish, store,
         screen
    <2> QED
      BY <1>7, <2>1, <2>2, <2>3, <2>4, <2>5, Still, AllTyped DEF Inv, TypeOK, Reverify,
         store, screen, Go, Finish, Refreshing, AfterFetch
  <1>8. ASSUME RequireUpdate PROVE Inv'
    <2>1. /\ pc = "apply" /\ pc' = "idle" /\ work' = NoWork
          /\ req' = work.v /\ Load(work.v)
          /\ UNCHANGED <<lineage, build, floor, revoked, cache, etag, best, faults>>
      BY <1>8 DEF RequireUpdate, Load, Finish
    <2>2. /\ floor # Unreadable /\ floor \in 0..Newest /\ work.v \in 0..Newest
          /\ work.v <= floor
      BY <2>1, InRange DEF Inv, RefreshInv, Refreshing, AfterFetch
    <2>3. /\ loaded' \in BOOLEAN /\ shown' \in 0..Newest /\ asked' \in 0..Newest
          /\ halfDone' = halfDone \ {"reverify"}
          /\ shown' # None => lineage[shown'].kid \notin revoked
      BY <2>1, <2>2, Loads DEF Inv
    <2>4. TypeOK'
      BY <2>1, <2>2, <2>3, NoWorkTyped DEF Inv, TypeOK, Steps
    <2>5. RefreshInv'
      BY <2>1, Still DEF Refreshing, AfterFetch
    <2>6. ShownInv' /\ FloorInv'
      BY <2>1, <2>2, <2>3 DEF Inv, ShownInv, FloorInv
    <2> QED
      BY <2>4, <2>5, <2>6 DEF Inv
  <1>9. ASSUME Accept PROVE Inv'
    <2>1. /\ pc = "apply"
          /\ req' = IF req = None \/ work.v >= req THEN None ELSE req
          /\ halfDone' = IF req' = None THEN halfDone \ {"reset_requirement"} ELSE halfDone
          /\ UNCHANGED <<lineage, build, floor, revoked, cache, loaded, shown, best, faults>>
      BY <1>9 DEF Accept
    <2>2. req' \in 0..Newest /\ req' <= req /\ (req' = None \/ req' = req)
      BY <2>1, Numbers, InRange DEF Inv, None
    <2>3. /\ floor # Unreadable /\ revoked # Unreadable /\ work.v \in Versions
          /\ (work.cached # None => cache # None)
          /\ work.v >= req \/ "reset_requirement" \in halfDone
          /\ lineage[work.v].kid \notin revoked /\ work.v <= floor
      BY <2>1 DEF Inv, RefreshInv, Refreshing, AfterFetch
    <2>4. /\ work.v \in 0..Newest /\ work.v # None /\ floor \in 0..Newest
          /\ asked' \in 0..Newest /\ etag' \in 0..Newest /\ (etag' # None => cache # None)
      <3>1. work.v \in 0..Newest /\ work.v # None /\ floor \in 0..Newest
        BY <2>3, Numbers, InRange DEF Inv
      <3>2. Asking(req') \in 0..Newest
        BY <2>2, Numbers DEF Asking
      <3>3. asked' = asked \/ asked' = Asking(req')
        BY <1>9 DEF Accept
      <3>4. etag' = etag \/ (etag' = work.v /\ work.v = work.cached)
        BY <1>9 DEF Accept
      <3> QED
        BY <2>3, <3>1, <3>2, <3>3, <3>4, InRange DEF Inv, TypeOK
    <2>5. (pc' = "idle" /\ work' = NoWork) \/ (pc' = "download" /\ UNCHANGED work)
      BY <1>9 DEF Accept, Go, Finish
    <2>6. TypeOK'
      BY <2>1, <2>2, <2>4, <2>5, NoWorkTyped DEF Inv, TypeOK, Steps
    <2>7. work.v >= req' \/ "reset_requirement" \in halfDone'
      <3>1. CASE req' = None
        <4>1. work.v >= 0
          BY <2>4, NewestAssumption
        <4> QED
          BY <3>1, <4>1 DEF None
      <3>2. CASE req' # None
        BY <2>1, <2>2, <2>3, <3>2
      <3> QED
        BY <3>1, <3>2
    <2>8. RefreshInv'
      BY <2>1, <2>3, <2>5, <2>7 DEF RefreshInv, Refreshing, AfterFetch
    <2>9. ShownInv'
      BY <2>1, <2>5 DEF Inv, ShownInv
    <2>10. best <= floor
      BY <2>3 DEF Inv, FloorInv
    <2>11. req' <= floor \/ "reset_requirement" \in halfDone'
      BY <2>1, <2>2, <2>3, <2>4, InRange DEF Inv, FloorInv, None
    <2>12. FloorInv'
      BY <2>1, <2>5, <2>10, <2>11 DEF FloorInv
    <2> QED
      BY <2>6, <2>8, <2>9, <2>12 DEF Inv
  <1>10. ASSUME Save PROVE Inv'
    <2>1. /\ pc = "download" /\ pc' = "idle" /\ work' = NoWork
          /\ UNCHANGED <<lineage, build, revoked, req, best, faults>>
      BY <1>10 DEF Save, Finish
    <2>2. /\ floor # Unreadable /\ work.v \in Versions /\ lineage[work.v].kid \notin revoked
          /\ work.v <= floor
      BY <2>1 DEF Inv, RefreshInv, Refreshing, AfterFetch
    <2>3. floor \in 0..Newest /\ work.v \in 0..Newest /\ work.v # None
      BY <2>2, Numbers, InRange DEF Inv
    <2>4. Asking(req) \in 0..Newest
      BY Numbers, InRange DEF Asking, Inv
    <2>5. CASE work.v >= floor
      <3>1. /\ floor' = work.v /\ cache' = work.v /\ etag' = work.v
            /\ shown' = work.v /\ asked' = Asking(req) /\ UNCHANGED loaded
            /\ halfDone' = halfDone \ {"reverify"}
        BY <1>10, <2>2, <2>5 DEF Save
      <3>2. floor' = floor
        BY <2>2, <2>3, <2>5, <3>1
      <3>3. TypeOK'
        BY <2>1, <2>3, <2>4, <3>1, NoWorkTyped DEF Inv, TypeOK, Steps
      <3>4. ShownInv' /\ FloorInv'
        BY <2>1, <2>2, <3>1, <3>2 DEF Inv, ShownInv, FloorInv
      <3> QED
        BY <2>1, <3>3, <3>4, Still DEF Inv, Refreshing, AfterFetch
    <2>6. CASE ~(work.v >= floor)
      <3>1. Load(req) /\ UNCHANGED <<floor, cache, etag>>
        BY <1>10, <2>6 DEF Save
      <3>2. /\ loaded' \in BOOLEAN /\ shown' \in 0..Newest /\ asked' \in 0..Newest
            /\ halfDone' = halfDone \ {"reverify"}
            /\ shown' # None => lineage[shown'].kid \notin revoked
        BY <3>1, InRange, Loads DEF Inv
      <3>3. TypeOK'
        BY <2>1, <3>1, <3>2, NoWorkTyped DEF Inv, TypeOK, Steps
      <3>4. ShownInv' /\ FloorInv'
        BY <2>1, <3>1, <3>2 DEF Inv, ShownInv, FloorInv
      <3> QED
        BY <2>1, <3>3, <3>4, Still DEF Inv, Refreshing, AfterFetch
    <2> QED
      BY <2>5, <2>6
  <1>11. ASSUME ResetStart PROVE Inv'
    <2>1. StoreTyped
      BY <1>11, Numbers DEF Inv, ResetStart, TypeOK, StoreTyped, store, screen
    <2>2. FlowTyped
      BY <1>11, Numbers, NoWorkTyped DEF Inv, ResetStart, TypeOK, FlowTyped, Go,
         Finish, Steps, HalfSteps, Fault, store, screen, Work
    <2>3. ShownInv'
      BY <1>11, Numbers DEF Inv, ResetStart, TypeOK, ShownInv, Go, Finish, store,
         screen
    <2>4. FloorInv'
      BY <1>11, Numbers DEF Inv, ResetStart, TypeOK, FloorInv, Go, Finish, store,
         screen
    <2> QED
      BY <1>11, <2>1, <2>2, <2>3, <2>4, Still, AllTyped DEF Inv, TypeOK, ResetStart,
         store, screen, Go, Finish, Refreshing, AfterFetch
  <1>12. ASSUME ResetRevoked PROVE Inv'
    <2>1. StoreTyped
      BY <1>12, Numbers DEF Inv, ResetRevoked, TypeOK, StoreTyped, store, screen
    <2>2. FlowTyped
      BY <1>12, Numbers, NoWorkTyped DEF Inv, ResetRevoked, TypeOK, FlowTyped, Go,
         Finish, Steps, HalfSteps, Fault, store, screen, Work
    <2>3. ShownInv'
      BY <1>12, Numbers DEF Inv, ResetRevoked, TypeOK, ShownInv, Go, Finish, store,
         screen
    <2>4. FloorInv'
      BY <1>12, Numbers DEF Inv, ResetRevoked, TypeOK, FloorInv, Go, Finish, store,
         screen
    <2> QED
      BY <1>12, <2>1, <2>2, <2>3, <2>4, Still, AllTyped DEF Inv, TypeOK, ResetRevoked,
         store, screen, Go, Finish, Refreshing, AfterFetch
  <1>13. ASSUME ResetFloor PROVE Inv'
    <2>1. /\ pc = "reset_floor"
          /\ \/ floor = Unreadable /\ floor' = CompiledMin /\ best' = CompiledMin
                /\ pc' = "reset_requirement"
             \/ floor # Unreadable /\ UNCHANGED <<floor, best>> /\ pc' = "reset_load"
          /\ UNCHANGED <<lineage, build, revoked, req, cache, etag, screen, work, faults>>
      BY <1>13 DEF ResetFloor, Go
    <2>2. TypeOK'
      BY <2>1, Numbers DEF Inv, TypeOK, Steps, HalfSteps, screen
    <2>3. RefreshInv' /\ ShownInv'
      BY <2>1, Still DEF Inv, ShownInv, Refreshing, AfterFetch, screen
    <2>4. FloorInv'
      <3>1. CASE floor = Unreadable
        BY <2>1, <3>1, NewestAssumption DEF FloorInv
      <3>2. CASE floor # Unreadable
        BY <2>1, <3>2 DEF Inv, FloorInv, screen
      <3> QED
        BY <3>1, <3>2
    <2> QED
      BY <2>2, <2>3, <2>4 DEF Inv
  <1>14. ASSUME ResetRequirement PROVE Inv'
    <2>1. /\ pc = "reset_requirement" /\ pc' = "reset_load" /\ req' = None
          /\ halfDone' = halfDone \ {"reset_requirement"}
          /\ UNCHANGED <<lineage, build, floor, revoked, cache, etag>>
          /\ UNCHANGED <<loaded, shown, asked, work, best, faults>>
      BY <1>14 DEF ResetRequirement, Go
    <2>2. TypeOK'
      BY <2>1, Numbers DEF Inv, TypeOK, Steps
    <2>3. RefreshInv' /\ ShownInv'
      BY <2>1, Still DEF Inv, ShownInv, Refreshing, AfterFetch
    <2>4. FloorInv'
      BY <2>1, Numbers, InRange DEF Inv, FloorInv, None
    <2> QED
      BY <2>2, <2>3, <2>4 DEF Inv
  <1>15. ASSUME ResetLoad PROVE Inv'
    <2>1. ScreenTyped
      BY <1>15, Numbers, Loads DEF Inv, ResetLoad, TypeOK, ScreenTyped, store, screen
    <2>2. FlowTyped
      BY <1>15, Numbers, NoWorkTyped, Loads DEF Inv, ResetLoad, TypeOK, FlowTyped, Go,
         Finish, Steps, HalfSteps, Fault, store, screen, Work
    <2>3. ShownInv'
      BY <1>15, Numbers, Loads DEF Inv, ResetLoad, TypeOK, ShownInv, Go, Finish, store,
         screen
    <2>4. FloorInv'
      BY <1>15, Numbers, Loads DEF Inv, ResetLoad, TypeOK, FloorInv, Go, Finish, store,
         screen
    <2> QED
      BY <1>15, <2>1, <2>2, <2>3, <2>4, Still, AllTyped DEF Inv, TypeOK, ResetLoad,
         store, screen, Go, Finish, Refreshing, AfterFetch
  <1>16. ASSUME StoreFails PROVE Inv'
    <2>1. /\ pc' = "idle" /\ work' = NoWork /\ faults' \in 0..MaxFaults
          /\ halfDone' = halfDone \cup ({pc} \cap HalfSteps)
          /\ UNCHANGED <<lineage, build, store, loaded, shown, asked, best>>
      BY <1>16, FaultCounted DEF Inv, StoreFails, Finish
    <2>2. TypeOK'
      BY <2>1, NoWorkTyped DEF Inv, TypeOK, Steps, store
    <2>3. RefreshInv'
      BY <2>1, Still DEF Refreshing, AfterFetch
    <2>4. ShownInv' /\ FloorInv'
      BY <2>1 DEF Inv, ShownInv, FloorInv, HalfSteps, store
    <2> QED
      BY <2>2, <2>3, <2>4 DEF Inv
  <1>17. ASSUME NEW b \in Builds, Restart(b), faults' \in 0..MaxFaults PROVE Inv'
    <2>1. /\ build' = b /\ loaded' = FALSE /\ shown' = None /\ asked' = None
          /\ halfDone' = (halfDone \ {"reverify"}) \cup ({pc} \cap {"reset_requirement"})
          /\ pc' = "idle" /\ work' = NoWork
          /\ UNCHANGED <<lineage, store, best>>
      BY <1>17 DEF Restart, Finish
    <2>2. TypeOK'
      BY <1>17, <2>1, Numbers, NoWorkTyped DEF Inv, TypeOK, Steps, HalfSteps, store
    <2>3. RefreshInv' /\ ShownInv'
      BY <2>1, Still DEF ShownInv, Refreshing, AfterFetch
    <2>4. FloorInv'
      BY <2>1 DEF Inv, FloorInv, store
    <2> QED
      BY <2>2, <2>3, <2>4 DEF Inv
  <1>18. ASSUME Damaged PROVE Inv'
    <2>1. /\ pc = "idle" /\ faults' \in 0..MaxFaults
          /\ floor' \in {floor, Unreadable} /\ revoked' \in {revoked, Unreadable}
          /\ cache' = cache \/ (cache # None /\ cache' = Unreadable)
          /\ UNCHANGED <<lineage, build, req, etag, screen, pc, work, best>>
      BY <1>18, FaultCounted DEF Inv, Damaged
    <2>2. Unreadable # None
      BY Numbers
    <2>3. TypeOK'
      BY <2>1, <2>2 DEF Inv, TypeOK, screen
    <2>4. RefreshInv'
      BY <2>1, Still DEF Refreshing, AfterFetch
    <2>5. ShownInv' /\ FloorInv'
      BY <2>1 DEF Inv, ShownInv, FloorInv, screen
    <2> QED
      BY <2>3, <2>4, <2>5 DEF Inv
  <1>19. CASE UNCHANGED vars
    BY <1>19 DEF Inv, TypeOK, RefreshInv, ShownInv, FloorInv, vars, store, screen
  <1> QED
    BY <1>1, <1>2, <1>3, <1>4, <1>5, <1>6, <1>7, <1>8, <1>9, <1>10, <1>11, <1>12,
       <1>13, <1>14, <1>15, <1>16, <1>17, <1>18, <1>19, FaultsAssumption DEF Next,
       RefreshStep, ResetStep, Dies, AppUpdate, Fault, Inv, TypeOK, Builds
LEMMA InitInv == Init => Inv
  <1> SUFFICES ASSUME Init PROVE Inv
    OBVIOUS
  <1>1. TypeOK
    <2>1. 0 \in 0..Newest /\ 0 \in 0..MaxFaults /\ 1 \in Builds
      BY Numbers, FaultsAssumption DEF None, Builds
    <2> QED
      BY <2>1, NoWorkTyped DEF Init, TypeOK, Steps, None
  <1>2. RefreshInv /\ ShownInv
    BY DEF Init, RefreshInv, ShownInv, Refreshing, AfterFetch
  <1>3. FloorInv
    BY DEF Init, FloorInv, None
  <1> QED
    BY <1>1, <1>2, <1>3 DEF Inv

\* The rows, the screen and the refresh under way fit together in every state.
THEOREM InvHolds == Spec => []Inv
  <1>1. Inv /\ [Next]_vars => Inv'
    BY InvKept
  <1> QED
    BY InitInv, <1>1, PTL DEF Spec

-----------------------------------------------------------------------------
(* Theorems. *)

\* Every row, and everything the manager holds, has its type: also a row that
\* does not parse, which is never taken for a version or for a set of keys.
THEOREM RowsAreTyped == Spec => []TypeOK
  <1>1. Inv => TypeOK
    BY DEF Inv
  <1> QED
    BY <1>1, InvHolds, PTL

\* At rest, a catalog of a key known to be revoked is not on the screen.
THEOREM ScreenIsTrusted == Spec => []ScreenTrusted
  <1>1. Inv => ScreenTrusted
    BY DEF Inv, ShownInv, ScreenTrusted
  <1> QED
    BY <1>1, InvHolds, PTL

\* What is saved is at least as new as everything verified since the floor was
\* last discarded.
THEOREM CacheNeverRollsBack == Spec => NoRollback
  <1>1. ASSUME Inv, [Next]_vars, cache' # cache, cache' \in Versions
        PROVE  cache' >= best
    <2>1. Save \/ ResetStart \/ Damaged
      BY <1>1 DEF Next, LoadCached, Begin, Fetched, FetchFails, RefreshStep, RaiseFloor,
         Revoke, Reverify, RequireUpdate, Accept, ResetStep, ResetRevoked, ResetFloor,
         ResetRequirement, ResetLoad, StoreFails, Dies, AppUpdate, Restart, vars, store
    <2>2. CASE Save
      <3>1. floor # Unreadable /\ work.v >= floor /\ cache' = work.v
        BY <1>1, <2>2 DEF Save
      <3>2. best <= floor
        BY <1>1, <3>1 DEF Inv, FloorInv
      <3> QED
        BY <1>1, <3>1, <3>2, InRange DEF Inv
    <2>3. CASE ResetStart
      BY <1>1, <2>3 DEF ResetStart, Versions, None
    <2>4. CASE Damaged
      BY <1>1, <2>4, Numbers DEF Damaged
    <2> QED
      BY <2>1, <2>2, <2>3, <2>4
  <1>2. Inv /\ [Next]_vars => [cache' # cache /\ cache' \in Versions => cache' >= best]_vars
    BY <1>1
  <1> QED
    BY <1>2, InvHolds, PTL DEF Spec, NoRollback

\* Only a manifest at least as new, or the reset that discards the floor, clears
\* a requirement or replaces it.
THEOREM RequirementIsKept == Spec => RequirementKept
  <1> DEFINE Kept == \/ req' > req
                     \/ req' = None /\ (work.v >= req \/ floor = CompiledMin)
                     \/ "reset_requirement" \in halfDone
  <1>1. ASSUME Inv, [Next]_vars, req # None, req' # req
        PROVE  Kept
    <2>1. RequireUpdate \/ Accept \/ ResetRequirement
      BY <1>1 DEF Next, LoadCached, Begin, Fetched, FetchFails, RefreshStep, RaiseFloor,
         Revoke, Reverify, Save, ResetStep, ResetStart, ResetRevoked, ResetFloor,
         ResetLoad, StoreFails, Dies, AppUpdate, Restart, Damaged, vars, store
    <2>2. CASE RequireUpdate
      <3>1. req' = work.v /\ (work.v >= req \/ "reset_requirement" \in halfDone)
        BY <1>1, <2>2 DEF RequireUpdate, Inv, RefreshInv, AfterFetch
      <3> QED
        BY <1>1, <3>1, InRange DEF Inv
    <2>3. CASE Accept
      BY <1>1, <2>3 DEF Accept
    <2>4. CASE ResetRequirement
      BY <1>1, <2>4 DEF ResetRequirement, Inv, FloorInv
    <2> QED
      BY <2>1, <2>2, <2>3, <2>4
  <1>2. Inv /\ [Next]_vars => [req # None /\ req' # req => Kept]_vars
    BY <1>1
  <1> QED
    BY <1>2, InvHolds, PTL DEF Spec, RequirementKept
=============================================================================
