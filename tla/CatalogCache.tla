---------------------------- MODULE CatalogCache ----------------------------
(***************************************************************************)
(* The signed-catalog cache of the app: CatalogManager                     *)
(* (apps/mobile/src/catalog/manager.ts) over its SQLite store (store.ts),  *)
(* with the envelope check of verify.ts.  The app has one manager; its     *)
(* load, refresh and reset never interleave, and a refresh awaits the      *)
(* store or the network between its steps, where the app may die.          *)
(*                                                                         *)
(* A catalog is its version.  The publisher is honest: `lineage` gives for *)
(* every version its key, the keys it revokes and the app build it needs.  *)
(* Any version may be served at any time: one not yet replaced, or a stale *)
(* edge.  A manifest whose sidecars are of another version is a failed     *)
(* fetch.                                                                  *)
(***************************************************************************)
EXTENDS Naturals, FiniteSets

CONSTANTS
    Kids,           \* signing keys compiled into the app
    Newest,         \* versions are 1..Newest
    Lineages,       \* the publication histories
    CompiledMin,    \* MIN_CATALOG_VERSION; 0 is none
    Unreadable,     \* a stored row that does not parse
    MaxFaults       \* bound on deaths, damaged rows and failing writes

Versions == 1..Newest
None == 0
Builds == 1..2
HalfSteps == {"reverify", "reset_requirement"}

\* The publisher never signs with a key it has revoked, nor revokes its own.
Honest(l) == \A v \in Versions : \A u \in 1..v : l[v].kid \notin l[u].revokes

ASSUME NewestAssumption == Newest \in Nat \ {0} /\ CompiledMin \in Nat /\ CompiledMin <= Newest
ASSUME LineagesAssumption ==
    \A l \in Lineages : l \in [Versions -> [kid : Kids, revokes : SUBSET Kids, min : Builds]]
                        /\ Honest(l)
ASSUME UnreadableAssumption == /\ Unreadable \notin 0..Newest
                               /\ \A kids \in SUBSET Kids : Unreadable # kids
ASSUME FaultsAssumption == MaxFaults \in Nat

VARIABLES
    lineage, build,
    \* the database: meta rows and the cached catalog
    floor,      \* maxVerifiedCatalogVersion
    revoked,    \* revokedKids
    req,        \* updateRequired: the version that set it
    cache, etag,
    \* the manager
    loaded,
    shown,      \* state.snapshot
    asked,      \* state.updateRequired
    halfDone,   \* the steps that a failure has left half done
    pc, work,   \* a refresh or a reset under way, and its locals
    best,       \* the greatest version verified, and noted, since the floor was discarded
    faults

store == <<floor, revoked, req, cache, etag>>
screen == <<loaded, shown, asked, halfDone>>
vars == <<lineage, build, store, screen, pc, work, best, faults>>

NoWork == [v |-> None, trusted |-> {}, floor |-> None, cached |-> None, etag |-> None]

Work == [v : 0..Newest, trusted : SUBSET Kids, floor : 0..Newest,
         cached : 0..Newest, etag : 0..Newest]
Steps == {"idle", "fetch", "floor", "revoke", "apply", "download"}
         \cup {"reset_revoked", "reset_floor", "reset_load"} \cup HalfSteps

TypeOK == /\ lineage \in Lineages /\ build \in Builds
          /\ floor \in 0..Newest \cup {Unreadable}
          /\ (revoked = Unreadable \/ revoked \in SUBSET Kids)
          /\ req \in 0..Newest /\ cache \in 0..Newest \cup {Unreadable}
          /\ etag \in 0..Newest /\ (etag # None => cache # None)
          /\ loaded \in BOOLEAN /\ shown \in 0..Newest /\ asked \in 0..Newest
          /\ pc \in Steps
          /\ work \in Work
          /\ halfDone \subseteq HalfSteps
          /\ best \in 0..Newest /\ faults \in 0..MaxFaults

Init == /\ lineage \in Lineages /\ build = 1
        /\ floor = None /\ revoked = {} /\ req = None /\ cache = None /\ etag = None
        /\ loaded = FALSE /\ shown = None /\ asked = None /\ halfDone = {}
        /\ pc = "idle" /\ work = NoWork /\ best = None /\ faults = 0

Fault == faults < MaxFaults /\ faults' = faults + 1
Higher(a, b) == IF a >= b THEN a ELSE b

-----------------------------------------------------------------------------
(* Loading and verifying.                                                  *)

\* verifyStored: the cached catalog, when its key is still trusted.
Verified(c, r) ==
    IF c = Unreadable \/ r = Unreadable THEN None
    ELSE IF c # None /\ lineage[c].kid \in r THEN None ELSE c

\* readUpdateRequired: a requirement this build does not meet.
Asking(r) == IF r # None /\ build < lineage[r].min THEN r ELSE None

\* loadCachedNow, with the requirement row r.
Load(r) == /\ loaded' = TRUE
           /\ shown' = Verified(cache, revoked)
           /\ asked' = Asking(r)
           /\ halfDone' = halfDone \ {"reverify"}

\* readTrust: both rows must be readable; a compiled-in minimum is a floor too.
TrustReadable == floor # Unreadable /\ revoked # Unreadable

\* Mutant: the version already verified is refused.
VerifiesStrictly(v, f, r) == v > f /\ lineage[v].kid \notin r
\* verifyCatalogEnvelope, of the honest version v.
VerifiesAgainst(v, f, r) == v >= f /\ lineage[v].kid \notin r

-----------------------------------------------------------------------------
(* refreshNow.                                                             *)

Go(step) == pc' = step
Finish == pc' = "idle" /\ work' = NoWork

LoadCached ==
    /\ pc = "idle" /\ ~loaded
    /\ Load(req)
    /\ UNCHANGED <<lineage, build, store, pc, work, best, faults>>

\* The cache is loaded when it was not, then the trust state and the cache read.
Begin ==
    /\ pc = "idle"
    /\ IF loaded THEN UNCHANGED screen ELSE Load(req)
    /\ IF TrustReadable
       THEN LET usable == shown' # None /\ cache # None
            IN  /\ Go("fetch")
                /\ work' = [NoWork EXCEPT !.trusted = revoked, !.floor = Higher(floor, CompiledMin),
                                          !.cached = IF usable THEN shown' ELSE None,
                                          !.etag = IF usable THEN etag ELSE None]
       ELSE UNCHANGED <<pc, work>>
    /\ UNCHANGED <<lineage, build, store, best, faults>>

\* The served version v is what the cache holds (304), or it is fetched whole and
\* verifies.
Fetched(v) ==
    /\ pc = "fetch"
    /\ IF v = work.etag
       THEN Finish
       ELSE /\ VerifiesAgainst(v, work.floor, work.trusted)
            /\ Go("floor") /\ work' = [work EXCEPT !.v = v]
    /\ UNCHANGED <<lineage, build, store, screen, best, faults>>

\* The network fails, or what it serves does not verify; or a shard does not.
FetchFails ==
    /\ pc \in {"fetch", "download"}
    /\ Finish
    /\ UNCHANGED <<lineage, build, store, screen, best, faults>>

\* Mutant: the floor is raised by the save alone.
RaiseFloorAtSave ==
    /\ pc = "floor" /\ Go("revoke")
    /\ best' = Higher(best, work.v)
    /\ UNCHANGED <<lineage, build, store, screen, work, faults>>
\* raiseFloor
RaiseFloor ==
    /\ pc = "floor"
    /\ floor' = IF floor = Unreadable THEN floor ELSE Higher(floor, work.v)
    /\ best' = Higher(best, work.v)
    /\ Go("revoke")
    /\ UNCHANGED <<lineage, build, revoked, req, cache, etag, screen, work, faults>>

\* Mutant: what is on the screen is not looked at again.
RevokeOnly ==
    /\ pc = "revoke"
    /\ revoked' = IF revoked = Unreadable THEN revoked ELSE revoked \cup lineage[work.v].revokes
    /\ Go("apply")
    /\ UNCHANGED <<lineage, build, floor, req, cache, etag, screen, work, best, faults>>
\* revokedKids[]: the union, and whether it grew what this refresh had read.
Revoke ==
    /\ pc = "revoke"
    /\ revoked' = IF revoked = Unreadable THEN revoked ELSE revoked \cup lineage[work.v].revokes
    /\ Go(IF revoked' # Unreadable /\ revoked' # work.trusted THEN "reverify" ELSE "apply")
    /\ UNCHANGED <<lineage, build, floor, req, cache, etag, screen, work, best, faults>>

Reverify ==
    /\ pc = "reverify"
    /\ Load(req)
    /\ work' = [work EXCEPT !.cached = IF shown' # None /\ cache # None THEN shown' ELSE None]
    /\ Go("apply")
    /\ UNCHANGED <<lineage, build, store, best, faults>>

\* This build is too old: the requirement is stored, nothing is downloaded.
RequireUpdate ==
    /\ pc = "apply" /\ build < lineage[work.v].min
    /\ req' = work.v
    /\ Load(req')
    /\ Finish
    /\ UNCHANGED <<lineage, build, floor, revoked, cache, etag, best, faults>>

\* A manifest at least as new clears the requirement.  What is cached already is
\* stored again with the new etag, when the floor allows; else download.
Accept ==
    /\ pc = "apply" /\ build >= lineage[work.v].min
    /\ req' = IF req = None \/ work.v >= req THEN None ELSE req
    /\ IF work.v = work.cached
       THEN /\ etag' = IF floor # Unreadable /\ work.v >= floor THEN work.v ELSE etag
            /\ asked' = IF floor # Unreadable /\ work.v >= floor THEN Asking(req') ELSE asked
            /\ Finish
       ELSE Go("download") /\ UNCHANGED <<etag, work, asked>>
    /\ halfDone' = IF req' = None THEN halfDone \ {"reset_requirement"} ELSE halfDone
    /\ UNCHANGED <<lineage, build, floor, revoked, cache, loaded, shown, best, faults>>

\* Every shard is there and agrees: saveCatalog, refused below the floor.
Save ==
    /\ pc = "download"
    /\ IF floor # Unreadable /\ work.v >= floor
       THEN /\ floor' = work.v /\ cache' = work.v /\ etag' = work.v
            /\ shown' = work.v /\ asked' = Asking(req) /\ UNCHANGED loaded
            /\ halfDone' = halfDone \ {"reverify"}
       ELSE Load(req) /\ UNCHANGED <<floor, cache, etag>>
    /\ Finish
    /\ UNCHANGED <<lineage, build, revoked, req, best, faults>>

-----------------------------------------------------------------------------
(* resetNow: only for a trust row that does not parse.                     *)

\* Mutant: the etag outlives the catalog.
ResetStartFilesOnly ==
    /\ pc = "idle" /\ ~TrustReadable
    /\ cache' = None
    /\ Go("reset_revoked")
    /\ UNCHANGED <<lineage, build, floor, revoked, req, etag, screen, work, best, faults>>
ResetStart ==
    /\ pc = "idle" /\ ~TrustReadable
    /\ cache' = None /\ etag' = None
    /\ Go("reset_revoked")
    /\ UNCHANGED <<lineage, build, floor, revoked, req, screen, work, best, faults>>

ResetRevoked ==
    /\ pc = "reset_revoked"
    /\ revoked' = IF revoked = Unreadable THEN {} ELSE revoked
    /\ Go("reset_floor")
    /\ UNCHANGED <<lineage, build, floor, req, cache, etag, screen, work, best, faults>>

\* Mutant: the requirement outlives the floor.
ResetFloorOnly ==
    /\ pc = "reset_floor"
    /\ IF floor = Unreadable THEN floor' = CompiledMin /\ best' = CompiledMin
                             ELSE UNCHANGED <<floor, best>>
    /\ Go("reset_load")
    /\ UNCHANGED <<lineage, build, revoked, req, cache, etag, screen, work, faults>>
\* A valid floor is kept, an unreadable one re-seeded.
ResetFloor ==
    /\ pc = "reset_floor"
    /\ IF floor = Unreadable
       THEN floor' = CompiledMin /\ best' = CompiledMin /\ Go("reset_requirement")
       ELSE UNCHANGED <<floor, best>> /\ Go("reset_load")
    /\ UNCHANGED <<lineage, build, revoked, req, cache, etag, screen, work, faults>>

\* A requirement cannot be ordered against a discarded floor.
ResetRequirement ==
    /\ pc = "reset_requirement"
    /\ req' = None
    /\ halfDone' = halfDone \ {pc} /\ Go("reset_load")
    /\ UNCHANGED <<lineage, build, floor, revoked, cache, etag, loaded, shown, asked, work, best, faults>>

ResetLoad ==
    /\ pc = "reset_load"
    /\ Load(req)
    /\ Finish
    /\ UNCHANGED <<lineage, build, store, best, faults>>

-----------------------------------------------------------------------------
(* What goes wrong, and what goes on.                                      *)

\* A read or a write fails: a refresh ends with network_error, a reset throws.
StoreFails ==
    /\ pc \notin {"idle", "fetch"} /\ Fault
    /\ halfDone' = halfDone \cup ({pc} \cap HalfSteps)
    /\ Finish
    /\ UNCHANGED <<lineage, build, store, loaded, shown, asked, best>>

\* The process dies, or is replaced by a newer build.
Restart(b) ==
    /\ build' = b /\ loaded' = FALSE /\ shown' = None /\ asked' = None
    /\ halfDone' = (halfDone \ {"reverify"}) \cup ({pc} \cap {"reset_requirement"})
    /\ Finish
    /\ UNCHANGED <<lineage, store, best>>
Dies == Fault /\ Restart(build)
AppUpdate == build = 1 /\ Restart(2) /\ UNCHANGED faults

\* A row of the database is damaged at rest.
Damaged ==
    /\ pc = "idle" /\ Fault
    /\ \/ floor' = Unreadable /\ UNCHANGED <<revoked, cache>>
       \/ revoked' = Unreadable /\ UNCHANGED <<floor, cache>>
       \/ cache # None /\ cache' = Unreadable /\ UNCHANGED <<floor, revoked>>
    /\ UNCHANGED <<lineage, build, req, etag, screen, pc, work, best>>

RefreshStep == RaiseFloor \/ Revoke \/ Reverify \/ RequireUpdate \/ Accept
ResetStep == ResetStart \/ ResetRevoked \/ ResetFloor \/ ResetRequirement \/ ResetLoad

Next == \/ LoadCached \/ Begin \/ (\E v \in Versions : Fetched(v)) \/ FetchFails
        \/ RefreshStep \/ Save \/ ResetStep
        \/ StoreFails \/ Dies \/ AppUpdate \/ Damaged

\* The app keeps refreshing (at every start, from the outbox, from the banner), its
\* player resets what cannot be read, and the newest catalog can be fetched whole
\* again and again.
Fairness == /\ WF_vars(Begin /\ TrustReadable) /\ WF_vars(RefreshStep) /\ WF_vars(ResetStep)
            /\ SF_vars(Fetched(Newest)) /\ SF_vars(Save)

Spec == Init /\ [][Next]_vars /\ Fairness

-----------------------------------------------------------------------------
(* Properties.                                                             *)

\* "not older than the floor": what is stored, or put on the screen by a download,
\* is never older than a manifest verified before, not even one that only asked
\* for an update, however the cache was lost in between.
NoRollback ==
    [][cache' # cache /\ cache' \in Versions => cache' >= best]_vars

\* "those keys stop being trusted at once": between refreshes, no catalog is on the
\* screen that was signed by a key this install knows to be revoked: except after a
\* failing store has ended the refresh that learned it, until the next load.
ScreenTrusted ==
    pc = "idle" /\ shown # None /\ revoked # Unreadable /\ "reverify" \notin halfDone
        => lineage[shown].kid \notin revoked

\* "A stored requirement is cleared only by a verified manifest at least as new";
\* and no older one takes its place.  Only a discarded floor takes it along: a reset
\* that ended between the two leaves a requirement that any manifest may replace.
RequirementKept ==
    [][req # None /\ req' # req =>
           \/ req' > req
           \/ req' = None /\ (work.v >= req \/ floor = CompiledMin)
           \/ "reset_requirement" \in halfDone]_vars

\* Once nothing more breaks, the newest catalog is on the screen for good, or the
\* player is asked for the build it needs: also after a revocation, a damaged row,
\* or the update that was asked for.
ComesToNewest == <>[](shown = Newest \/ asked # None)
=============================================================================
