-------------------------------- MODULE Updater --------------------------------
(***************************************************************************)
(* The updater sidecar, cmd/curlycatclaw-updater/handler.go: the           *)
(* handlers of /v1/check, /v1/update and /v1/rollback, the goroutines they *)
(* start, the state file, and Docker as far as the sidecar sees it.        *)
(*                                                                         *)
(* Images are numbered in the order in which they are published; a digest  *)
(* is the number of its image, 0 is the empty digest.  Version labels and  *)
(* the record of past updates are left out: nothing depends on them.       *)
(***************************************************************************)
EXTENDS Naturals, Sequences, FiniteSets, SequencesExt

CONSTANTS
  MaxImage,     \* bound: images published
  Broken,       \* the images that never become healthy
  MaxPrevious,  \* maxPreviousDigest
  Workers,      \* bound: updates and rollbacks that overlap
  MaxRequests,  \* bound: updates and rollbacks accepted
  MaxCrashes,   \* bound: restarts of the sidecar
  MaxFaults     \* bound: failed writes and reads of the state file

ASSUME UpdaterAssumption ==
  /\ MaxImage \in Nat \ {0} /\ MaxPrevious \in Nat \ {0}
  /\ MaxRequests \in Nat /\ MaxCrashes \in Nat /\ MaxFaults \in Nat

Images == 1..MaxImage
LocalBuild == MaxImage + 1        \* the synthetic digest "local-build"
Digests == 0..LocalBuild

VARIABLES
  buildMode,    \* images are built here, not pulled
  registry,     \* the newest image that can be pulled or built
  local,        \* the image the service's own tag names
  rollback,     \* the image the tag rollback-1 names, 0 if there is none
  running,      \* the image of the service's container
  st,           \* UpdateState in memory
  saved,        \* UpdateState on disk
  stale,        \* UpdatingSince is ten minutes ago
  fetched,      \* digests that calls of ghcrCheck have returned with
  work,         \* the goroutines of updates and rollbacks
  crashes, requests, faults,
  unsaved,      \* history: the last write of the state failed
  overran,      \* history: a stale lock was cleared while its owner still worked
  failures      \* history: failed and undone updates to a digest not expired since

docker == <<local, rollback, running>>
disk == <<saved, faults, unsaved>>
vars == <<buildMode, registry, docker, st, disk, stale, fetched, work, crashes, requests,
          overran, failures>>

NoWork == [pc |-> "idle", kind |-> "update", from |-> 0, target |-> 0, tagged |-> FALSE]
Active(w) == work[w].pc # "idle"
Working == \E w \in Workers : Active(w)

\* What the sidecar starts with when there is no state file, or none it can read.
Fresh == [current |-> 0, previous |-> <<>>, latest |-> 0, updating |-> FALSE, blacklist |-> {}]

Init ==
  /\ buildMode \in BOOLEAN
  /\ registry = 1 /\ local = 1 /\ rollback = 0 /\ running = 1
  /\ st = Fresh /\ saved = Fresh /\ faults = 0 /\ unsaved = FALSE
  /\ stale = FALSE
  /\ fetched = {}
  /\ work = [w \in Workers |-> NoWork]
  /\ crashes = 0 /\ requests = 0 /\ overran = FALSE
  /\ failures = [d \in Digests |-> 0]

Fault == faults < MaxFaults /\ faults' = faults + 1

\* saveState replaces the file as a whole or, if it fails, leaves it as it was;
\* every caller only logs the failure and goes on.
Save(s) ==
  /\ st' = s
  /\ \/ saved' = s /\ unsaved' = FALSE /\ UNCHANGED faults
     \/ Fault /\ unsaved' = TRUE /\ UNCHANGED saved

\* A new image is pushed, or the source tree changes.
Publish ==
  /\ registry < MaxImage /\ registry' = registry + 1
  /\ UNCHANGED <<buildMode, docker, st, disk, stale, fetched, work, crashes, requests, overran,
                 failures>>

-----------------------------------------------------------------------------
(* handleCheck.  The lock is not held during the query of the registry. *)

CheckFetched ==
  /\ ~buildMode
  /\ fetched' = fetched \cup {registry}
  /\ UNCHANGED <<buildMode, registry, docker, st, disk, stale, work, crashes, requests, overran,
                 failures>>

\* getCurrentDigest may fail; a digest that is known is not refreshed.
Checked(d) ==
  \E c \in IF st.current = 0 THEN {0, running} ELSE {st.current} :
    Save([st EXCEPT !.latest = d, !.current = c])

CheckStored ==
  /\ \E d \in fetched : Checked(d) /\ fetched' = fetched \ {d}
  /\ UNCHANGED <<buildMode, registry, docker, stale, work, crashes, requests, overran, failures>>

CheckBuild ==
  /\ buildMode
  /\ Checked(LocalBuild)
  /\ UNCHANGED <<buildMode, registry, docker, stale, fetched, work, crashes, requests, overran,
                 failures>>

-----------------------------------------------------------------------------
(* handleUpdate and handleRollback.  A lock older than ten minutes is void. *)

UnlockedWhileFresh == ~st.updating \/ ~stale
Unlocked == ~st.updating \/ stale

\* In build mode there is always something to update to.
Refused ==
  \/ st.latest = 0
  \/ ~buildMode /\ (st.latest \in st.blacklist \/ st.latest = st.current)

Start(kind, target, pc) ==
  /\ \E w \in Workers :
       /\ ~Active(w)
       /\ work' = [work EXCEPT ![w] = [NoWork EXCEPT !.pc = pc, !.kind = kind,
                                                     !.target = target]]
  /\ Save([st EXCEPT !.updating = TRUE])
  /\ requests < MaxRequests /\ requests' = requests + 1
  /\ stale' = FALSE
  /\ overran' = (overran \/ (st.updating /\ stale /\ Working))

handleUpdate ==
  /\ Unlocked /\ ~Refused
  /\ Start("update", st.latest, "inspect")
  /\ UNCHANGED <<buildMode, registry, docker, fetched, crashes, failures>>

handleRollback ==
  /\ Unlocked /\ st.previous # <<>>
  /\ Start("rollback", Head(st.previous), "restore")
  /\ UNCHANGED <<buildMode, registry, docker, fetched, crashes, failures>>

\* A request that finds a void lock clears it, also when it is then refused.
StaleLockCleared ==
  /\ st.updating /\ stale
  /\ Refused \/ st.previous = <<>>
  /\ st' = [st EXCEPT !.updating = FALSE]
  /\ overran' = (overran \/ Working)
  /\ UNCHANGED <<buildMode, registry, docker, disk, stale, fetched, work, crashes, requests, failures>>

-----------------------------------------------------------------------------
(* runUpdate, autoRollback and performRollback, step by step. *)

Goto(w, pc) == work' = [work EXCEPT ![w].pc = pc]
At(w, pc) == work[w].pc = pc
stepUnchanged == <<buildMode, registry, stale, fetched, crashes, requests, overran>>

Inspect(w) ==
  /\ At(w, "inspect")
  /\ \E from \in {0, running} :
       work' = [work EXCEPT ![w].from = from, ![w].pc = IF from = 0 THEN "get" ELSE "tag"]
  /\ UNCHANGED <<stepUnchanged, docker, st, disk, failures>>

\* A failure to tag does not stop the update.
TagLocal(w) == local
TagOf(w) == work[w].from
TagRollback(w) ==
  /\ At(w, "tag")
  /\ \/ rollback' = TagOf(w) /\ work' = [work EXCEPT ![w].pc = "get", ![w].tagged = TRUE]
     \/ UNCHANGED rollback /\ Goto(w, "get")
  /\ UNCHANGED <<stepUnchanged, local, running, st, disk, failures>>

\* Pull or build what is newest now, which need not be the target.
GetImage(w) ==
  /\ At(w, "get")
  /\ \/ local' = registry /\ Goto(w, "up")
     \/ UNCHANGED local /\ Goto(w, "release")
  /\ UNCHANGED <<stepUnchanged, rollback, running, st, disk, failures>>

\* autoRollback has nothing to return to without the former digest.
AfterFailure(w) == IF work[w].from = 0 THEN "release" ELSE "restore"

\* docker compose up may fail before or after it replaced the container.
Up(w) ==
  /\ At(w, "up")
  /\ \/ running' = local /\ Goto(w, "health")
     \/ running' \in {running, local} /\ Goto(w, AfterFailure(w))
  /\ UNCHANGED <<stepUnchanged, local, rollback, st, disk, failures>>

Prepended(d, ds) == SubSeq(<<d>> \o ds, 1, IF Len(ds) < MaxPrevious THEN Len(ds) + 1
                                           ELSE MaxPrevious)

Health(w) ==
  /\ At(w, "health")
  /\ \/ /\ running \notin Broken
        /\ st' = [st EXCEPT !.current = work[w].target,
                            !.previous = IF work[w].from = 0 THEN @
                                         ELSE Prepended(work[w].from, @)]
        /\ Goto(w, "release")
     \/ UNCHANGED st /\ Goto(w, AfterFailure(w))
  /\ UNCHANGED <<stepUnchanged, docker, disk, failures>>

\* performRollback ignores the digest it is given: the tag decides, or in build
\* mode the service's own tag.
RollbackImage == IF buildMode THEN local ELSE rollback
Restore(w) ==
  /\ At(w, "restore")
  /\ \/ RollbackImage # 0 /\ running' = RollbackImage /\ Goto(w, "restored")
     \/ running' \in {running, RollbackImage} \ {0} /\ Goto(w, "release")
  /\ UNCHANGED <<stepUnchanged, local, rollback, st, disk, failures>>

\* autoRollback is done: the failed digest is blacklisted for a day.
BlacklistNothing(w) == st.blacklist
Blacklisted(w) == st.blacklist \cup {work[w].target}
Undone(w) ==
  /\ At(w, "restored") /\ work[w].kind = "update" /\ running \notin Broken
  /\ st' = [st EXCEPT !.blacklist = Blacklisted(w)]
  /\ failures' = [failures EXCEPT ![work[w].target] = IF @ < 2 THEN @ + 1 ELSE @]
  /\ Goto(w, "release")
  /\ UNCHANGED <<stepUnchanged, docker, disk>>

\* The manual rollback is done.
RolledBack(w) ==
  /\ At(w, "restored") /\ work[w].kind = "rollback" /\ running \notin Broken
  /\ Save([st EXCEPT !.current = work[w].target,
                     !.previous = IF @ = <<>> THEN @ ELSE Tail(@),
                     !.updating = FALSE])
  /\ work' = [work EXCEPT ![w] = NoWork]
  /\ UNCHANGED <<stepUnchanged, docker, failures>>

RestoreUnhealthy(w) ==
  /\ At(w, "restored")
  /\ Goto(w, "release")
  /\ UNCHANGED <<stepUnchanged, docker, st, disk, failures>>

\* The deferred function of runUpdate, or the error path of a rollback.
Release(w) ==
  /\ At(w, "release")
  /\ Save([st EXCEPT !.updating = FALSE])
  /\ work' = [work EXCEPT ![w] = NoWork]
  /\ UNCHANGED <<stepUnchanged, docker, failures>>

-----------------------------------------------------------------------------
(* Time and crashes. *)

TenMinutesPass ==
  /\ st.updating /\ ~stale /\ stale' = TRUE
  /\ UNCHANGED <<buildMode, registry, docker, st, disk, fetched, work, crashes, requests, overran,
                 failures>>

\* pruneBlacklistLocked, a day later.
BlacklistExpires ==
  /\ \E d \in st.blacklist \cup saved.blacklist :
       /\ st' = [st EXCEPT !.blacklist = @ \ {d}]
       /\ saved' = [saved EXCEPT !.blacklist = @ \ {d}]
       /\ failures' = [failures EXCEPT ![d] = 0]
  /\ UNCHANGED <<buildMode, registry, docker, stale, fetched, work, crashes, requests, overran,
                 faults, unsaved>>

\* A sidecar that cannot read its state starts fresh; the file may be lost or
\* readable again later.
Crash ==
  /\ crashes < MaxCrashes /\ crashes' = crashes + 1
  /\ \/ st' = saved /\ UNCHANGED <<saved, faults>>
     \/ Fault /\ st' = Fresh /\ saved' \in {saved, Fresh}
  /\ unsaved' = FALSE
  /\ fetched' = {}
  /\ work' = [w \in Workers |-> NoWork]
  /\ UNCHANGED <<buildMode, registry, docker, stale, requests, overran, failures>>

WorkStep(w) ==
  \/ Inspect(w) \/ TagRollback(w) \/ GetImage(w) \/ Up(w) \/ Health(w) \/ Restore(w)
  \/ Undone(w) \/ RolledBack(w) \/ RestoreUnhealthy(w) \/ Release(w)

Next ==
  \/ Publish \/ CheckFetched \/ CheckStored \/ CheckBuild
  \/ handleUpdate \/ handleRollback \/ StaleLockCleared
  \/ TenMinutesPass \/ BlacklistExpires \/ Crash
  \/ \E w \in Workers : WorkStep(w)

Spec == Init /\ [][Next]_vars

-----------------------------------------------------------------------------
State == [current : Digests, previous : BoundedSeq(Digests, MaxPrevious), latest : Digests,
          updating : BOOLEAN, blacklist : SUBSET Digests]

TypeOK ==
  /\ buildMode \in BOOLEAN /\ registry \in Images /\ local \in Images
  /\ rollback \in Images \cup {0} /\ running \in Images
  /\ st \in State /\ saved \in State
  /\ stale \in BOOLEAN /\ fetched \subseteq Images
  /\ work \in [Workers -> [pc : {"idle", "inspect", "tag", "get", "up", "health", "restore",
                                 "restored", "release"},
                           kind : {"update", "rollback"}, from : Images \cup {0},
                           target : Digests, tagged : BOOLEAN]]
  /\ crashes \in 0..MaxCrashes /\ requests \in 0..MaxRequests /\ faults \in 0..MaxFaults
  /\ overran \in BOOLEAN /\ unsaved \in BOOLEAN
  /\ failures \in [Digests -> 0..2]

\* Updates and rollbacks exclude each other, and a running one is locked in
\* memory and, unless the last write of the state failed, on disk (so that a
\* restarted sidecar still sees it), as long as none of them takes more than the
\* ten minutes after which its lock is void.
LockDiscipline ==
  overran \/ /\ \A v, w \in Workers : Active(v) /\ Active(w) => v = w
             /\ Working => st.updating /\ (saved.updating \/ unsaved)

\* When autoRollback succeeds, the image the service had before the update is
\* the one that runs again (unless that image could not be tagged, another
\* worker overlapped, or images are built locally), whatever was published,
\* checked or rolled back meanwhile.
FailedUpdateRestores ==
  [][\A w \in Workers :
       work[w].kind = "update" /\ work[w].pc = "restored" /\ st'.blacklist # st.blacklist
         => \/ running = work[w].from
            \/ ~work[w].tagged \/ overran \/ buildMode]_vars

\* No retry loop on a broken image: an update to a digest that failed and was
\* undone is not started again before the blacklist entry expires, except when
\* a crash lost the entry or updates overlapped.
TargetFailsOnce ==
  \A d \in Images : failures[d] > 1 => crashes > 0 \/ overran

\* handleRollback "rolls back to the previous image": a finished manual
\* rollback of pulled images leaves the service on the digest that is then
\* called current.
RollbackRunsTarget ==
  [][\A w \in Workers :
       ~buildMode /\ work[w].kind = "rollback" /\ At(w, "restored") /\ work'[w].pc = "idle"
         /\ st'.current = work[w].target
         => running = work[w].target]_vars
=============================================================================
