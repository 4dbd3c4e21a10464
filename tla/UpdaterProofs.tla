----------------------------- MODULE UpdaterProofs -----------------------------
(***************************************************************************)
(* Proofs about the two halves of the updater sidecar: Updater, for any    *)
(* number of images, broken or not, of requests that overlap, and of       *)
(* restarts; and ServiceCatalog, for any services and requests.            *)
(***************************************************************************)
EXTENDS MCUpdater, SequenceTheorems, TLAPS

\* With images that are built here no digest of a registry is ever the target.
BuildsHaveNoDigest ==
  buildMode =>
    /\ fetched = {} /\ st.latest \notin Images /\ saved.latest \notin Images
    /\ \A w \in Workers : Active(w) /\ work[w].kind = "update" => work[w].target \notin Images

Updates(w) == Active(w) /\ work[w].kind = "update"

\* What failed is remembered, and not tried again.
FailuresRemembered ==
  crashes > 0 \/ overran \/
    /\ \A d \in Images : failures[d] > 0 => d \in st.blacklist /\ failures[d] <= 1
    /\ \A w \in Workers :
         Updates(w) /\ work[w].pc # "release" /\ work[w].target \in Images
           => failures[work[w].target] = 0

\* The tag of an update that set it names what ran before, until the update is over;
\* autoRollback then runs that image.
TagNamesFormer ==
  \A w \in Workers : Active(w) =>
    /\ work[w].pc \in {"inspect", "tag"} => ~work[w].tagged
    /\ work[w].tagged => overran \/ rollback = work[w].from
RestoredIsFormer ==
  \A w \in Workers : Updates(w) /\ work[w].pc = "restored" /\ work[w].tagged
                       => overran \/ buildMode \/ running = work[w].from

IInv ==
  /\ TypeOK /\ LockDiscipline
  /\ BuildsHaveNoDigest /\ FailuresRemembered
  /\ TagNamesFormer /\ RestoredIsFormer

-----------------------------------------------------------------------------
(* Types. *)

Pcs == {"idle", "inspect", "tag", "get", "up", "health", "restore", "restored", "release"}
WorkRecords == [pc : Pcs, kind : {"update", "rollback"}, from : Images \cup {0},
                target : Digests, tagged : BOOLEAN]
DockerType ==
  /\ buildMode \in BOOLEAN /\ registry \in Images /\ local \in Images
  /\ rollback \in Images \cup {0} /\ running \in Images /\ fetched \subseteq Images
StateType == st \in State /\ saved \in State
WorkType == work \in [Workers -> WorkRecords]
CountersType ==
  /\ stale \in BOOLEAN /\ overran \in BOOLEAN
  /\ crashes \in 0..MaxCrashes /\ requests \in 0..MaxRequests
  /\ failures \in [Digests -> 0..2]
DiskType == faults \in 0..MaxFaults /\ unsaved \in BOOLEAN
TypeParts == DockerType /\ StateType /\ WorkType /\ CountersType /\ DiskType

LEMMA Parts == (TypeOK <=> TypeParts) /\ (TypeOK <=> TypeParts)'
BY DEF TypeOK, TypeParts, DockerType, StateType, WorkType, CountersType, DiskType,
       WorkRecords, Pcs

LEMMA Numbers ==
  /\ MaxImage \in Nat /\ MaxImage >= 1 /\ MaxPrevious \in Nat /\ MaxPrevious >= 1
  /\ 1 \in Images /\ Images \subseteq Digests /\ 0 \in Digests /\ LocalBuild \in Digests
  /\ 0 \notin Images /\ LocalBuild \notin Images /\ Images \subseteq Nat
  /\ MaxRequests \in Nat /\ MaxCrashes \in Nat /\ MaxFaults \in Nat
BY UpdaterAssumption DEF Images, Digests, LocalBuild

\* A bounded sequence is a sequence of at most that length.
LEMMA BoundedSeqIs ==
  ASSUME NEW S, NEW n \in Nat
  PROVE  BoundedSeq(S, n) = {q \in Seq(S) : Len(q) <= n}
<1>1. ASSUME NEW q \in BoundedSeq(S, n) PROVE q \in Seq(S) /\ Len(q) <= n
  <2>1. PICK m \in 0..n : q \in [1..m -> S]
    BY <1>1 DEF BoundedSeq, SeqOf
  <2>2. m \in Nat /\ m <= n
    BY <2>1
  <2>3. q \in Seq(S) /\ Len(q) = m
    BY <2>1, <2>2
  <2> QED BY <2>2, <2>3
<1>2. ASSUME NEW q \in Seq(S), Len(q) <= n PROVE q \in BoundedSeq(S, n)
  <2>1. Len(q) \in 0..n /\ q \in [1..Len(q) -> S]
    BY <1>2
  <2> QED BY <2>1 DEF BoundedSeq, SeqOf
<1> QED BY <1>1, <1>2

LEMMA PreviousIs ==
  ASSUME NEW q
  PROVE  q \in BoundedSeq(Digests, MaxPrevious) <=> q \in Seq(Digests) /\ Len(q) <= MaxPrevious
BY BoundedSeqIs, Numbers

LEMMA PrependedTyped ==
  ASSUME NEW d \in Digests, NEW ds \in BoundedSeq(Digests, MaxPrevious)
  PROVE  Prepended(d, ds) \in BoundedSeq(Digests, MaxPrevious)
<1>1. ds \in Seq(Digests) /\ Len(ds) <= MaxPrevious /\ Len(ds) \in Nat
  BY PreviousIs
<1> DEFINE all == <<d>> \o ds
           n == IF Len(ds) < MaxPrevious THEN Len(ds) + 1 ELSE MaxPrevious
<1>2. all \in Seq(Digests) /\ Len(all) = Len(ds) + 1
  BY <1>1
<1>3. n \in Nat /\ n <= Len(all) /\ n <= MaxPrevious
  BY <1>1, <1>2, Numbers
<1> HIDE DEF all, n
<1>4. SubSeq(all, 1, n) \in Seq(Digests) /\ Len(SubSeq(all, 1, n)) = n
  BY <1>2, <1>3
<1> QED BY <1>3, <1>4, PreviousIs DEF Prepended, all, n

LEMMA TailTyped ==
  ASSUME NEW ds \in BoundedSeq(Digests, MaxPrevious), ds # <<>>
  PROVE  Tail(ds) \in BoundedSeq(Digests, MaxPrevious) /\ Head(ds) \in Digests
<1>1. ds \in Seq(Digests) /\ Len(ds) <= MaxPrevious
  BY PreviousIs
<1>2. Tail(ds) \in Seq(Digests) /\ Len(Tail(ds)) <= MaxPrevious /\ Head(ds) \in Digests
  BY <1>1, Numbers
<1> QED BY <1>2, PreviousIs

LEMMA NoWorkTyped == NoWork \in WorkRecords /\ NoWork.pc = "idle"
BY Numbers DEF NoWork, WorkRecords, Pcs

LEMMA StateFields ==
  ASSUME NEW s \in State
  PROVE  /\ s.current \in Digests /\ s.previous \in BoundedSeq(Digests, MaxPrevious)
         /\ s.latest \in Digests /\ s.updating \in BOOLEAN /\ s.blacklist \subseteq Digests
BY DEF State

LEMMA FreshTyped == Fresh \in State /\ Fresh.latest = 0
<1>1. <<>> \in BoundedSeq(Digests, MaxPrevious)
  <2>1. <<>> \in Seq(Digests) /\ Len(<<>>) = 0
    BY EmptySeq
  <2>2. Len(<<>>) <= MaxPrevious
    BY <2>1, Numbers
  <2> QED BY <2>1, <2>2, PreviousIs
<1> QED BY <1>1, Numbers DEF Fresh, State

-----------------------------------------------------------------------------
(* Every action keeps the types. *)

\* A write of the state reaches the disk, or is marked as failed.
LEMMA SaveShape ==
  ASSUME NEW s, Save(s)
  PROVE  st' = s /\ saved' \in {saved, s} /\ (saved' = s \/ unsaved')
BY DEF Save

LEMMA FaultTyped ==
  ASSUME faults \in 0..MaxFaults, Fault PROVE faults' \in 0..MaxFaults
BY Numbers DEF Fault

LEMMA SaveTyped ==
  ASSUME DiskType, UNCHANGED disk \/ \E s : Save(s)
  PROVE  DiskType'
<1>1. UNCHANGED faults \/ Fault
  BY DEF disk, Save
<1>2. faults' \in 0..MaxFaults
  BY <1>1, FaultTyped DEF DiskType
<1>3. unsaved' \in BOOLEAN
  BY DEF disk, Save, DiskType
<1> QED BY <1>2, <1>3 DEF DiskType

\* What a check changes of the state.
LEMMA CheckedShape ==
  ASSUME st \in State, NEW d, Checked(d)
  PROVE  /\ saved' \in {saved, st'} /\ (saved' = st' \/ unsaved') /\ st'.latest = d
         /\ st'.updating = st.updating /\ st'.blacklist = st.blacklist
<1>1. PICK c : Save([st EXCEPT !.latest = d, !.current = c])
  BY DEF Checked
<1> QED BY <1>1 DEF Save, State

LEMMA CheckTyped ==
  ASSUME TypeOK, Publish \/ CheckFetched \/ CheckStored \/ CheckBuild
  PROVE  TypeOK'
<1> USE Parts DEF TypeParts
<1>1. WorkType' /\ CountersType' /\ DiskType'
  BY SaveTyped DEF Publish, CheckFetched, CheckStored, CheckBuild, Checked, WorkType, CountersType
<1>2. DockerType'
  BY Numbers DEF Publish, CheckFetched, CheckStored, CheckBuild, DockerType, docker, Images
<1>3. ASSUME NEW d \in Digests, Checked(d) PROVE StateType'
  <2>1. PICK c \in Digests :
          st' = [st EXCEPT !.latest = d, !.current = c] /\ saved' \in {saved, st'}
    <3>1. running \in Digests /\ st.current \in Digests /\ 0 \in Digests
      BY Numbers, StateFields DEF StateType, DockerType
    <3>2. PICK c \in (IF st.current = 0 THEN {0, running} ELSE {st.current}) :
            Save([st EXCEPT !.latest = d, !.current = c])
      BY <1>3 DEF Checked
    <3>3. c \in Digests
      BY <3>1, <3>2
    <3> QED BY <3>2, <3>3 DEF Save
  <2> QED BY <2>1 DEF StateType, State
<1>4. StateType'
  <2>1. CASE UNCHANGED <<st, disk>>
    BY <2>1 DEF StateType, disk
  <2>2. CASE CheckStored
    BY <1>3, <2>2, Numbers DEF CheckStored, DockerType
  <2>3. CASE CheckBuild
    BY <1>3, <2>3, Numbers DEF CheckBuild
  <2> QED BY <2>1, <2>2, <2>3 DEF Publish, CheckFetched
<1> QED BY <1>1, <1>2, <1>4

LEMMA StartTyped ==
  ASSUME TypeOK, NEW kind \in {"update", "rollback"}, NEW target \in Digests,
         NEW pc \in {"inspect", "restore"}, Start(kind, target, pc),
         UNCHANGED <<buildMode, registry, docker, fetched, crashes, failures>>
  PROVE  TypeOK'
<1> USE Parts DEF TypeParts
<1>1. DockerType'
  BY DEF DockerType, docker
<1>2. StateType'
  BY DEF Start, Save, StateType, State
<1>3. WorkType'
  <2>1. [NoWork EXCEPT !.pc = pc, !.kind = kind, !.target = target] \in WorkRecords
    BY NoWorkTyped DEF NoWork, WorkRecords, Pcs
  <2> QED BY <2>1 DEF Start, WorkType
<1>4. stale' \in BOOLEAN /\ overran' \in BOOLEAN
  BY DEF Start
<1>5. requests' \in 0..MaxRequests
  <2>1. requests \in 0..MaxRequests
    BY DEF CountersType
  <2> QED BY <2>1, Numbers DEF Start
<1>6. CountersType'
  BY <1>4, <1>5 DEF CountersType
<1>7. DiskType'
  BY SaveTyped DEF Start
<1> QED BY <1>1, <1>2, <1>3, <1>6, <1>7

LEMMA RequestsTyped ==
  ASSUME TypeOK, handleUpdate \/ handleRollback \/ StaleLockCleared
  PROVE  TypeOK'
<1> USE Parts DEF TypeParts
<1>1. CASE handleUpdate
  BY <1>1, StateFields, StartTyped DEF handleUpdate, StateType
<1>2. CASE handleRollback
  BY <1>2, StateFields, TailTyped, StartTyped DEF handleRollback, StateType
<1>3. CASE StaleLockCleared
  <2>1. DockerType' /\ WorkType' /\ DiskType'
    BY <1>3 DEF StaleLockCleared, docker, disk, DockerType, WorkType, DiskType
  <2>2. StateType'
    BY <1>3 DEF StaleLockCleared, disk, StateType, State
  <2>3. overran' \in BOOLEAN
    BY <1>3 DEF StaleLockCleared
  <2>4. CountersType'
    BY <1>3, <2>3 DEF StaleLockCleared, CountersType
  <2> QED BY <2>1, <2>2, <2>4
<1> QED BY <1>1, <1>2, <1>3

LEMMA TimeTyped ==
  ASSUME TypeOK, TenMinutesPass \/ BlacklistExpires \/ Crash
  PROVE  TypeOK'
<1> USE Parts DEF TypeParts
<1>1. CASE TenMinutesPass
  BY <1>1 DEF TenMinutesPass, docker, disk, DockerType, StateType, WorkType, CountersType,
     DiskType
<1>2. CASE BlacklistExpires
  <2>1. PICK d \in st.blacklist \cup saved.blacklist :
          /\ st' = [st EXCEPT !.blacklist = @ \ {d}]
          /\ saved' = [saved EXCEPT !.blacklist = @ \ {d}]
          /\ failures' = [failures EXCEPT ![d] = 0]
    BY <1>2 DEF BlacklistExpires
  <2>2. StateType'
    BY <2>1 DEF StateType, State
  <2>3. failures' \in [Digests -> 0..2]
    <3>1. failures \in [Digests -> 0..2]
      BY DEF CountersType
    <3>2. 0 \in 0..2 /\ failures' = [failures EXCEPT ![d] = 0]
      BY <2>1
    <3> QED BY <3>1, <3>2, Zenon
  <2> QED BY <1>2, <2>2, <2>3 DEF BlacklistExpires, docker, DockerType, WorkType,
           CountersType, DiskType
<1>3. CASE Crash
  <2>0. Fresh \in State
    BY FreshTyped
  <2>1. DockerType' /\ StateType' /\ WorkType'
    BY <1>3, <2>0, NoWorkTyped DEF Crash, docker, DockerType, StateType, WorkType
  <2>3. DiskType'
    <3>1. UNCHANGED faults \/ Fault
      BY <1>3 DEF Crash
    <3>2. faults' \in 0..MaxFaults
      BY <3>1, FaultTyped DEF DiskType
    <3> QED BY <1>3, <3>2 DEF Crash, DiskType
  <2>2. crashes' \in 0..MaxCrashes
    <3>1. crashes \in 0..MaxCrashes
      BY DEF CountersType
    <3> QED BY <1>3, <3>1, Numbers DEF Crash
  <2> QED BY <1>3, <2>1, <2>2, <2>3 DEF Crash, CountersType
<1> QED BY <1>1, <1>2, <1>3

\* The worker of a step, and what becomes of it.
LEMMA WorkerStep ==
  ASSUME WorkType, NEW w \in Workers, NEW r \in WorkRecords, work' = [work EXCEPT ![w] = r]
  PROVE  WorkType' /\ work'[w] = r /\ \A v \in Workers : v # w => work'[v] = work[v]
BY DEF WorkType

LEMMA GotoStep ==
  ASSUME WorkType, NEW w \in Workers, NEW pc \in Pcs, Goto(w, pc)
  PROVE  /\ WorkType' /\ work'[w] = [work[w] EXCEPT !.pc = pc]
         /\ \A v \in Workers : v # w => work'[v] = work[v]
BY DEF WorkType, WorkRecords, Goto

LEMMA WorkTyped ==
  ASSUME TypeOK, NEW w \in Workers, WorkStep(w)
  PROVE  /\ WorkType' /\ \A v \in Workers : v # w => work'[v] = work[v]
         /\ Active(w)
<1> DEFINE Elsewhere == \A v \in Workers : v # w => work'[v] = work[v]
<1>1. WorkType /\ DockerType /\ work[w] \in WorkRecords
  BY Parts DEF TypeParts, WorkType
<1>2. Active(w)
  BY DEF WorkStep, Inspect, TagRollback, GetImage, Up, Health, Restore, Undone, RolledBack,
         RestoreUnhealthy, Release, At, Active
<1>3. AfterFailure(w) \in Pcs
  BY DEF AfterFailure, Pcs
<1>4. CASE \E pc \in Pcs : Goto(w, pc)
  BY <1>1, <1>2, <1>4, GotoStep
<1>5. CASE work' = [work EXCEPT ![w] = NoWork]
  BY <1>1, <1>2, <1>5, WorkerStep, NoWorkTyped
<1>6. CASE Inspect(w)
  <2>1. PICK from \in {0, running} :
          work' = [work EXCEPT ![w].from = from, ![w].pc = IF from = 0 THEN "get" ELSE "tag"]
    BY <1>6 DEF Inspect
  <2>2. from \in Images \cup {0}
    BY <1>1 DEF DockerType
  <2> QED BY <1>1, <1>2, <2>1, <2>2 DEF WorkType, WorkRecords, Pcs
<1>7. CASE work' = [work EXCEPT ![w].pc = "get", ![w].tagged = TRUE]
  BY <1>1, <1>2, <1>7 DEF WorkType, WorkRecords, Pcs
<1> QED BY <1>3, <1>4, <1>5, <1>6, <1>7 DEF WorkStep, TagRollback, GetImage, Up, Health, Restore,
         Undone, RolledBack, RestoreUnhealthy, Release, Pcs

\* What a worker leaves alone.
LEMMA WorkLeaves ==
  ASSUME NEW w \in Workers, WorkStep(w)
  PROVE  UNCHANGED <<buildMode, registry, stale, fetched, crashes, requests, overran>>
BY DEF WorkStep, Inspect, TagRollback, GetImage, Up, Health, Restore, Undone, RolledBack,
       RestoreUnhealthy, Release, stepUnchanged

LEMMA WorkDocker ==
  ASSUME TypeOK, NEW w \in Workers, WorkStep(w) PROVE DockerType'
<1>1. DockerType /\ work[w].from \in Images \cup {0}
  BY Parts DEF TypeParts, WorkType, WorkRecords
<1>2. UNCHANGED <<buildMode, registry, fetched>>
  BY WorkLeaves
<1>3. CASE TagRollback(w)
  BY <1>1, <1>3 DEF TagRollback, TagOf, DockerType, stepUnchanged
<1>4. CASE GetImage(w)
  BY <1>1, <1>4 DEF GetImage, DockerType, stepUnchanged
<1>5. CASE Up(w)
  BY <1>1, <1>5 DEF Up, DockerType, stepUnchanged
<1>6. CASE Restore(w)
  BY <1>1, <1>6, Numbers DEF Restore, RollbackImage, DockerType, stepUnchanged
<1>7. CASE UNCHANGED docker
  BY <1>1, <1>2, <1>7 DEF DockerType, docker
<1> QED BY <1>3, <1>4, <1>5, <1>6, <1>7 DEF WorkStep, Inspect, Health, Undone, RolledBack,
         RestoreUnhealthy, Release

LEMMA WorkDisk ==
  ASSUME TypeOK, NEW w \in Workers, WorkStep(w) PROVE DiskType'
<1>1. DiskType
  BY Parts DEF TypeParts
<1> QED BY <1>1, SaveTyped DEF WorkStep, Inspect, TagRollback, GetImage, Up, Health, Restore,
         Undone, RolledBack, RestoreUnhealthy, Release

LEMMA WorkState ==
  ASSUME TypeOK, NEW w \in Workers, WorkStep(w) PROVE StateType'
<1>1. /\ StateType /\ work[w].from \in Digests /\ work[w].target \in Digests
      /\ running \in Digests
  BY Parts, Numbers DEF TypeParts, WorkType, WorkRecords, DockerType
<1>2. st.previous \in BoundedSeq(Digests, MaxPrevious) /\ st.blacklist \subseteq Digests
  BY <1>1, StateFields DEF StateType
<1>3. CASE UNCHANGED <<st, disk>>
  BY <1>1, <1>3 DEF StateType, disk
<1>4. CASE Health(w)
  <2>1. Prepended(work[w].from, st.previous) \in BoundedSeq(Digests, MaxPrevious)
    BY <1>1, <1>2, PrependedTyped
  <2> QED BY <1>1, <1>4, <2>1 DEF Health, StateType, State, disk
<1>5. CASE Undone(w)
  BY <1>1, <1>2, <1>5 DEF Undone, Blacklisted, StateType, State, disk
<1>6. CASE RolledBack(w)
  <2>1. (IF st.previous = <<>> THEN st.previous ELSE Tail(st.previous))
          \in BoundedSeq(Digests, MaxPrevious)
    BY <1>2, TailTyped
  <2> QED BY <1>1, <1>6, <2>1 DEF RolledBack, Save, StateType, State
<1>7. CASE Release(w)
  BY <1>1, <1>7 DEF Release, Save, StateType, State
<1> QED BY <1>3, <1>4, <1>5, <1>6, <1>7 DEF WorkStep, Inspect, TagRollback, GetImage, Up, Restore,
         RestoreUnhealthy

LEMMA WorkCounters ==
  ASSUME TypeOK, NEW w \in Workers, WorkStep(w) PROVE CountersType'
<1>1. CountersType /\ work[w].target \in Digests
  BY Parts DEF TypeParts, WorkType, WorkRecords
<1>2. failures' \in [Digests -> 0..2]
  <2>1. CASE UNCHANGED failures
    BY <1>1, <2>1 DEF CountersType
  <2>2. CASE failures' = [failures EXCEPT ![work[w].target] = IF @ < 2 THEN @ + 1 ELSE @]
    BY <1>1, <2>2 DEF CountersType
  <2> QED BY <2>1, <2>2 DEF WorkStep, Inspect, TagRollback, GetImage, Up, Health, Restore, Undone,
           RolledBack, RestoreUnhealthy, Release
<1> QED BY <1>1, <1>2, WorkLeaves DEF CountersType

LEMMA TypeStep == TypeOK /\ [Next]_vars => TypeOK'
<1> SUFFICES ASSUME TypeOK, [Next]_vars PROVE TypeOK'
  OBVIOUS
<1>1. CASE UNCHANGED vars
  BY <1>1, Parts DEF vars, docker, disk, TypeParts, DockerType, StateType, WorkType, CountersType,
     DiskType
<1>2. ASSUME NEW w \in Workers, WorkStep(w) PROVE TypeOK'
  BY <1>2, Parts, WorkTyped, WorkDocker, WorkDisk, WorkState, WorkCounters DEF TypeParts
<1> QED BY <1>1, <1>2, CheckTyped, RequestsTyped, TimeTyped DEF Next

LEMMA TypeInit == Init => TypeOK
<1> SUFFICES ASSUME Init PROVE TypeOK
  OBVIOUS
<1>2. DockerType /\ CountersType /\ DiskType
  <2>1. DockerType
    BY Numbers DEF Init, DockerType
  <2>3. CountersType
    <3>1. crashes \in 0..MaxCrashes /\ requests \in 0..MaxRequests
      BY Numbers DEF Init
    <3>2. failures \in [Digests -> 0..2]
      <4>1. 0 \in 0..2
        OBVIOUS
      <4> QED BY <4>1 DEF Init
    <3> QED BY <3>1, <3>2 DEF Init, CountersType
  <2>2. faults \in 0..MaxFaults
    BY Numbers DEF Init
  <2>4. DiskType
    BY <2>2 DEF Init, DiskType
  <2> QED BY <2>1, <2>3, <2>4
<1>3. StateType
  BY FreshTyped DEF Init, StateType
<1>4. WorkType
  BY NoWorkTyped DEF Init, WorkType
<1> QED BY <1>2, <1>3, <1>4, Parts DEF TypeParts

-----------------------------------------------------------------------------
(* The lock. *)

\* A step that starts no worker and gives no lock up keeps the discipline.
LEMMA LockKept ==
  ASSUME LockDiscipline, overran => overran',
         \A v \in Workers : Active(v)' => Active(v),
         st.updating /\ (saved.updating \/ unsaved)
           => st'.updating /\ (saved'.updating \/ unsaved')
  PROVE  LockDiscipline'
BY DEF LockDiscipline, Working

LEMMA LockStep ==
  ASSUME TypeOK, LockDiscipline, [Next]_vars PROVE LockDiscipline'
<1>1. /\ StateType /\ WorkType /\ st.updating \in BOOLEAN /\ saved.updating \in BOOLEAN
      /\ overran \in BOOLEAN
  BY Parts, StateFields DEF TypeParts, StateType, CountersType
<1>2. ASSUME UNCHANGED <<work, overran>>, st'.updating = st.updating,
             \/ saved'.updating = saved.updating /\ UNCHANGED unsaved
             \/ saved'.updating = st.updating
             \/ unsaved'
      PROVE  LockDiscipline'
  BY <1>2, LockKept DEF Active
<1>3. CASE UNCHANGED vars
  BY <1>2, <1>3 DEF vars, disk
<1>4. CASE Publish \/ CheckFetched \/ TenMinutesPass
  BY <1>2, <1>4 DEF Publish, CheckFetched, TenMinutesPass, disk
<1>5. CASE CheckStored \/ CheckBuild
  <2>1. PICK d : Checked(d)
    BY <1>5 DEF CheckStored, CheckBuild
  <2>2. (saved' = st' \/ unsaved') /\ st'.updating = st.updating
    BY <1>1, <2>1, CheckedShape DEF StateType
  <2> QED BY <1>2, <1>5, <2>2 DEF CheckStored, CheckBuild
<1>6. CASE BlacklistExpires
  BY <1>1, <1>2, <1>6 DEF BlacklistExpires, StateType, State
<1>7. ASSUME NEW kind, NEW target, NEW pc, Start(kind, target, pc), Unlocked
      PROVE  LockDiscipline'
  <2>1. CASE Working
    \* The lock of the worker was void.
    BY <1>1, <1>7, <2>1 DEF Start, Unlocked, LockDiscipline
  <2>2. CASE ~Working
    <3>1. PICK w \in Workers : \A v \in Workers : v # w => work'[v] = work[v]
      BY <1>1, <1>7 DEF Start, WorkType
    <3>2. \A v \in Workers : Active(v)' => v = w
      BY <2>2, <3>1 DEF Active, Working
    <3>3. st'.updating /\ (saved'.updating \/ unsaved')
      BY <1>1, <1>7, SaveShape DEF Start, StateType, State
    <3> QED BY <3>2, <3>3 DEF LockDiscipline
  <2> QED BY <2>1, <2>2
<1>8. CASE handleUpdate \/ handleRollback
  BY <1>7, <1>8 DEF handleUpdate, handleRollback
<1>9. CASE StaleLockCleared
  BY <1>9 DEF StaleLockCleared, LockDiscipline, Working, Active
<1>10. CASE Crash
  BY <1>1, <1>10 DEF Crash, NoWork, LockDiscipline, Working, Active
<1>11. ASSUME NEW w \in Workers, WorkStep(w) PROVE LockDiscipline'
  <2>1. /\ Active(w) /\ \A v \in Workers : v # w => work'[v] = work[v]
        /\ UNCHANGED overran
    BY <1>11, WorkTyped, WorkLeaves
  <2>2. \A v \in Workers : Active(v)' => Active(v)
    BY <2>1 DEF Active
  <2>3. CASE st'.updating = st.updating /\ UNCHANGED disk
    BY <2>1, <2>2, <2>3, LockKept DEF disk
  <2>4. CASE work' = [work EXCEPT ![w] = NoWork]
    \* It was the only one.
    <3>1. ~Active(w)'
      BY <1>1, <2>4 DEF WorkType, NoWork, Active
    <3> QED BY <2>1, <3>1 DEF LockDiscipline, Working, Active
  <2>5. (Health(w) \/ Undone(w)) => st'.updating = st.updating /\ UNCHANGED disk
    BY <1>1 DEF Health, Undone, StateType, State
  <2> QED BY <1>11, <2>3, <2>4, <2>5 DEF WorkStep, Inspect, TagRollback, GetImage, Up, Restore,
           RolledBack, RestoreUnhealthy, Release
<1> QED BY <1>3, <1>4, <1>5, <1>6, <1>8, <1>9, <1>10, <1>11 DEF Next

-----------------------------------------------------------------------------
(* What a step may change. *)

LEMMA InvTyped ==
  ASSUME IInv
  PROVE  /\ TypeOK /\ DockerType /\ StateType /\ WorkType /\ CountersType
         /\ \A w \in Workers : work[w] \in WorkRecords
         /\ st \in State /\ saved \in State
         /\ \A d \in Images : failures[d] \in 0..2
BY Parts, Numbers DEF IInv, TypeParts, WorkType, CountersType, StateType

\* Without an overrun a worker works alone.
LEMMA WorksAlone ==
  ASSUME IInv, NEW w \in Workers, WorkStep(w), NEW v \in Workers, v # w, Active(v)'
  PROVE  overran /\ overran'
BY InvTyped, WorkTyped, WorkLeaves DEF IInv, LockDiscipline, Active

\* A worker keeps what it works for, until it is done.
LEMMA WorkRecord ==
  ASSUME IInv, NEW w \in Workers, WorkStep(w)
  PROVE  \/ work'[w] = NoWork
         \/ work'[w].kind = work[w].kind /\ work'[w].target = work[w].target
<1>1. work[w] \in WorkRecords /\ WorkType
  BY InvTyped
<1>2. CASE \E pc : Goto(w, pc)
  BY <1>1, <1>2 DEF Goto, WorkType, WorkRecords
<1>3. CASE work' = [work EXCEPT ![w] = NoWork]
  BY <1>1, <1>3 DEF WorkType
<1>4. CASE Inspect(w)
  BY <1>1, <1>4 DEF Inspect, WorkType, WorkRecords
<1>5. CASE work' = [work EXCEPT ![w].pc = "get", ![w].tagged = TRUE]
  BY <1>1, <1>5 DEF WorkType, WorkRecords
<1> QED BY <1>2, <1>3, <1>4, <1>5 DEF WorkStep, TagRollback, GetImage, Up, Health, Restore,
         Undone, RolledBack, RestoreUnhealthy, Release

LEMMA WorkKnows ==
  ASSUME IInv, NEW w \in Workers, WorkStep(w)
  PROVE  /\ st'.latest = st.latest /\ saved'.latest \in {saved.latest, st.latest}
         /\ Undone(w) \/ (st'.blacklist = st.blacklist /\ UNCHANGED failures)
<1>1. st \in State /\ saved \in State
  BY InvTyped
<1>2. CASE UNCHANGED <<st, disk, failures>>
  BY <1>2 DEF disk
<1>3. CASE Health(w)
  BY <1>1, <1>3 DEF Health, State, disk
<1>4. CASE Undone(w)
  BY <1>1, <1>4 DEF Undone, State, disk
<1>5. CASE RolledBack(w)
  BY <1>1, <1>5 DEF RolledBack, Save, State
<1>6. CASE Release(w)
  BY <1>1, <1>6 DEF Release, Save, State
<1> QED BY <1>2, <1>3, <1>4, <1>5, <1>6 DEF WorkStep, Inspect, TagRollback, GetImage, Up, Restore,
         RestoreUnhealthy

\* What a request starts.
Started(kind, target, pc) == [NoWork EXCEPT !.pc = pc, !.kind = kind, !.target = target]
LEMMA StartShape ==
  ASSUME IInv, NEW kind, NEW target, NEW pc, Start(kind, target, pc)
  PROVE  /\ \E w \in Workers :
              /\ work'[w] = Started(kind, target, pc)
              /\ \A v \in Workers : v # w => work'[v] = work[v]
         /\ overran => overran'
         /\ st'.latest = st.latest /\ saved'.latest \in {saved.latest, st.latest}
         /\ st'.blacklist = st.blacklist
BY InvTyped DEF Start, Started, Save, WorkType, State

\* The steps that leave the workers, the images that run and the failures alone.
Aside == Publish \/ CheckFetched \/ CheckStored \/ CheckBuild \/ StaleLockCleared \/ TenMinutesPass
LEMMA AsideShape ==
  ASSUME IInv, Aside
  PROVE  /\ UNCHANGED <<buildMode, rollback, running, work, failures, crashes>>
         /\ overran => overran'
         /\ st'.blacklist = st.blacklist
<1>1. st \in State
  BY InvTyped
<1>2. st'.blacklist = st.blacklist
  <2>1. CASE CheckStored \/ CheckBuild
    BY <1>1, <2>1, CheckedShape DEF CheckStored, CheckBuild
  <2>2. CASE StaleLockCleared
    BY <1>1, <2>2 DEF StaleLockCleared, State
  <2> QED BY <2>1, <2>2 DEF Aside, Publish, CheckFetched, TenMinutesPass
<1>3. UNCHANGED <<buildMode, rollback, running, work, failures, crashes>>
  BY DEF Aside, Publish, CheckFetched, CheckStored, CheckBuild, StaleLockCleared, TenMinutesPass,
         docker
<1>4. overran => overran'
  BY DEF Aside, Publish, CheckFetched, CheckStored, CheckBuild, StaleLockCleared, TenMinutesPass
<1> QED BY <1>2, <1>3, <1>4

LEMMA StepCases ==
  [Next]_vars <=>
    \/ UNCHANGED vars \/ Aside \/ handleUpdate \/ handleRollback
    \/ BlacklistExpires \/ Crash \/ \E w \in Workers : WorkStep(w)
BY DEF Next, Aside

-----------------------------------------------------------------------------
(* With images that are built here, no digest of a registry. *)

LEMMA BuildsStep ==
  ASSUME IInv, [Next]_vars PROVE BuildsHaveNoDigest'
<1> SUFFICES ASSUME buildMode'
             PROVE  /\ fetched' = {} /\ st'.latest \notin Images /\ saved'.latest \notin Images
                    /\ \A w \in Workers : Updates(w)' => work'[w].target \notin Images
  BY DEF BuildsHaveNoDigest, Updates
<1>1. buildMode
  BY DEF Next, vars, Publish, CheckFetched, CheckStored, CheckBuild, handleUpdate, handleRollback,
         StaleLockCleared, TenMinutesPass, BlacklistExpires, Crash, WorkStep, Inspect, TagRollback,
         GetImage, Up, Health, Restore, Undone, RolledBack, RestoreUnhealthy, Release, stepUnchanged
<1>2. /\ fetched = {} /\ st.latest \notin Images /\ saved.latest \notin Images
      /\ \A w \in Workers : Updates(w) => work[w].target \notin Images
  BY <1>1 DEF IInv, BuildsHaveNoDigest, Updates
<1>3. st \in State /\ saved \in State /\ WorkType
  BY InvTyped
<1>4. CASE UNCHANGED vars
  BY <1>2, <1>4 DEF vars, disk, Updates, Active
<1>5. CASE Aside
  <2>1. UNCHANGED work
    BY <1>5, AsideShape
  <2>2. fetched' = {}
    BY <1>1, <1>2, <1>5 DEF Aside, Publish, CheckFetched, CheckStored, CheckBuild,
       StaleLockCleared, TenMinutesPass
  <2>3. st'.latest \notin Images /\ saved'.latest \notin Images
    <3>1. CASE CheckStored
      BY <1>2, <3>1 DEF CheckStored
    <3>2. CASE CheckBuild
      BY <1>2, <1>3, <3>2, CheckedShape, Numbers DEF CheckBuild
    <3>3. CASE StaleLockCleared
      BY <1>2, <1>3, <3>3 DEF StaleLockCleared, State, disk
    <3> QED BY <1>2, <1>5, <3>1, <3>2, <3>3 DEF Aside, Publish, CheckFetched, TenMinutesPass, disk
  <2> QED BY <1>2, <2>1, <2>2, <2>3 DEF Updates, Active
<1>6. CASE handleUpdate \/ handleRollback
  <2>1. PICK kind, target, pc :
          Start(kind, target, pc) /\ (kind = "rollback" \/ target = st.latest)
    BY <1>6 DEF handleUpdate, handleRollback
  <2>2. PICK w \in Workers :
          /\ work'[w] = Started(kind, target, pc)
          /\ \A v \in Workers : v # w => work'[v] = work[v]
    BY <2>1, StartShape
  <2>3. Updates(w)' => work'[w].target \notin Images
    BY <1>2, <2>1, <2>2 DEF Updates, NoWork, Started
  <2>4. fetched' = {} /\ st'.latest \notin Images /\ saved'.latest \notin Images
    BY <1>2, <1>6, <2>1, StartShape DEF handleUpdate, handleRollback
  <2> QED BY <1>2, <2>2, <2>3, <2>4 DEF Updates, Active
<1>7. CASE BlacklistExpires
  BY <1>2, <1>3, <1>7 DEF BlacklistExpires, State, Updates, Active
<1>8. CASE Crash
  BY <1>2, <1>8, FreshTyped, Numbers DEF Crash, Updates, Active, NoWork
<1>9. CASE \E w \in Workers : WorkStep(w)
  <2>0. PICK w \in Workers : WorkStep(w)
    BY <1>9
  <2>1. fetched' = {} /\ st'.latest \notin Images /\ saved'.latest \notin Images
    BY <1>2, <2>0, WorkLeaves, WorkKnows
  <2>2. Active(w) /\ \A v \in Workers : v # w => work'[v] = work[v]
    BY <2>0, InvTyped, WorkTyped
  <2>3. Updates(w)' => work'[w].target \notin Images
    BY <1>2, <2>0, <2>2, WorkRecord DEF Updates, Active, NoWork
  <2> QED BY <1>2, <2>1, <2>2, <2>3 DEF Updates, Active
<1> QED BY <1>4, <1>5, <1>6, <1>7, <1>8, <1>9, StepCases

-----------------------------------------------------------------------------
(* What failed is remembered.  Forgotten is what excuses a repetition.       *)

Forgotten == crashes > 0 \/ overran
Remembers ==
  /\ \A d \in Images : failures[d] > 0 => d \in st.blacklist /\ failures[d] <= 1
  /\ \A w \in Workers :
       Updates(w) /\ work[w].pc # "release" /\ work[w].target \in Images
         => failures[work[w].target] = 0

LEMMA ForgottenStays ==
  ASSUME IInv, [Next]_vars PROVE Forgotten => Forgotten'
<1>1. crashes \in Nat
  BY InvTyped, Numbers DEF CountersType
<1>2. CASE handleUpdate \/ handleRollback
  BY <1>2 DEF handleUpdate, handleRollback, Start, Forgotten
<1>3. CASE Crash
  BY <1>1, <1>3 DEF Crash, Forgotten
<1>4. CASE UNCHANGED vars \/ BlacklistExpires
  BY <1>4 DEF vars, BlacklistExpires, Forgotten
<1>5. CASE Aside
  BY <1>5, AsideShape DEF Forgotten
<1>6. ASSUME NEW w \in Workers, WorkStep(w) PROVE Forgotten => Forgotten'
  BY <1>6, WorkLeaves DEF Forgotten
<1> QED BY <1>2, <1>3, <1>4, <1>5, <1>6, StepCases

\* An update that is undone was the first to its digest.
LEMMA UndoneRemembers ==
  ASSUME IInv, Remembers, ~Forgotten, NEW w \in Workers, Undone(w)
  PROVE  Remembers'
<1>1. /\ Updates(w) /\ work[w].pc # "release" /\ WorkStep(w)
      /\ work[w].target \in Digests
      /\ st \in State /\ failures \in [Digests -> 0..2] /\ WorkType
  BY InvTyped DEF Undone, At, Updates, Active, WorkStep, CountersType, WorkRecords
<1>2. /\ st'.blacklist = st.blacklist \cup {work[w].target}
      /\ failures' = [failures EXCEPT ![work[w].target] = IF @ < 2 THEN @ + 1 ELSE @]
      /\ work'[w].pc = "release"
  BY <1>1, GotoStep DEF Undone, Blacklisted, State, WorkType, WorkRecords, Goto, Pcs
<1>3. ASSUME NEW d \in Images PROVE failures'[d] > 0 => d \in st'.blacklist /\ failures'[d] <= 1
  <2>1. d \in Digests /\ failures[d] \in 0..2
    BY <1>1, Numbers
  <2>2. CASE d = work[w].target
    BY <1>1, <1>2, <2>1, <2>2 DEF Remembers
  <2>3. CASE d # work[w].target
    BY <1>1, <1>2, <2>1, <2>3 DEF Remembers
  <2> QED BY <2>2, <2>3
<1>4. \A v \in Workers : Active(v)' => v = w
  BY <1>1, WorksAlone DEF Forgotten
<1> QED BY <1>2, <1>3, <1>4 DEF Remembers, Updates

LEMMA RemembersStep ==
  ASSUME IInv, Remembers, ~Forgotten', [Next]_vars PROVE Remembers'
<1>1. ~Forgotten
  BY ForgottenStays
<1>2. st \in State /\ WorkType /\ failures \in [Digests -> 0..2]
  BY InvTyped DEF CountersType
<1>3. CASE UNCHANGED vars
  BY <1>3 DEF vars, Remembers, Updates, Active
<1>4. CASE Aside
  BY <1>4, AsideShape DEF Remembers, Updates, Active
<1>5. CASE handleUpdate \/ handleRollback
  <2>1. PICK kind, target, pc :
          /\ Start(kind, target, pc)
          /\ kind = "rollback" \/ (target = st.latest /\ ~Refused)
    BY <1>5 DEF handleUpdate, handleRollback
  <2>2. PICK w \in Workers :
          /\ work'[w] = Started(kind, target, pc)
          /\ \A v \in Workers : v # w => work'[v] = work[v]
    BY <2>1, StartShape
  <2>3. UNCHANGED failures /\ st'.blacklist = st.blacklist
    BY <1>5, <2>1, StartShape DEF handleUpdate, handleRollback
  <2>4. Updates(w)' /\ work'[w].target \in Images => failures[work'[w].target] = 0
    <3>1. SUFFICES ASSUME kind = "update", target \in Images PROVE failures[target] = 0
      BY <2>2 DEF Updates, Started, NoWork
    <3>2. ~buildMode
      BY <2>1, <3>1 DEF IInv, BuildsHaveNoDigest
    <3>3. target \notin st.blacklist
      BY <2>1, <3>1, <3>2 DEF Refused
    <3>4. failures[target] \in 0..2 /\ ~(failures[target] > 0)
      BY <1>2, <3>1, <3>3, Numbers DEF Remembers
    <3> QED BY <3>4
  <2> QED BY <2>2, <2>3, <2>4 DEF Remembers, Updates, Active
<1>6. CASE BlacklistExpires
  <2>1. PICK d : /\ st' = [st EXCEPT !.blacklist = @ \ {d}]
                 /\ failures' = [failures EXCEPT ![d] = 0] /\ UNCHANGED work
    BY <1>6 DEF BlacklistExpires
  <2>2. st'.blacklist = st.blacklist \ {d}
    BY <1>2, <2>1 DEF State
  <2>3. \A e \in Images : e \in Digests /\ failures'[e] = IF e = d THEN 0 ELSE failures[e]
    BY <1>2, <2>1, Numbers
  <2> QED BY <2>1, <2>2, <2>3 DEF Remembers, Updates, Active
<1>7. CASE Crash
  <2>1. crashes \in Nat /\ crashes' = crashes + 1
    BY <1>7, InvTyped, Numbers DEF CountersType, Crash
  <2> QED BY <2>1 DEF Forgotten
<1>8. ASSUME NEW w \in Workers, WorkStep(w) PROVE Remembers'
  <2>1. CASE Undone(w)
    BY <1>1, <2>1, UndoneRemembers
  <2>2. CASE ~Undone(w)
    <3>1. st'.blacklist = st.blacklist /\ UNCHANGED failures
      BY <1>8, <2>2, WorkKnows
    <3>2. /\ (Active(w) /\ work[w].pc # "release") \/ work'[w].pc = "idle"
          /\ \A v \in Workers : v # w => work'[v] = work[v]
      <4>1. work[w].pc = "release" => Release(w)
        BY <1>8 DEF WorkStep, Inspect, TagRollback, GetImage, Up, Health, Restore, Undone,
                    RolledBack, RestoreUnhealthy, At
      <4>2. Release(w) => work'[w].pc = "idle"
        BY <1>2 DEF Release, WorkType, NoWork
      <4> QED BY <1>8, <4>1, <4>2, InvTyped, WorkTyped
    <3>3. Updates(w)' /\ work'[w].target \in Images => failures[work'[w].target] = 0
      BY <1>8, <3>2, WorkRecord DEF Remembers, Updates, Active, NoWork
    <3> QED BY <3>1, <3>2, <3>3 DEF Remembers, Updates, Active
  <2> QED BY <2>1, <2>2
<1> QED BY <1>3, <1>4, <1>5, <1>6, <1>7, <1>8, StepCases

LEMMA FailuresStep ==
  ASSUME IInv, [Next]_vars PROVE FailuresRemembered'
<1>1. Forgotten \/ Remembers
  BY DEF IInv, FailuresRemembered, Forgotten, Remembers
<1>2. Forgotten' \/ Remembers'
  BY <1>1, ForgottenStays, RemembersStep
<1> QED BY <1>2 DEF FailuresRemembered, Forgotten, Remembers

-----------------------------------------------------------------------------
(* The tag of an update, and what autoRollback runs.                         *)

\* What is asked of one worker
TagOk(w) ==
  Active(w) =>
    /\ work[w].pc \in {"inspect", "tag"} => ~work[w].tagged
    /\ work[w].tagged => overran \/ rollback = work[w].from
RestoredOk(w) ==
  Updates(w) /\ work[w].pc = "restored" /\ work[w].tagged
    => overran \/ buildMode \/ running = work[w].from
FormerOk(w) == TagOk(w) /\ RestoredOk(w)

LEMMA FormerIs ==
  /\ TagNamesFormer /\ RestoredIsFormer <=> \A w \in Workers : FormerOk(w)
  /\ (TagNamesFormer /\ RestoredIsFormer)' <=> \A w \in Workers : FormerOk(w)'
BY DEF TagNamesFormer, RestoredIsFormer, FormerOk, TagOk, RestoredOk

\* A worker another one steps beside is excused.
LEMMA OthersFormer ==
  ASSUME IInv, NEW w \in Workers, WorkStep(w), NEW v \in Workers, v # w
  PROVE  FormerOk(v)'
<1>1. Active(v)' => overran'
  BY WorksAlone
<1>2. work'[v] = work[v]
  BY InvTyped, WorkTyped
<1>3. Active(v) => TagOk(v)
  BY FormerIs DEF IInv, FormerOk
<1>4. Active(v) => (work[v].pc \in {"inspect", "tag"} => ~work[v].tagged)
  BY <1>3 DEF TagOk
<1> QED BY <1>1, <1>2, <1>4 DEF FormerOk, TagOk, RestoredOk, Updates, Active

LEMMA WorkerFormer ==
  ASSUME IInv, NEW w \in Workers, WorkStep(w)
  PROVE  FormerOk(w)'
<1>1. /\ WorkType /\ work[w] \in WorkRecords /\ Active(w)
      /\ UNCHANGED <<overran, buildMode>>
  BY InvTyped, WorkTyped, WorkLeaves
<1>2. TagOk(w) /\ RestoredOk(w)
  BY FormerIs DEF IInv, FormerOk
<1>3. CASE work' = [work EXCEPT ![w] = NoWork]
  BY <1>1, <1>3 DEF WorkType, NoWork, FormerOk, TagOk, RestoredOk, Updates, Active
<1>4. ASSUME NEW pc \in Pcs \ {"inspect", "tag", "restored"}, Goto(w, pc), UNCHANGED rollback
      PROVE  FormerOk(w)'
  <2>1. work'[w] = [work[w] EXCEPT !.pc = pc]
    BY <1>1, <1>4, GotoStep
  <2>2. /\ work'[w].pc = pc /\ work'[w].tagged = work[w].tagged
        /\ work'[w].from = work[w].from
    BY <1>1, <2>1 DEF WorkRecords
  <2>3. work[w].tagged => overran \/ rollback = work[w].from
    BY <1>1, <1>2 DEF TagOk
  <2> QED BY <1>1, <1>4, <2>2, <2>3 DEF FormerOk, TagOk, RestoredOk
<1>5. CASE Inspect(w)
  <2>1. PICK from \in {0, running} :
          work' = [work EXCEPT ![w].from = from, ![w].pc = IF from = 0 THEN "get" ELSE "tag"]
    BY <1>5 DEF Inspect
  <2>2. /\ work'[w].tagged = work[w].tagged /\ ~work[w].tagged
        /\ work'[w].pc \in {"get", "tag"}
    BY <1>1, <1>2, <1>5, <2>1 DEF Inspect, At, TagOk, WorkType, WorkRecords
  <2> QED BY <2>2 DEF FormerOk, TagOk, RestoredOk
<1>6. CASE TagRollback(w)
  <2>1. CASE rollback' = work[w].from /\ work' = [work EXCEPT ![w].pc = "get", ![w].tagged = TRUE]
    <3>1. work'[w].from = work[w].from /\ work'[w].pc = "get"
      BY <1>1, <2>1 DEF WorkType, WorkRecords
    <3> QED BY <2>1, <3>1 DEF FormerOk, TagOk, RestoredOk
  <2> QED BY <1>4, <1>6, <2>1 DEF TagRollback, TagOf, Pcs
<1>7. CASE Restore(w) /\ running' = RollbackImage /\ Goto(w, "restored")
  <2>1. /\ work'[w] = [work[w] EXCEPT !.pc = "restored"] /\ rollback' = rollback
        /\ buildMode \/ running' = rollback
    BY <1>1, <1>7, GotoStep DEF Restore, RollbackImage, Pcs
  <2>2. /\ work'[w].pc = "restored" /\ work'[w].tagged = work[w].tagged
        /\ work'[w].from = work[w].from
    BY <1>1, <2>1 DEF WorkRecords
  <2>3. work[w].tagged => overran \/ rollback = work[w].from
    BY <1>1, <1>2 DEF TagOk
  <2> QED BY <1>1, <2>1, <2>2, <2>3 DEF FormerOk, TagOk, RestoredOk
<1>8. AfterFailure(w) \in Pcs \ {"inspect", "tag", "restored"}
  BY DEF AfterFailure, Pcs
<1> QED BY <1>3, <1>4, <1>5, <1>6, <1>7, <1>8 DEF WorkStep, GetImage, Up, Health, Restore, Undone,
         RolledBack, RestoreUnhealthy, Release, Pcs, docker

LEMMA FormerStep ==
  ASSUME IInv, [Next]_vars PROVE TagNamesFormer' /\ RestoredIsFormer'
<1> SUFFICES ASSUME NEW v \in Workers PROVE FormerOk(v)'
  BY FormerIs
<1>1. FormerOk(v) /\ WorkType
  BY InvTyped, FormerIs DEF IInv
<1>2. ASSUME UNCHANGED <<work, rollback, running, buildMode>>, overran => overran'
      PROVE  FormerOk(v)'
  BY <1>1, <1>2 DEF FormerOk, TagOk, RestoredOk, Updates, Active
<1>3. CASE UNCHANGED vars
  BY <1>2, <1>3 DEF vars, docker
<1>4. CASE Aside
  BY <1>2, <1>4, AsideShape
<1>5. CASE BlacklistExpires
  BY <1>2, <1>5 DEF BlacklistExpires, docker
<1>6. CASE handleUpdate \/ handleRollback
  <2>1. PICK kind, target, pc : Start(kind, target, pc)
    BY <1>6 DEF handleUpdate, handleRollback
  <2>2. PICK w \in Workers :
          /\ work'[w] = Started(kind, target, pc)
          /\ \A u \in Workers : u # w => work'[u] = work[u]
    BY <2>1, StartShape
  <2>3. CASE v = w
    BY <2>2, <2>3 DEF Started, NoWork, FormerOk, TagOk, RestoredOk
  <2>4. CASE v # w
    <3>1. UNCHANGED <<rollback, running, buildMode>> /\ (overran => overran')
      BY <1>6, <2>1, StartShape DEF handleUpdate, handleRollback, docker
    <3> QED BY <1>1, <2>2, <2>4, <3>1 DEF FormerOk, TagOk, RestoredOk, Updates, Active
  <2> QED BY <2>3, <2>4
<1>7. CASE Crash
  BY <1>7 DEF Crash, NoWork, FormerOk, TagOk, RestoredOk, Updates, Active
<1>8. ASSUME NEW w \in Workers, WorkStep(w) PROVE FormerOk(v)'
  BY <1>8, OthersFormer, WorkerFormer
<1> QED BY <1>3, <1>4, <1>5, <1>6, <1>7, <1>8, StepCases

-----------------------------------------------------------------------------

LEMMA InitInv == Init => IInv
<1> SUFFICES ASSUME Init PROVE IInv
  OBVIOUS
<1>1. \A w \in Workers : ~Active(w)
  BY DEF Init, Active, NoWork
<1>2. LockDiscipline
  BY <1>1 DEF LockDiscipline, Working
<1>3. BuildsHaveNoDigest
  BY <1>1, FreshTyped, Numbers DEF Init, BuildsHaveNoDigest
<1>4. FailuresRemembered
  BY <1>1, Numbers DEF Init, FailuresRemembered, Updates
<1>5. TagNamesFormer /\ RestoredIsFormer
  BY <1>1 DEF TagNamesFormer, RestoredIsFormer, Updates
<1> QED BY <1>2, <1>3, <1>4, <1>5, TypeInit DEF IInv

LEMMA StepInv == IInv /\ [Next]_vars => IInv'
BY TypeStep, LockStep, BuildsStep, FailuresStep, FormerStep DEF IInv

\* The invariant that carries the properties: it holds at first, and every step
\* keeps it.
THEOREM Invariance == Spec => []IInv
BY InitInv, StepInv, PTL DEF Spec

\* Every variable keeps its type; the list of former digests stays within its limit.
THEOREM TypeCorrect == Spec => []TypeOK
<1>1. IInv => TypeOK
  BY DEF IInv
<1> QED BY <1>1, Invariance, PTL

\* Updates and rollbacks exclude each other, and one that runs is locked in memory
\* and on disk, unless a lock was taken over after its ten minutes.
THEOREM UpdatesExcludeEachOther == Spec => []LockDiscipline
<1>1. IInv => LockDiscipline
  BY DEF IInv
<1> QED BY <1>1, Invariance, PTL

\* An update that failed and was undone is not repeated while its blacklist entry
\* lasts, unless a crash lost the entry or updates overlapped.
THEOREM NoRetryLoop == Spec => []TargetFailsOnce
<1>1. IInv => TargetFailsOnce
  <2> SUFFICES ASSUME IInv, NEW d \in Images, failures[d] > 1 PROVE crashes > 0 \/ overran
    BY DEF TargetFailsOnce
  <2>1. failures[d] \in 0..2 /\ failures[d] > 0 /\ ~(failures[d] <= 1)
    BY InvTyped
  <2> QED BY <2>1 DEF IInv, FailuresRemembered
<1> QED BY <1>1, Invariance, PTL

\* When autoRollback succeeds, the image from before the update runs again.
THEOREM FailureIsUndone == Spec => FailedUpdateRestores
<1>1. IInv /\ [Next]_vars =>
        [\A w \in Workers :
           work[w].kind = "update" /\ work[w].pc = "restored" /\ st'.blacklist # st.blacklist
             => \/ running = work[w].from
                \/ ~work[w].tagged \/ overran \/ buildMode]_vars
  BY DEF IInv, RestoredIsFormer, Updates, Active
<1> QED BY <1>1, Invariance, PTL DEF Spec, FailedUpdateRestores

-----------------------------------------------------------------------------
(* The companion services.                                                  *)

Handling(c) == calls[c].pc # "idle"
CallRecords ==
  [pc : {"idle", "stop", "rm", "remove", "list", "write", "rename"},
   op : {"registered", "removed", "stopped", "none"}, name : Services \cup {"none"},
   list : SUBSET Services, auto : BOOLEAN, shared : BOOLEAN]

\* The requests that come to a place of the handlers.
OpsAt(pc) == CASE pc = "stop" -> {"removed", "stopped"}
               [] pc \in {"rm", "remove"} -> {"removed"}
               [] OTHER -> {"registered", "removed"}

\* The file is the catalog: both are written under its mutex.
ServiceType ==
  /\ catalog \subseteq Services /\ managed = catalog
  /\ containers \in [Services -> {"none", "running", "exited"}]
  /\ calls \in [Calls -> CallRecords] /\ starting \in [Services -> Nat]
  /\ settled \in [Services -> {"unknown", "registered", "removed"}]
  /\ loose \subseteq Services /\ overlapped \in BOOLEAN
  /\ \A c \in Calls : Handling(c) =>
       /\ calls[c].name \in Services
       /\ calls[c].op \in OpsAt(calls[c].pc)

\* What a caller was told stands only while no request for the service is under way;
\* requests for one service know of each other.
RequestsKnown ==
  /\ \A c \in Calls : Handling(c) => settled[calls[c].name] = "unknown"
  /\ \A c, d \in Calls : Handling(c) /\ Handling(d) /\ calls[c].name = calls[d].name
                           => c = d \/ calls[c].shared

\* A request that is the only one for its service finds what it has done so far.
DoneSoFar ==
  \A c \in Calls : Handling(c) /\ ~calls[c].shared =>
    /\ calls[c].op = "registered" => calls[c].name \in catalog
    /\ calls[c].op = "removed" /\ calls[c].pc \in {"list", "write", "rename"}
         => calls[c].name \notin catalog

\* A removal has stopped the container, unless that failed or it met a start.
RemovalStops ==
  \A c \in Calls : Handling(c) /\ calls[c].op = "removed" =>
    \/ calls[c].name \in loose
    \/ /\ starting[calls[c].name] = 0
       /\ calls[c].pc = "rm" => containers[calls[c].name] # "running"
       /\ calls[c].pc \in {"remove", "list", "write", "rename"}
            => containers[calls[c].name] = "none"

\* A list for the overlay is the catalog, but for requests that have changed it since
\* and will make a list of their own; the temporary file is that list.
Writing(c) == calls[c].pc \in {"write", "rename"}
ToList(s) == \E c \in Calls : calls[c].pc = "list" /\ calls[c].name = s
ListsAgree ==
  overlapped \/
    /\ \A c, d \in Calls : Writing(c) /\ Writing(d) => c = d
    /\ \A c \in Calls : Writing(c) =>
         \A s \in Services : ToList(s) \/ (s \in calls[c].list <=> s \in catalog)
    /\ \A c \in Calls : calls[c].pc = "rename" => overlayTmp = calls[c].list

ServicesInv ==
  /\ ServiceType /\ RequestsKnown /\ DoneSoFar /\ RemovalStops /\ ListsAgree
  /\ AnswersStayTrue

PcsOfCalls == {"idle", "stop", "rm", "remove", "list", "write", "rename"}

\* A request goes on, is answered, or is accepted: what becomes of it and of the others.
LEMMA RequestGoes ==
  ASSUME ServiceType, NEW c \in Calls, NEW pc \in PcsOfCalls, Companions!Goto(c, pc)
  PROVE  /\ calls' \in [Calls -> CallRecords] /\ settled' = settled
         /\ calls'[c] = [calls[c] EXCEPT !.pc = pc]
         /\ \A d \in Calls : d # c => calls'[d] = calls[d]
BY DEF ServiceType, CallRecords, PcsOfCalls, Companions!Goto

Outcomes == {"registered", "removed", "unknown", "error"}

LEMMA RequestAnswered ==
  ASSUME ServiceType, NEW c \in Calls, Handling(c), NEW o \in Outcomes, Companions!Answer(c, o)
  PROVE  /\ calls' \in [Calls -> CallRecords] /\ calls'[c].pc = "idle"
         /\ \A d \in Calls : d # c => calls'[d] = calls[d]
         /\ settled' \in [Services -> {"unknown", "registered", "removed"}]
         /\ \A s \in Services : settled'[s] =
              IF s = calls[c].name /\ ~calls[c].shared /\ o # "error" THEN o ELSE settled[s]
<1>1. calls[c].name \in Services /\ calls[c].shared \in BOOLEAN
  BY DEF ServiceType, CallRecords
<1>2. calls' \in [Calls -> CallRecords] /\ calls'[c].pc = "idle"
  BY DEF ServiceType, CallRecords, Companions!Answer, Companions!NoCall
<1>3. \A d \in Calls : d # c => calls'[d] = calls[d]
  BY DEF ServiceType, Companions!Answer
<1>4. settled' = [settled EXCEPT ![calls[c].name] =
                    IF calls[c].shared \/ o = "error" THEN @ ELSE o]
  BY DEF Companions!Answer
<1>5. settled \in [Services -> {"unknown", "registered", "removed"}]
  BY DEF ServiceType
<1> QED BY <1>1, <1>2, <1>3, <1>4, <1>5 DEF Outcomes

LEMMA RequestAccepted ==
  ASSUME ServiceType, NEW c \in Calls, NEW op \in {"registered", "removed", "stopped"},
         NEW s \in Services, NEW pc \in {"stop", "list"}, NEW auto \in BOOLEAN,
         Companions!Accept(c, op, s, pc, auto)
  PROVE  /\ calls' \in [Calls -> CallRecords] /\ ~Handling(c)
         /\ calls'[c].pc = pc /\ calls'[c].op = op /\ calls'[c].name = s
         /\ ~calls'[c].shared => \A d \in Calls : Handling(d) => calls[d].name # s
         /\ \A d \in Calls : d # c =>
              /\ calls'[d].pc = calls[d].pc /\ calls'[d].op = calls[d].op
              /\ calls'[d].name = calls[d].name /\ calls'[d].list = calls[d].list
              /\ calls[d].shared => calls'[d].shared
              /\ Handling(d) /\ calls[d].name = s => calls'[d].shared
         /\ settled' \in [Services -> {"unknown", "registered", "removed"}]
         /\ settled'[s] = "unknown"
         /\ \A t \in Services : t # s => settled'[t] = settled[t]
<1>1. /\ ~Handling(c)
      /\ settled' = [settled EXCEPT ![s] = "unknown"]
      /\ calls' = [d \in Calls |->
           IF d = c THEN [pc |-> pc, op |-> op, name |-> s, list |-> {}, auto |-> auto,
                          shared |-> Companions!For(s) # {}]
           ELSE [calls[d] EXCEPT !.shared = @ \/ d \in Companions!For(s)]]
  BY DEF Companions!Accept, Companions!Busy, Handling
<1>2. \A d \in Calls : d \in Companions!For(s) <=> Handling(d) /\ calls[d].name = s
  BY DEF Companions!For, Companions!Busy, Handling
<1>3. calls \in [Calls -> CallRecords]
  BY DEF ServiceType
<1>4. /\ calls'[c] = [pc |-> pc, op |-> op, name |-> s, list |-> {}, auto |-> auto,
                      shared |-> Companions!For(s) # {}]
      /\ \A d \in Calls : d # c =>
           calls'[d] = [calls[d] EXCEPT !.shared = @ \/ d \in Companions!For(s)]
  BY <1>1
<1>5. \A d \in Calls : d # c =>
        /\ calls'[d] \in CallRecords
        /\ calls'[d].pc = calls[d].pc /\ calls'[d].op = calls[d].op
        /\ calls'[d].name = calls[d].name /\ calls'[d].list = calls[d].list
        /\ calls'[d].shared = (calls[d].shared \/ d \in Companions!For(s))
  <2> SUFFICES ASSUME NEW d \in Calls, d # c
               PROVE  /\ calls'[d] \in CallRecords
                      /\ calls'[d].pc = calls[d].pc /\ calls'[d].op = calls[d].op
                      /\ calls'[d].name = calls[d].name /\ calls'[d].list = calls[d].list
                      /\ calls'[d].shared = (calls[d].shared \/ d \in Companions!For(s))
    OBVIOUS
  <2> DEFINE met == calls[d].shared \/ d \in Companions!For(s)
  <2>1. calls[d] \in CallRecords /\ met \in BOOLEAN
    BY <1>3 DEF CallRecords
  <2>2. calls'[d] = [calls[d] EXCEPT !.shared = met]
    BY <1>4
  <2> HIDE DEF met
  <2>3. /\ calls'[d] \in CallRecords /\ calls'[d].shared = met
        /\ calls'[d].pc = calls[d].pc /\ calls'[d].op = calls[d].op
        /\ calls'[d].name = calls[d].name /\ calls'[d].list = calls[d].list
    BY <2>1, <2>2 DEF CallRecords
  <2> QED BY <2>3 DEF met
<1>6. calls'[c] \in CallRecords
  BY <1>4 DEF CallRecords
<1>7. calls' \in [Calls -> CallRecords]
  BY <1>1, <1>5, <1>6
<1>8. ~calls'[c].shared => \A d \in Calls : Handling(d) => calls[d].name # s
  <2>1. calls'[c].shared = (Companions!For(s) # {})
    BY <1>4
  <2> QED BY <1>2, <2>1, Zenon
<1>9. settled' \in [Services -> {"unknown", "registered", "removed"}] /\ settled'[s] = "unknown"
      /\ \A t \in Services : t # s => settled'[t] = settled[t]
  BY <1>1 DEF ServiceType
<1> QED BY <1>1, <1>2, <1>4, <1>5, <1>7, <1>8, <1>9, ZenonT(40)

-----------------------------------------------------------------------------
(* Requests that are accepted, and what goes on beside them.                *)

LEMMA RegisterKeeps ==
  ASSUME ServicesInv, NEW c \in Calls, NEW s \in Services, NEW auto \in BOOLEAN,
         Companions!handleRegisterService(c, s, auto)
  PROVE  ServicesInv'
<1>a. /\ ServiceType /\ RequestsKnown /\ DoneSoFar /\ RemovalStops /\ ListsAgree
      /\ AnswersStayTrue
  BY DEF ServicesInv
<1>b. /\ s \notin catalog /\ catalog' = catalog \cup {s} /\ managed' = catalog'
      /\ Companions!Accept(c, "registered", s, "list", auto)
      /\ UNCHANGED <<overlay, overlayTmp, containers, starting, restarts, loose, overlapped>>
  BY DEF Companions!handleRegisterService, Companions!Registered
<1>c. /\ calls' \in [Calls -> CallRecords] /\ ~Handling(c)
      /\ calls'[c].pc = "list" /\ calls'[c].op = "registered" /\ calls'[c].name = s
      /\ ~calls'[c].shared => \A d \in Calls : Handling(d) => calls[d].name # s
      /\ \A d \in Calls : d # c =>
           /\ calls'[d].pc = calls[d].pc /\ calls'[d].op = calls[d].op
           /\ calls'[d].name = calls[d].name /\ calls'[d].list = calls[d].list
           /\ calls[d].shared => calls'[d].shared
           /\ Handling(d) /\ calls[d].name = s => calls'[d].shared
      /\ settled' \in [Services -> {"unknown", "registered", "removed"}]
      /\ settled'[s] = "unknown"
      /\ \A t \in Services : t # s => settled'[t] = settled[t]
  BY <1>a, <1>b, RequestAccepted
<1>1. ServiceType'
  <2>1. \A d \in Calls : Handling(d)' =>
          /\ calls'[d].name \in Services
          /\ calls'[d].op \in OpsAt(calls'[d].pc)
    BY <1>a, <1>c DEF ServiceType, Handling, OpsAt
  <2> QED BY <1>a, <1>b, <1>c, <2>1 DEF ServiceType
<1>2. RequestsKnown'
  BY <1>a, <1>c DEF RequestsKnown, Handling, ServiceType
<1>3. DoneSoFar'
  BY <1>a, <1>b, <1>c DEF DoneSoFar, Handling, ServiceType
<1>4. RemovalStops'
  BY <1>a, <1>b, <1>c DEF RemovalStops, Handling
<1>5. ListsAgree'
  <2> SUFFICES ASSUME ~overlapped PROVE ListsAgree'
    BY <1>b DEF ListsAgree
  <2>1. \A d, e \in Calls : Writing(d)' /\ Writing(e)' => d = e
    BY <1>a, <1>c DEF ListsAgree, Writing
  <2>2. ASSUME NEW d \in Calls, Writing(d)', NEW t \in Services
        PROVE  ToList(t)' \/ (t \in calls'[d].list <=> t \in catalog')
    <3>1. CASE t = s
      BY <1>c, <3>1 DEF ToList
    <3>2. CASE t # s
      <4>1. d # c /\ Writing(d) /\ calls'[d].list = calls[d].list
        BY <1>c, <2>2 DEF Writing
      <4>2. ToList(t) \/ (t \in calls[d].list <=> t \in catalog)
        BY <1>a, <4>1 DEF ListsAgree
      <4>3. ToList(t) => ToList(t)'
        BY <1>c DEF ToList, Handling
      <4> QED BY <1>b, <3>2, <4>1, <4>2, <4>3
    <3> QED BY <3>1, <3>2
  <2>3. \A d \in Calls : calls'[d].pc = "rename" => overlayTmp' = calls'[d].list
    BY <1>a, <1>b, <1>c DEF ListsAgree
  <2> QED BY <2>1, <2>2, <2>3 DEF ListsAgree
<1>6. AnswersStayTrue'
  BY <1>a, <1>b, <1>c DEF AnswersStayTrue, Companions!AnswersStayTrue, ServiceType
<1> QED BY <1>1, <1>2, <1>3, <1>4, <1>5, <1>6 DEF ServicesInv

LEMMA StopOrRemoveKeeps ==
  ASSUME ServicesInv, NEW c \in Calls, NEW s \in Services,
         Companions!handleRemoveService(c, s) \/ Companions!handleServiceStop(c, s)
  PROVE  ServicesInv'
<1>a. /\ ServiceType /\ RequestsKnown /\ DoneSoFar /\ RemovalStops /\ ListsAgree
      /\ AnswersStayTrue
  BY DEF ServicesInv
<1>b. PICK op \in {"removed", "stopped"} :
        /\ s \in catalog /\ Companions!Accept(c, op, s, "stop", FALSE)
        /\ loose' = IF op = "removed" /\ starting[s] > 0 THEN loose \cup {s} ELSE loose
        /\ UNCHANGED <<catalog, managed, overlay, overlayTmp, containers, starting, restarts,
                       overlapped>>
  BY DEF Companions!handleRemoveService, Companions!handleServiceStop, Companions!Registered
<1>c. /\ calls' \in [Calls -> CallRecords] /\ ~Handling(c)
      /\ calls'[c].pc = "stop" /\ calls'[c].op = op /\ calls'[c].name = s
      /\ ~calls'[c].shared => \A d \in Calls : Handling(d) => calls[d].name # s
      /\ \A d \in Calls : d # c =>
           /\ calls'[d].pc = calls[d].pc /\ calls'[d].op = calls[d].op
           /\ calls'[d].name = calls[d].name /\ calls'[d].list = calls[d].list
           /\ calls[d].shared => calls'[d].shared
           /\ Handling(d) /\ calls[d].name = s => calls'[d].shared
      /\ settled' \in [Services -> {"unknown", "registered", "removed"}]
      /\ settled'[s] = "unknown"
      /\ \A t \in Services : t # s => settled'[t] = settled[t]
  <2>1. /\ op \in {"registered", "removed", "stopped"} /\ "stop" \in {"stop", "list"}
        /\ FALSE \in BOOLEAN
    OBVIOUS
  <2>2. PICK auto \in BOOLEAN : Companions!Accept(c, op, s, "stop", auto)
    <3>1. Companions!Accept(c, op, s, "stop", FALSE)
      BY <1>b
    <3> QED BY <2>1, <3>1, Zenon
  <2> QED BY <1>a, <2>1, <2>2, RequestAccepted
<1>1. ServiceType'
  <2>1. \A d \in Calls : Handling(d)' =>
          calls'[d].name \in Services /\ calls'[d].op \in OpsAt(calls'[d].pc)
    BY <1>a, <1>c DEF ServiceType, Handling, OpsAt
  <2> QED BY <1>a, <1>b, <1>c, <2>1 DEF ServiceType
<1>2. RequestsKnown'
  BY <1>a, <1>b, <1>c DEF RequestsKnown, Handling, ServiceType
<1>3. DoneSoFar'
  BY <1>a, <1>b, <1>c DEF DoneSoFar, Handling, ServiceType
<1>4. RemovalStops'
  BY <1>a, <1>b, <1>c DEF RemovalStops, Handling, ServiceType
<1>5. ListsAgree'
  <2>1. \A t \in Services : ToList(t) => ToList(t)'
    BY <1>c DEF ToList, Handling
  <2>2. \A d \in Calls : Writing(d)' => d # c /\ Writing(d) /\ calls'[d].list = calls[d].list
    BY <1>c DEF Writing
  <2>3. \A d \in Calls : calls'[d].pc = "rename" => d # c
    BY <1>c
  <2> QED BY <1>a, <1>b, <1>c, <2>1, <2>2, <2>3 DEF ListsAgree
<1>6. AnswersStayTrue'
  BY <1>a, <1>b, <1>c DEF AnswersStayTrue, Companions!AnswersStayTrue, ServiceType
<1> QED BY <1>1, <1>2, <1>3, <1>4, <1>5, <1>6 DEF ServicesInv

\* A start may meet a removal, and what is said of one is given up then.
LEMMA StartIs ==
  ASSUME ServiceType, NEW s \in Services, Companions!Start(s)
  PROVE  /\ starting' \in [Services -> Nat] /\ loose' \subseteq Services /\ loose \subseteq loose'
         /\ \A t \in Services : t # s => starting'[t] = starting[t]
         /\ \A c \in Calls : Handling(c) /\ calls[c].op = "removed" /\ calls[c].name = s
                               => s \in loose'
<1>1. \A c \in Calls : c \in Companions!For(s) <=> Handling(c) /\ calls[c].name = s
  BY DEF Companions!For, Companions!Busy, Handling
<1>2. starting' = [starting EXCEPT ![s] = @ + 1]
      /\ loose' = IF \E c \in Companions!For(s) : calls[c].op = "removed"
                  THEN loose \cup {s} ELSE loose
  BY DEF Companions!Start
<1>3. starting \in [Services -> Nat] /\ loose \subseteq Services
  BY DEF ServiceType
<1>4. starting' \in [Services -> Nat] /\ \A t \in Services : t # s => starting'[t] = starting[t]
  BY <1>2, <1>3
<1> HIDE DEF Companions!For
<1> QED BY <1>1, <1>2, <1>3, <1>4, Zenon

LEMMA StartKeeps ==
  ASSUME ServicesInv, NEW s \in Services, Companions!handleServiceStart(s)
  PROVE  ServicesInv'
<1>a. /\ ServiceType /\ RequestsKnown /\ DoneSoFar /\ RemovalStops /\ ListsAgree
      /\ AnswersStayTrue
  BY DEF ServicesInv
<1>b. /\ Companions!Start(s)
      /\ UNCHANGED <<catalog, managed, overlay, overlayTmp, containers, calls, settled, overlapped>>
  BY DEF Companions!handleServiceStart
<1>c. /\ starting' \in [Services -> Nat] /\ loose' \subseteq Services /\ loose \subseteq loose'
      /\ \A t \in Services : t # s => starting'[t] = starting[t]
      /\ \A c \in Calls : Handling(c) /\ calls[c].op = "removed" /\ calls[c].name = s => s \in loose'
  BY <1>a, <1>b, StartIs
<1>1. ServiceType' /\ RequestsKnown' /\ DoneSoFar' /\ ListsAgree'
  BY <1>a, <1>b, <1>c DEF ServiceType, RequestsKnown, DoneSoFar, ListsAgree, Handling, Writing, ToList
<1>2. RemovalStops'
  BY <1>a, <1>b, <1>c DEF RemovalStops, Handling, ServiceType
<1>3. AnswersStayTrue'
  BY <1>a, <1>b, <1>c DEF AnswersStayTrue, Companions!AnswersStayTrue
<1> QED BY <1>1, <1>2, <1>3 DEF ServicesInv

\* A container is started of a service the overlay names, or not at all.
LEMMA ContainerUpKeeps ==
  ASSUME ServicesInv, NEW s \in Services, Companions!composeServiceUp(s)
  PROVE  ServicesInv'
<1>a. /\ ServiceType /\ RequestsKnown /\ DoneSoFar /\ RemovalStops /\ ListsAgree
      /\ AnswersStayTrue
  BY DEF ServicesInv
<1>b. /\ starting[s] > 0 /\ starting' = [starting EXCEPT ![s] = @ - 1]
      /\ \/ s \in overlay /\ containers' = [containers EXCEPT ![s] = "running"]
         \/ UNCHANGED containers
      /\ UNCHANGED <<catalog, managed, overlay, overlayTmp, calls, settled, loose, overlapped>>
  BY DEF Companions!composeServiceUp
<1>1. ServiceType'
  BY <1>a, <1>b DEF ServiceType, Handling
<1>2. RequestsKnown' /\ DoneSoFar' /\ ListsAgree'
  BY <1>a, <1>b DEF RequestsKnown, DoneSoFar, ListsAgree, Handling, Writing, ToList
<1>3. RemovalStops'
  BY <1>a, <1>b DEF RemovalStops, Handling, ServiceType
<1>4. AnswersStayTrue'
  BY <1>a, <1>b DEF AnswersStayTrue, Companions!AnswersStayTrue, ServiceType
<1> QED BY <1>1, <1>2, <1>3, <1>4 DEF ServicesInv

-----------------------------------------------------------------------------
(* The steps of a request.                                                  *)

\* An answer is only believed of a service that no other request is for.
LEMMA AnswerKnown ==
  ASSUME ServiceType, RequestsKnown, NEW c \in Calls, Handling(c), NEW o \in Outcomes,
         Companions!Answer(c, o)
  PROVE  /\ RequestsKnown' /\ settled[calls[c].name] = "unknown"
         /\ \A d \in Calls : Handling(d)' => d # c /\ Handling(d) /\ calls'[d] = calls[d]
<1>1. /\ calls' \in [Calls -> CallRecords] /\ calls'[c].pc = "idle"
      /\ \A d \in Calls : d # c => calls'[d] = calls[d]
      /\ \A s \in Services : settled'[s] =
           IF s = calls[c].name /\ ~calls[c].shared /\ o # "error" THEN o ELSE settled[s]
  BY RequestAnswered
<1>2. \A d \in Calls : Handling(d)' => d # c /\ Handling(d) /\ calls'[d] = calls[d]
  BY <1>1 DEF Handling
<1>3. \A d \in Calls : Handling(d)' => calls[d].name \in Services
  BY <1>2 DEF ServiceType
<1> QED BY <1>1, <1>2, <1>3 DEF RequestsKnown, Handling

LEMMA GoesKnown ==
  ASSUME ServiceType, RequestsKnown, NEW c \in Calls, Handling(c), NEW pc \in PcsOfCalls,
         pc # "idle", Companions!Goto(c, pc), calls[c].op \in OpsAt(pc)
  PROVE  /\ RequestsKnown' /\ settled' = settled /\ calls'[c].pc = pc
         /\ \A d \in Calls : Handling(d)' =>
              /\ Handling(d) /\ calls'[d].name = calls[d].name /\ calls'[d].op = calls[d].op
              /\ calls'[d].shared = calls[d].shared /\ calls'[d].list = calls[d].list
              /\ calls'[d].op \in OpsAt(calls'[d].pc) /\ calls'[d].name \in Services
<1>1. /\ settled' = settled /\ calls'[c] = [calls[c] EXCEPT !.pc = pc]
      /\ \A d \in Calls : d # c => calls'[d] = calls[d]
  BY RequestGoes
<1>2. /\ calls'[c].pc = pc /\ calls'[c].name = calls[c].name /\ calls'[c].op = calls[c].op
      /\ calls'[c].shared = calls[c].shared /\ calls'[c].list = calls[c].list
  BY <1>1 DEF ServiceType, CallRecords
<1>3. \A d \in Calls : Handling(d)' => Handling(d)
  BY <1>1 DEF Handling
<1>4. \A d \in Calls : Handling(d)' =>
        /\ calls'[d].name = calls[d].name /\ calls'[d].op = calls[d].op
        /\ calls'[d].shared = calls[d].shared /\ calls'[d].list = calls[d].list
  BY <1>1, <1>2
<1>5. \A d \in Calls : Handling(d)' => calls'[d].op \in OpsAt(calls'[d].pc)
  BY <1>1, <1>2, <1>3 DEF ServiceType
<1>6. \A d \in Calls : Handling(d)' => calls'[d].name \in Services
  BY <1>3, <1>4 DEF ServiceType
<1> QED BY <1>1, <1>2, <1>3, <1>4, <1>5, <1>6 DEF RequestsKnown

\* Stopping and removing its container: the request goes on, or ends without a word of what
\* is registered.
LEMMA ContainerDownKeeps ==
  ASSUME ServicesInv, NEW c \in Calls,
         Companions!composeServiceStop(c) \/ Companions!composeServiceRM(c)
  PROVE  ServicesInv'
<1>a. /\ ServiceType /\ RequestsKnown /\ DoneSoFar /\ RemovalStops /\ ListsAgree
      /\ AnswersStayTrue
  BY DEF ServicesInv
<1> DEFINE s == calls[c].name
<1>b. /\ calls[c].pc \in {"stop", "rm"} /\ Handling(c) /\ s \in Services
      /\ calls[c].op \in OpsAt(calls[c].pc)
  BY <1>a DEF Companions!composeServiceStop, Companions!composeServiceRM, Handling, ServiceType
<1>c. UNCHANGED <<catalog, managed, overlay, overlayTmp, starting, overlapped>>
  BY DEF Companions!composeServiceStop, Companions!composeServiceRM
<1>d. /\ containers' \in [Services -> {"none", "running", "exited"}]
      /\ \A t \in Services : containers[t] = "none" => containers'[t] = "none"
      /\ \A t \in Services : containers[t] # "running" => containers'[t] # "running"
      /\ loose' \in {loose, loose \cup {s}}
  BY <1>a, <1>b DEF Companions!composeServiceStop, Companions!composeServiceRM,
                    Companions!Stopped, ServiceType
<1>e. \/ \E o \in {"unknown", "error"} : calls[c].op = "stopped" /\ Companions!Answer(c, o)
      \/ /\ calls[c].pc = "stop" /\ calls[c].op = "removed" /\ Companions!Goto(c, "rm")
         /\ s \in loose' \/ containers'[s] # "running"
      \/ /\ calls[c].pc = "rm" /\ calls[c].op = "removed" /\ Companions!Goto(c, "remove")
         /\ s \in loose' \/ (s \in overlay /\ containers' =
              [containers EXCEPT ![s] = IF @ = "exited" THEN "none" ELSE @])
  <2>1. CASE Companions!composeServiceRM(c)
    BY <1>b, <2>1 DEF Companions!composeServiceRM, OpsAt
  <2>2. CASE Companions!composeServiceStop(c)
    <3>1. calls[c].pc = "stop" /\ calls[c].op \in {"removed", "stopped"}
      BY <1>b, <2>2 DEF Companions!composeServiceStop, OpsAt
    <3>2. CASE calls[c].op = "removed"
      BY <1>a, <1>b, <2>2, <3>1, <3>2 DEF Companions!composeServiceStop, Companions!Stopped, ServiceType
    <3>3. CASE calls[c].op = "stopped"
      BY <2>2, <3>3 DEF Companions!composeServiceStop
    <3> QED BY <3>1, <3>2, <3>3
  <2> QED BY <2>1, <2>2
<1>1. CASE \E o \in {"unknown", "error"} : calls[c].op = "stopped" /\ Companions!Answer(c, o)
  <2>1. PICK o \in {"unknown", "error"} : calls[c].op = "stopped" /\ Companions!Answer(c, o)
    BY <1>1
  <2>2. o \in Outcomes
    BY DEF Outcomes
  <2>3. /\ RequestsKnown' /\ settled[s] = "unknown"
        /\ \A d \in Calls : Handling(d)' => d # c /\ Handling(d) /\ calls'[d] = calls[d]
    BY <1>a, <1>b, <2>1, <2>2, AnswerKnown
  <2>4. /\ calls' \in [Calls -> CallRecords]
        /\ settled' \in [Services -> {"unknown", "registered", "removed"}]
        /\ \A d \in Calls : d # c => calls'[d] = calls[d]
        /\ \A t \in Services : settled'[t] =
             IF t = s /\ ~calls[c].shared /\ o # "error" THEN o ELSE settled[t]
    BY <1>a, <1>b, <2>1, <2>2, RequestAnswered
  <2>5. ServiceType'
    BY <1>a, <1>b, <1>c, <1>d, <2>3, <2>4 DEF ServiceType
  <2>6. DoneSoFar' /\ RemovalStops'
    BY <1>a, <1>c, <1>d, <2>3 DEF DoneSoFar, RemovalStops, ServiceType
  <2>7. ListsAgree'
    <3>1. \A d \in Calls : calls'[d].pc \in {"list", "write", "rename"} => calls'[d] = calls[d]
      BY <2>3 DEF Handling
    <3>2. \A t \in Services : ToList(t) => ToList(t)'
      BY <1>b, <2>4 DEF ToList
    <3> QED BY <1>a, <1>c, <3>1, <3>2 DEF ListsAgree, Writing
  <2>8. AnswersStayTrue'
    <3>1. \A t \in Services : settled'[t] \in {settled[t], "unknown"}
      BY <2>4
    <3> QED BY <1>a, <1>c, <1>d, <3>1 DEF AnswersStayTrue, Companions!AnswersStayTrue
  <2> QED BY <2>3, <2>5, <2>6, <2>7, <2>8 DEF ServicesInv
<1>2. ASSUME NEW pc \in {"rm", "remove"}, calls[c].op = "removed", Companions!Goto(c, pc),
             s \in loose' \/ (pc = "rm" /\ containers'[s] # "running")
                          \/ (pc = "remove" /\ containers'[s] = "none")
      PROVE  ServicesInv'
  <2>1. /\ pc \in PcsOfCalls /\ pc # "idle" /\ calls[c].op \in OpsAt(pc)
        /\ pc \notin {"list", "write", "rename"}
    BY <1>2 DEF PcsOfCalls, OpsAt
  <2>2. /\ RequestsKnown' /\ settled' = settled /\ calls'[c].pc = pc
        /\ \A d \in Calls : Handling(d)' =>
             /\ Handling(d) /\ calls'[d].name = calls[d].name /\ calls'[d].op = calls[d].op
             /\ calls'[d].shared = calls[d].shared /\ calls'[d].list = calls[d].list
             /\ calls'[d].op \in OpsAt(calls'[d].pc) /\ calls'[d].name \in Services
    BY <1>a, <1>b, <1>2, <2>1, GoesKnown
  <2>3. /\ calls' \in [Calls -> CallRecords] /\ \A d \in Calls : d # c => calls'[d] = calls[d]
    BY <1>a, <1>2, <2>1, RequestGoes
  <2>4. ServiceType'
    BY <1>a, <1>b, <1>c, <1>d, <2>2, <2>3 DEF ServiceType
  <2>5. \A d \in Calls : calls'[d].pc \in {"list", "write", "rename"} => d # c
    BY <2>1, <2>2
  <2>6. DoneSoFar'
    BY <1>a, <1>c, <2>2, <2>3, <2>5 DEF DoneSoFar
  <2>7. RemovalStops'
    <3> SUFFICES ASSUME NEW d \in Calls, Handling(d)', calls'[d].op = "removed",
                        calls'[d].name \notin loose'
                 PROVE  /\ starting'[calls'[d].name] = 0
                        /\ calls'[d].pc = "rm" => containers'[calls'[d].name] # "running"
                        /\ calls'[d].pc \in {"remove", "list", "write", "rename"}
                             => containers'[calls'[d].name] = "none"
      BY DEF RemovalStops
    <3>1. /\ Handling(d) /\ calls[d].op = "removed" /\ calls'[d].name = calls[d].name
          /\ calls[d].name \notin loose /\ calls[d].name \in Services
      BY <1>d, <2>2
    <3>2. starting[calls[d].name] = 0
      BY <1>a, <3>1 DEF RemovalStops
    <3>3. CASE d = c
      BY <1>c, <1>2, <2>1, <2>2, <3>1, <3>2, <3>3
    <3>4. CASE d # c
      BY <1>a, <1>c, <1>d, <2>3, <3>1, <3>2, <3>4 DEF RemovalStops
    <3> QED BY <3>3, <3>4
  <2>8. ListsAgree'
    <3>1. \A t \in Services : ToList(t) => ToList(t)'
      BY <1>b, <2>3 DEF ToList
    <3> QED BY <1>a, <1>c, <2>3, <2>5, <3>1 DEF ListsAgree, Writing
  <2>9. AnswersStayTrue'
    BY <1>a, <1>c, <1>d, <2>2 DEF AnswersStayTrue, Companions!AnswersStayTrue
  <2> QED BY <2>2, <2>4, <2>6, <2>7, <2>8, <2>9 DEF ServicesInv
<1>3. CASE /\ calls[c].pc = "stop" /\ calls[c].op = "removed" /\ Companions!Goto(c, "rm")
           /\ s \in loose' \/ containers'[s] # "running"
  BY <1>2, <1>3
<1>4. CASE /\ calls[c].pc = "rm" /\ calls[c].op = "removed" /\ Companions!Goto(c, "remove")
           /\ s \in loose' \/ (s \in overlay /\ containers' =
                [containers EXCEPT ![s] = IF @ = "exited" THEN "none" ELSE @])
  <2>1. s \in loose \/ containers[s] \in {"none", "exited"}
    BY <1>a, <1>b, <1>4 DEF RemovalStops, ServiceType
  <2>2. s \in loose' \/ containers'[s] = "none"
    BY <1>a, <1>b, <1>d, <1>4, <2>1 DEF ServiceType
  <2> QED BY <1>2, <1>4, <2>2
<1> QED BY <1>e, <1>1, <1>3, <1>4

\* A request that fails at a step has changed nothing in it.
LEMMA ErrorKeeps ==
  ASSUME ServicesInv, NEW c \in Calls, Handling(c), calls[c].pc # "list",
         Companions!Answer(c, "error"), overlayTmp' = overlayTmp \/ Writing(c),
         UNCHANGED <<catalog, managed, overlay, containers, starting, loose, overlapped>>
  PROVE  ServicesInv'
<1>a. /\ ServiceType /\ RequestsKnown /\ DoneSoFar /\ RemovalStops /\ ListsAgree
      /\ AnswersStayTrue
  BY DEF ServicesInv
<1>1. "error" \in Outcomes
  BY DEF Outcomes
<1>2. /\ RequestsKnown' /\ \A d \in Calls : Handling(d)' => d # c /\ Handling(d) /\ calls'[d] = calls[d]
  BY <1>a, <1>1, AnswerKnown
<1>3. /\ calls' \in [Calls -> CallRecords] /\ \A d \in Calls : d # c => calls'[d] = calls[d]
      /\ \A t \in Services : settled'[t] = settled[t]
      /\ settled' \in [Services -> {"unknown", "registered", "removed"}]
  BY <1>a, <1>1, RequestAnswered
<1>4. ServiceType' /\ DoneSoFar' /\ RemovalStops'
  BY <1>a, <1>2, <1>3 DEF ServiceType, DoneSoFar, RemovalStops
<1>5. ListsAgree'
  <2>1. \A d \in Calls : calls'[d].pc \in {"list", "write", "rename"} => d # c /\ calls'[d] = calls[d]
    BY <1>2 DEF Handling
  <2>2. \A t \in Services : ToList(t) => ToList(t)'
    BY <1>3 DEF ToList
  <2> QED BY <1>a, <2>1, <2>2 DEF ListsAgree, Writing
<1>6. AnswersStayTrue'
  BY <1>a, <1>3 DEF AnswersStayTrue, Companions!AnswersStayTrue
<1> QED BY <1>2, <1>4, <1>5, <1>6 DEF ServicesInv

LEMMA RemoveKeeps ==
  ASSUME ServicesInv, NEW c \in Calls, Companions!Remove(c)
  PROVE  ServicesInv'
<1>a. /\ ServiceType /\ RequestsKnown /\ DoneSoFar /\ RemovalStops /\ ListsAgree
      /\ AnswersStayTrue
  BY DEF ServicesInv
<1> DEFINE s == calls[c].name
<1>b. /\ calls[c].pc = "remove" /\ Handling(c) /\ s \in Services
      /\ calls[c].op = "removed"
  BY <1>a DEF Companions!Remove, Handling, ServiceType, OpsAt
<1>c. UNCHANGED <<overlay, overlayTmp, containers, starting, loose, overlapped>>
  BY DEF Companions!Remove
<1>1. CASE catalog' = catalog \ {s} /\ managed' = catalog' /\ Companions!Goto(c, "list")
  <2>1. "list" \in PcsOfCalls /\ calls[c].op \in OpsAt("list")
    BY <1>b DEF PcsOfCalls, OpsAt
  <2>2. /\ RequestsKnown' /\ settled' = settled /\ calls'[c].pc = "list"
        /\ \A d \in Calls : Handling(d)' =>
             /\ Handling(d) /\ calls'[d].name = calls[d].name /\ calls'[d].op = calls[d].op
             /\ calls'[d].shared = calls[d].shared /\ calls'[d].list = calls[d].list
             /\ calls'[d].op \in OpsAt(calls'[d].pc) /\ calls'[d].name \in Services
    BY <1>a, <1>b, <1>1, <2>1, GoesKnown
  <2>3. /\ calls' \in [Calls -> CallRecords] /\ \A d \in Calls : d # c => calls'[d] = calls[d]
        /\ calls'[c].name = s /\ calls'[c].op = "removed"
    BY <1>a, <1>b, <1>1, <2>1, <2>2, RequestGoes DEF Handling
  <2>4. ServiceType'
    BY <1>a, <1>b, <1>c, <1>1, <2>2, <2>3 DEF ServiceType
  <2>5. DoneSoFar'
    BY <1>a, <1>b, <1>1, <2>2, <2>3 DEF DoneSoFar, RequestsKnown
  <2>6. RemovalStops'
    <3>1. \A d \in Calls : Handling(d)' /\ calls'[d].op = "removed" =>
            /\ Handling(d) /\ calls[d].op = "removed" /\ calls'[d].name = calls[d].name
            /\ IF d = c THEN calls[d].pc = "remove" /\ calls'[d].pc = "list"
                        ELSE calls'[d].pc = calls[d].pc
      BY <1>b, <2>2, <2>3
    <3> QED BY <1>a, <1>c, <3>1 DEF RemovalStops
  <2>7. ListsAgree'
    <3>1. \A t \in Services : t = s \/ ToList(t) => ToList(t)'
      BY <1>b, <2>2, <2>3 DEF ToList
    <3>2. \A d \in Calls : calls'[d].pc \in {"write", "rename"} => d # c
      BY <2>2
    <3> QED BY <1>a, <1>c, <1>1, <2>3, <3>1, <3>2 DEF ListsAgree, Writing
  <2>8. AnswersStayTrue'
    <3>1. settled[s] = "unknown"
      BY <1>a, <1>b DEF RequestsKnown
    <3> QED BY <1>a, <1>c, <1>1, <2>2, <3>1 DEF AnswersStayTrue, Companions!AnswersStayTrue, ServiceType
  <2> QED BY <2>2, <2>4, <2>5, <2>6, <2>7, <2>8 DEF ServicesInv
<1>2. CASE UNCHANGED <<catalog, managed>> /\ Companions!Answer(c, "error")
  BY <1>b, <1>c, <1>2, ErrorKeeps
<1> QED BY <1>1, <1>2 DEF Companions!Remove, Companions!Persisted

\* A list is made: if it is the only one, it is the catalog.
LEMMA ListKeeps ==
  ASSUME ServicesInv, NEW c \in Calls, Companions!List(c)
  PROVE  ServicesInv'
<1>a. /\ ServiceType /\ RequestsKnown /\ DoneSoFar /\ RemovalStops /\ ListsAgree
      /\ AnswersStayTrue
  BY DEF ServicesInv
<1>b. /\ calls[c].pc = "list" /\ Handling(c)
      /\ calls' = [calls EXCEPT ![c].pc = "write", ![c].list = catalog]
      /\ overlapped' = (overlapped \/ \E d \in Calls : Writing(d))
      /\ UNCHANGED <<catalog, managed, overlay, overlayTmp, containers, starting, settled, loose>>
  BY DEF Companions!List, Companions!All, Companions!Generating, Writing, Handling
<1>c. /\ calls \in [Calls -> CallRecords] /\ catalog \in SUBSET Services
      /\ overlapped \in BOOLEAN
  BY <1>a DEF ServiceType
<1>d. /\ calls' \in [Calls -> CallRecords] /\ \A d \in Calls : d # c => calls'[d] = calls[d]
      /\ calls'[c].pc = "write" /\ calls'[c].list = catalog
      /\ calls'[c].name = calls[c].name /\ calls'[c].op = calls[c].op
      /\ calls'[c].shared = calls[c].shared
  BY <1>b, <1>c, ZenonT(40) DEF CallRecords
<1>1. ServiceType'
  <2>1. overlapped' \in BOOLEAN
    BY <1>b, <1>c, Zenon
  <2>2. \A d \in Calls : Handling(d)' =>
          calls'[d].name \in Services /\ calls'[d].op \in OpsAt(calls'[d].pc)
    BY <1>a, <1>b, <1>d DEF ServiceType, OpsAt, Handling
  <2> QED BY <1>a, <1>b, <1>d, <2>1, <2>2 DEF ServiceType
<1>2. RequestsKnown'
  BY <1>a, <1>b, <1>d DEF RequestsKnown, Handling
<1>3. DoneSoFar'
  BY <1>a, <1>b, <1>d DEF DoneSoFar, Handling
<1>4. RemovalStops'
  BY <1>a, <1>b, <1>d DEF RemovalStops, Handling
<1>5. ListsAgree'
  <2>1. CASE overlapped'
    BY <2>1 DEF ListsAgree
  <2>2. CASE ~overlapped'
    <3>1. \A d \in Calls : ~Writing(d)
      BY <1>b, <2>2
    <3>2. \A d \in Calls : Writing(d)' => d = c
      BY <1>d, <3>1 DEF Writing
    <3>3. \A d \in Calls : calls'[d].pc = "rename" => FALSE
      BY <1>d, <3>1 DEF Writing
    <3> QED BY <1>b, <1>d, <3>2, <3>3 DEF ListsAgree
  <2> QED BY <2>1, <2>2
<1>6. AnswersStayTrue'
  BY <1>a, <1>b DEF AnswersStayTrue, Companions!AnswersStayTrue
<1> QED BY <1>1, <1>2, <1>3, <1>4, <1>5, <1>6 DEF ServicesInv

LEMMA WriteKeeps ==
  ASSUME ServicesInv, NEW c \in Calls, Companions!WriteTmp(c)
  PROVE  ServicesInv'
<1>a. /\ ServiceType /\ RequestsKnown /\ DoneSoFar /\ RemovalStops /\ ListsAgree
      /\ AnswersStayTrue
  BY DEF ServicesInv
<1>b. /\ calls[c].pc = "write" /\ Handling(c) /\ Writing(c) /\ calls[c].op \in OpsAt("write")
      /\ UNCHANGED <<catalog, managed, overlay, containers, starting, loose, overlapped>>
  BY <1>a DEF Companions!WriteTmp, Handling, Writing, ServiceType
<1>1. CASE overlayTmp' = calls[c].list /\ Companions!Goto(c, "rename")
  <2>1. "rename" \in PcsOfCalls /\ calls[c].op \in OpsAt("rename")
    BY <1>b DEF PcsOfCalls, OpsAt
  <2>2. /\ RequestsKnown' /\ settled' = settled /\ calls'[c].pc = "rename"
        /\ \A d \in Calls : Handling(d)' =>
             /\ Handling(d) /\ calls'[d].name = calls[d].name /\ calls'[d].op = calls[d].op
             /\ calls'[d].shared = calls[d].shared /\ calls'[d].list = calls[d].list
             /\ calls'[d].op \in OpsAt(calls'[d].pc) /\ calls'[d].name \in Services
    BY <1>a, <1>b, <1>1, <2>1, GoesKnown
  <2>3. /\ calls' \in [Calls -> CallRecords] /\ \A d \in Calls : d # c => calls'[d] = calls[d]
    BY <1>a, <1>1, <2>1, RequestGoes
  <2>4. ServiceType'
    BY <1>a, <1>b, <2>2, <2>3 DEF ServiceType
  <2>5. \A d \in Calls : Handling(d)' /\ d # c => calls'[d] = calls[d]
    BY <2>3
  <2>6. DoneSoFar' /\ RemovalStops'
    BY <1>a, <1>b, <2>2, <2>5 DEF DoneSoFar, RemovalStops
  <2>7. ListsAgree'
    <3>1. \A t \in Services : ToList(t) => ToList(t)'
      BY <1>b, <2>3 DEF ToList
    <3>2. \A d \in Calls : Writing(d)' => Writing(d) /\ calls'[d].list = calls[d].list
      <4>1. \A d \in Calls : Writing(d)' => Handling(d)'
        BY DEF Writing, Handling
      <4> QED BY <1>b, <2>2, <2>3, <4>1 DEF Writing
    <3>3. \A d \in Calls : calls'[d].pc = "rename" => Writing(d)'
      BY DEF Writing
    <3> QED BY <1>a, <1>b, <1>1, <3>1, <3>2, <3>3 DEF ListsAgree
  <2>8. AnswersStayTrue'
    BY <1>a, <1>b, <2>2 DEF AnswersStayTrue, Companions!AnswersStayTrue
  <2> QED BY <2>2, <2>4, <2>6, <2>7, <2>8 DEF ServicesInv
<1>2. CASE UNCHANGED overlayTmp /\ Companions!Answer(c, "error")
  BY <1>b, <1>2, ErrorKeeps
<1> QED BY <1>1, <1>2 DEF Companions!WriteTmp

\* The overlay becomes the list of the one request that writes: what it says of a service
\* is what the catalog says, unless another request for that service is yet to list.
LEMMA RenameKeeps ==
  ASSUME ServicesInv, NEW c \in Calls, Companions!RenameTmp(c)
  PROVE  ServicesInv'
<1>a. /\ ServiceType /\ RequestsKnown /\ DoneSoFar /\ RemovalStops /\ ListsAgree
      /\ AnswersStayTrue
  BY DEF ServicesInv
<1> DEFINE s == calls[c].name
           op == calls[c].op
<1>b. /\ calls[c].pc = "rename" /\ Handling(c) /\ Writing(c) /\ s \in Services
      /\ op \in {"registered", "removed"} /\ op \in Outcomes
      /\ UNCHANGED <<catalog, managed, containers, overlapped>>
  BY <1>a DEF Companions!RenameTmp, Handling, Writing, ServiceType, OpsAt, Outcomes
<1>1. CASE UNCHANGED <<overlay, starting, loose>> /\ Companions!Answer(c, "error")
  BY <1>b, <1>1, ErrorKeeps
<1>2. CASE overlay' = overlayTmp /\ Companions!Done(c)
  <2>1. /\ Companions!Answer(c, op)
        /\ UNCHANGED <<starting, loose>> \/ Companions!Start(s)
    BY <1>2 DEF Companions!Done
  <2>2. /\ starting' \in [Services -> Nat] /\ loose' \subseteq Services /\ loose \subseteq loose'
        /\ \/ starting' = starting
           \/ /\ \A t \in Services : t # s => starting'[t] = starting[t]
              /\ \A d \in Calls : Handling(d) /\ calls[d].op = "removed" /\ calls[d].name = s
                                    => s \in loose'
    <3>1. CASE UNCHANGED <<starting, loose>>
      BY <1>a, <3>1 DEF ServiceType
    <3>2. CASE Companions!Start(s)
      BY <1>a, <1>b, <3>2, StartIs
    <3> QED BY <2>1, <3>1, <3>2
  <2>3. /\ RequestsKnown' /\ settled[s] = "unknown"
        /\ \A d \in Calls : Handling(d)' => d # c /\ Handling(d) /\ calls'[d] = calls[d]
    BY <1>a, <1>b, <2>1, AnswerKnown
  <2>4. /\ calls' \in [Calls -> CallRecords] /\ \A d \in Calls : d # c => calls'[d] = calls[d]
        /\ settled' \in [Services -> {"unknown", "registered", "removed"}]
        /\ \A t \in Services : settled'[t] =
             IF t = s /\ ~calls[c].shared /\ op # "error" THEN op ELSE settled[t]
    BY <1>a, <1>b, <2>1, RequestAnswered
  <2>5. ServiceType'
    BY <1>a, <1>b, <2>2, <2>3, <2>4 DEF ServiceType
  <2>6. DoneSoFar'
    BY <1>a, <1>b, <2>3 DEF DoneSoFar
  <2>7. RemovalStops'
    <3>1. \A d \in Calls : Handling(d)' => calls[d].name \in Services
      BY <1>a, <2>3 DEF ServiceType
    <3> QED BY <1>a, <1>b, <2>2, <2>3, <3>1 DEF RemovalStops
  <2>8. ListsAgree'
    <3>1. \A d \in Calls : calls'[d].pc \in {"list", "write", "rename"} => d # c /\ calls'[d] = calls[d]
      BY <2>3 DEF Handling
    <3>2. \A t \in Services : ToList(t) => ToList(t)'
      BY <1>b, <2>4 DEF ToList
    <3>3. overlapped \/ \A d \in Calls : Writing(d) => d = c
      BY <1>a, <1>b DEF ListsAgree
    <3> QED BY <1>a, <1>b, <3>1, <3>2, <3>3 DEF ListsAgree, Writing
  <2>9. AnswersStayTrue'
    <3> SUFFICES ASSUME NEW t \in Services, settled'[t] # "unknown"
                 PROVE  /\ settled'[t] = "registered" =>
                             t \in catalog' \cap managed' /\ (overlapped' \/ t \in overlay')
                        /\ settled'[t] = "removed" =>
                             /\ t \notin catalog' \cup managed'
                             /\ overlapped' \/ (t \notin overlay'
                                                /\ (t \in loose' \/ containers'[t] = "none"))
      BY DEF AnswersStayTrue, Companions!AnswersStayTrue
    <3>1. overlapped \/ ToList(t) \/ (t \in overlay' <=> t \in catalog)
      BY <1>a, <1>b, <1>2 DEF ListsAgree
    <3>2. CASE t = s
      <4>1. ~calls[c].shared /\ settled'[t] = op
        BY <2>3, <2>4, <3>2
      <4>2. ~ToList(t)
        BY <1>a, <1>b, <3>2, <4>1 DEF RequestsKnown, ToList, Handling
      <4>3. op = "registered" => s \in catalog
        BY <1>a, <1>b, <4>1 DEF DoneSoFar
      <4>4. op = "removed" => s \notin catalog /\ (s \in loose \/ containers[s] = "none")
        BY <1>a, <1>b, <4>1 DEF DoneSoFar, RemovalStops
      <4> QED BY <1>a, <1>b, <2>2, <3>1, <3>2, <4>1, <4>2, <4>3, <4>4 DEF ServiceType
    <3>3. CASE t # s
      <4>1. settled'[t] = settled[t]
        BY <2>4, <3>3
      <4>2. ~ToList(t)
        BY <1>a, <4>1 DEF RequestsKnown, ToList, Handling
      <4> QED BY <1>a, <1>b, <2>2, <3>1, <4>1, <4>2 DEF AnswersStayTrue, Companions!AnswersStayTrue
    <3> QED BY <3>2, <3>3
  <2> QED BY <2>3, <2>5, <2>6, <2>7, <2>8, <2>9 DEF ServicesInv
<1> QED BY <1>1, <1>2 DEF Companions!RenameTmp

\* A restart forgets the requests; of the containers that were being started some are up.
LEMMA RestartKeeps ==
  ASSUME ServicesInv, Companions!LoadServiceCatalog
  PROVE  ServicesInv'
<1>a. ServiceType /\ AnswersStayTrue
  BY DEF ServicesInv
<1>b. /\ catalog' = catalog /\ managed' = catalog'
      /\ calls' = [c \in Calls |-> Companions!NoCall]
      /\ starting' = [s \in Services |-> 0]
      /\ UNCHANGED <<overlay, settled, loose, overlapped>>
  BY <1>a DEF Companions!LoadServiceCatalog, ServiceType
<1>c. PICK up \in SUBSET {s \in overlay : starting[s] > 0} :
        containers' = [s \in Services |-> IF s \in up THEN "running" ELSE containers[s]]
  BY DEF Companions!LoadServiceCatalog
<1>d. \A s \in Services : s \notin overlay => containers'[s] = containers[s]
  BY <1>c
<1>1. \A c \in Calls : calls'[c].pc = "idle" /\ calls'[c] \in CallRecords
  BY <1>b DEF Companions!NoCall, CallRecords
<1>2. ServiceType'
  BY <1>a, <1>b, <1>c, <1>1 DEF ServiceType, Handling
<1>3. RequestsKnown' /\ DoneSoFar' /\ RemovalStops'
  BY <1>1 DEF RequestsKnown, DoneSoFar, RemovalStops, Handling
<1>4. ListsAgree'
  BY <1>1 DEF ListsAgree, Writing
<1>5. AnswersStayTrue'
  BY <1>a, <1>b, <1>d DEF AnswersStayTrue, Companions!AnswersStayTrue
<1> QED BY <1>2, <1>3, <1>4, <1>5 DEF ServicesInv

LEMMA ServicesInit == SidecarInit => ServicesInv
<1> SUFFICES ASSUME SidecarInit PROVE ServicesInv
  OBVIOUS
<1>1. /\ catalog = {} /\ managed = {} /\ containers = [s \in Services |-> "none"]
      /\ calls = [c \in Calls |-> Companions!NoCall] /\ starting = [s \in Services |-> 0]
      /\ settled = [s \in Services |-> "unknown"] /\ loose = {} /\ overlapped = FALSE
  BY DEF SidecarInit, Companions!CatalogInit
<1>2. \A c \in Calls : calls[c].pc = "idle" /\ calls[c] \in CallRecords
  BY <1>1 DEF Companions!NoCall, CallRecords
<1>3. ServiceType
  BY <1>1, <1>2 DEF ServiceType, Handling
<1>4. RequestsKnown /\ DoneSoFar /\ RemovalStops /\ ListsAgree
  BY <1>2 DEF RequestsKnown, DoneSoFar, RemovalStops, ListsAgree, Handling, Writing
<1>5. AnswersStayTrue
  BY <1>1 DEF AnswersStayTrue, Companions!AnswersStayTrue
<1> QED BY <1>3, <1>4, <1>5 DEF ServicesInv

LEMMA ServicesStutter == ServicesInv /\ UNCHANGED serviceVars => ServicesInv'
BY DEF ServicesInv, ServiceType, RequestsKnown, DoneSoFar, RemovalStops, ListsAgree, Handling,
       Writing, ToList, AnswersStayTrue, Companions!AnswersStayTrue, serviceVars

LEMMA ServicesStep ==
  ServicesInv /\ [UpdateHalf \/ ServiceHalf]_<<half, vars, serviceVars>> => ServicesInv'
<1> SUFFICES ASSUME ServicesInv, [UpdateHalf \/ ServiceHalf]_<<half, vars, serviceVars>>
             PROVE  ServicesInv'
  OBVIOUS
<1>1. CASE UNCHANGED serviceVars
  BY <1>1, ServicesStutter
<1>2. ASSUME NEW c \in Calls, NEW s \in Services,
             Companions!manage_service(c, s) \/ Companions!autoStarter(c, s)
      PROVE  ServicesInv'
  <2>1. CASE Companions!handleListServices
    <3>1. UNCHANGED serviceVars
      BY <2>1 DEF Companions!handleListServices, Companions!catalogVars, serviceVars
    <3> QED BY <3>1, ServicesStutter
  <2>2. CASE Companions!handleRegisterService(c, s, TRUE) \/ Companions!handleRegisterService(c, s, FALSE)
    <3>1. PICK auto \in BOOLEAN : Companions!handleRegisterService(c, s, auto)
      BY <2>2, Zenon
    <3> QED BY <3>1, RegisterKeeps
  <2>3. CASE Companions!handleServiceStart(s)
    BY <2>3, StartKeeps
  <2>4. CASE Companions!handleRemoveService(c, s) \/ Companions!handleServiceStop(c, s)
    BY <2>4, StopOrRemoveKeeps
  <2> QED BY <1>2, <2>1, <2>2, <2>3, <2>4 DEF Companions!manage_service, Companions!autoStarter
<1>3. ASSUME NEW c \in Calls, Companions!CallStep(c)
      PROVE  ServicesInv'
  BY <1>3, ContainerDownKeeps, RemoveKeeps, ListKeeps, WriteKeeps, RenameKeeps
     DEF Companions!CallStep
<1>4. ASSUME NEW s \in Services, Companions!composeServiceUp(s) PROVE ServicesInv'
  BY <1>4, ContainerUpKeeps
<1>5. CASE Companions!LoadServiceCatalog
  BY <1>5, RestartKeeps
<1>6. CASE UpdateHalf \/ UNCHANGED <<half, vars, serviceVars>>
  BY <1>1, <1>6 DEF UpdateHalf
<1>7. CASE ServiceHalf
  BY <1>2, <1>3, <1>4, <1>5, <1>7 DEF ServiceHalf, Companions!CatalogNext
<1> QED BY <1>6, <1>7

\* What the sidecar answered of a companion service stays true, for any services, requests
\* that overlap, failing commands and restarts.
THEOREM AnswersAreKept == SidecarSpec => []AnswersStayTrue
<1>1. ServicesInv => AnswersStayTrue
  BY DEF ServicesInv
<1> QED BY <1>1, ServicesInit, ServicesStep, PTL DEF SidecarSpec
================================================================================
