--------------------------- MODULE ObservationsProofs ---------------------------
(***************************************************************************)
(* Proofs about Observations, for any number of conversations, extraction  *)
(* slots, observations, commands, failing calls, crashes and restarts; and *)
(* at the end about Summaries, for any conversations and any number of     *)
(* slots, starts and failing calls: what "done" and the index claim.       *)
(***************************************************************************)
EXTENDS MCMemory, WellFoundedInduction, TLAPS

-----------------------------------------------------------------------------
(* Extractions and the state that claims a conversation for one.           *)

RelRecords == [src : Ids, tgt : Ids, kind : {"supersedes", "doubted", "contradicts"}]
Live == {"load", "call", "check", "save", "index", "persist", "finish", "fail"}
WorkerRecords ==
  [pc : {"off", "claim", "mark"} \cup Live, conv : Convs \cup {NoConv}, after : Nat, upto : Nat,
   targets : SUBSET Ids, raw : Seq(Contents), saved : SUBSET [id : Ids, content : Contents],
   rels : SUBSET RelRecords]
RunRecords == [pc : {"down", "recover", "reset", "write", "serving"}, todo : SUBSET Convs,
               conv : Convs \cup {NoConv}, cursor : Nat, booted : BOOLEAN]

ClaimType ==
  /\ msgs \in [Convs -> Nat]
  /\ ext \in [Convs -> [cursor : Nat, status : {"idle", "pending", "failed"}]]
  /\ worker \in [Slots -> WorkerRecords] /\ run \in RunRecords
  /\ covered \in [Convs -> SUBSET Nat]

\* Every message up to the n-th was in the range of an extraction that succeeded.
Covers(c, n) == n <= msgs[c] /\ 1..n \subseteq covered[c]

\* What an extraction, or a start that releases a conversation, may write as the cursor.
Ranged ==
  \A s \in Slots :
    /\ worker[s].pc # "off" => worker[s].conv \in Convs
    /\ worker[s].pc \notin {"off", "claim"} =>
         Covers(worker[s].conv, worker[s].after) /\ worker[s].upto <= msgs[worker[s].conv]
ReleaseRanged == run.pc = "write" => run.conv \in Convs /\ Covers(run.conv, run.cursor)

\* Somebody will release a conversation that is pending, from the moment a start has read
\* which ones are.
Held(c) == \E s \in Slots : worker[s].conv = c /\ worker[s].pc \in Live
ToRelease(c) == c \in run.todo \/ (run.pc = "write" /\ run.conv = c)
PendingHeld ==
  /\ run.pc \in {"reset", "write", "serving"} =>
       \A c \in Convs : ext[c].status = "pending" => c \in excused \/ Held(c) \/ ToRelease(c)
  /\ run.pc = "serving" => run.todo = {}

CInv == ClaimType /\ CursorCovers /\ Ranged /\ ReleaseRanged /\ PendingHeld

-----------------------------------------------------------------------------
(* Observations and their relations.                                       *)

Written == [content : Contents, conv : Convs \cup {NoConv}, archived : BOOLEAN]
ObsRecords == {NoObs} \cup Written
Table ==
  /\ obs \in [Ids -> ObsRecords] /\ made \in 0..MaxObs
  /\ \A o \in Ids : Exists(o) => o <= made
  /\ rel \subseteq RelRecords /\ RelationsSound

\* What an extraction or a turn has in hand are observations that were made before those it
\* makes.
Named(w) ==
  /\ \A t \in w.targets : t <= made
  /\ \A q \in w.rels : q.tgt < q.src
  /\ w.pc = "save" => w.raw # <<>>
TurnRecords ==
  [pc : {"off", "restore", "unrelate", "unindex", "replace", "save", "index", "relate"},
   tgt : 0..MaxObs, content : Contents \cup {"none"}, src : 0..MaxObs]
TurnNamed ==
  /\ turn \in TurnRecords /\ turn.tgt <= made
  /\ turn.pc \in {"restore", "unrelate", "unindex", "replace", "save", "index", "relate"} => turn.tgt \in Ids
  /\ turn.pc \in {"index", "relate"} => turn.src \in Ids /\ turn.tgt < turn.src
  /\ turn.pc \in {"replace", "save", "index", "relate"} => turn.content \in Contents

TInv == Table /\ TurnNamed /\ \A s \in Slots : Named(worker[s])

IInv == CInv /\ TInv

-----------------------------------------------------------------------------
(* The store.                                                              *)

LEMMA Numbered == MaxObs \in Nat /\ \A o : o \in Ids <=> o \in Nat /\ 1 <= o /\ o <= MaxObs
BY ObservationsAssumption DEF Ids

LEMMA ExistsIs ==
  ASSUME Table, NEW o \in Ids
  PROVE  /\ Exists(o) <=> obs[o].content \in Contents
         /\ Exists(o) => obs[o] \in Written
<1>1. NoObs.content \notin Contents
  BY ObservationsAssumption DEF NoObs
<1>2. obs[o] \in ObsRecords
  BY DEF Table
<1>3. CASE obs[o] = NoObs
  BY <1>1, <1>3 DEF Exists
<1>4. CASE obs[o] \in Written
  BY <1>1, <1>4 DEF Exists, Written
<1> QED BY <1>2, <1>3, <1>4 DEF ObsRecords

\* An observation is written: it exists then, and those that existed still do.
LEMMA WriteTable ==
  ASSUME Table, NEW o \in Ids, NEW q \in Written, obs' = [obs EXCEPT ![o] = q],
         made' \in 0..MaxObs, made <= made', o <= made', rel' = rel
  PROVE  Table'
<1>1. obs' \in [Ids -> ObsRecords]
  BY DEF Table, ObsRecords
<1>2. obs'[o] # NoObs
  BY ObservationsAssumption DEF Table, NoObs, Written
<1>3. \A p \in Ids : p # o => obs'[p] = obs[p]
  BY DEF Table
<1>4. \A p : Exists(p)' <=> p = o \/ Exists(p)
  BY <1>2, <1>3 DEF Exists
<1>5. \A p \in Ids : Exists(p)' => p <= made'
  BY <1>4, Numbered DEF Table
<1> QED BY <1>1, <1>4, <1>5 DEF Table, RelationsSound

LEMMA SaveTable ==
  ASSUME Table, NEW x \in Contents, NEW c \in Convs \cup {NoConv}, SaveObservation(x, c), rel' = rel
  PROVE  Table' /\ made' = made + 1 /\ made' \in Ids
<1>1. PICK n \in Ids : n = made + 1
  BY Numbered DEF SaveObservation, Table
<1>2. PICK q \in Written : q = [content |-> x, conv |-> c, archived |-> FALSE]
  BY DEF Written
<1>3. obs' = [obs EXCEPT ![n] = q] /\ made' = n
  BY <1>1, <1>2 DEF SaveObservation
<1>4. made' \in 0..MaxObs /\ made <= made' /\ n <= made'
  BY <1>1, <1>3, Numbered DEF Table
<1>5. Table'
  BY <1>3, <1>4, WriteTable
<1> QED BY <1>1, <1>3, <1>5

LEMMA ChangeTable ==
  ASSUME Table, NEW o \in Ids, UNCHANGED <<made, rel>>,
         \/ ArchiveObservation(o)
         \/ Exists(o) /\ RestoreObservation(o)
         \/ \E x \in Contents : UpdateObservation(o, x)
  PROVE  Table'
<1>1. CASE ~Exists(o)
  <2>1. obs[o] = NoObs
    BY <1>1 DEF Exists
  <2>2. CASE ArchiveObservation(o)
    <3>1. [NoObs EXCEPT !.archived = FALSE] = NoObs
      <4>1. NoObs \in [content : {"none"}, conv : {NoConv}, archived : {FALSE}]
        BY DEF NoObs
      <4>2. [NoObs EXCEPT !.archived = FALSE] \in [content : {"none"}, conv : {NoConv}, archived : {FALSE}]
        BY <4>1
      <4> QED BY <4>1, <4>2
    <3>2. obs' = [obs EXCEPT ![o] = [NoObs EXCEPT !.archived = FALSE]]
      <4>1. Exists(o) = FALSE
        BY <1>1
      <4>2. obs' = [obs EXCEPT ![o].archived = FALSE]
        BY <2>2, <4>1, Zenon DEF ArchiveObservation
      <4> QED BY <2>1, <4>2
    <3> QED BY <2>1, <3>1, <3>2 DEF Table, Exists, RelationsSound
  <2>3. CASE obs' = obs
    BY <2>3 DEF Table, Exists, RelationsSound
  <2>4. ArchiveObservation(o) \/ obs' = obs
    BY <1>1 DEF UpdateObservation, Active
  <2> QED BY <2>2, <2>3, <2>4
<1>2. CASE Exists(o)
  <2>1. PICK q \in Written : q = obs[o]
    BY <1>2, ExistsIs
  <2>2. o <= made' /\ made' \in 0..MaxObs /\ made <= made' /\ rel' = rel
    BY <1>2, Numbered DEF Table
  <2>3. CASE obs' = obs
    BY <2>3 DEF Table, Exists, RelationsSound
  <2>4. CASE \E b \in BOOLEAN : obs' = [obs EXCEPT ![o].archived = b]
    <3>1. PICK b \in BOOLEAN : obs' = [obs EXCEPT ![o].archived = b]
      BY <2>4
    <3>2. obs' = [obs EXCEPT ![o] = [q EXCEPT !.archived = b]] /\ [q EXCEPT !.archived = b] \in Written
      BY <2>1, <3>1 DEF Table, Written
    <3> QED BY <2>2, <3>2, WriteTable
  <2>5. CASE \E x \in Contents : obs' = [obs EXCEPT ![o].content = x]
    <3>1. PICK x \in Contents : obs' = [obs EXCEPT ![o].content = x]
      BY <2>5
    <3>2. obs' = [obs EXCEPT ![o] = [q EXCEPT !.content = x]] /\ [q EXCEPT !.content = x] \in Written
      BY <2>1, <3>1 DEF Table, Written
    <3> QED BY <2>2, <3>2, WriteTable
  <2>6. \/ \E b \in BOOLEAN : obs' = [obs EXCEPT ![o].archived = b]
        \/ \E x \in Contents : obs' = [obs EXCEPT ![o].content = x]
        \/ obs' = obs
    BY <1>2 DEF ArchiveObservation, RestoreObservation, UpdateObservation
  <2> QED BY <2>3, <2>4, <2>5, <2>6
<1> QED BY <1>1, <1>2

\* A deletion takes every relation of the observation with it, in one transaction.
LEMMA DeleteTable ==
  ASSUME Table, NEW o \in Ids, DeleteObservation(o), made' = made
  PROVE  Table'
<1>1. obs' = [obs EXCEPT ![o] = NoObs] /\ rel' = {r \in rel : r.src # o /\ r.tgt # o}
  BY DEF DeleteObservation
<1>2. obs' \in [Ids -> ObsRecords]
  BY <1>1 DEF Table, ObsRecords
<1>3. \A p : Exists(p)' <=> p # o /\ Exists(p)
  BY <1>1 DEF Table, Exists
<1> QED BY <1>1, <1>2, <1>3 DEF Table, RelationsSound

LEMMA RelateTable ==
  ASSUME Table, UNCHANGED <<obs, made>>,
         \/ rel' \subseteq rel
         \/ \E R \in SUBSET RelRecords : AddObservationRelation(R) /\ \A q \in R : q.tgt < q.src
  PROVE  Table'
<1>1. \A p : Exists(p)' <=> Exists(p)
  BY DEF Exists
<1>2. CASE rel' \subseteq rel
  BY <1>1, <1>2 DEF Table, RelationsSound
<1>3. ASSUME NEW R \in SUBSET RelRecords, AddObservationRelation(R), \A q \in R : q.tgt < q.src
      PROVE  Table'
  BY <1>1, <1>3 DEF Table, RelationsSound, AddObservationRelation
<1> QED BY <1>2, <1>3

-----------------------------------------------------------------------------
(* The steps of an extraction between the claim and the end.               *)

Talks(s) == Load(s) \/ Answer(s) \/ Check(s) \/ Save(s) \/ Index(s) \/ Persist(s)

\* A worker that goes on keeps what it claimed; it is w afterwards.
GoesOn(s, w) ==
  /\ worker' = [worker EXCEPT ![s] = w] /\ w \in WorkerRecords
  /\ worker[s].pc \in Live /\ w.pc \in Live
  /\ w.conv = worker[s].conv /\ w.after = worker[s].after /\ w.upto = worker[s].upto

LEMMA FailsIs ==
  ASSUME ClaimType, NEW s \in Slots, worker[s].pc \in Live, Fails(s)
  PROVE  \E w : GoesOn(s, w) /\ w.targets = {} /\ w.rels = {} /\ w.pc # "save"
<1>1. PICK v \in WorkerRecords : v = worker[s]
  BY DEF ClaimType
<1> DEFINE w == [v EXCEPT !.pc = "fail", !.targets = {}, !.raw = <<>>, !.saved = {}, !.rels = {}]
<1>2. w \in WorkerRecords /\ w.targets = {} /\ w.rels = {} /\ w.pc = "fail" /\ w.pc \in Live
      /\ w.conv = v.conv /\ w.after = v.after /\ w.upto = v.upto
  <2>1. <<>> \in Seq(Contents) /\ "fail" \in Live
    BY DEF Live
  <2>2. w.targets = {} /\ w.rels = {} /\ w.pc = "fail"
        /\ w.conv = v.conv /\ w.after = v.after /\ w.upto = v.upto
    BY DEF WorkerRecords
  <2>3. w \in WorkerRecords
    BY <2>1 DEF WorkerRecords
  <2> QED BY <2>1, <2>2, <2>3
<1>3. worker' = [worker EXCEPT ![s] = w]
  BY <1>1 DEF Fails
<1> HIDE DEF w
<1> QED BY <1>1, <1>2, <1>3 DEF GoesOn

LEMMA LoadIs ==
  ASSUME ClaimType, TInv, NEW s \in Slots, Load(s)
  PROVE  \E w : GoesOn(s, w) /\ Named(w)
<1>1. PICK v \in WorkerRecords : v = worker[s]
  BY DEF ClaimType
<1>2. v.pc = "load" /\ Named(v)
  BY <1>1 DEF Load, TInv
<1>3. CASE Fails(s)
  BY <1>1, <1>2, <1>3, FailsIs DEF Named, Live
<1>4. CASE \E pc \in {"persist", "call"} : WorkerTo(s, pc)
  <2>1. PICK pc \in {"persist", "call"} : worker' = [worker EXCEPT ![s].pc = pc]
    BY <1>4 DEF WorkerTo
  <2> DEFINE w == [v EXCEPT !.pc = pc]
  <2>2. w \in WorkerRecords /\ w.pc = pc /\ w.conv = v.conv /\ w.after = v.after /\ w.upto = v.upto
        /\ w.targets = v.targets /\ w.rels = v.rels
    BY DEF WorkerRecords, Live
  <2>3. worker' = [worker EXCEPT ![s] = w]
    BY <1>1, <2>1
  <2> HIDE DEF w
  <2> QED BY <1>1, <1>2, <2>2, <2>3 DEF GoesOn, Named, Live
<1>5. CASE worker' = [worker EXCEPT ![s].pc = "call", ![s].targets = GetRecentObservationsByType]
  <2>1. PICK S \in SUBSET Ids : S = GetRecentObservationsByType
    BY DEF GetRecentObservationsByType
  <2>2. \A t \in S : t <= made
    BY <2>1 DEF GetRecentObservationsByType, Active, TInv, Table
  <2> DEFINE w == [v EXCEPT !.pc = "call", !.targets = S]
  <2>3. w \in WorkerRecords /\ w.pc = "call" /\ w.conv = v.conv /\ w.after = v.after /\ w.upto = v.upto
        /\ w.targets = S /\ w.rels = v.rels
    BY DEF WorkerRecords, Live
  <2>4. worker' = [worker EXCEPT ![s] = w]
    BY <1>1, <1>5, <2>1 DEF ClaimType, WorkerRecords
  <2> HIDE DEF w
  <2> QED BY <1>1, <1>2, <2>2, <2>3, <2>4 DEF GoesOn, Named, Live
<1> QED BY <1>3, <1>4, <1>5 DEF Load

LEMMA AnswerIs ==
  ASSUME ClaimType, TInv, NEW s \in Slots, Answer(s)
  PROVE  \E w : GoesOn(s, w) /\ Named(w)
<1>1. PICK v \in WorkerRecords : v = worker[s]
  BY DEF ClaimType
<1>2. v.pc = "call" /\ Named(v)
  BY <1>1 DEF Answer, TInv
<1>3. CASE Fails(s)
  BY <1>1, <1>2, <1>3, FailsIs DEF Named, Live
<1>4. CASE ~Fails(s)
  <2>1. PICK n \in 0..MaxRaw : \E raw \in [1..n -> Contents] :
          worker' = [worker EXCEPT ![s].pc = "check", ![s].raw = raw]
    BY <1>4 DEF Answer
  <2>2. PICK raw \in [1..n -> Contents] : worker' = [worker EXCEPT ![s].pc = "check", ![s].raw = raw]
    BY <2>1
  <2>3. raw \in Seq(Contents)
    BY ObservationsAssumption
  <2> DEFINE w == [v EXCEPT !.pc = "check", !.raw = raw]
  <2>4. w \in WorkerRecords /\ w.pc = "check" /\ w.conv = v.conv /\ w.after = v.after /\ w.upto = v.upto
        /\ w.targets = v.targets /\ w.rels = v.rels
    BY <2>3 DEF WorkerRecords, Live
  <2>5. worker' = [worker EXCEPT ![s] = w]
    BY <1>1, <2>2 DEF ClaimType, WorkerRecords
  <2> HIDE DEF w
  <2> QED BY <1>1, <1>2, <2>4, <2>5 DEF GoesOn, Named, Live
<1> QED BY <1>3, <1>4

LEMMA CheckIs ==
  ASSUME ClaimType, TInv, NEW s \in Slots, Check(s)
  PROVE  \E w : GoesOn(s, w) /\ Named(w)
<1>1. PICK v \in WorkerRecords : v = worker[s]
  BY DEF ClaimType
<1>2. v.pc = "check" /\ Named(v)
  BY <1>1 DEF Check, TInv
<1>3. CASE Fails(s)
  BY <1>1, <1>2, <1>3, FailsIs DEF Named, Live
<1>4. CASE ~Fails(s)
  <2>1. PICK pc \in {"index", "check", "save"}, raw \in Seq(Contents) :
          /\ worker' = [worker EXCEPT ![s] = [v EXCEPT !.pc = pc, !.raw = raw]]
          /\ pc = "save" => raw # <<>>
    <3>1. v.raw \in Seq(Contents) /\ <<>> \in Seq(Contents)
      BY DEF WorkerRecords
    <3>2. CASE v.raw = <<>>
      <4>1. worker' = [worker EXCEPT ![s] = [v EXCEPT !.pc = "index"]]
        BY <1>1, <1>4, <3>2 DEF Check
      <4>2. [v EXCEPT !.pc = "index"] = [v EXCEPT !.pc = "index", !.raw = v.raw]
        BY DEF WorkerRecords
      <4> QED BY <3>1, <4>1, <4>2
    <3>3. CASE v.raw # <<>> /\ ObservationExistsByHash(Head(v.raw))
      <4>1. worker' = [worker EXCEPT ![s] = [v EXCEPT !.raw = Tail(v.raw)]]
        BY <1>1, <1>4, <3>3 DEF Check
      <4>2. [v EXCEPT !.raw = Tail(v.raw)] = [v EXCEPT !.pc = "check", !.raw = Tail(v.raw)]
        BY <1>2 DEF WorkerRecords
      <4>3. Tail(v.raw) \in Seq(Contents)
        BY <3>1, <3>3
      <4> QED BY <4>1, <4>2, <4>3
    <3>4. CASE v.raw # <<>> /\ ~ObservationExistsByHash(Head(v.raw)) /\ CountObservations(v.conv) >= MaxPerConv
      <4>1. worker' = [worker EXCEPT ![s] = [v EXCEPT !.raw = <<>>]]
        BY <1>1, <1>4, <3>4 DEF Check
      <4>2. [v EXCEPT !.raw = <<>>] = [v EXCEPT !.pc = "check", !.raw = <<>>]
        BY <1>2 DEF WorkerRecords
      <4> QED BY <3>1, <4>1, <4>2
    <3>5. CASE v.raw # <<>> /\ ~ObservationExistsByHash(Head(v.raw)) /\ ~(CountObservations(v.conv) >= MaxPerConv)
      <4>1. worker' = [worker EXCEPT ![s] = [v EXCEPT !.pc = "save"]]
        BY <1>1, <1>4, <3>5 DEF Check
      <4>2. [v EXCEPT !.pc = "save"] = [v EXCEPT !.pc = "save", !.raw = v.raw]
        BY DEF WorkerRecords
      <4> QED BY <3>1, <3>5, <4>1, <4>2
    <3> QED BY <3>2, <3>3, <3>4, <3>5
  <2> DEFINE w == [v EXCEPT !.pc = pc, !.raw = raw]
  <2>2. w \in WorkerRecords /\ w.pc = pc /\ w.conv = v.conv /\ w.after = v.after /\ w.upto = v.upto
        /\ w.targets = v.targets /\ w.rels = v.rels /\ w.raw = raw
    BY DEF WorkerRecords, Live
  <2>3. worker' = [worker EXCEPT ![s] = w]
    BY <2>1
  <2> HIDE DEF w
  <2> QED BY <1>1, <1>2, <2>1, <2>2, <2>3 DEF GoesOn, Named, Live
<1> QED BY <1>3, <1>4

\* What is saved is newer than all that was read, so also than what it is related to.
LEMMA SaveIs ==
  ASSUME ClaimType, TInv, NEW s \in Slots, Save(s)
  PROVE  Table' /\ made <= made' /\ \E w : GoesOn(s, w) /\ Named(w)'
<1>1. PICK v \in WorkerRecords : v = worker[s]
  BY DEF ClaimType
<1>2. v.pc = "save" /\ Named(v) /\ made \in Nat /\ rel' = rel
  <2>1. worker[s].pc = "save" /\ rel' = rel
    BY Zenon DEF Save
  <2>2. Named(v) /\ made \in Nat
    BY <1>1, Numbered DEF TInv, Table
  <2> QED BY <1>1, <2>1, <2>2
<1>3. CASE Fails(s) /\ UNCHANGED <<obs, made>>
  <2>1. PICK w : GoesOn(s, w) /\ w.targets = {} /\ w.rels = {} /\ w.pc # "save"
    BY <1>1, <1>2, <1>3, FailsIs DEF Live
  <2>2. Named(w)'
    BY <2>1 DEF Named
  <2>3. Table'
    BY <1>2, <1>3 DEF TInv, Table, Exists, RelationsSound
  <2> QED BY <1>2, <1>3, <2>1, <2>2, <2>3
<1>4. CASE ~(Fails(s) /\ UNCHANGED <<obs, made>>)
  <2>1. v.raw \in Seq(Contents) /\ v.raw # <<>> /\ v.conv \in Convs \cup {NoConv}
    BY <1>2 DEF Named, WorkerRecords
  <2>2. PICK x \in Contents : x = Head(v.raw)
    BY <2>1
  <2>3. /\ SaveObservation(Head(worker[s].raw), worker[s].conv)
        /\ \E R \in {{}} \cup {{q} : q \in [src : {made + 1}, tgt : worker[s].targets, kind : Kinds]} :
             worker' = [worker EXCEPT ![s] =
               [worker[s] EXCEPT !.pc = "check", !.raw = Tail(@), !.rels = @ \cup R,
                  !.saved = @ \cup {[id |-> made + 1, content |-> Head(worker[s].raw)]}]]
    BY <1>4 DEF Save
  <2>4. Table' /\ made' = made + 1 /\ made' \in Ids
    BY <1>1, <1>2, <2>1, <2>2, <2>3, SaveTable DEF TInv
  <2>5. PICK n \in Ids : n = made + 1
    BY <2>4
  <2>6. PICK R \in {{}} \cup {{q} : q \in [src : {n}, tgt : v.targets, kind : Kinds]} :
          worker' = [worker EXCEPT ![s] =
            [v EXCEPT !.pc = "check", !.raw = Tail(v.raw), !.rels = v.rels \cup R,
                      !.saved = v.saved \cup {[id |-> n, content |-> x]}]]
    BY <1>1, <2>2, <2>3, <2>5
  <2>7. R \in SUBSET RelRecords /\ \A q \in R : q.tgt < q.src
    <3>1. v.targets \subseteq Ids /\ \A t \in v.targets : t <= made
      BY <1>2 DEF Named, WorkerRecords
    <3>2. \A t \in v.targets : t \in Ids /\ t < n
      BY <1>2, <2>5, <3>1, Numbered
    <3> QED BY <2>6, <3>2, ObservationsAssumption DEF RelRecords
  <2>8. Tail(v.raw) \in Seq(Contents) /\ [id |-> n, content |-> x] \in [id : Ids, content : Contents]
    BY <2>1
  <2> DEFINE w == [v EXCEPT !.pc = "check", !.raw = Tail(v.raw), !.rels = v.rels \cup R,
                            !.saved = v.saved \cup {[id |-> n, content |-> x]}]
  <2>9. w.pc = "check" /\ w.conv = v.conv /\ w.after = v.after /\ w.upto = v.upto
        /\ w.targets = v.targets /\ w.rels = v.rels \cup R
    BY DEF WorkerRecords
  <2>10. w \in WorkerRecords
    <3>1. /\ v.rels \cup R \in SUBSET RelRecords /\ "check" \in Live
          /\ v.saved \cup {[id |-> n, content |-> x]} \in SUBSET [id : Ids, content : Contents]
      BY <2>7, <2>8 DEF WorkerRecords, Live
    <3> QED BY <2>8, <3>1 DEF WorkerRecords
  <2>11. worker' = [worker EXCEPT ![s] = w]
    BY <2>6
  <2> HIDE DEF w
  <2>12. Named(w)'
    <3>1. \A t \in w.targets : t \in Ids /\ t <= made
      BY <1>2, <2>9 DEF Named, WorkerRecords
    <3>2. \A t \in w.targets : t <= made'
      BY <1>2, <2>4, <3>1, Numbered
    <3> QED BY <1>2, <2>7, <2>9, <3>2 DEF Named
  <2>13. GoesOn(s, w)
    BY <1>1, <1>2, <2>9, <2>10, <2>11 DEF GoesOn, Live
  <2> QED BY <1>2, <2>4, <2>12, <2>13
<1> QED BY <1>3, <1>4

LEMMA EndIs ==
  ASSUME ClaimType, TInv, NEW s \in Slots, Index(s) \/ Persist(s)
  PROVE  Table' /\ made' = made /\ \E w : GoesOn(s, w) /\ Named(w)
<1>1. PICK v \in WorkerRecords : v = worker[s]
  BY DEF ClaimType
<1>2. v.pc \in {"index", "persist"} /\ Named(v) /\ UNCHANGED <<obs, made>>
  BY <1>1 DEF Index, Persist, TInv, table
<1>3. PICK pc \in {"persist", "finish"} : worker' = [worker EXCEPT ![s].pc = pc]
  BY DEF Index, Persist, WorkerTo
<1> DEFINE w == [v EXCEPT !.pc = pc]
<1>4. w \in WorkerRecords /\ w.pc = pc /\ w.conv = v.conv /\ w.after = v.after /\ w.upto = v.upto
      /\ w.targets = v.targets /\ w.rels = v.rels
  BY DEF WorkerRecords, Live
<1>5. worker' = [worker EXCEPT ![s] = w]
  BY <1>1, <1>3
<1>6. Table'
  <2>1. CASE rel' = rel
    BY <1>2, <2>1, RelateTable DEF TInv
  <2>2. CASE AddObservationRelation(v.rels)
    <3>1. v.rels \in SUBSET RelRecords /\ \A q \in v.rels : q.tgt < q.src
      BY <1>2 DEF Named, WorkerRecords
    <3> QED BY <1>2, <2>2, <3>1, RelateTable DEF TInv
  <2>3. rel' = rel \/ AddObservationRelation(v.rels)
    BY <1>1 DEF Index, Persist, table
  <2> QED BY <2>1, <2>2, <2>3
<1> HIDE DEF w
<1> QED BY <1>1, <1>2, <1>4, <1>5, <1>6 DEF GoesOn, Named, Live

LEMMA TalksIs ==
  ASSUME ClaimType, TInv, NEW s \in Slots, Talks(s)
  PROVE  /\ UNCHANGED <<msgs, turn, run, covered, ext, excused>>
         /\ Table' /\ made <= made' /\ \E w : GoesOn(s, w) /\ Named(w)'
<1>1. UNCHANGED <<msgs, turn, run, covered, ext, excused>>
  <2>1. WorkerKeeps /\ UNCHANGED <<ext, excused>>
    BY Zenon DEF Talks, Load, Answer, Check, Save, Index, Persist
  <2> QED BY <2>1 DEF WorkerKeeps
<1>2. CASE Load(s) \/ Answer(s) \/ Check(s)
  <2>1. PICK w : GoesOn(s, w) /\ Named(w)
    BY <1>2, LoadIs, AnswerIs, CheckIs
  <2>2. UNCHANGED <<obs, made, rel>>
    BY <1>2 DEF Load, Answer, Check, table
  <2>3. Table' /\ made <= made'
    BY <2>2, Numbered, RelateTable DEF TInv, Table
  <2>4. Named(w)'
    BY <2>1, <2>2 DEF Named
  <2> QED BY <1>1, <2>1, <2>3, <2>4
<1>3. CASE Save(s)
  BY <1>1, <1>3, SaveIs
<1>4. CASE Index(s) \/ Persist(s)
  <2>1. PICK w : GoesOn(s, w) /\ Named(w)
    BY <1>4, EndIs
  <2>2. Table' /\ made' = made /\ made <= made'
    BY <1>4, EndIs, Numbered DEF TInv, Table
  <2>3. Named(w)'
    BY <2>1, <2>2 DEF Named
  <2> QED BY <1>1, <2>1, <2>2, <2>3
<1> QED BY <1>2, <1>3, <1>4 DEF Talks

-----------------------------------------------------------------------------
(* The claim of a conversation, its cursor and its release.                *)

LEMMA CoversGrow ==
  ASSUME ClaimType, msgs' \in [Convs -> Nat], NEW c \in Convs, NEW n \in Nat, Covers(c, n),
         msgs[c] <= msgs'[c], covered[c] \subseteq covered'[c]
  PROVE  n <= msgs'[c] /\ 1..n \subseteq covered'[c]
<1>1. msgs[c] \in Nat /\ msgs'[c] \in Nat
  BY DEF ClaimType
<1> QED BY <1>1 DEF Covers

LEMMA WorkerIs ==
  ASSUME ClaimType, NEW s \in Slots
  PROVE  worker[s] \in WorkerRecords /\ worker[s].after \in Nat /\ worker[s].upto \in Nat
         /\ Off \in WorkerRecords /\ Off.pc = "off"
<1>1. worker[s] \in WorkerRecords
  BY DEF ClaimType
<1>2. worker[s].after \in Nat /\ worker[s].upto \in Nat
  BY <1>1 DEF WorkerRecords
<1>3. Off \in WorkerRecords
  BY DEF Off, WorkerRecords
<1>4. Off.pc = "off"
  BY DEF Off
<1> QED BY <1>1, <1>2, <1>3, <1>4

LEMMA MessageClaims ==
  ASSUME CInv, NEW c \in Convs, UserMessage(c)
  PROVE  CInv'
<1> USE DEF CInv
<1>1. /\ UNCHANGED <<ext, run, covered, excused>> /\ msgs' = [msgs EXCEPT ![c] = @ + 1]
  BY DEF UserMessage, history
<1>2. msgs' \in [Convs -> Nat] /\ \A d \in Convs : msgs[d] <= msgs'[d] /\ covered[d] \subseteq covered'[d]
  BY <1>1 DEF ClaimType
<1>3. /\ worker' \in [Slots -> WorkerRecords]
      /\ \A s \in Slots : \/ worker'[s] = worker[s]
                          \/ worker[s].pc = "off" /\ worker'[s].pc = "claim" /\ worker'[s].conv = c
  <2>1. CASE worker' = worker
    BY <2>1 DEF ClaimType
  <2>2. ASSUME NEW s \in Slots, worker[s].pc = "off",
               worker' = [worker EXCEPT ![s] = [Off EXCEPT !.pc = "claim", !.conv = c]]
        PROVE  <1>3!1 /\ <1>3!2
    <3>0. PICK o \in WorkerRecords : o = Off
      BY WorkerIs
    <3>1. LET w == [Off EXCEPT !.pc = "claim", !.conv = c] IN
            w \in WorkerRecords /\ w.pc = "claim" /\ w.conv = c
      BY <3>0 DEF WorkerRecords
    <3> QED BY <2>2, <3>1 DEF ClaimType
  <2> QED BY <2>1, <2>2 DEF UserMessage
<1>4. ClaimType'
  BY <1>1, <1>2, <1>3 DEF ClaimType
<1>5. CursorCovers'
  <2>1. \A d \in Convs : ext[d].cursor \in Nat /\ Covers(d, ext[d].cursor)
    BY DEF ClaimType, CursorCovers, Covers
  <2> QED BY <1>1, <1>2, <2>1, CoversGrow DEF CursorCovers
<1>6. Ranged'
  <2> SUFFICES ASSUME NEW s \in Slots
               PROVE  /\ worker'[s].pc # "off" => worker'[s].conv \in Convs
                      /\ worker'[s].pc \notin {"off", "claim"} =>
                           /\ worker'[s].after <= msgs'[worker'[s].conv]
                           /\ 1..worker'[s].after \subseteq covered'[worker'[s].conv]
                           /\ worker'[s].upto <= msgs'[worker'[s].conv]
    BY DEF Ranged, Covers
  <2>1. CASE worker'[s] = worker[s] /\ worker[s].pc \notin {"off", "claim"}
    <3>1. PICK w \in WorkerRecords : w = worker[s]
      BY WorkerIs
    <3>2. w.conv \in Convs /\ Covers(w.conv, w.after) /\ w.upto <= msgs[w.conv] /\ w.after \in Nat /\ w.upto \in Nat
      BY <2>1, <3>1 DEF Ranged, WorkerRecords
    <3>3. msgs[w.conv] \in Nat /\ msgs'[w.conv] \in Nat /\ msgs[w.conv] <= msgs'[w.conv]
      BY <1>2, <3>2 DEF ClaimType
    <3>4. w.after <= msgs'[w.conv] /\ 1..w.after \subseteq covered'[w.conv]
      BY <1>2, <3>2, CoversGrow
    <3> QED BY <2>1, <3>1, <3>2, <3>3, <3>4 DEF Covers
  <2>2. CASE ~(worker'[s] = worker[s] /\ worker[s].pc \notin {"off", "claim"})
    BY <1>3, <2>2 DEF Ranged
  <2> QED BY <2>1, <2>2
<1>7. ReleaseRanged'
  <2>1. run.cursor \in Nat
    BY DEF ClaimType, RunRecords
  <2> QED BY <1>1, <1>2, <2>1, CoversGrow DEF ReleaseRanged, Covers
<1>8. PendingHeld'
  BY <1>1, <1>3 DEF PendingHeld, Held, ToRelease, Live
<1> QED BY <1>4, <1>5, <1>6, <1>7, <1>8

\* A step of one worker that leaves the table of states and the start alone.
LEMMA OneWorkerClaims ==
  ASSUME CInv, NEW s \in Slots, NEW w \in WorkerRecords, worker' = [worker EXCEPT ![s] = w],
         UNCHANGED <<msgs, ext, run, covered, excused>>,
         worker[s].pc \in Live => w.pc \in Live /\ w.conv = worker[s].conv,
         w.pc # "off" => w.conv \in Convs,
         w.pc \notin {"off", "claim"} => Covers(w.conv, w.after) /\ w.upto <= msgs[w.conv]
  PROVE  CInv'
<1> USE DEF CInv
<1>1. worker' \in [Slots -> WorkerRecords] /\ worker'[s] = w
      /\ \A q \in Slots : q # s => worker'[q] = worker[q]
  BY DEF ClaimType
<1>2. \A c, n : Covers(c, n)' <=> Covers(c, n)
  BY DEF Covers
<1>3. ClaimType' /\ CursorCovers' /\ ReleaseRanged'
  BY <1>1, <1>2 DEF ClaimType, CursorCovers, ReleaseRanged
<1>4. Ranged'
  <2> SUFFICES ASSUME NEW q \in Slots
               PROVE  /\ worker'[q].pc # "off" => worker'[q].conv \in Convs
                      /\ worker'[q].pc \notin {"off", "claim"} =>
                           Covers(worker'[q].conv, worker'[q].after) /\ worker'[q].upto <= msgs[worker'[q].conv]
    BY <1>2 DEF Ranged
  <2> QED BY <1>1 DEF Ranged
<1>5. PendingHeld'
  BY <1>1 DEF PendingHeld, Held, ToRelease
<1> QED BY <1>3, <1>4, <1>5

LEMMA TalksClaims ==
  ASSUME CInv, TInv, NEW s \in Slots, Talks(s)
  PROVE  CInv'
<1>1. PICK w : GoesOn(s, w)
  BY TalksIs DEF CInv
<1>2. worker[s].conv \in Convs /\ Covers(worker[s].conv, worker[s].after)
      /\ worker[s].upto <= msgs[worker[s].conv]
  BY <1>1 DEF CInv, Ranged, GoesOn, Live
<1>3. UNCHANGED <<msgs, ext, run, covered, excused>>
  BY TalksIs DEF CInv
<1> QED BY <1>1, <1>2, <1>3, OneWorkerClaims DEF GoesOn

\* The range of an extraction starts at the cursor, or at the first message.
LEMMA ClaimClaims ==
  ASSUME CInv, NEW s \in Slots, Claim(s)
  PROVE  CInv'
<1> USE DEF CInv
<1>1. PICK v \in WorkerRecords : v = worker[s]
  BY WorkerIs
<1>2. v.pc = "claim" /\ v.conv \in Convs /\ UNCHANGED <<msgs, ext, run, covered, excused>>
  BY <1>1 DEF Claim, Ranged
<1>3. PICK lost \in BOOLEAN : 
        worker' = [worker EXCEPT ![s] =
          IF (~lost /\ ext[v.conv].status = "pending")
             \/ msgs[v.conv] <= (IF lost THEN 0 ELSE ext[v.conv].cursor) THEN Off
          ELSE [v EXCEPT !.pc = "mark", !.after = IF lost THEN 0 ELSE ext[v.conv].cursor,
                         !.upto = msgs[v.conv]]]
  BY <1>1 DEF Claim, GetMaxMessageRowid
<1>4. PICK n \in Nat : n = IF lost THEN 0 ELSE ext[v.conv].cursor
  BY <1>2 DEF ClaimType
<1>5. msgs[v.conv] \in Nat /\ Covers(v.conv, n)
  <2>1. CASE lost
    BY <1>2, <1>4, <2>1 DEF ClaimType, Covers
  <2>2. CASE ~lost
    BY <1>2, <1>4, <2>2 DEF ClaimType, CursorCovers, Covers
  <2> QED BY <2>1, <2>2
<1>6. CASE worker' = [worker EXCEPT ![s] = Off]
  BY <1>1, <1>2, <1>6, WorkerIs, OneWorkerClaims DEF Live
<1>7. CASE worker' = [worker EXCEPT ![s] = [v EXCEPT !.pc = "mark", !.after = n, !.upto = msgs[v.conv]]]
  <2> DEFINE w == [v EXCEPT !.pc = "mark", !.after = n, !.upto = msgs[v.conv]]
  <2>1. w.pc = "mark" /\ w.conv = v.conv /\ w.after = n /\ w.upto = msgs[v.conv]
    BY DEF WorkerRecords
  <2>2. w \in WorkerRecords
    BY <1>5 DEF WorkerRecords
  <2>3. msgs[v.conv] <= msgs[v.conv]
    BY <1>5
  <2>4. worker' = [worker EXCEPT ![s] = w]
    BY <1>7
  <2> HIDE DEF w
  <2> QED BY <1>1, <1>2, <1>5, <2>1, <2>2, <2>3, <2>4, OneWorkerClaims DEF Live
<1> QED BY <1>3, <1>4, <1>6, <1>7

\* The state of a conversation is written, or is not and the conversation is excused.
LEMMA StateWritten ==
  ASSUME ClaimType, CursorCovers, NEW c \in Convs, NEW n \in Nat,
         NEW st \in {"idle", "pending", "failed"},
         UNCHANGED msgs, covered' \in [Convs -> SUBSET Nat],
         \A d \in Convs : covered[d] \subseteq covered'[d],
         n <= msgs[c] /\ 1..n \subseteq covered'[c],
         \/ UpdateExtractionState(c, n, st)
         \/ ext' = ext /\ excused' = excused \cup {c}
  PROVE  /\ ext' \in [Convs -> [cursor : Nat, status : {"idle", "pending", "failed"}]]
         /\ CursorCovers'
         /\ ext'[c].status = st \/ (c \in excused' /\ ext' = ext)
         /\ \A d \in Convs : d # c => ext'[d] = ext[d] /\ (d \in excused => d \in excused')
<1>1. CASE ext' = ext /\ excused' = excused \cup {c}
  BY <1>1 DEF ClaimType, CursorCovers
<1>2. CASE UpdateExtractionState(c, n, st)
  <2>1. /\ ext' = [ext EXCEPT ![c] = [cursor |-> n, status |-> st]] /\ excused' = excused \ {c}
    BY <1>2 DEF UpdateExtractionState
  <2>2. /\ ext' \in [Convs -> [cursor : Nat, status : {"idle", "pending", "failed"}]]
        /\ ext'[c] = [cursor |-> n, status |-> st]
        /\ \A d \in Convs : d # c => ext'[d] = ext[d]
    BY <2>1 DEF ClaimType
  <2>3. CursorCovers'
    BY <2>2 DEF CursorCovers
  <2> QED BY <2>1, <2>2, <2>3
<1> QED BY <1>1, <1>2

LEMMA MarkClaims ==
  ASSUME CInv, NEW s \in Slots, MarkPending(s)
  PROVE  CInv'
<1> USE DEF CInv
<1>1. PICK v \in WorkerRecords : v = worker[s]
  BY WorkerIs
<1>2. v.pc = "mark" /\ UNCHANGED <<msgs, run, covered>>
  BY <1>1 DEF MarkPending
<1>3. v.conv \in Convs /\ Covers(v.conv, v.after) /\ v.upto <= msgs[v.conv] /\ v.after \in Nat
  BY <1>1, <1>2 DEF Ranged, WorkerRecords
<1>4. CASE UNCHANGED <<ext, excused>>
  <2>1. worker' = [worker EXCEPT ![s] = Off] \/ UpdateExtractionState(v.conv, v.after, "pending")
    BY <1>1 DEF MarkPending
  <2>2. CASE worker' = [worker EXCEPT ![s] = Off]
    BY <1>1, <1>2, <1>4, <2>2, WorkerIs, OneWorkerClaims DEF Live
  <2>3. CASE /\ UpdateExtractionState(v.conv, v.after, "pending")
             /\ worker' = [worker EXCEPT ![s].pc = "load"]
    <3> DEFINE w == [v EXCEPT !.pc = "load"]
    <3>1. w.pc = "load" /\ w.conv = v.conv /\ w.after = v.after /\ w.upto = v.upto /\ w \in WorkerRecords
      BY DEF WorkerRecords, Live
    <3>2. worker' = [worker EXCEPT ![s] = w]
      BY <1>1, <2>3
    <3> HIDE DEF w
    <3> QED BY <1>1, <1>2, <1>3, <1>4, <3>1, <3>2, OneWorkerClaims DEF Live
  <2> QED BY <1>1, <2>1, <2>2, <2>3 DEF MarkPending
<1>5. CASE ~UNCHANGED <<ext, excused>>
  <2>1. /\ UpdateExtractionState(v.conv, v.after, "pending")
        /\ worker' = [worker EXCEPT ![s].pc = "load"]
    BY <1>1, <1>5 DEF MarkPending
  <2>2. /\ worker' \in [Slots -> WorkerRecords] /\ worker'[s] = [v EXCEPT !.pc = "load"]
        /\ \A q \in Slots : q # s => worker'[q] = worker[q]
    <3>1. [v EXCEPT !.pc = "load"] \in WorkerRecords
      BY DEF WorkerRecords, Live
    <3> QED BY <1>1, <2>1, <3>1 DEF ClaimType
  <2>3. worker'[s].pc = "load" /\ worker'[s].conv = v.conv /\ worker'[s].after = v.after
        /\ worker'[s].upto = v.upto
    BY <2>2 DEF WorkerRecords
  <2>4. /\ ext' \in [Convs -> [cursor : Nat, status : {"idle", "pending", "failed"}]] /\ CursorCovers'
        /\ \A d \in Convs : d # v.conv => ext'[d] = ext[d] /\ (d \in excused => d \in excused')
    BY <1>2, <1>3, <2>1, StateWritten DEF Covers, ClaimType
  <2>5. ClaimType' /\ ReleaseRanged'
    BY <1>2, <2>2, <2>4 DEF ClaimType, ReleaseRanged, Covers
  <2>6. \A c, n : Covers(c, n)' <=> Covers(c, n)
    BY <1>2 DEF Covers
  <2>7. Ranged'
    <3> SUFFICES ASSUME NEW q \in Slots
                 PROVE  /\ worker'[q].pc # "off" => worker'[q].conv \in Convs
                        /\ worker'[q].pc \notin {"off", "claim"} =>
                             Covers(worker'[q].conv, worker'[q].after) /\ worker'[q].upto <= msgs[worker'[q].conv]
      BY <1>2, <2>6 DEF Ranged
    <3> QED BY <1>3, <2>2, <2>3 DEF Ranged
  <2>8. Held(v.conv)'
    BY <2>3 DEF Held, Live
  <2>9. \A d \in Convs : Held(d) => Held(d)'
    BY <1>1, <1>2, <2>2 DEF Held, Live
  <2>10. PendingHeld'
    BY <1>2, <2>4, <2>8, <2>9 DEF PendingHeld, ToRelease
  <2> QED BY <2>4, <2>5, <2>7, <2>10
<1> QED BY <1>4, <1>5

\* An extraction ends: the cursor passes its range if it succeeded, and the conversation is
\* released, or excused if that could not be written.
LEMMA EndClaims ==
  ASSUME CInv, NEW s \in Slots, Finish(s) \/ Fail(s)
  PROVE  CInv'
<1> USE DEF CInv
<1>1. PICK v \in WorkerRecords : v = worker[s]
  BY WorkerIs
<1>2. v.pc \in Live /\ UNCHANGED <<msgs, run>> /\ worker' = [worker EXCEPT ![s] = Off]
  BY <1>1 DEF Finish, Fail, WorkerKeeps, Live
<1>3. v.conv \in Convs /\ Covers(v.conv, v.after) /\ v.upto <= msgs[v.conv]
      /\ v.after \in Nat /\ v.upto \in Nat /\ msgs[v.conv] \in Nat
  <2>1. v.after \in Nat /\ v.upto \in Nat
    BY DEF WorkerRecords
  <2> QED BY <1>1, <1>2, <2>1 DEF Ranged, ClaimType, Live
<1>4. PICK n \in Nat, st \in {"idle", "failed"} :
        /\ n <= msgs[v.conv] /\ 1..n \subseteq covered'[v.conv]
        /\ covered' \in [Convs -> SUBSET Nat] /\ \A d \in Convs : covered[d] \subseteq covered'[d]
        /\ \/ UpdateExtractionState(v.conv, n, st)
           \/ ext' = ext /\ excused' = excused \cup {v.conv}
  <2>1. CASE Fail(s)
    <3>1. covered' = covered /\ (\/ UpdateExtractionState(v.conv, v.after, "failed")
                                 \/ ext' = ext /\ excused' = excused \cup {v.conv})
      BY <1>1, <2>1 DEF Fail, WorkerKeeps
    <3> QED BY <1>3, <3>1 DEF Covers, ClaimType
  <2>2. CASE Finish(s)
    <3>1. /\ covered' = [covered EXCEPT ![v.conv] = @ \cup ((v.after + 1)..v.upto)]
          /\ \/ UpdateExtractionState(v.conv, v.upto, "idle")
             \/ ext' = ext /\ excused' = excused \cup {v.conv}
      BY <1>1, <2>2 DEF Finish, GetMessagesSinceRowid
    <3>2. /\ covered' \in [Convs -> SUBSET Nat] /\ \A d \in Convs : covered[d] \subseteq covered'[d]
          /\ covered'[v.conv] = covered[v.conv] \cup ((v.after + 1)..v.upto)
      BY <1>3, <3>1 DEF ClaimType
    <3>3. 1..v.upto \subseteq covered'[v.conv]
      BY <1>3, <3>2 DEF Covers
    <3> QED BY <1>3, <3>1, <3>2, <3>3
  <2> QED BY <2>1, <2>2
<1>5. /\ ext' \in [Convs -> [cursor : Nat, status : {"idle", "pending", "failed"}]] /\ CursorCovers'
      /\ ext'[v.conv].status = st \/ v.conv \in excused'
      /\ \A d \in Convs : d # v.conv => ext'[d] = ext[d] /\ (d \in excused => d \in excused')
  BY <1>2, <1>3, <1>4, StateWritten
<1>6. worker' \in [Slots -> WorkerRecords] /\ worker'[s].pc = "off"
      /\ \A q \in Slots : q # s => worker'[q] = worker[q]
  BY <1>2, WorkerIs DEF ClaimType
<1>7. ClaimType'
  BY <1>2, <1>4, <1>5, <1>6 DEF ClaimType
<1>8. \A c \in Convs, n2 \in Nat : Covers(c, n2) => n2 <= msgs'[c] /\ 1..n2 \subseteq covered'[c]
  BY <1>2, <1>4 DEF Covers
<1>9. Ranged'
  <2> SUFFICES ASSUME NEW q \in Slots, q # s
               PROVE  /\ worker[q].pc # "off" => worker[q].conv \in Convs
                      /\ worker[q].pc \notin {"off", "claim"} =>
                           /\ worker[q].after <= msgs'[worker[q].conv]
                           /\ 1..worker[q].after \subseteq covered'[worker[q].conv]
                           /\ worker[q].upto <= msgs[worker[q].conv]
    BY <1>2, <1>6 DEF Ranged, Covers
  <2>1. worker[q].after \in Nat
    BY WorkerIs
  <2> QED BY <1>8, <2>1 DEF Ranged
<1>10. ReleaseRanged'
  <2>1. run.cursor \in Nat
    BY DEF ClaimType, RunRecords
  <2> QED BY <1>2, <1>8, <2>1 DEF ReleaseRanged, Covers
<1>11. \A d \in Convs : d # v.conv /\ Held(d) => Held(d)'
  BY <1>1, <1>6 DEF Held
<1>12. PendingHeld'
  BY <1>2, <1>5, <1>11 DEF PendingHeld, ToRelease
<1> QED BY <1>5, <1>7, <1>9, <1>10, <1>12

\* A command or a skill has nothing to do with extractions.
LEMMA ActClaims ==
  ASSUME CInv, UNCHANGED <<msgs, ext, worker, run, covered, excused>>
  PROVE  CInv'
BY DEF CInv, ClaimType, CursorCovers, Ranged, ReleaseRanged, PendingHeld, Covers, Held, ToRelease

\* Run starts: what it will release is what is pending, less what it excuses.
LEMMA RunIs == \A p \in {"down", "recover", "reset", "write", "serving"} :
  RunIn(p) \in RunRecords /\ RunIn(p).pc = p /\ RunIn(p).todo = {}
BY DEF RunIn, RunRecords

LEMMA StopClaims ==
  ASSUME CInv, Crash \/ Boot \/ RestartRun
  PROVE  CInv'
<1> USE DEF CInv
<1>1. UNCHANGED <<msgs, ext, covered>>
  BY DEF Crash, Boot, RestartRun, history
<1>2. run' \in RunRecords /\ run'.pc \in {"down", "recover"}
  <2>1. [RunIn("recover") EXCEPT !.booted = TRUE] \in RunRecords
        /\ [RunIn("recover") EXCEPT !.booted = TRUE].pc = "recover"
    BY DEF RunIn, RunRecords
  <2> QED BY <2>1, RunIs DEF Crash, Boot, RestartRun
<1>3. worker' = worker \/ worker' = [s \in Slots |-> Off]
  BY DEF Crash, Boot, RestartRun
<1>4. worker' \in [Slots -> WorkerRecords] /\ \A s \in Slots : worker'[s] = worker[s] \/ worker'[s].pc = "off"
  BY <1>3, WorkerIs DEF ClaimType
<1>5. ClaimType' /\ CursorCovers' /\ ReleaseRanged' /\ PendingHeld'
  BY <1>1, <1>2, <1>4 DEF ClaimType, CursorCovers, ReleaseRanged, PendingHeld
<1>6. Ranged'
  <2>1. \A c, n : Covers(c, n)' <=> Covers(c, n)
    BY <1>1 DEF Covers
  <2>2. SUFFICES ASSUME NEW s \in Slots
                 PROVE  /\ worker'[s].pc # "off" => worker'[s].conv \in Convs
                        /\ worker'[s].pc \notin {"off", "claim"} =>
                             Covers(worker'[s].conv, worker'[s].after) /\ worker'[s].upto <= msgs[worker'[s].conv]
    BY <1>1, <2>1 DEF Ranged
  <2> QED BY <1>4 DEF Ranged
<1> QED BY <1>5, <1>6

LEMMA RecoverClaims ==
  ASSUME CInv, RecoverExtractions
  PROVE  CInv'
<1> USE DEF CInv
<1>1. UNCHANGED <<msgs, ext, worker, covered>>
  BY DEF RecoverExtractions, RunKeeps
<1>2. run \in RunRecords
  BY DEF ClaimType
<1>3. PICK S \in SUBSET RecoverableExtractions :
        /\ run'.pc = "reset" /\ S \subseteq run'.todo /\ run' \in RunRecords
        /\ excused' = excused \cup (RecoverableExtractions \ S)
  <2>1. RecoverableExtractions \subseteq Convs
    BY DEF RecoverableExtractions
  <2>2. CASE \E S \in SUBSET RecoverableExtractions :
               /\ run' = [run EXCEPT !.pc = "reset", !.todo = S]
               /\ excused' = excused \cup (RecoverableExtractions \ S)
    <3>1. PICK S \in SUBSET RecoverableExtractions :
            /\ run' = [run EXCEPT !.pc = "reset", !.todo = S]
            /\ excused' = excused \cup (RecoverableExtractions \ S)
      BY <2>2
    <3>2. run'.pc = "reset" /\ run'.todo = S /\ run' \in RunRecords
      BY <1>2, <2>1, <3>1 DEF RunRecords
    <3> QED BY <3>1, <3>2
  <2>3. CASE run' = [run EXCEPT !.pc = "reset"] /\ excused' = excused \cup RecoverableExtractions
    <3>1. run'.pc = "reset" /\ run' \in RunRecords
      BY <1>2, <2>3 DEF RunRecords
    <3>2. {} \in SUBSET RecoverableExtractions /\ {} \subseteq run'.todo
          /\ RecoverableExtractions \ {} = RecoverableExtractions
      OBVIOUS
    <3> QED BY <2>3, <3>1, <3>2
  <2> QED BY <2>2, <2>3 DEF RecoverExtractions
<1>4. \A c \in Convs : ext[c].status = "pending" => c \in S \/ c \in excused'
  BY <1>3 DEF RecoverableExtractions
<1>5. PendingHeld'
  BY <1>1, <1>3, <1>4 DEF PendingHeld, ToRelease
<1>6. ClaimType' /\ CursorCovers' /\ Ranged' /\ ReleaseRanged'
  BY <1>1, <1>3 DEF ClaimType, CursorCovers, Ranged, ReleaseRanged, Covers
<1> QED BY <1>5, <1>6

LEMMA ReadClaims ==
  ASSUME CInv, ResetRead
  PROVE  CInv'
<1> USE DEF CInv
<1>1. UNCHANGED <<msgs, ext, worker, covered, excused>> /\ run \in RunRecords /\ run.pc = "reset"
  BY DEF ResetRead, RunKeeps, ClaimType
<1>2. PICK c \in run.todo, n \in Nat :
        /\ run' = [run EXCEPT !.pc = "write", !.todo = @ \ {c}, !.conv = c, !.cursor = n]
        /\ n = 0 \/ n = ext[c].cursor
  <2>1. PICK c \in run.todo, lost \in BOOLEAN :
          run' = [run EXCEPT !.pc = "write", !.todo = @ \ {c}, !.conv = c,
                             !.cursor = IF lost THEN 0 ELSE ext[c].cursor]
    BY DEF ResetRead
  <2>2. ext[c].cursor \in Nat
    BY <1>1 DEF ClaimType, RunRecords
  <2>3. CASE lost
    BY <2>1, <2>3
  <2>4. CASE ~lost
    BY <2>1, <2>2, <2>4
  <2> QED BY <2>3, <2>4
<1>3. /\ c \in Convs /\ run'.pc = "write" /\ run'.todo = run.todo \ {c} /\ run'.conv = c /\ run'.cursor = n
  BY <1>1, <1>2 DEF RunRecords
<1>4. run' \in RunRecords
  BY <1>1, <1>2, <1>3 DEF RunRecords
<1>5. n <= msgs[c] /\ 1..n \subseteq covered[c]
  <2>1. msgs[c] \in Nat
    BY <1>3 DEF ClaimType
  <2> QED BY <1>2, <1>3, <2>1 DEF CursorCovers
<1>6. ReleaseRanged'
  BY <1>1, <1>3, <1>5 DEF ReleaseRanged, Covers
<1>7. PendingHeld'
  BY <1>1, <1>3 DEF PendingHeld, ToRelease, Held
<1>8. ClaimType' /\ CursorCovers' /\ Ranged'
  BY <1>1, <1>4 DEF ClaimType, CursorCovers, Ranged, Covers
<1> QED BY <1>6, <1>7, <1>8

LEMMA WriteClaims ==
  ASSUME CInv, ResetWrite
  PROVE  CInv'
<1> USE DEF CInv
<1>1. /\ UNCHANGED <<msgs, worker, covered>> /\ run \in RunRecords /\ run.pc = "write"
      /\ run' = [run EXCEPT !.pc = "reset"]
  BY DEF ResetWrite, RunKeeps, ClaimType
<1>2. PICK c \in Convs, n \in Nat : c = run.conv /\ n = run.cursor /\ n <= msgs[c] /\ 1..n \subseteq covered[c]
  BY <1>1 DEF ReleaseRanged, Covers, RunRecords
<1>3. /\ ext' \in [Convs -> [cursor : Nat, status : {"idle", "pending", "failed"}]] /\ CursorCovers'
      /\ ext'[c].status = "idle" \/ c \in excused'
      /\ \A d \in Convs : d # c => ext'[d] = ext[d] /\ (d \in excused => d \in excused')
  <2>1. \/ UpdateExtractionState(c, n, "idle")
        \/ ext' = ext /\ excused' = excused \cup {c}
    BY <1>2 DEF ResetWrite
  <2>2. covered' \in [Convs -> SUBSET Nat] /\ \A d \in Convs : covered[d] \subseteq covered'[d]
    BY <1>1 DEF ClaimType
  <2> QED BY <1>1, <1>2, <2>1, <2>2, StateWritten
<1>4. run' \in RunRecords /\ run'.pc = "reset" /\ run'.todo = run.todo
  BY <1>1 DEF RunRecords
<1>5. PendingHeld'
  BY <1>1, <1>2, <1>3, <1>4 DEF PendingHeld, ToRelease, Held
<1>6. ClaimType' /\ Ranged' /\ ReleaseRanged'
  BY <1>1, <1>3, <1>4 DEF ClaimType, Ranged, ReleaseRanged, Covers
<1> QED BY <1>3, <1>5, <1>6

LEMMA ServingClaims ==
  ASSUME CInv, ReindexMissing
  PROVE  CInv'
<1> USE DEF CInv
<1>1. /\ UNCHANGED <<msgs, ext, worker, covered, excused>> /\ run.pc = "reset" /\ run.todo = {}
      /\ run' = RunIn("serving")
  BY DEF ReindexMissing, RunKeeps
<1>2. run' \in RunRecords /\ run'.pc = "serving" /\ run'.todo = {}
  BY <1>1, RunIs
<1>3. PendingHeld'
  BY <1>1, <1>2 DEF PendingHeld, ToRelease, Held
<1> QED BY <1>1, <1>2, <1>3 DEF ClaimType, CursorCovers, Ranged, ReleaseRanged, Covers

-----------------------------------------------------------------------------
(* Observations: the steps that change none.                               *)

LEMMA NoTurnNamed ==
  ASSUME made' \in 0..MaxObs, turn' = NoTurn
  PROVE  TurnNamed'
<1>1. NoTurn \in TurnRecords
  BY Numbered DEF NoTurn, TurnRecords
<1> QED BY <1>1, Numbered DEF TurnNamed, NoTurn

LEMMA SameNamed ==
  ASSUME TInv, made' \in 0..MaxObs, made <= made', turn' = turn
  PROVE  TurnNamed'
<1>1. turn.tgt \in Nat /\ made \in Nat /\ made' \in Nat /\ turn.tgt <= made
  BY Numbered DEF TInv, TurnNamed, TurnRecords, Table
<1>2. turn.tgt <= made'
  BY <1>1
<1> QED BY <1>2 DEF TInv, TurnNamed

LEMMA WorkersNamed ==
  ASSUME ClaimType, TInv, made' \in 0..MaxObs, made <= made', NEW q \in Slots,
         \/ worker'[q] = worker[q]
         \/ /\ worker'[q].pc # "save"
            /\ \/ worker'[q].targets = {} /\ worker'[q].rels = {}
               \/ worker'[q].targets = worker[q].targets /\ worker'[q].rels = worker[q].rels
  PROVE  Named(worker[q])'
<1>1. Named(worker[q]) /\ worker[q].targets \subseteq Ids /\ made \in Nat /\ made' \in Nat
  BY Numbered DEF TInv, ClaimType, WorkerRecords, Table
<1>2. \A t \in worker[q].targets : t <= made'
  BY <1>1, Numbered DEF Named
<1> QED BY <1>1, <1>2 DEF Named

\* Of the workers, some end or go on with what they had in hand.
LEMMA IdleTable ==
  ASSUME ClaimType, TInv, UNCHANGED <<obs, made, rel>>, turn' = turn \/ turn' = NoTurn,
         \A q \in Slots :
           \/ worker'[q] = worker[q]
           \/ /\ worker'[q].pc # "save"
              /\ \/ worker'[q].targets = {} /\ worker'[q].rels = {}
                 \/ worker'[q].targets = worker[q].targets /\ worker'[q].rels = worker[q].rels
  PROVE  TInv'
<1>1. Table' /\ made' \in 0..MaxObs /\ made <= made'
  BY Numbered, RelateTable DEF TInv, Table
<1>2. TurnNamed'
  BY <1>1, NoTurnNamed, SameNamed
<1>3. \A q \in Slots : Named(worker[q])'
  BY <1>1, WorkersNamed
<1> QED BY <1>1, <1>2, <1>3 DEF TInv

LEMMA WorkerTable ==
  ASSUME CInv, TInv, NEW s \in Slots, Claim(s) \/ MarkPending(s) \/ Finish(s) \/ Fail(s)
  PROVE  TInv'
<1>1. UNCHANGED <<obs, made, rel, turn>>
  BY DEF Claim, MarkPending, Finish, Fail, WorkerKeeps, table
<1>2. PICK v \in WorkerRecords : v = worker[s]
  BY WorkerIs DEF CInv
<1>3. CASE worker' = [worker EXCEPT ![s] = Off]
  <2>1. Off.pc # "save" /\ Off.targets = {} /\ Off.rels = {}
    BY DEF Off
  <2>2. \A q \in Slots : worker'[q] = worker[q] \/ worker'[q] = Off
    BY <1>3 DEF CInv, ClaimType
  <2> QED BY <1>1, <2>1, <2>2, IdleTable DEF CInv
<1>4. ASSUME NEW w, worker' = [worker EXCEPT ![s] = w], w.pc # "save", w.targets = v.targets, w.rels = v.rels
      PROVE  TInv'
  <2>1. \A q \in Slots : worker'[q] = IF q = s THEN w ELSE worker[q]
    BY <1>4 DEF CInv, ClaimType
  <2> QED BY <1>1, <1>2, <1>4, <2>1, IdleTable DEF CInv
<1>5. CASE MarkPending(s) /\ worker' # [worker EXCEPT ![s] = Off]
  <2>1. worker' = [worker EXCEPT ![s].pc = "load"]
    BY <1>5 DEF MarkPending
  <2>2. worker' = [worker EXCEPT ![s] = [v EXCEPT !.pc = "load"]]
    BY <1>2, <2>1
  <2>3. LET w == [v EXCEPT !.pc = "load"] IN w.pc # "save" /\ w.targets = v.targets /\ w.rels = v.rels
    BY DEF WorkerRecords
  <2> QED BY <1>4, <2>2, <2>3
<1>6. CASE Claim(s) /\ worker' # [worker EXCEPT ![s] = Off]
  <2>1. \E a, b : worker' = [worker EXCEPT ![s] = [v EXCEPT !.pc = "mark", !.after = a, !.upto = b]]
    BY <1>2, <1>6 DEF Claim
  <2>2. PICK a, b : worker' = [worker EXCEPT ![s] = [v EXCEPT !.pc = "mark", !.after = a, !.upto = b]]
    BY <2>1
  <2> DEFINE w == [v EXCEPT !.pc = "mark", !.after = a, !.upto = b]
  <2>3. w.pc # "save" /\ w.targets = v.targets /\ w.rels = v.rels
    BY DEF WorkerRecords
  <2>4. worker' = [worker EXCEPT ![s] = w]
    BY <2>2
  <2> HIDE DEF w
  <2> QED BY <1>4, <2>3, <2>4
<1>7. Finish(s) \/ Fail(s) => worker' = [worker EXCEPT ![s] = Off]
  BY DEF Finish, Fail
<1> QED BY <1>3, <1>5, <1>6, <1>7

LEMMA MessageTable ==
  ASSUME CInv, TInv, NEW c \in Convs, UserMessage(c)
  PROVE  TInv'
<1>1. UNCHANGED <<obs, made, rel, turn>>
  BY DEF UserMessage, table
<1>2. CASE worker' = worker
  BY <1>1, <1>2, IdleTable DEF CInv
<1>3. ASSUME NEW s \in Slots, worker' = [worker EXCEPT ![s] = [Off EXCEPT !.pc = "claim", !.conv = c]]
      PROVE  TInv'
  <2>1. LET w == [Off EXCEPT !.pc = "claim", !.conv = c] IN w.pc # "save" /\ w.targets = {} /\ w.rels = {}
    BY DEF Off
  <2>2. \A q \in Slots : worker'[q] = worker[q] \/ worker'[q] = [Off EXCEPT !.pc = "claim", !.conv = c]
    BY <1>3 DEF CInv, ClaimType
  <2> QED BY <1>1, <2>1, <2>2, IdleTable DEF CInv
<1> QED BY <1>2, <1>3 DEF UserMessage

LEMMA TalksTable ==
  ASSUME CInv, TInv, NEW s \in Slots, Talks(s)
  PROVE  TInv'
<1>1. turn' = turn /\ Table' /\ made <= made' /\ \E w : GoesOn(s, w) /\ Named(w)'
  BY TalksIs DEF CInv
<1>2. PICK w : GoesOn(s, w) /\ Named(w)'
  BY <1>1
<1>3. made' \in 0..MaxObs
  BY <1>1 DEF Table
<1>4. TurnNamed'
  BY <1>1, <1>3, SameNamed
<1>5. worker'[s] = w /\ \A q \in Slots : q # s => worker'[q] = worker[q]
  BY <1>2 DEF GoesOn, CInv, ClaimType
<1>6. \A q \in Slots : Named(worker[q])'
  <2> SUFFICES ASSUME NEW q \in Slots PROVE Named(worker[q])'
    OBVIOUS
  <2>1. CASE q = s
    BY <1>2, <1>5, <2>1 DEF Named
  <2>2. CASE q # s
    BY <1>1, <1>3, <1>5, <2>2, WorkersNamed DEF CInv
  <2> QED BY <2>1, <2>2
<1> QED BY <1>1, <1>4, <1>6 DEF TInv

LEMMA StartTable ==
  ASSUME CInv, TInv, Starts
  PROVE  TInv'
<1>1. UNCHANGED <<obs, made, rel>> /\ (turn' = turn \/ turn' = NoTurn)
      /\ (worker' = worker \/ worker' = [s \in Slots |-> Off])
  BY DEF Starts, Crash, Boot, RestartRun, RecoverExtractions, ResetRead, ResetWrite, ReindexMissing,
         RunKeeps, table
<1>2. Off.pc # "save" /\ Off.targets = {} /\ Off.rels = {}
  BY DEF Off
<1>3. \A q \in Slots : worker'[q] = worker[q] \/ worker'[q] = Off
  BY <1>1
<1> QED BY <1>1, <1>2, <1>3, IdleTable DEF CInv

-----------------------------------------------------------------------------
(* Commands and skills.                                                    *)

LEMMA TurnAtNamed ==
  ASSUME TInv, made' = made, NEW pc \in {"restore", "unrelate", "unindex"}, NEW o \in 1..made, TurnAt(pc, o)
  PROVE  TurnNamed'
<1>1. o \in Ids /\ o \in 0..MaxObs /\ o <= made
  BY Numbered DEF TInv, Table
<1>2. turn' = [NoTurn EXCEPT !.pc = pc, !.tgt = o]
  BY DEF TurnAt
<1>3. turn' \in TurnRecords /\ turn'.pc = pc /\ turn'.tgt = o
  <2>1. NoTurn \in TurnRecords
    BY Numbered DEF NoTurn, TurnRecords
  <2> DEFINE n == NoTurn
  <2> HIDE DEF n
  <2>4. n \in TurnRecords /\ n = NoTurn
    BY <2>1 DEF n
  <2>2. [n EXCEPT !.pc = pc, !.tgt = o] \in TurnRecords
    BY <1>1, <2>4 DEF TurnRecords
  <2>3. [n EXCEPT !.pc = pc, !.tgt = o].pc = pc /\ [n EXCEPT !.pc = pc, !.tgt = o].tgt = o
    BY <2>4 DEF TurnRecords
  <2> QED BY <1>2, <2>2, <2>3, <2>4
<1> QED BY <1>1, <1>3 DEF TurnNamed

LEMMA ActTable ==
  ASSUME ClaimType, TInv, worker' = worker, Table', made <= made', TurnNamed'
  PROVE  TInv'
<1>1. made' \in 0..MaxObs
  BY DEF Table
<1>2. \A q \in Slots : Named(worker[q])'
  BY <1>1, WorkersNamed
<1> QED BY <1>2 DEF TInv

LEMMA CommandKeeps ==
  ASSUME IInv, Commands
  PROVE  IInv'
<1> USE DEF IInv
<1>1. UNCHANGED <<msgs, ext, worker, run, covered, excused, made>>
  BY DEF Commands, KeepBoth, Revert, ForgetOld, Unrelate, RestoreTarget, DeleteObservationVector,
         TurnKeeps, Keeps, table
<1>2. CInv' /\ Table /\ made <= made' /\ made' \in 0..MaxObs /\ ClaimType
  BY <1>1, ActClaims, Numbered DEF TInv, Table, CInv
<1>3. \A o \in 1..made : o \in Ids
  BY Numbered DEF TInv, Table
<1>4. turn \in TurnRecords /\ TurnNamed
  BY DEF TInv, TurnNamed
<1>5. ASSUME NEW o \in 1..made, KeepBoth(o) PROVE Table' /\ TurnNamed'
  <2>1. UNCHANGED <<obs, made>> /\ rel' \subseteq rel /\ TurnAt("restore", o)
    BY <1>1, <1>5 DEF KeepBoth, Try, DeleteSupersessionRelation
  <2> QED BY <1>2, <2>1, RelateTable, TurnAtNamed
<1>6. ASSUME NEW o \in 1..made, Revert(o) PROVE Table' /\ TurnNamed'
  <2>1. rel' = rel /\ TurnAt("unrelate", o) /\ (obs' = obs \/ \E r \in rel : ArchiveObservation(r.src))
    BY <1>6 DEF Revert, Try, Supersedes
  <2>2. CASE obs' = obs
    BY <1>1, <1>2, <2>1, <2>2, RelateTable, TurnAtNamed
  <2>3. ASSUME NEW r \in rel, ArchiveObservation(r.src) PROVE Table'
    <3>1. r.src \in Ids
      BY DEF TInv, Table, RelRecords
    <3> QED BY <1>1, <1>2, <2>1, <2>3, <3>1, ChangeTable
  <2> QED BY <1>1, <2>1, <2>2, <2>3, TurnAtNamed
<1>7. ASSUME NEW o \in 1..made, ForgetOld(o) PROVE Table' /\ TurnNamed'
  <2>1. CASE DeleteObservation(o) /\ TurnAt("unindex", o)
    BY <1>1, <1>2, <1>3, <2>1, DeleteTable, TurnAtNamed
  <2>2. CASE UNCHANGED <<rel, obs, turn>>
    BY <1>1, <1>2, <2>2, RelateTable, SameNamed
  <2> QED BY <1>7, <2>1, <2>2 DEF ForgetOld, Try
<1>8. ASSUME Unrelate PROVE Table' /\ TurnNamed'
  <2>1. UNCHANGED <<obs, made>> /\ rel' \subseteq rel /\ turn.pc = "unrelate"
        /\ turn' = [turn EXCEPT !.pc = "restore"]
    BY <1>1, <1>8 DEF Unrelate, Try, DeleteSupersessionRelation, TurnTo
  <2>2. turn' \in TurnRecords /\ turn'.pc = "restore" /\ turn'.tgt = turn.tgt
    BY <1>4, <2>1 DEF TurnRecords
  <2>3. TurnNamed'
    BY <1>1, <1>4, <2>1, <2>2 DEF TurnNamed
  <2> QED BY <1>2, <2>1, <2>3, RelateTable
<1>9. ASSUME RestoreTarget PROVE Table' /\ TurnNamed'
  <2>1. UNCHANGED <<made, rel>> /\ turn.pc = "restore" /\ turn' = NoTurn
        /\ (obs' = obs \/ (Exists(turn.tgt) /\ RestoreObservation(turn.tgt)))
    BY <1>1, <1>9 DEF RestoreTarget, Try
  <2>2. turn.tgt \in Ids
    BY <1>4, <2>1 DEF TurnNamed
  <2>3. CASE obs' = obs
    BY <1>2, <2>1, <2>3, RelateTable, NoTurnNamed
  <2>4. CASE Exists(turn.tgt) /\ RestoreObservation(turn.tgt)
    BY <1>2, <2>1, <2>2, <2>4, ChangeTable, NoTurnNamed
  <2> QED BY <2>1, <2>3, <2>4
<1>10. ASSUME DeleteObservationVector PROVE Table' /\ TurnNamed'
  <2>1. UNCHANGED <<obs, made, rel>> /\ turn' = NoTurn
    BY <1>10 DEF DeleteObservationVector, table
  <2> QED BY <1>2, <2>1, RelateTable, NoTurnNamed
<1>11. Table' /\ TurnNamed'
  BY <1>5, <1>6, <1>7, <1>8, <1>9, <1>10 DEF Commands
<1> QED BY <1>1, <1>2, <1>11, ActTable

LEMMA SkillKeeps ==
  ASSUME IInv, Skills
  PROVE  IInv'
<1> USE DEF IInv
<1>1. UNCHANGED <<msgs, ext, worker, run, covered, excused>>
  BY DEF Skills, ForgetObservation, RestoreSkill, UpdateSkill, Supersede, Replace, SaveReplacement,
         IndexReplacement, RelateReplacement, TurnKeeps, Keeps
<1>2. CInv' /\ Table /\ made <= made /\ made \in 0..MaxObs /\ ClaimType
  BY <1>1, ActClaims, Numbered DEF TInv, Table, CInv
<1>3. \A o \in 1..made : o \in Ids /\ o \in 0..MaxObs
  BY Numbered DEF TInv, Table
<1>4. turn \in TurnRecords /\ TurnNamed
  BY DEF TInv, TurnNamed
<1>5. ASSUME NEW o \in 1..made, ForgetObservation(o) \/ RestoreSkill(o) \/ \E x \in Contents : UpdateSkill(o, x)
      PROVE  Table' /\ made <= made' /\ TurnNamed'
  <2>1. UNCHANGED <<made, rel, turn>>
        /\ \/ ArchiveObservation(o)
           \/ Exists(o) /\ RestoreObservation(o)
           \/ \E x \in Contents : UpdateObservation(o, x)
    BY <1>5 DEF ForgetObservation, RestoreSkill, UpdateSkill
  <2> QED BY <1>2, <1>3, <2>1, ChangeTable, SameNamed
<1>6. ASSUME NEW o \in 1..made, NEW x \in Contents, Supersede(o, x)
      PROVE  Table' /\ made <= made' /\ TurnNamed'
  <2>1. UNCHANGED <<made, rel>> /\ (obs' = obs \/ ArchiveObservation(o))
        /\ turn' = [NoTurn EXCEPT !.pc = "replace", !.tgt = o, !.content = x]
    BY <1>6 DEF Supersede
  <2>2. Table' /\ made <= made'
    BY <1>2, <1>3, <2>1, ChangeTable, RelateTable
  <2>3. turn' \in TurnRecords /\ turn'.pc = "replace" /\ turn'.tgt = o /\ turn'.content = x
    <3>1. turn' = [pc |-> "replace", tgt |-> o, content |-> x, src |-> 0]
      BY <2>1 DEF NoTurn
    <3> QED BY <1>3, <3>1, Numbered DEF TurnRecords
  <2>4. o <= made' /\ o \in Ids
    BY <1>2, <1>3, <2>1
  <2> QED BY <2>2, <2>3, <2>4 DEF TurnNamed
<1>7. ASSUME Replace PROVE Table' /\ made <= made' /\ TurnNamed'
  <2>1. UNCHANGED <<obs, made, rel>> /\ turn.pc = "replace"
        /\ (turn' = NoTurn \/ turn' = [turn EXCEPT !.pc = "save"])
    BY <1>7 DEF Replace, table
  <2>2. CASE turn' = NoTurn
    BY <1>2, <2>1, <2>2, RelateTable, NoTurnNamed
  <2>3. CASE turn' = [turn EXCEPT !.pc = "save"]
    <3>1. turn' \in TurnRecords /\ turn'.pc = "save" /\ turn'.tgt = turn.tgt /\ turn'.content = turn.content
      BY <1>4, <2>3 DEF TurnRecords
    <3>2. TurnNamed'
      BY <1>4, <2>1, <3>1 DEF TurnNamed
    <3> QED BY <1>2, <2>1, <3>2, RelateTable
  <2> QED BY <2>1, <2>2, <2>3
<1>8. ASSUME SaveReplacement PROVE Table' /\ made <= made' /\ TurnNamed'
  <2>1. rel' = rel /\ turn.pc = "save"
        /\ \/ UNCHANGED <<obs, made>> /\ turn' = NoTurn
           \/ /\ SaveObservation(turn.content, NoConv)
              /\ turn' = [turn EXCEPT !.pc = "index", !.src = made + 1]
    BY <1>8 DEF SaveReplacement
  <2>2. CASE UNCHANGED <<obs, made>> /\ turn' = NoTurn
    BY <1>2, <2>1, <2>2, RelateTable, NoTurnNamed
  <2>3. CASE /\ SaveObservation(turn.content, NoConv)
             /\ turn' = [turn EXCEPT !.pc = "index", !.src = made + 1]
    <3>1. turn.content \in Contents /\ turn.tgt \in Ids /\ turn.tgt <= made
      BY <1>4, <2>1 DEF TurnNamed
    <3>2. Table' /\ made' = made + 1 /\ made' \in Ids
      BY <1>2, <2>1, <2>3, <3>1, SaveTable
    <3>3. PICK n \in Ids : n = made + 1
      BY <3>2
    <3>4. turn' = [turn EXCEPT !.pc = "index", !.src = n] /\ n \in 0..MaxObs
      BY <2>3, <3>3, Numbered
    <3>5. turn' \in TurnRecords /\ turn'.pc = "index" /\ turn'.src = n /\ turn'.tgt = turn.tgt
          /\ turn'.content = turn.content
      BY <1>4, <3>4 DEF TurnRecords
    <3>6. turn.tgt < n /\ turn.tgt <= made' /\ made <= made'
      BY <1>2, <3>1, <3>2, <3>3, Numbered
    <3> QED BY <3>1, <3>2, <3>5, <3>6 DEF TurnNamed
  <2> QED BY <2>1, <2>2, <2>3
<1>9. ASSUME IndexReplacement PROVE Table' /\ made <= made' /\ TurnNamed'
  <2>1. UNCHANGED <<obs, made, rel>> /\ turn.pc = "index" /\ turn' = [turn EXCEPT !.pc = "relate"]
    BY <1>9 DEF IndexReplacement, table, TurnTo
  <2>2. turn' \in TurnRecords /\ turn'.pc = "relate" /\ turn'.tgt = turn.tgt /\ turn'.src = turn.src
        /\ turn'.content = turn.content
    BY <1>4, <2>1 DEF TurnRecords
  <2>3. TurnNamed'
    BY <1>4, <2>1, <2>2 DEF TurnNamed
  <2> QED BY <1>2, <2>1, <2>3, RelateTable
<1>10. ASSUME RelateReplacement PROVE Table' /\ made <= made' /\ TurnNamed'
  <2>1. UNCHANGED <<obs, made>> /\ turn.pc = "relate" /\ turn' = NoTurn
        /\ \/ rel' = rel
           \/ AddObservationRelation({[src |-> turn.src, tgt |-> turn.tgt, kind |-> "supersedes"]})
    BY <1>10 DEF RelateReplacement, Try
  <2>2. TurnNamed'
    BY <1>2, <2>1, NoTurnNamed
  <2>3. CASE rel' = rel
    BY <1>2, <2>1, <2>2, <2>3, RelateTable
  <2>4. CASE AddObservationRelation({[src |-> turn.src, tgt |-> turn.tgt, kind |-> "supersedes"]})
    <3>1. turn.tgt \in Ids /\ turn.src \in Ids /\ turn.tgt < turn.src
      BY <1>4, <2>1 DEF TurnNamed
    <3> DEFINE R == {[src |-> turn.src, tgt |-> turn.tgt, kind |-> "supersedes"]}
    <3>2. R \in SUBSET RelRecords /\ \A q \in R : q.tgt < q.src
      BY <3>1 DEF RelRecords
    <3>3. AddObservationRelation(R)
      BY <2>4
    <3> HIDE DEF R
    <3> QED BY <1>2, <2>1, <2>2, <3>2, <3>3, RelateTable
  <2> QED BY <2>1, <2>3, <2>4
<1>11. Table' /\ made <= made' /\ TurnNamed'
  BY <1>5, <1>6, <1>7, <1>8, <1>9, <1>10 DEF Skills
<1> QED BY <1>1, <1>2, <1>11, ActTable

-----------------------------------------------------------------------------
LEMMA InitGood == Init => IInv
<1> SUFFICES ASSUME Init PROVE IInv
  OBVIOUS
<1>1. Off \in WorkerRecords /\ Off.pc = "off" /\ Off.targets = {} /\ Off.rels = {}
  BY DEF Off, WorkerRecords
<1>2. ClaimType
  <2>1. RunIn("down") \in RunRecords
    BY RunIs
  <2>2. msgs \in [Convs -> Nat] /\ covered \in [Convs -> SUBSET Nat]
    BY ObservationsAssumption DEF Init
  <2>3. ext \in [Convs -> [cursor : Nat, status : {"idle", "pending", "failed"}]]
    BY DEF Init
  <2> QED BY <1>1, <2>1, <2>2, <2>3 DEF ClaimType, Init
<1>3. CursorCovers
  <2>1. \A c \in Convs : msgs[c] \in Nat /\ ext[c].cursor = 0
    BY <1>2 DEF Init, ClaimType
  <2> QED BY <2>1 DEF CursorCovers
<1>4. run.pc = "down"
  BY RunIs DEF Init
<1>5. CInv
  BY <1>1, <1>2, <1>3, <1>4 DEF CInv, Ranged, ReleaseRanged, PendingHeld, Init
<1>6. Table
  <2>1. obs \in [Ids -> ObsRecords] /\ \A o : ~Exists(o)
    BY DEF Init, ObsRecords, Exists
  <2> QED BY <2>1, Numbered DEF Table, RelationsSound, Init
<1>7. TurnNamed
  <2>1. NoTurn \in TurnRecords /\ NoTurn.pc = "off" /\ NoTurn.tgt = 0
    BY Numbered DEF NoTurn, TurnRecords
  <2> QED BY <2>1 DEF TurnNamed, Init
<1>8. \A s \in Slots : Named(worker[s])
  BY <1>1 DEF Named, Init
<1> QED BY <1>5, <1>6, <1>7, <1>8 DEF IInv, TInv

LEMMA NextKeeps ==
  ASSUME IInv, [Next]_vars
  PROVE  IInv'
<1>1. CASE Message
  BY <1>1, MessageClaims, MessageTable DEF Message, IInv
<1>2. CASE Extractions
  <2>1. PICK s \in Slots : Extraction(s)
    BY <1>2 DEF Extractions
  <2> QED BY <2>1, TalksClaims, TalksTable, ClaimClaims, MarkClaims, EndClaims, WorkerTable
          DEF Extraction, Talks, IInv
<1>3. CASE Commands
  BY <1>3, CommandKeeps
<1>4. CASE Skills
  BY <1>4, SkillKeeps
<1>5. CASE Starts
  BY <1>5, StartTable, StopClaims, RecoverClaims, ReadClaims, WriteClaims, ServingClaims DEF Starts, IInv
<1>6. CASE UNCHANGED vars
  <2>1. CInv'
    BY <1>6, ActClaims DEF IInv, vars, history
  <2>2. TInv'
    BY <1>6, IdleTable DEF IInv, CInv, vars, table
  <2> QED BY <2>1, <2>2 DEF IInv
<1> QED BY <1>1, <1>2, <1>3, <1>4, <1>5, <1>6 DEF Next

\* The inductive invariant: an extraction holds a range whose beginning is covered, a start
\* holds every pending conversation until it is released or excused, and what extractions
\* and turns have in hand was made before what they make.
THEOREM Invariance == Spec => []IInv
<1>1. IInv /\ [Next]_vars => IInv'
  BY NextKeeps
<1> QED BY InitGood, <1>1, PTL DEF Spec

\* No message is ever passed over by the extraction cursor: whatever fails, crashes, is
\* lost or overlaps, it moves only to the end of a range that was extracted.
THEOREM CursorIsCovered == Spec => []CursorCovers
<1>1. IInv => CursorCovers
  BY DEF IInv, CInv
<1> QED BY Invariance, <1>1, PTL

\* A conversation is not left locked as pending: while Run serves, an extraction of it is
\* under way, or the write that would release it failed, or a start had more to recover than
\* its cap.
THEOREM PendingIsHeld == Spec => []PendingHasWorker
<1>1. IInv => PendingHasWorker
  <2> SUFFICES ASSUME IInv, Serving, NEW c \in Convs, ext[c].status = "pending", c \notin excused
               PROVE  \E s \in Slots : worker[s].conv = c /\ worker[s].pc \notin {"claim", "mark"}
    BY DEF PendingHasWorker
  <2>1. Held(c)
    BY DEF IInv, CInv, PendingHeld, ToRelease, Serving
  <2> QED BY <2>1 DEF Held, Live
<1> QED BY Invariance, <1>1, PTL

\* Relations are between observations there are, from a newer to an older one, whatever is
\* archived, deleted or replaced while an extraction has the older one in hand.
THEOREM RelationsAreSound == Spec => []RelationsSound
<1>1. IInv => RelationsSound
  BY DEF IInv, TInv, Table
<1> QED BY Invariance, <1>1, PTL

-------------------------------------------------------------------------------
(* Summaries. *)

Statuses == {"null", "pending", "done", "failed", "indexed_failed"}
Stages == {"off", "mark", "meta", "summarize", "save", "index", "reindex",
           "done", "failed", "indexed_failed"}

JobType == job \in [Sums!Jobs -> [pc : Stages, conv : Ended \cup {Sums!NoConv}, todo : SUBSET Ended]]
SumType ==
  /\ expired \subseteq Ended /\ status \in [Ended -> Statuses]
  /\ stored \subseteq Ended /\ indexed \subseteq Ended
  /\ JobType
  /\ sumRun \in {"down", "recover", "serving"} /\ vector \in BOOLEAN
  /\ sumBudgets \in [faults : 0..MaxFaults, stops : 0..SumStops]
  /\ waived \subseteq Ended /\ deleted \subseteq waived /\ spoilt \subseteq Ended

\* A job that works has a conversation.
JobsHaveConv == \A j \in Sums!Jobs : ~Sums!At(j, "off") => Sums!Conv(j) \in Ended

\* A job that is about to index has found or stored its summary; the user may have
\* deleted it since.
IndexingIsStored ==
  \A j \in Sums!Jobs : job[j].pc \in {"index", "reindex"} => Sums!Conv(j) \in stored \cup deleted

\* A job that is about to write "done" has what "done" claims.
Justified == Short \cup waived \cup (stored \cap indexed)
DoneIsJustified == \A j \in Sums!Jobs : Sums!At(j, "done") => Sums!Conv(j) \in Justified

SumInv ==
  /\ SumType /\ JobsHaveConv
  /\ IndexingIsStored /\ DoneIsJustified
  /\ DoneMeansSummarized /\ IndexedIsStored

LEMMA SumConstants ==
  /\ Ended \subseteq Nat /\ Short \subseteq Ended
  /\ SumRetries \in Nat /\ MaxFaults \in Nat /\ SumStops \in Nat
BY MemoryAssumption, ObservationsAssumption

-----------------------------------------------------------------------------
(* The conversation a recovery goes on to. *)

LEMMA OldestIn ==
  ASSUME NEW S \in SUBSET Ended, S # {}
  PROVE  Sums!Oldest(S) \in S
<1> DEFINE Less == {p \in Nat \X Nat : p[1] < p[2]}
<1>1. S \subseteq Nat
  BY SumConstants
<1>2. IsWellFoundedOn(Less, Nat)
  BY NatLessThanWellFounded DEF OpToRel
<1>3. \A c, d \in Nat : <<d, c>> \in Less <=> d < c
  OBVIOUS
<1> HIDE DEF Less
<1>4. PICK c \in S : \A d \in S : ~(<<d, c>> \in Less)
  BY <1>1, <1>2, WFMin
<1>5. ASSUME NEW d \in S PROVE c <= d
  <2>1. c \in Nat /\ d \in Nat
    BY <1>1
  <2>2. ~(d < c)
    BY <1>3, <1>4, <2>1
  <2> QED BY <2>1, <2>2
<1> QED BY <1>5 DEF Sums!Oldest

JobRecords == [pc : Stages, conv : Ended \cup {Sums!NoConv}, todo : SUBSET Ended]

LEMMA OffTyped == Sums!Off \in JobRecords /\ Sums!Off.pc = "off"
BY DEF Sums!Off, JobRecords, Stages, Sums!NoConv

\* It starts from the beginning, with a conversation to look at, or is over.
LEMMA FollowingTyped ==
  ASSUME NEW r \in JobRecords
  PROVE  /\ Sums!Following(r) \in JobRecords
         /\ Sums!Following(r).pc \in {"off", "meta"}
         /\ Sums!Following(r).pc = "meta" => Sums!Following(r).conv \in Ended
<1>1. CASE r.todo = {}
  BY <1>1, OffTyped DEF Sums!Following
<1>2. CASE r.todo # {}
  <2>1. r.todo \in SUBSET Ended
    BY DEF JobRecords
  <2>2. Sums!Oldest(r.todo) \in Ended
    BY <1>2, <2>1, OldestIn
  <2> QED BY <1>2, <2>1, <2>2 DEF Sums!Following, JobRecords, Stages
<1> QED BY <1>1, <1>2
-----------------------------------------------------------------------------
(* The steps of a job. *)

\* What a step of job j makes of it.
LEMMA JobStep ==
  ASSUME JobType, NEW j \in Sums!Jobs, NEW r \in JobRecords, job' = [job EXCEPT ![j] = r]
  PROVE  JobType' /\ job'[j] = r /\ \A k \in Sums!Jobs : k # j => job'[k] = job[k]
BY DEF JobType, JobRecords

LEMMA GotoStep ==
  ASSUME JobType, NEW j \in Sums!Jobs, NEW pc \in Stages, Sums!Goto(j, pc)
  PROVE  /\ JobType' /\ job'[j].pc = pc /\ job'[j].conv = job[j].conv
         /\ \A k \in Sums!Jobs : k # j => job'[k] = job[k]
BY DEF JobType, Sums!Goto

LEMMA LeaveStep ==
  ASSUME JobType, NEW j \in Sums!Jobs, Sums!Leave(j)
  PROVE  /\ JobType' /\ job'[j].pc \in {"off", "meta"}
         /\ job'[j].pc = "meta" => job'[j].conv \in Ended
         /\ \A k \in Sums!Jobs : k # j => job'[k] = job[k]
<1>1. job[j] \in JobRecords
  BY DEF JobType, JobRecords
<1>2. job' = [job EXCEPT ![j] = Sums!Following(job[j])]
  BY DEF Sums!Leave
<1> QED BY <1>1, <1>2, FollowingTyped, JobStep

\* A failed call, or none, leaves the bounds.
LEMMA FaultTyped ==
  ASSUME SumType, NEW c \in Ended, Sums!Fault(c) \/ Sums!NoFault
  PROVE  sumBudgets' \in [faults : 0..MaxFaults, stops : 0..SumStops] /\ spoilt' \subseteq Ended
<1>1. CASE Sums!NoFault
  BY <1>1 DEF Sums!NoFault, SumType
<1>2. CASE Sums!Fault(c)
  <2>1. /\ sumBudgets' = [sumBudgets EXCEPT !["faults"] = sumBudgets.faults + 1]
        /\ sumBudgets.faults < MaxFaults
    BY <1>2 DEF Sums!Fault, Sums!Spend
  <2>2. sumBudgets.faults \in 0..MaxFaults /\ sumBudgets \in [faults : 0..MaxFaults, stops : 0..SumStops]
    BY DEF SumType
  <2>3. sumBudgets.faults + 1 \in 0..MaxFaults
    BY <2>1, <2>2, SumConstants
  <2>4. sumBudgets' \in [faults : 0..MaxFaults, stops : 0..SumStops]
    BY <2>1, <2>2, <2>3
  <2> QED BY <1>2, <2>4 DEF Sums!Fault, SumType
<1> QED BY <1>1, <1>2

\* Where a step of a job may go, and what it takes with it: what is left for the
\* invariant is what it says of that job.
Elsewhere(j) == \A k \in Sums!Jobs : k # j => job'[k] = job[k]
LEMMA JobKeepsInv ==
  ASSUME SumInv, NEW j \in Sums!Jobs, JobType', Elsewhere(j), Sums!JobKeeps,
         Sums!Fault(Sums!Conv(j)) \/ Sums!NoFault, Sums!Conv(j) \in Ended,
         status' \in [Ended -> Statuses],
         stored \subseteq stored', stored' \subseteq Ended,
         indexed \subseteq indexed', indexed' \subseteq stored' \cup deleted',
         waived \subseteq waived', waived' \subseteq Ended,
         job'[j].pc # "off" => job'[j].conv \in Ended,
         job'[j].pc \in {"index", "reindex"} => job'[j].conv \in stored' \cup deleted',
         job'[j].pc = "done" => job'[j].conv \in Justified',
         \A c \in Ended : status'[c] = "done" => status[c] = "done" \/ c \in Justified'
  PROVE  SumInv'
<1>1. SumType'
  BY FaultTyped DEF SumInv, SumType, Sums!JobKeeps
<1>2. Justified \subseteq Justified'
  BY DEF Justified, Sums!JobKeeps
<1>3. JobsHaveConv' /\ IndexingIsStored'
  BY DEF SumInv, JobsHaveConv, IndexingIsStored, Elsewhere, Sums!JobKeeps, Sums!At, Sums!Conv
<1>4. DoneIsJustified'
  BY <1>2 DEF SumInv, DoneIsJustified, Elsewhere, Sums!At, Sums!Conv
<1>5. DoneMeansSummarized' /\ IndexedIsStored'
  BY <1>2 DEF SumInv, DoneMeansSummarized, Sums!DoneMeansSummarized, Justified, IndexedIsStored,
     Sums!IndexedIsStored
<1> QED BY <1>1, <1>3, <1>4, <1>5 DEF SumInv

LEMMA Working ==
  ASSUME SumInv, NEW j \in Sums!Jobs, ~Sums!At(j, "off")
  PROVE  Sums!Conv(j) \in Ended /\ JobType /\ Sums!At(j, job[j].pc)
BY DEF SumInv, SumType, JobsHaveConv, Sums!At

\* What a failed call leads to
LEMMA GivesStep ==
  ASSUME SumInv, NEW j \in Sums!Jobs, Sums!Gives(j) \/ Sums!Goto(j, "failed"), Sums!Conv(j) \in Ended
  PROVE  /\ JobType' /\ Elsewhere(j) /\ job'[j].pc \in {"off", "meta", "failed"}
         /\ job'[j].pc # "off" => job'[j].conv \in Ended
<1>1. JobType /\ "failed" \in Stages
  BY DEF SumInv, SumType, Stages
<1>2. CASE Sums!Goto(j, "failed")
  BY <1>1, <1>2, GotoStep DEF Elsewhere, Sums!Conv
<1>3. CASE Sums!Leave(j)
  BY <1>1, <1>3, LeaveStep DEF Elsewhere
<1> QED BY <1>2, <1>3 DEF Sums!Gives

LEMMA MarkPendingKeeps ==
  ASSUME SumInv, NEW j \in Sums!Jobs, Sums!MarkPending(j) PROVE SumInv'
<1>1. Sums!Conv(j) \in Ended /\ JobType
  BY Working DEF Sums!MarkPending, Sums!At
<1>2. /\ JobType' /\ Elsewhere(j) /\ job'[j].pc \in {"off", "meta"}
      /\ job'[j].pc # "off" => job'[j].conv \in Ended
  <2>1. CASE Sums!Goto(j, "meta")
    BY <1>1, <2>1, GotoStep DEF Elsewhere, Stages, Sums!Conv
  <2>2. CASE Sums!Leave(j)
    BY <1>1, <2>2, LeaveStep DEF Elsewhere
  <2> QED BY <2>1, <2>2 DEF Sums!MarkPending
<1>3. /\ status' \in [Ended -> Statuses]
      /\ \A c \in Ended : status'[c] = "done" => status[c] = "done"
  BY <1>1 DEF SumInv, SumType, Sums!MarkPending, Sums!SetSummarizationStatus, Statuses
<1>4. /\ Sums!Fault(Sums!Conv(j)) \/ Sums!NoFault
      /\ Sums!JobKeeps /\ UNCHANGED <<stored, indexed, waived>>
  BY DEF Sums!MarkPending
<1>5. stored \subseteq Ended /\ waived \subseteq Ended /\ indexed \subseteq stored' \cup deleted'
  BY <1>4 DEF SumInv, SumType, IndexedIsStored, Sums!IndexedIsStored, Sums!JobKeeps
<1> QED BY <1>1, <1>2, <1>3, <1>4, <1>5, JobKeepsInv

\* What a step that looks, and writes nothing, may do with its job.
LEMMA LookingKeeps ==
  ASSUME SumInv, NEW j \in Sums!Jobs, Sums!Conv(j) \in Ended, JobType', Elsewhere(j), Sums!JobKeeps,
         Sums!Fault(Sums!Conv(j)) \/ Sums!NoFault, UNCHANGED <<status, stored, indexed>>,
         waived \subseteq waived', waived' \subseteq Ended,
         job'[j].pc # "off" => job'[j].conv \in Ended,
         job'[j].pc \in {"index", "reindex"} => job'[j].conv \in stored' \cup deleted',
         job'[j].pc = "done" => job'[j].conv \in Justified'
  PROVE  SumInv'
<1>1. /\ status' \in [Ended -> Statuses] /\ stored' \subseteq Ended
      /\ indexed' \subseteq stored' \cup deleted'
  BY DEF SumInv, SumType, IndexedIsStored, Sums!IndexedIsStored, Sums!JobKeeps
<1>2. \A c \in Ended : status'[c] = "done" => status[c] = "done"
  OBVIOUS
<1> QED BY <1>1, <1>2, JobKeepsInv

LEMMA MetaKeeps ==
  ASSUME SumInv, NEW j \in Sums!Jobs, Sums!Meta(j) \/ Sums!MetaFails(j) PROVE SumInv'
<1>1. Sums!Conv(j) \in Ended /\ JobType /\ waived \subseteq Ended
  BY Working DEF Sums!Meta, Sums!MetaFails, Sums!At, SumInv, SumType
<1>2. /\ Sums!Fault(Sums!Conv(j)) \/ Sums!NoFault
      /\ Sums!JobKeeps /\ UNCHANGED <<status, stored, indexed, waived>>
  BY DEF Sums!Meta, Sums!MetaFails
<1>3. ASSUME Sums!Gives(j) PROVE SumInv'
  BY <1>1, <1>2, <1>3, GivesStep, LookingKeeps
<1>4. CASE Sums!Meta(j)
  <2>1. PICK seen \in BOOLEAN :
          IF j \in Sums!Recoverers /\ seen
          THEN Sums!Conv(j) \in stored /\ IF vector THEN Sums!Goto(j, "reindex") ELSE Sums!Leave(j)
          ELSE Sums!Goto(j, IF Sums!Conv(j) \in Short THEN "done" ELSE "summarize")
    BY <1>4 DEF Sums!Meta
  <2>2. CASE Sums!Goto(j, "reindex") /\ Sums!Conv(j) \in stored
    BY <1>1, <1>2, <2>2, GotoStep, LookingKeeps DEF Elsewhere, Stages, Sums!Conv
  <2>3. CASE Sums!Leave(j)
    BY <1>1, <1>2, <2>3, LeaveStep, LookingKeeps DEF Elsewhere
  <2>4. CASE Sums!Goto(j, "done") /\ Sums!Conv(j) \in Short
    BY <1>1, <1>2, <2>4, GotoStep, LookingKeeps DEF Elsewhere, Stages, Sums!Conv, Justified
  <2>5. CASE Sums!Goto(j, "summarize")
    BY <1>1, <1>2, <2>5, GotoStep, LookingKeeps DEF Elsewhere, Stages, Sums!Conv
  <2> QED BY <2>1, <2>2, <2>3, <2>4, <2>5
<1> QED BY <1>3, <1>4 DEF Sums!MetaFails

LEMMA SummarizeKeeps ==
  ASSUME SumInv, NEW j \in Sums!Jobs, Sums!Summarize(j) PROVE SumInv'
<1>1. Sums!Conv(j) \in Ended /\ JobType /\ waived \subseteq Ended
  BY Working DEF Sums!Summarize, Sums!At, SumInv, SumType
<1>2. Sums!Fault(Sums!Conv(j)) \/ Sums!NoFault
  BY DEF Sums!Summarize
<1>3. Sums!JobKeeps /\ UNCHANGED <<status, stored, indexed>>
  BY DEF Sums!Summarize
<1>4. CASE Sums!Goto(j, "save") /\ UNCHANGED waived
  BY <1>1, <1>2, <1>3, <1>4, GotoStep, LookingKeeps DEF Elsewhere, Stages, Sums!Conv
<1>5. CASE Sums!Goto(j, "done") /\ waived' = waived \cup {Sums!Conv(j)}
  BY <1>1, <1>2, <1>3, <1>5, GotoStep, LookingKeeps DEF Elsewhere, Stages, Sums!Conv, Justified
<1>6. CASE (Sums!Gives(j) \/ Sums!Goto(j, "failed")) /\ UNCHANGED waived
  BY <1>1, <1>2, <1>3, <1>6, GivesStep, LookingKeeps
<1> QED BY <1>4, <1>5, <1>6 DEF Sums!Summarize

LEMMA SaveSummaryKeeps ==
  ASSUME SumInv, NEW j \in Sums!Jobs, Sums!SaveSummary(j) PROVE SumInv'
<1>1. /\ Sums!Conv(j) \in Ended /\ JobType /\ waived \subseteq Ended /\ stored \subseteq Ended
      /\ indexed \subseteq stored \cup deleted
  BY Working DEF Sums!SaveSummary, Sums!At, SumInv, SumType, IndexedIsStored, Sums!IndexedIsStored
<1>2. /\ Sums!Fault(Sums!Conv(j)) \/ Sums!NoFault
      /\ Sums!JobKeeps /\ UNCHANGED <<status, indexed>>
  BY DEF Sums!SaveSummary
<1>3. /\ status' \in [Ended -> Statuses] /\ deleted' = deleted
      /\ \A c \in Ended : status'[c] = "done" => status[c] = "done"
  BY <1>2 DEF SumInv, SumType, Sums!JobKeeps
<1>4. CASE stored' = stored \cup {Sums!Conv(j)} /\ Sums!Goto(j, "index") /\ UNCHANGED waived
  BY <1>1, <1>2, <1>3, <1>4, GotoStep, JobKeepsInv DEF Elsewhere, Stages, Sums!Conv
<1>5. CASE /\ stored' = stored \cup {Sums!Conv(j)} /\ Sums!Goto(j, "done")
           /\ waived' = waived \cup {Sums!Conv(j)}
  BY <1>1, <1>2, <1>3, <1>5, GotoStep, JobKeepsInv DEF Elsewhere, Stages, Sums!Conv, Justified
<1>6. CASE Sums!Goto(j, "failed") /\ UNCHANGED <<stored, waived>>
  BY <1>1, <1>2, <1>3, <1>6, GotoStep, JobKeepsInv DEF Elsewhere, Stages, Sums!Conv
<1> QED BY <1>4, <1>5, <1>6 DEF Sums!SaveSummary

LEMMA IndexSummaryKeeps ==
  ASSUME SumInv, NEW j \in Sums!Jobs, Sums!IndexSummary(j) PROVE SumInv'
<1>1. /\ Sums!Conv(j) \in Ended /\ JobType /\ waived \subseteq Ended /\ stored \subseteq Ended
      /\ indexed \subseteq stored \cup deleted /\ Sums!Conv(j) \in stored \cup deleted
      /\ deleted \subseteq waived
  BY Working DEF Sums!IndexSummary, Sums!At, SumInv, SumType, IndexedIsStored,
     Sums!IndexedIsStored, IndexingIsStored
<1>2. /\ Sums!Fault(Sums!Conv(j)) \/ Sums!NoFault
      /\ Sums!JobKeeps /\ UNCHANGED <<status, stored, waived>>
  BY DEF Sums!IndexSummary
<1>3. /\ status' \in [Ended -> Statuses] /\ deleted' = deleted
      /\ \A c \in Ended : status'[c] = "done" => status[c] = "done"
  BY <1>2 DEF SumInv, SumType, Sums!JobKeeps
<1>4. CASE indexed' = indexed \cup {Sums!Conv(j)} /\ Sums!Goto(j, "done")
  <2>1. Sums!Conv(j) \in Justified'
    BY <1>1, <1>2, <1>4 DEF Justified
  <2> QED BY <1>1, <1>2, <1>3, <1>4, <2>1, GotoStep, JobKeepsInv DEF Elsewhere, Stages, Sums!Conv
<1>5. CASE Sums!Goto(j, "indexed_failed") /\ UNCHANGED indexed
  BY <1>1, <1>2, <1>3, <1>5, GotoStep, JobKeepsInv DEF Elsewhere, Stages, Sums!Conv
<1>6. CASE Sums!Leave(j) /\ UNCHANGED indexed
  BY <1>1, <1>2, <1>3, <1>6, LeaveStep, JobKeepsInv DEF Elsewhere
<1> QED BY <1>4, <1>5, <1>6 DEF Sums!IndexSummary

LEMMA ConcludeKeeps ==
  ASSUME SumInv, NEW j \in Sums!Jobs, Sums!Conclude(j) PROVE SumInv'
<1>1. /\ Sums!Conv(j) \in Ended /\ JobType /\ waived \subseteq Ended /\ stored \subseteq Ended
      /\ indexed \subseteq stored \cup deleted
      /\ Sums!At(j, "done") => Sums!Conv(j) \in Justified
  BY Working DEF Sums!Conclude, Sums!At, SumInv, SumType, IndexedIsStored, Sums!IndexedIsStored,
     DoneIsJustified
<1>2. /\ Sums!Fault(Sums!Conv(j)) \/ Sums!NoFault
      /\ Sums!JobKeeps /\ UNCHANGED <<stored, indexed, waived>> /\ Sums!Leave(j)
      /\ deleted' = deleted
  BY DEF Sums!Conclude, Sums!JobKeeps
<1>3. Justified' = Justified
  BY <1>2 DEF Justified
<1>4. status \in [Ended -> Statuses] /\ job[j].pc \in Statuses
  BY DEF SumInv, SumType, Sums!Conclude, Statuses
<1>5. status' = status \/ status' = [status EXCEPT ![Sums!Conv(j)] = job[j].pc]
  BY DEF Sums!Conclude, Sums!SetSummarizationStatus
<1>6. /\ status' \in [Ended -> Statuses]
      /\ \A c \in Ended : status'[c] = "done" => status[c] = "done" \/ c \in Justified'
  BY <1>1, <1>3, <1>4, <1>5 DEF Sums!At
<1>7. stored' = stored /\ indexed' = indexed /\ waived' = waived
  BY <1>2
<1>8. /\ JobType' /\ Elsewhere(j) /\ job'[j].pc \in {"off", "meta"}
      /\ job'[j].pc = "meta" => job'[j].conv \in Ended
  BY <1>1, <1>2, LeaveStep DEF Elsewhere
<1> QED BY <1>1, <1>2, <1>6, <1>7, <1>8, JobKeepsInv

-----------------------------------------------------------------------------
(* The other steps. *)

SumBudgets == [faults : 0..MaxFaults, stops : 0..SumStops]

\* What the steps of Run and of the user find and leave.
SumAround ==
  /\ expired \subseteq Ended /\ sumRun \in {"down", "recover", "serving"}
  /\ vector \in BOOLEAN /\ spoilt \subseteq Ended /\ sumBudgets \in SumBudgets

LEMMA SumTyped == ASSUME SumInv PROVE SumAround /\ JobType
BY DEF SumInv, SumType, SumAround, SumBudgets

JobsBegin ==
  \A j \in Sums!Jobs :
    \/ job'[j] = job[j]
    \/ job'[j].pc = "off"
    \/ job'[j].pc \in {"mark", "meta"} /\ job'[j].conv \in Ended

\* A step that begins jobs, or ends them, and claims nothing.
LEMMA SumQuietKeeps ==
  ASSUME SumInv, JobType', JobsBegin, SumAround', UNCHANGED <<status, stored, indexed, waived, deleted>>
  PROVE  SumInv'
<1>1. SumType'
  BY DEF SumInv, SumType, SumAround, SumBudgets
<1>2. JobsHaveConv' /\ IndexingIsStored' /\ DoneIsJustified'
  BY DEF SumInv, JobsHaveConv, IndexingIsStored, DoneIsJustified, Justified, Sums!At, Sums!Conv,
     JobsBegin
<1>3. DoneMeansSummarized' /\ IndexedIsStored'
  BY DEF SumInv, DoneMeansSummarized, Sums!DoneMeansSummarized, IndexedIsStored, Sums!IndexedIsStored
<1> QED BY <1>1, <1>2, <1>3 DEF SumInv

LEMMA SpendTyped ==
  ASSUME sumBudgets \in SumBudgets, NEW b \in {"faults", "stops"}, Sums!Spend(b),
         b = "faults" => sumBudgets.faults < MaxFaults,
         b = "stops" => sumBudgets.stops < SumStops
  PROVE  sumBudgets' \in SumBudgets
<1>1. sumBudgets.faults \in 0..MaxFaults /\ sumBudgets.stops \in 0..SumStops
  BY DEF SumBudgets
<1>2. CASE b = "faults"
  BY <1>1, <1>2, SumConstants DEF Sums!Spend, SumBudgets
<1>3. CASE b = "stops"
  BY <1>1, <1>3, SumConstants DEF Sums!Spend, SumBudgets
<1> QED BY <1>2, <1>3

LEMMA ExpireKeeps ==
  ASSUME SumInv, NEW c \in Ended, Sums!Expire(c) PROVE SumInv'
<1> DEFINE r == [Sums!Off EXCEPT !.pc = "mark", !.conv = c]
<1>1. r \in JobRecords /\ r.pc = "mark" /\ r.conv = c
  BY DEF Sums!Off, JobRecords, Stages
<1> HIDE DEF r
<1>2. JobType' /\ JobsBegin
  <2>1. CASE UNCHANGED job
    BY <2>1, SumTyped DEF JobType, JobsBegin
  <2>2. CASE \E s \in Summarizers : job' = [job EXCEPT ![s] = r]
    BY <1>1, <2>2, SumTyped, JobStep DEF JobsBegin, Sums!Jobs
  <2> QED BY <2>1, <2>2 DEF Sums!Expire, r
<1>3. UNCHANGED <<status, stored, indexed, waived, deleted>>
  BY DEF Sums!Expire
<1>4. SumAround'
  BY SumTyped DEF Sums!Expire, Sums!GetActiveConversation, SumAround
<1> QED BY <1>2, <1>3, <1>4, SumQuietKeeps

LEMMA SumDeleteKeeps ==
  ASSUME SumInv, NEW c \in Ended, Sums!DeleteSummary(c) PROVE SumInv'
<1>1. Justified \subseteq Justified'
  BY DEF Sums!DeleteSummary, Justified
<1>2. /\ stored' = stored \ {c} /\ waived' = waived \cup {c} /\ deleted' = deleted \cup {c}
      /\ UNCHANGED <<expired, status, indexed, job, sumRun, vector, sumBudgets, spoilt>>
  BY DEF Sums!DeleteSummary
<1>3. SumType' /\ JobsHaveConv'
  BY <1>2 DEF SumInv, SumType, JobType, JobsHaveConv, Sums!At, Sums!Conv
<1>4. IndexingIsStored' /\ DoneIsJustified'
  BY <1>1, <1>2 DEF SumInv, IndexingIsStored, DoneIsJustified, Sums!At, Sums!Conv
<1>5. DoneMeansSummarized' /\ IndexedIsStored'
  BY <1>1, <1>2 DEF SumInv, DoneMeansSummarized, Sums!DoneMeansSummarized, IndexedIsStored,
     Sums!IndexedIsStored, Justified
<1> QED BY <1>3, <1>4, <1>5 DEF SumInv

LEMMA SumCrashKeeps == ASSUME SumInv, Sums!Crash PROVE SumInv'
<1>1. JobType' /\ JobsBegin
  BY OffTyped DEF Sums!Crash, JobType, JobRecords, JobsBegin
<1>2. SumAround'
  BY SumTyped, SpendTyped DEF Sums!Crash, SumAround
<1>3. UNCHANGED <<status, stored, indexed, waived, deleted>>
  BY DEF Sums!Crash
<1> QED BY <1>1, <1>2, <1>3, SumQuietKeeps

LEMMA SumBootKeeps == ASSUME SumInv, Sums!Boot \/ Sums!RestartRun PROVE SumInv'
<1>1. UNCHANGED <<status, stored, indexed, waived, deleted>> /\ UNCHANGED job
  BY DEF Sums!Boot, Sums!RestartRun
<1>2. JobType' /\ JobsBegin
  BY <1>1, SumTyped DEF JobType, JobsBegin
<1>3. sumBudgets' \in SumBudgets
  BY SumTyped, SpendTyped DEF SumAround, Sums!Boot, Sums!RestartRun, Sums!NoFault
<1>4. SumAround'
  BY <1>3, SumTyped DEF Sums!Boot, Sums!RestartRun, Sums!NoFault, SumAround
<1> QED BY <1>1, <1>2, <1>4, SumQuietKeeps

LEMMA SumRecoverKeeps == ASSUME SumInv, Sums!RecoverSummarizations PROVE SumInv'
<1>1. UNCHANGED <<status, stored, indexed, waived, deleted>>
  BY DEF Sums!RecoverSummarizations
<1>2. UNCHANGED <<expired, vector>> /\ sumRun' = "serving"
  BY DEF Sums!RecoverSummarizations
<1>3. CASE sumBudgets.faults < MaxFaults /\ Sums!Spend("faults") /\ UNCHANGED <<job, spoilt>>
  <2>1. JobType' /\ JobsBegin
    BY <1>3, SumTyped DEF JobType, JobsBegin
  <2>2. sumBudgets' \in SumBudgets
    BY <1>3, SumTyped, SpendTyped DEF SumAround
  <2>3. SumAround'
    BY <1>2, <1>3, <2>2, SumTyped DEF SumAround
  <2> QED BY <1>1, <2>1, <2>3, SumQuietKeeps
<1>4. ASSUME NEW R \in SUBSET Ended, UNCHANGED sumBudgets, spoilt' = spoilt \/ spoilt' = spoilt \ R,
             job' = [job EXCEPT ![sumBudgets.stops + 1] = Sums!Following([Sums!Off EXCEPT !.todo = R])]
      PROVE  SumInv'
  <2>1. [Sums!Off EXCEPT !.todo = R] \in JobRecords
    BY DEF Sums!Off, JobRecords, Stages, Sums!NoConv
  <2>2. sumBudgets.stops + 1 \in Sums!Jobs
    <3>1. sumBudgets.stops \in 0..SumStops
      BY SumTyped DEF SumAround, SumBudgets
    <3> QED BY <3>1, SumConstants DEF Sums!Jobs, Sums!Recoverers
  <2>3. JobType' /\ JobsBegin
    BY <1>4, <2>1, <2>2, SumTyped, FollowingTyped, JobStep DEF JobsBegin
  <2>4. SumAround'
    BY <1>2, <1>4, SumTyped DEF SumAround
  <2> QED BY <1>1, <2>3, <2>4, SumQuietKeeps
<1>5. Sums!Capped(Sums!RecoverableSummarizations) \in SUBSET Ended
  BY DEF Sums!Capped, Sums!RecoverableSummarizations
<1> QED BY <1>3, <1>4, <1>5 DEF Sums!RecoverSummarizations

-----------------------------------------------------------------------------

LEMMA SumInitGood == Sums!Init => SumInv
<1> SUFFICES ASSUME Sums!Init PROVE SumInv
  OBVIOUS
<1>1. /\ JobType /\ \A j \in Sums!Jobs : job[j].pc = "off"
  BY OffTyped DEF Sums!Init, JobType, JobRecords
<1>2. SumType
  BY <1>1, SumConstants DEF Sums!Init, SumType, Statuses
<1>3. JobsHaveConv /\ IndexingIsStored /\ DoneIsJustified
  BY <1>1 DEF JobsHaveConv, IndexingIsStored, DoneIsJustified, Sums!At
<1>4. DoneMeansSummarized /\ IndexedIsStored
  BY DEF Sums!Init, DoneMeansSummarized, Sums!DoneMeansSummarized, IndexedIsStored, Sums!IndexedIsStored
<1> QED BY <1>2, <1>3, <1>4 DEF SumInv

LEMMA SumStutter == SumInv /\ UNCHANGED sumVars => SumInv'
<1> SUFFICES ASSUME SumInv, UNCHANGED sumVars PROVE SumInv'
  OBVIOUS
<1>1. JobType' /\ JobsBegin
  BY SumTyped DEF sumVars, JobType, JobsBegin
<1>2. SumAround' /\ UNCHANGED <<status, stored, indexed, waived, deleted>>
  BY SumTyped DEF sumVars, SumAround
<1> QED BY <1>1, <1>2, SumQuietKeeps

LEMMA SumStep ==
  SumInv /\ [ObservationHalf \/ SummaryHalf]_<<half, vars, sumVars>> => SumInv'
<1> SUFFICES ASSUME SumInv, [ObservationHalf \/ SummaryHalf]_<<half, vars, sumVars>> PROVE SumInv'
  OBVIOUS
<1>1. CASE UNCHANGED sumVars
  BY <1>1, SumStutter
<1>2. ASSUME NEW c \in Ended, Sums!Expire(c) \/ Sums!DeleteSummary(c) PROVE SumInv'
  BY <1>2, ExpireKeeps, SumDeleteKeeps
<1>3. ASSUME NEW j \in Sums!Jobs, Sums!Work(j) PROVE SumInv'
  BY <1>3, MarkPendingKeeps, MetaKeeps, SummarizeKeeps, SaveSummaryKeeps, IndexSummaryKeeps,
     ConcludeKeeps DEF Sums!Work
<1>4. CASE Sums!Starts
  BY <1>4, SumCrashKeeps, SumBootKeeps, SumRecoverKeeps DEF Sums!Starts
<1>5. CASE Sums!Next
  BY <1>2, <1>3, <1>4, <1>5 DEF Sums!Next
<1> QED BY <1>1, <1>5 DEF ObservationHalf, SummaryHalf

LEMMA SumInvariance == MemorySpec => []SumInv
<1>1. MemoryInit => SumInv
  BY SumInitGood DEF MemoryInit
<1> QED BY <1>1, SumStep, PTL DEF MemorySpec

\* "done" is true of every conversation it is written of, however many jobs of one
\* conversation overlap, calls fail and processes crash (asyncSummarize,
\* recoverOneConversation).
THEOREM DoneIsNeverClaimed == MemorySpec => []DoneMeansSummarized
<1>1. SumInv => DoneMeansSummarized
  BY DEF SumInv
<1> QED BY <1>1, SumInvariance, PTL

\* The index has no summary that was not stored before, so that a crash between the
\* two writes leaves none there that cannot be listed.
THEOREM IndexFollowsTable == MemorySpec => []IndexedIsStored
<1>1. SumInv => IndexedIsStored
  BY DEF SumInv
<1> QED BY <1>1, SumInvariance, PTL
================================================================================
