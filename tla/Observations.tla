----------------------------- MODULE Observations -----------------------------
(***************************************************************************)
(* The observations of one user: extracted from conversations in the       *)
(* background (internal/session/actor.go, internal/memory/observer.go),    *)
(* kept in SQLite with their relations (internal/memory/store.go) and in   *)
(* the vector index (internal/memory/vectorstore.go), and changed by the   *)
(* skills of skills/observation.go and the /keep_both, /revert and         *)
(* /forget_old commands.                                                   *)
(*                                                                         *)
(* A message is its number in its conversation, an observation the number  *)
(* of its making; its title, summary and content hash are one content.  A  *)
(* relation kind is "supersedes" (with the confidence that hides its       *)
(* target), "doubted" (a supersession of less) or "contradicts".  Each     *)
(* statement of SQLite is a step: it has one connection.                   *)
(***************************************************************************)
EXTENDS Naturals, FiniteSets, Sequences

CONSTANTS
  Convs,
  Contents,
  Kinds,
  Slots,       \* obsSem: extractions at a time
  Interval,    \* ExtractionInterval
  MaxPerConv,  \* MaxPerConversation
  MaxRetries,  \* conversations one start recovers
  FactsPer,    \* facts of an observation, each a point of its own
  MaxRaw,      \* bound: observations in one answer
  FirstMsgs,   \* messages each conversation has from an earlier process
  MaxMsgs,     \* bound: messages of each conversation
  MaxObs,      \* bound: observations made
  MaxActs,     \* bound: commands and calls of a skill
  MaxFaults,   \* bound: calls that fail
  MaxStops     \* bound: crashes, and restarts of Run

ASSUME ObservationsAssumption ==
  /\ {Interval, MaxPerConv, MaxRetries, FactsPer, MaxRaw, MaxObs} \subseteq Nat
  /\ {MaxActs, MaxFaults, MaxStops} \subseteq Nat
  /\ Kinds \subseteq {"supersedes", "doubted", "contradicts"}
  /\ MaxMsgs \in [Convs -> Nat] /\ FirstMsgs \in [Convs -> Nat]
  /\ \A c \in Convs : FirstMsgs[c] <= MaxMsgs[c]
  /\ "none" \notin Convs /\ "none" \notin Contents

VARIABLES
  msgs,     \* how many messages each conversation has
  count,    \* obsState: turns since the last extraction
  ext,      \* observation_extraction_state
  worker,   \* the extraction in each slot of obsSem
  obs,      \* observations, by number
  made,     \* how many observations were ever made
  rel,      \* observation_relations
  entities, \* observations that have rows in observation_entities
  points,   \* the vector index: the content each observation is found by
  turn,     \* the command or skill the turn is in
  acts,     \* commands and calls of a skill so far
  run,      \* Run: down, starting or serving
  budgets,  \* faults and stops so far
  covered,  \* history: messages in the range of an extraction that succeeded
  excused   \* history: conversations whose state could not be written, or exceeded MaxRetries

table == <<obs, made, rel, entities>>
history == <<budgets, covered, excused>>
vars == <<msgs, count, ext, worker, table, points, turn, acts, run, history>>

Ids == 1..MaxObs
NoConv == "none"
NoObs == [content |-> "none", conv |-> NoConv, archived |-> FALSE]
NoPoint == "none"
Off == [pc |-> "off", conv |-> NoConv, after |-> 0, upto |-> 0, targets |-> {}, raw |-> <<>>,
        saved |-> {}, rels |-> {}]
NoTurn == [pc |-> "off", tgt |-> 0, content |-> "none", src |-> 0]
RunIn(pc) == [pc |-> pc, todo |-> {}, conv |-> NoConv, cursor |-> 0, booted |-> FALSE]

Init ==
  /\ msgs = FirstMsgs /\ count = [c \in Convs |-> 0]
  /\ \E status \in [Convs -> {"idle", "pending", "failed"}] : \* no row is as good as "idle"
       /\ \A c \in Convs : FirstMsgs[c] = 0 => status[c] = "idle"
       /\ ext = [c \in Convs |-> [cursor |-> 0, status |-> status[c]]]
  /\ worker = [s \in Slots |-> Off]
  /\ obs = [o \in Ids |-> NoObs] /\ made = 0 /\ rel = {} /\ entities = {}
  /\ points = [o \in Ids |-> NoPoint]
  /\ turn = NoTurn /\ acts = 0 /\ run = RunIn("down")
  /\ budgets = [faults |-> 0, stops |-> 0]
  /\ covered = [c \in Convs |-> {}] /\ excused = {}

Spend(b) == budgets' = [budgets EXCEPT ![b] = @ + 1]
Fault == budgets.faults < MaxFaults /\ Spend("faults")
NoFault == UNCHANGED budgets

-------------------------------------------------------------------------------
\* The store.  The content hash is unique among all the user's rows, also the archived.

Exists(o) == o \in Ids /\ obs[o] # NoObs
Active(o) == Exists(o) /\ ~obs[o].archived
ObservationExistsByHash(x) == \E o \in Ids : Active(o) /\ obs[o].content = x
HashTaken(x) == \E o \in Ids : Exists(o) /\ obs[o].content = x
CountObservations(c) == Cardinality({o \in Ids : Active(o) /\ obs[o].conv = c})
GetRecentObservationsByType == {o \in Ids : Active(o)}
GetSupersededObservationIDs == {r.tgt : r \in {q \in rel : q.kind = "supersedes"}}

SaveObservation(x, c) ==
  /\ ~HashTaken(x) /\ made < MaxObs
  /\ made' = made + 1
  /\ obs' = [obs EXCEPT ![made + 1] = [content |-> x, conv |-> c, archived |-> FALSE]]

ArchiveObservation(o) == obs' = [obs EXCEPT ![o].archived = Exists(o)]
RestoreObservation(o) == obs' = [obs EXCEPT ![o].archived = FALSE]
UpdateObservation(o, x) ==
  obs' = IF Active(o) /\ ~\E p \in Ids \ {o} : Exists(p) /\ obs[p].content = x
         THEN [obs EXCEPT ![o].content = x] ELSE obs

\* Mutant: the relations the deleted observation is the source of stay
DeleteTargeted(o) ==
  /\ rel' = {r \in rel : r.tgt # o}
  /\ entities' = entities \ {o}
  /\ obs' = [obs EXCEPT ![o] = NoObs]

DeleteObservation(o) ==
  /\ rel' = {r \in rel : r.src # o /\ r.tgt # o}
  /\ entities' = entities \ {o}
  /\ obs' = [obs EXCEPT ![o] = NoObs]

\* INSERT ... WHERE both observations exist
AddObservationRelation(R) == rel' = rel \cup {r \in R : Exists(r.src) /\ Exists(r.tgt)}
Supersedes(o) == {r \in rel : r.tgt = o /\ r.kind \in {"supersedes", "doubted"}}
DeleteSupersessionRelation(o) == rel' = rel \ Supersedes(o)

Numbers(S) == {r.id : r \in S}
IndexObservation(S) ==
  points' = [o \in Ids |-> IF o \in Numbers(S) THEN (CHOOSE r \in S : r.id = o).content ELSE points[o]]

\* What a search may find: by its vector, whatever became of the observation; by a keyword
SearchObservations == {o \in Ids : points[o] # NoPoint}
SearchObservationsFTS == {o \in Ids : Active(o)}
HybridSearchObservations == SearchObservations \cup SearchObservationsFTS
GetRecentObservations == {o \in Ids : Active(o)}
\* What may stand in the system prompt
Shown == (HybridSearchObservations \cup GetRecentObservations) \ GetSupersededObservationIDs

-------------------------------------------------------------------------------
\* A message, and the trigger of an extraction

Serving == run.pc = "serving"
Claiming == \E s \in Slots : worker[s].pc \in {"claim", "mark"}
TurnFree == Serving /\ turn.pc = "off" /\ ~Claiming

GetMaxMessageRowid(c) == msgs[c]
GetMessagesSinceRowid(after, upto) == (after + 1)..upto

\* checkObservationTrigger: after five idle minutes, or when the interval is full and the
\* cooldown over.  A full semaphore leaves the counter as it is.
UserMessage(c) ==
  /\ TurnFree /\ msgs[c] < MaxMsgs[c]
  /\ msgs' = [msgs EXCEPT ![c] = @ + 1]
  /\ LET n == count[c] + 1
     IN \/ /\ count' = [count EXCEPT ![c] = n] /\ UNCHANGED worker
        \/ /\ n > 1 \/ n >= Interval
           /\ \E s \in Slots :
                /\ worker[s].pc = "off"
                /\ worker' = [worker EXCEPT ![s] = [Off EXCEPT !.pc = "claim", !.conv = c]]
           /\ count' = [count EXCEPT ![c] = 0]
  /\ UNCHANGED <<ext, table, points, turn, acts, run, history>>

\* The state and the last message are read; a state that cannot be read is taken as none
Claim(s) ==
  /\ worker[s].pc = "claim"
  /\ \E lost \in BOOLEAN :
       /\ IF lost THEN Fault ELSE NoFault
       /\ LET c == worker[s].conv
              after == IF lost THEN 0 ELSE ext[c].cursor
          IN worker' = [worker EXCEPT ![s] =
               IF (~lost /\ ext[c].status = "pending") \/ GetMaxMessageRowid(c) <= after THEN Off
               ELSE [@ EXCEPT !.pc = "mark", !.after = after, !.upto = GetMaxMessageRowid(c)]]
  /\ UNCHANGED <<msgs, count, ext, table, points, turn, acts, run, covered, excused>>

UpdateExtractionState(c, cursor, status) ==
  /\ ext' = [ext EXCEPT ![c] = [cursor |-> cursor, status |-> status]]
  /\ excused' = excused \ {c}

MarkPending(s) ==
  /\ worker[s].pc = "mark"
  /\ LET w == worker[s]
     IN \/ /\ UpdateExtractionState(w.conv, w.after, "pending") /\ NoFault
           /\ worker' = [worker EXCEPT ![s].pc = "load"]
        \/ /\ Fault /\ worker' = [worker EXCEPT ![s] = Off] /\ UNCHANGED <<ext, excused>>
  /\ UNCHANGED <<msgs, count, table, points, turn, acts, run, covered>>

-------------------------------------------------------------------------------
\* An extraction: ObservationExtractor.Extract, then what becomes of its result

WorkerKeeps == UNCHANGED <<msgs, count, turn, acts, run, covered>>
WorkerTo(s, pc) == worker' = [worker EXCEPT ![s].pc = pc]
Fails(s) ==
  worker' = [worker EXCEPT ![s] = [@ EXCEPT !.pc = "fail", !.targets = {}, !.raw = <<>>, !.saved = {}, !.rels = {}]]

\* Messages, titles and the observations that may be superseded are read, in this order;
\* the last may fail without harm.  A short transcript ends it.
Load(s) ==
  /\ worker[s].pc = "load"
  /\ \/ /\ NoFault
        /\ \/ worker' = [worker EXCEPT ![s].pc = "call", ![s].targets = GetRecentObservationsByType]
           \/ WorkerTo(s, "persist")
     \/ Fault /\ (Fails(s) \/ WorkerTo(s, "call"))
  /\ WorkerKeeps /\ UNCHANGED <<ext, table, points, excused>>

\* The model's answer; what cannot be parsed is no observation
Answer(s) ==
  /\ worker[s].pc = "call"
  /\ \/ NoFault /\ \E n \in 0..MaxRaw : \E raw \in [1..n -> Contents] :
          worker' = [worker EXCEPT ![s].pc = "check", ![s].raw = raw]
     \/ Fault /\ Fails(s)
  /\ WorkerKeeps /\ UNCHANGED <<ext, table, points, excused>>

\* Is there such an observation already, and are there not too many?
Check(s) ==
  /\ worker[s].pc = "check"
  /\ LET w == worker[s]
     IN \/ /\ NoFault
           /\ worker' = [worker EXCEPT ![s] =
                IF w.raw = <<>> THEN [w EXCEPT !.pc = "index"]
                ELSE IF ObservationExistsByHash(Head(w.raw)) THEN [w EXCEPT !.raw = Tail(@)]
                ELSE IF CountObservations(w.conv) >= MaxPerConv THEN [w EXCEPT !.raw = <<>>]
                ELSE [w EXCEPT !.pc = "save"]]
        \/ w.raw # <<>> /\ Fault /\ Fails(s)
  /\ WorkerKeeps /\ UNCHANGED <<ext, table, points, excused>>

\* Saved, with the relation the answer gives it to an observation that was read
Save(s) ==
  /\ worker[s].pc = "save"
  /\ LET w == worker[s]
         new == made + 1
     IN \/ /\ SaveObservation(Head(w.raw), w.conv) /\ NoFault
           /\ \E R \in {{}} \cup {{q} : q \in [src : {new}, tgt : w.targets, kind : Kinds]} :
                worker' = [worker EXCEPT ![s] =
                  [w EXCEPT !.pc = "check", !.raw = Tail(@), !.rels = @ \cup R,
                            !.saved = @ \cup {[id |-> new, content |-> Head(w.raw)]}]]
        \/ /\ HashTaken(Head(w.raw)) /\ NoFault
           /\ Fails(s) /\ UNCHANGED <<obs, made>>
        \/ Fault /\ Fails(s) /\ UNCHANGED <<obs, made>>
  /\ WorkerKeeps /\ UNCHANGED <<ext, rel, entities, points, excused>>

\* Each observation is indexed as it was extracted, as well as it goes
Index(s) ==
  /\ worker[s].pc = "index"
  /\ \E S \in SUBSET worker[s].saved :
       /\ IF S = worker[s].saved THEN NoFault ELSE Fault
       /\ IndexObservation(S)
  /\ WorkerTo(s, "persist")
  /\ WorkerKeeps /\ UNCHANGED <<ext, table, excused>>

SaveEntities(s) == entities' = entities \cup Numbers(worker[s].saved)

\* Entities and relations, as well as it goes; then the user is told of the relations
Persist(s) ==
  /\ worker[s].pc = "persist"
  /\ \/ SaveEntities(s) /\ AddObservationRelation(worker[s].rels) /\ NoFault
     \/ UNCHANGED entities /\ AddObservationRelation(worker[s].rels) /\ Fault
     \/ SaveEntities(s) /\ UNCHANGED rel /\ Fault
  /\ WorkerTo(s, "finish")
  /\ WorkerKeeps /\ UNCHANGED <<ext, obs, made, points, excused>>

\* The cursor passes what was extracted; if that cannot be written the extraction stays pending
Finish(s) ==
  /\ worker[s].pc = "finish"
  /\ LET w == worker[s]
     IN /\ covered' = [covered EXCEPT ![w.conv] = @ \cup GetMessagesSinceRowid(w.after, w.upto)]
        /\ \/ UpdateExtractionState(w.conv, w.upto, "idle") /\ NoFault
           \/ UNCHANGED ext /\ excused' = excused \cup {w.conv} /\ Fault
  /\ worker' = [worker EXCEPT ![s] = Off]
  /\ UNCHANGED <<msgs, count, table, points, turn, acts, run>>

\* Mutant: a failed extraction passes its range
FailPast(s) ==
  /\ worker[s].pc = "fail"
  /\ LET w == worker[s]
     IN \/ UpdateExtractionState(w.conv, w.upto, "failed") /\ NoFault
        \/ UNCHANGED ext /\ excused' = excused \cup {w.conv} /\ Fault
  /\ worker' = [worker EXCEPT ![s] = Off]
  /\ WorkerKeeps /\ UNCHANGED <<table, points>>

\* Failed: the cursor is written back.  What was saved is neither indexed nor related.
Fail(s) ==
  /\ worker[s].pc = "fail"
  /\ LET w == worker[s]
     IN \/ UpdateExtractionState(w.conv, w.after, "failed") /\ NoFault
        \/ UNCHANGED ext /\ excused' = excused \cup {w.conv} /\ Fault
  /\ worker' = [worker EXCEPT ![s] = Off]
  /\ WorkerKeeps /\ UNCHANGED <<table, points>>

-------------------------------------------------------------------------------
\* Commands of the user.  Except for the deletion, a statement that fails is passed over.

Act == TurnFree /\ acts < MaxActs /\ acts' = acts + 1
Keeps == UNCHANGED <<msgs, count, ext, worker, run, covered, excused>>
TurnKeeps == Keeps /\ UNCHANGED acts
TurnTo(pc) == turn' = [turn EXCEPT !.pc = pc]
TurnAt(pc, o) == turn' = [NoTurn EXCEPT !.pc = pc, !.tgt = o]
Try(A, keep) == (A /\ NoFault) \/ (Fault /\ UNCHANGED keep)

KeepBoth(o) ==
  /\ Act /\ Try(DeleteSupersessionRelation(o), rel) /\ TurnAt("restore", o)
  /\ Keeps /\ UNCHANGED <<obs, made, entities, points>>

\* /revert archives a replacement, frees the observation of all of them, and restores it
Revert(o) ==
  /\ Act /\ TurnAt("unrelate", o)
  /\ IF Supersedes(o) = {} THEN UNCHANGED <<obs, budgets>>
     ELSE \E r \in Supersedes(o) : Try(ArchiveObservation(r.src), obs)
  /\ Keeps /\ UNCHANGED <<made, rel, entities, points>>

Unrelate ==
  /\ turn.pc = "unrelate" /\ Try(DeleteSupersessionRelation(turn.tgt), rel) /\ TurnTo("restore")
  /\ TurnKeeps /\ UNCHANGED <<obs, made, entities, points>>

RestoreTarget ==
  /\ turn.pc = "restore" /\ turn' = NoTurn
  /\ Try(IF Exists(turn.tgt) THEN RestoreObservation(turn.tgt) ELSE UNCHANGED obs, obs)
  /\ TurnKeeps /\ UNCHANGED <<made, rel, entities, points>>

ForgetOld(o) ==
  /\ Act
  /\ IF Exists(o)
     THEN Try(DeleteObservation(o) /\ TurnAt("unindex", o), <<rel, entities, obs, turn>>)
     ELSE UNCHANGED <<rel, entities, obs, turn>> /\ NoFault
  /\ Keeps /\ UNCHANGED <<made, points>>

DeleteObservationVector ==
  /\ turn.pc = "unindex" /\ turn' = NoTurn
  /\ Try(points' = [points EXCEPT ![turn.tgt] = NoPoint], points)
  /\ TurnKeeps /\ UNCHANGED table

-------------------------------------------------------------------------------
\* Skills

ForgetObservation(o) ==
  /\ Act /\ Active(o) /\ ArchiveObservation(o) /\ NoFault
  /\ Keeps /\ UNCHANGED <<made, rel, entities, points, turn>>

RestoreSkill(o) ==
  /\ Act /\ Exists(o) /\ obs[o].archived /\ RestoreObservation(o) /\ NoFault
  /\ Keeps /\ UNCHANGED <<made, rel, entities, points, turn>>

UpdateSkill(o, x) ==
  /\ Act /\ UpdateObservation(o, x) /\ NoFault
  /\ Keeps /\ UNCHANGED <<made, rel, entities, points, turn>>

\* supersede_observation archives its target first.  One there is not counts as archived:
\* the store has one error for both.
Supersede(o, x) ==
  /\ Act /\ o <= made
  /\ turn' = [NoTurn EXCEPT !.pc = "replace", !.tgt = o, !.content = x]
  /\ IF Exists(o) THEN ArchiveObservation(o) ELSE UNCHANGED obs
  /\ NoFault /\ Keeps /\ UNCHANGED <<made, rel, entities, points>>

Replace ==
  /\ turn.pc = "replace"
  /\ \/ /\ turn' = IF ObservationExistsByHash(turn.content) THEN NoTurn
                    ELSE [turn EXCEPT !.pc = "save"]
        /\ NoFault
     \/ Fault /\ turn' = NoTurn
  /\ TurnKeeps /\ UNCHANGED <<table, points>>

\* Saved outside of any conversation
SaveReplacement ==
  /\ turn.pc = "save"
  /\ \/ /\ SaveObservation(turn.content, NoConv) /\ NoFault
        /\ turn' = [turn EXCEPT !.pc = "index", !.src = made + 1]
     \/ HashTaken(turn.content) /\ NoFault /\ turn' = NoTurn /\ UNCHANGED <<obs, made>>
     \/ Fault /\ turn' = NoTurn /\ UNCHANGED <<obs, made>>
  /\ TurnKeeps /\ UNCHANGED <<rel, entities, points>>

IndexReplacement ==
  /\ turn.pc = "index" /\ TurnTo("relate")
  /\ Try(IndexObservation({[id |-> turn.src, content |-> turn.content]}), points)
  /\ TurnKeeps /\ UNCHANGED table

RelateReplacement ==
  /\ turn.pc = "relate" /\ turn' = NoTurn
  /\ Try(AddObservationRelation({[src |-> turn.src, tgt |-> turn.tgt, kind |-> "supersedes"]}), rel)
  /\ TurnKeeps /\ UNCHANGED <<obs, made, entities, points>>

-------------------------------------------------------------------------------
\* Run: it starts with the process, and anew after a panic; extractions outlive the panic

RunKeeps == UNCHANGED <<msgs, count, worker, turn, acts, covered>>

Crash ==
  /\ run.pc # "down" /\ budgets.stops < MaxStops /\ Spend("stops")
  /\ run' = RunIn("down") /\ turn' = NoTurn
  /\ worker' = [s \in Slots |-> Off] /\ count' = [c \in Convs |-> 0]
  /\ UNCHANGED <<msgs, ext, table, points, acts, covered, excused>>

Boot ==
  /\ run.pc = "down" /\ run' = [RunIn("recover") EXCEPT !.booted = TRUE]
  /\ UNCHANGED <<msgs, count, ext, worker, table, points, turn, acts, history>>

RestartRun ==
  /\ Serving /\ budgets.stops < MaxStops /\ Spend("stops") /\ run' = RunIn("recover")
  /\ UNCHANGED <<msgs, count, ext, worker, table, points, turn, acts, covered, excused>>

\* Mutant: only failed extractions are taken up again
RecoverableFailed == {c \in Convs : ext[c].status = "failed"}
RecoverableExtractions == {c \in Convs : ext[c].status \in {"failed", "pending"}}

\* The oldest first; which are the oldest is left open
RecoverExtractions ==
  /\ run.pc = "recover"
  /\ LET R == RecoverableExtractions
     IN \/ /\ \E S \in SUBSET R :
                /\ Cardinality(S) = IF Cardinality(R) < MaxRetries THEN Cardinality(R) ELSE MaxRetries
                /\ run' = [run EXCEPT !.pc = "reset", !.todo = S]
                /\ excused' = excused \cup (R \ S)
           /\ NoFault
        \/ Fault /\ run' = [run EXCEPT !.pc = "reset"] /\ excused' = excused \cup R
  /\ RunKeeps /\ UNCHANGED <<ext, table, points>>

ResetRead ==
  /\ run.pc = "reset" /\ run.todo # {}
  /\ \E c \in run.todo : \E lost \in BOOLEAN :
       /\ IF lost THEN Fault ELSE NoFault
       /\ run' = [run EXCEPT !.pc = "write", !.todo = @ \ {c}, !.conv = c,
                             !.cursor = IF lost THEN 0 ELSE ext[c].cursor]
  /\ RunKeeps /\ UNCHANGED <<ext, table, points, excused>>

ResetWrite ==
  /\ run.pc = "write" /\ run' = [run EXCEPT !.pc = "reset"]
  /\ \/ UpdateExtractionState(run.conv, run.cursor, "idle") /\ NoFault
     \/ Fault /\ UNCHANGED ext /\ excused' = excused \cup {run.conv}
  /\ RunKeeps /\ UNCHANGED <<table, points>>

\* CountObservationPoints counts what there is of facts and of observations gone as well
CountPoints == {o \in Ids : points[o] # NoPoint}
Reindexed(S, kept) == points' = [o \in Ids |-> IF o \in S THEN obs[o].content ELSE kept[o]]
ReindexMissing ==
  /\ run.pc = "reset" /\ run.todo = {} /\ run' = RunIn("serving")
  /\ LET A == {o \in Ids : Active(o)}
         n == Cardinality(CountPoints)
     IN \/ \E d \in BOOLEAN : \* the collection is of another dimension, and made anew
             /\ d => run.booted /\ A # {}
             /\ \E count1 \in n..(n * (1 + FactsPer)) :
                  LET total == IF d THEN 0 ELSE count1
                      kept == IF d THEN [o \in Ids |-> NoPoint] ELSE points
                  IN \/ total >= Cardinality(A) /\ UNCHANGED points /\ NoFault
                     \/ total < Cardinality(A) /\ Reindexed(A, kept) /\ NoFault
                     \/ /\ total < Cardinality(A) /\ Fault
                        /\ \E o \in A : Reindexed({p \in A : p < o}, kept)
        \/ Fault /\ UNCHANGED points
  /\ RunKeeps /\ UNCHANGED <<ext, table, excused>>

-------------------------------------------------------------------------------

Message == \E c \in Convs : UserMessage(c)
Extraction(s) ==
  \/ Claim(s) \/ MarkPending(s) \/ Load(s) \/ Answer(s) \/ Check(s) \/ Save(s)
  \/ Index(s) \/ Persist(s) \/ Finish(s) \/ Fail(s)
Extractions == \E s \in Slots : Extraction(s)
Commands ==
  \/ \E o \in 1..made : KeepBoth(o) \/ Revert(o) \/ ForgetOld(o)
  \/ Unrelate \/ RestoreTarget \/ DeleteObservationVector
Skills ==
  \/ \E o \in 1..made : ForgetObservation(o) \/ RestoreSkill(o)
  \/ \E o \in 1..made, x \in Contents : UpdateSkill(o, x) \/ Supersede(o, x)
  \/ Replace \/ SaveReplacement \/ IndexReplacement \/ RelateReplacement
Starts == Crash \/ Boot \/ RestartRun \/ RecoverExtractions \/ ResetRead \/ ResetWrite \/ ReindexMissing

Next == Message \/ Extractions \/ Commands \/ Skills \/ Starts
Spec == Init /\ [][Next]_vars
-------------------------------------------------------------------------------
(***************************************************************************)
(* Properties.                                                             *)
(***************************************************************************)

\* The cursor passes a message only in an extraction that succeeded with it in range,
\* whatever failed, crashed or overlapped before (asyncExtractObservations)
CursorCovers ==
  \A c \in Convs : ext[c].cursor <= msgs[c] /\ 1..ext[c].cursor \subseteq covered[c]

\* "pending" locks a conversation only while an extraction of it runs, or the write that
\* would release it failed, or a start had more to recover than its cap
PendingHasWorker ==
  Serving => \A c \in Convs : ext[c].status = "pending" =>
    \/ c \in excused
    \/ \E s \in Slots : worker[s].conv = c /\ worker[s].pc \notin {"claim", "mark"}

\* A relation is of two observations there are, the source the newer one: observations
\* never hide each other, and what hides one can be asked for (AddObservationRelation
\* and DeleteObservation beside an extraction that has read its targets)
RelationsSound ==
  \A r \in rel : Exists(r.src) /\ Exists(r.tgt) /\ r.tgt < r.src

\* An archived observation is out of what a search and the prompt show until it is restored
\* (buildSystemPrompt; so the restore_observation skill has it, skills/observation.go:101)
ArchivedNotShown == \A o \in Shown : ~obs[o].archived
===============================================================================
