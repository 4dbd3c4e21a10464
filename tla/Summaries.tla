------------------------------ MODULE Summaries ------------------------------
(***************************************************************************)
(* What becomes of a conversation nobody has written in for four hours: the *)
(* next message of its chat begins another one (Store.GetActiveConversation in *)
(* internal/memory/store.go), and internal/session/actor.go has it summarized *)
(* in the background, stores the summary and indexes it.  Run takes up what an *)
(* earlier process or an earlier Run did not get done.                     *)
(*                                                                         *)
(* Conversations are numbers, the oldest the smallest.  The text of a      *)
(* summary is left out: the row keeps the first one.                       *)
(***************************************************************************)
EXTENDS Naturals, FiniteSets

CONSTANTS
  Convs,
  Short,       \* conversations with fewer than MinMsgToSummarize messages
  Slots,       \* sumSem: summaries of expired conversations at a time
  MaxRetries,  \* conversations one start recovers
  MaxFaults,   \* bound: calls that fail
  MaxStops     \* bound: crashes, and restarts of Run

Recoverers == 1..(MaxStops + 1)  \* the goroutine of each recoverSummarizations

ASSUME SummariesAssumption ==
  /\ Convs \subseteq Nat /\ Short \subseteq Convs
  /\ {MaxRetries, MaxFaults, MaxStops} \subseteq Nat /\ Slots \cap Recoverers = {}

VARIABLES
  expired,  \* conversations that another one has taken the place of
  status,   \* conversations.summarization_status
  stored,   \* conversations with a row in conversation_summaries
  indexed,  \* conversations whose summary a search finds
  job,      \* the goroutines that summarize
  run,      \* Run: down, starting or serving
  vector,   \* did the process open the vector store?
  budgets,  \* faults and stops so far
  waived,   \* history: found empty, deleted, or done by a process without vector store
  deleted,  \* history: summaries the user has deleted
  spoilt    \* history: conversations a call for which failed, or whose job was stopped

vars == <<expired, status, stored, indexed, job, run, vector, budgets, waived, deleted, spoilt>>

Jobs == Slots \cup Recoverers
NoConv == "none"
Off == [pc |-> "off", conv |-> NoConv, todo |-> {}]
Recoverable == {"pending", "failed", "indexed_failed"}

Init ==
  /\ expired = {} /\ status = [c \in Convs |-> "null"]
  /\ stored = {} /\ indexed = {}
  /\ job = [j \in Jobs |-> Off]
  /\ run = "down" /\ vector = TRUE
  /\ budgets = [faults |-> 0, stops |-> 0]
  /\ waived = {} /\ deleted = {} /\ spoilt = {}

Spend(b) == budgets' = [budgets EXCEPT ![b] = @ + 1]
Fault(c) == budgets.faults < MaxFaults /\ Spend("faults") /\ spoilt' = spoilt \cup {c}
NoFault == UNCHANGED <<budgets, spoilt>>

-------------------------------------------------------------------------------
\* A message in a chat whose conversation is over.  With both slots taken the
\* conversation is passed over, its status stays as it is.

GetActiveConversation(c) == c \notin expired /\ expired' = expired \cup {c}

Expire(c) ==
  /\ run = "serving" /\ GetActiveConversation(c)
  /\ IF \E s \in Slots : job[s].pc = "off"
     THEN \E s \in Slots : job[s].pc = "off" /\ job' = [job EXCEPT ![s] = [Off EXCEPT !.pc = "mark", !.conv = c]]
     ELSE UNCHANGED job
  /\ UNCHANGED <<status, stored, indexed, run, vector, budgets, waived, deleted, spoilt>>

-------------------------------------------------------------------------------
\* A job.  One of recoverSummarizations goes on to its next conversation, the oldest
\* first, whatever became of the last; it leaves the status alone where an expired
\* conversation's job writes "failed".

Oldest(S) == CHOOSE c \in S : \A d \in S : c <= d
\* Mutant: a failure ends the recovery
FollowingFault(r) == IF r.todo = {} \/ budgets.faults > 0 THEN Off
                     ELSE [pc |-> "meta", conv |-> Oldest(r.todo), todo |-> r.todo \ {Oldest(r.todo)}]
Following(r) == IF r.todo = {} THEN Off
                ELSE [pc |-> "meta", conv |-> Oldest(r.todo), todo |-> r.todo \ {Oldest(r.todo)}]

At(j, pc) == job[j].pc = pc
Conv(j) == job[j].conv
Goto(j, pc) == job' = [job EXCEPT ![j].pc = pc]
Leave(j) == job' = [job EXCEPT ![j] = Following(@)]
JobKeeps == UNCHANGED <<expired, run, vector, deleted>>

\* What a call that failed leads to, with the status to be written
Gives(j) == IF j \in Slots THEN Goto(j, "failed") ELSE Leave(j)
SetSummarizationStatus(c, s) == status' = [status EXCEPT ![c] = s]

MarkPending(j) ==
  /\ At(j, "mark")
  /\ \/ SetSummarizationStatus(Conv(j), "pending") /\ Goto(j, "meta") /\ NoFault
     \/ Fault(Conv(j)) /\ Leave(j) /\ UNCHANGED status
  /\ JobKeeps /\ UNCHANGED <<stored, indexed, waived>>

\* A recovery of a conversation that has a summary only indexes it, if it can; a
\* summary that cannot be read is taken as none.
Meta(j) ==
  /\ At(j, "meta")
  /\ \E seen \in {Conv(j) \in stored} \cup (IF j \in Recoverers THEN {FALSE} ELSE {}) :
       /\ IF seen = (Conv(j) \in stored) THEN NoFault ELSE Fault(Conv(j))
       /\ IF j \in Recoverers /\ seen
          THEN IF vector THEN Goto(j, "reindex") ELSE Leave(j)
          ELSE Goto(j, IF Conv(j) \in Short THEN "done" ELSE "summarize")
  /\ JobKeeps /\ UNCHANGED <<status, stored, indexed, waived>>

MetaFails(j) ==
  /\ At(j, "meta") /\ Fault(Conv(j)) /\ Gives(j)
  /\ JobKeeps /\ UNCHANGED <<status, stored, indexed, waived>>

\* The messages are read, the model asked; of a transcript without text there is no summary
Summarize(j) ==
  /\ At(j, "summarize")
  /\ \/ Goto(j, "save") /\ NoFault /\ UNCHANGED waived
     \/ Goto(j, "done") /\ NoFault /\ waived' = waived \cup {Conv(j)}
     \/ Fault(Conv(j)) /\ (Gives(j) \/ Goto(j, "failed")) /\ UNCHANGED waived
  /\ JobKeeps /\ UNCHANGED <<status, stored, indexed>>

\* Mutant: whether the summary could be stored is not asked
SaveUnchecked(j) ==
  /\ At(j, "save") /\ Goto(j, "index")
  /\ \/ stored' = stored \cup {Conv(j)} /\ NoFault
     \/ Fault(Conv(j)) /\ UNCHANGED stored
  /\ JobKeeps /\ UNCHANGED <<status, indexed, waived>>

\* INSERT OR IGNORE
SaveSummary(j) ==
  /\ At(j, "save")
  /\ \/ /\ stored' = stored \cup {Conv(j)} /\ NoFault
        /\ IF vector THEN Goto(j, "index") /\ UNCHANGED waived
           ELSE Goto(j, "done") /\ waived' = waived \cup {Conv(j)}
     \/ Fault(Conv(j)) /\ Goto(j, "failed") /\ UNCHANGED <<stored, waived>>
  /\ JobKeeps /\ UNCHANGED <<status, indexed>>

\* Mutant: a summary that could not be indexed is done
IndexAnyway(j) ==
  /\ job[j].pc \in {"index", "reindex"} /\ Goto(j, "done")
  /\ \/ indexed' = indexed \cup {Conv(j)} /\ NoFault
     \/ Fault(Conv(j)) /\ UNCHANGED indexed
  /\ JobKeeps /\ UNCHANGED <<status, stored, waived>>

IndexSummary(j) ==
  /\ job[j].pc \in {"index", "reindex"}
  /\ \/ indexed' = indexed \cup {Conv(j)} /\ Goto(j, "done") /\ NoFault
     \/ /\ Fault(Conv(j)) /\ UNCHANGED indexed
        /\ IF At(j, "index") THEN Goto(j, "indexed_failed") ELSE Leave(j)
  /\ JobKeeps /\ UNCHANGED <<status, stored, waived>>

Conclude(j) ==
  /\ job[j].pc \in {"done", "failed", "indexed_failed"}
  /\ \/ SetSummarizationStatus(Conv(j), job[j].pc) /\ NoFault
     \/ Fault(Conv(j)) /\ UNCHANGED status
  /\ Leave(j)
  /\ JobKeeps /\ UNCHANGED <<stored, indexed, waived>>

-------------------------------------------------------------------------------
\* The skill: the row goes, what the index has stays

DeleteSummary(c) ==
  /\ run = "serving" /\ c \in stored /\ stored' = stored \ {c}
  /\ waived' = waived \cup {c} /\ deleted' = deleted \cup {c}
  /\ UNCHANGED <<expired, status, indexed, job, run, vector, budgets, spoilt>>

-------------------------------------------------------------------------------
\* Run: jobs outlive a panic of it, and end with the process

Crash ==
  /\ run # "down" /\ budgets.stops < MaxStops /\ Spend("stops")
  /\ run' = "down" /\ job' = [j \in Jobs |-> Off]
  /\ spoilt' = Convs
  /\ UNCHANGED <<expired, status, stored, indexed, vector, waived, deleted>>

\* Without Qdrant the process goes on without vector store
Boot ==
  /\ run = "down" /\ run' = "recover" /\ UNCHANGED <<expired, status, stored, indexed, job, waived, deleted>>
  /\ \/ vector' = TRUE /\ NoFault
     \/ vector' = FALSE /\ budgets.faults < MaxFaults /\ Spend("faults") /\ UNCHANGED spoilt

RestartRun ==
  /\ run = "serving" /\ budgets.stops < MaxStops /\ Spend("stops") /\ run' = "recover"
  /\ UNCHANGED <<expired, status, stored, indexed, job, vector, waived, deleted, spoilt>>

RecoverableSummarizations == {c \in Convs : status[c] \in Recoverable}
Capped(R) == {c \in R : Cardinality({d \in R : d < c}) < MaxRetries}

RecoverSummarizations ==
  /\ run = "recover" /\ run' = "serving"
  /\ \/ LET R == Capped(RecoverableSummarizations)
        IN /\ job' = [job EXCEPT ![budgets.stops + 1] = Following([Off EXCEPT !.todo = R])]
           /\ spoilt' = IF vector THEN spoilt \ R ELSE spoilt
           /\ UNCHANGED budgets
     \/ budgets.faults < MaxFaults /\ Spend("faults") /\ UNCHANGED <<job, spoilt>>
  /\ UNCHANGED <<expired, status, stored, indexed, vector, waived, deleted>>

-------------------------------------------------------------------------------

Work(j) ==
  MarkPending(j) \/ Meta(j) \/ MetaFails(j) \/ Summarize(j) \/ SaveSummary(j) \/ IndexSummary(j) \/ Conclude(j)
Starts == Crash \/ Boot \/ RestartRun \/ RecoverSummarizations
Next ==
  \/ \E c \in Convs : Expire(c) \/ DeleteSummary(c)
  \/ \E j \in Jobs : Work(j)
  \/ Starts

\* A goroutine that can go on does: its calls are bounded by timeouts
Spec == Init /\ [][Next]_vars /\ \A j \in Jobs : WF_vars(Work(j))

-------------------------------------------------------------------------------
(***************************************************************************)
(* Properties.                                                             *)
(***************************************************************************)

\* "done" is written only of a conversation too short or empty, or one with a summary
\* that is stored and can be found, whatever jobs of it overlap, unless the user has
\* deleted it or the process had no vector store (asyncSummarize, recoverOneConversation)
DoneMeansSummarized ==
  \A c \in Convs : status[c] = "done" => c \in Short \cup waived \cup (stored \cap indexed)

\* What a search finds is a summary that was stored: no crash between the two steps
\* leaves one in the index that cannot be listed and deleted
IndexedIsStored == indexed \subseteq stored \cup deleted

\* A conversation a start takes up is summarized in the end, whatever goes wrong with
\* the others it takes up, unless a call for it fails or the job is stopped
RecoveryGetsThrough ==
  \A c \in Convs :
    (c \notin spoilt /\ \E j \in Recoverers : c \in job[j].todo) ~> (status[c] = "done" \/ c \in spoilt)
===============================================================================
