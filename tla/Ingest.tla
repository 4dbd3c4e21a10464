-------------------------------- MODULE Ingest --------------------------------
(***************************************************************************)
(* The ingest actor, internal/ingest/actor.go: every few minutes it asks   *)
(* its sources for items, has Claude extract observations from those that  *)
(* are new or were edited, and saves them; what it has done and how far a  *)
(* backfill got is kept in two tables of internal/memory/store.go.         *)
(*                                                                         *)
(* A source is a mail account (GmailSource: messages do not change, the    *)
(* cursor is a date) or a directory of notes (FileSource: they do, the     *)
(* cursor is a time).  An item's text is its version; an observation is    *)
(* known by the item and version it was extracted from and a number, which *)
(* stand for its hash.                                                     *)
(***************************************************************************)
EXTENDS Naturals, Sequences

CONSTANTS
  Order,        \* the sources, in the order of the configuration
  Mail,         \* the mail accounts among them; the others hold notes
  ItemsOf,      \* the items each source may ever have
  Unwanted,     \* the items Prefilter rejects
  PerItem,      \* bound: observations extracted from one version of an item
  MaxDailyLLM,  \* calls of Claude per source and day ...
  MaxDailyObs,  \* ... and observations kept
  MaxDay,       \* bound: days
  MaxEdits,     \* bound: changes of notes
  MaxFaults,    \* bound: accesses to the tables that fail
  MaxForgets,   \* bound: observations the user deletes or rewords
  MaxRestarts   \* bound: crashes and shutdowns of the process

Sources == {Order[n] : n \in DOMAIN Order}
Items == UNION {ItemsOf[s] : s \in Sources}
Notes == UNION {ItemsOf[s] : s \in Sources \ Mail}

ASSUME IngestAssumption ==
  /\ Order \in Seq(Sources) /\ Order # <<>> /\ Mail \subseteq Sources
  /\ Items # {} /\ \A s, t \in Sources : s # t => ItemsOf[s] \cap ItemsOf[t] = {}
  /\ MaxDailyLLM \in Nat \ {0} /\ MaxDailyObs \in Nat \ {0} /\ PerItem \in Nat \ {0}
  /\ MaxDay \in Nat \ {0} /\ {MaxEdits, MaxFaults, MaxForgets, MaxRestarts} \subseteq Nat

VARIABLES
  day, edits,   \* the calendar; the time of the last change of a note
  version,      \* what there is: each item's version, 0 if it is not there yet
  stamp,        \* a message's date, a note's modification time
  state,        \* ingest_state: mode, backfill_cursor (0: empty) and status
  rows,         \* ingest_processed_items: result, fingerprint (0: empty), age
  memory,       \* observations: those whose hash is taken, by an active row or an archived one
  dailyLLMUsed, dailyObsKept, lastResetDay,
  cycle,        \* the runCycle that holds cycleMu, if one does
  ctxDone,      \* the process was told to stop
  faults, forgets, restarts, \* counters
  seen,         \* history: versions of each note an extraction succeeded for
  found,        \* history: what the last extraction of each version found
  gone,         \* history: observations that could not be saved, or that the user changed
  settled,      \* history: items that got a row, or that a batch was cut before or a
                \* fault kept from one
  today,        \* history: each source's calls and observations since midnight
  lives         \* history: how often the daily counters were in use since then

world == <<day, edits, version, stamp>>
tables == <<state, rows, memory>>
counters == <<dailyLLMUsed, dailyObsKept, lastResetDay>>
budgets == <<ctxDone, faults, forgets, restarts>>
kept == <<found, gone>>
history == <<seen, kept, settled, today, lives>>
vars == <<world, tables, counters, cycle, budgets, history>>

Zero == [s \in Sources |-> 0]
NoRow == [result |-> "none", fp |-> 0, old |-> FALSE]
AnyItem == CHOOSE i \in Items : TRUE
\* rest: sources still to visit.  todo: items of the batch still to visit.
\* read: the version read.  left: observations still to save.
Off == [pc |-> "off", rest |-> <<>>, src |-> Order[1], found |-> FALSE, newCursor |-> 0,
        todo |-> {}, item |-> AnyItem, read |-> 0, left |-> {}]

Init ==
  /\ day = 1 /\ edits = 0
  /\ version \in [Items -> {0, 1}] /\ stamp = [i \in Items |-> version[i]]
  /\ \A i \in Notes : version[i] = 0
  /\ state = [s \in Sources |-> [mode |-> "backfill", cursor |-> 0, status |-> "idle"]]
  /\ rows = [i \in Items |-> NoRow]
  /\ memory = {}
  /\ dailyLLMUsed = Zero /\ dailyObsKept = Zero /\ lastResetDay = 0
  /\ cycle = Off
  /\ ctxDone = FALSE /\ faults = 0 /\ forgets = 0 /\ restarts = 0
  /\ seen = [i \in Notes |-> {}] /\ found = {} /\ gone = {} /\ settled = {}
  /\ today = [s \in Sources |-> [calls |-> 0, kept |-> 0]] /\ lives = 0

-----------------------------------------------------------------------------
(* The world. *)

MailArrives ==
  /\ \E i \in Items \ Notes :
       /\ version[i] = 0
       /\ version' = [version EXCEPT ![i] = 1]
       /\ stamp' = [stamp EXCEPT ![i] = day]
  /\ UNCHANGED <<day, edits, tables, counters, cycle, budgets, history>>

NoteWritten ==
  /\ edits < MaxEdits /\ edits' = edits + 1
  /\ \E i \in Notes :
       /\ version' = [version EXCEPT ![i] = @ + 1]
       /\ stamp' = [stamp EXCEPT ![i] = edits + 1]
  /\ UNCHANGED <<day, tables, counters, cycle, budgets, history>>

\* Midnight; rows that have become a week old are told apart by their age.
Midnight ==
  /\ day < MaxDay /\ day' = day + 1
  /\ rows' = [i \in Items |-> [rows[i] EXCEPT !.old = rows[i].result # "none"]]
  /\ today' = [s \in Sources |-> [calls |-> 0, kept |-> 0]]
  /\ lives' = IF cycle.pc = "off" THEN 0 ELSE 1
  /\ UNCHANGED <<edits, version, stamp, state, memory, counters, cycle, budgets, seen, kept, settled>>

\* An access to the tables fails.
Fault == faults < MaxFaults /\ faults' = faults + 1
NoFault == UNCHANGED faults

-----------------------------------------------------------------------------
(* runCycle and processSource. *)

At(pc) == cycle.pc = pc
Src == cycle.src

StartCycleEmptiesCounters ==
  /\ At("off") /\ ~ctxDone
  /\ cycle' = [Off EXCEPT !.pc = "next", !.rest = Order]
  /\ dailyLLMUsed' = Zero /\ dailyObsKept' = Zero /\ lastResetDay' = day
  /\ lives' = IF lastResetDay # day THEN lives + 1 ELSE lives
  /\ UNCHANGED <<world, tables, budgets, seen, kept, settled, today>>
\* gocron's job or the first run's goroutine: whoever fails to get cycleMu
\* leaves.  The counters of another day are emptied.
StartCycle ==
  /\ At("off") /\ ~ctxDone
  /\ cycle' = [Off EXCEPT !.pc = "next", !.rest = Order]
  /\ IF lastResetDay # day
     THEN /\ dailyLLMUsed' = Zero /\ dailyObsKept' = Zero /\ lastResetDay' = day
          /\ lives' = lives + 1
     ELSE UNCHANGED <<counters, lives>>
  /\ UNCHANGED <<world, tables, budgets, seen, kept, settled, today>>

EndCycle ==
  /\ At("next") /\ (ctxDone \/ cycle.rest = <<>>)
  /\ cycle' = Off
  /\ UNCHANGED <<world, tables, counters, budgets, history>>

Status(s, status) == [state EXCEPT ![s].status = status]

TakeSource ==
  /\ At("next") /\ ~ctxDone /\ cycle.rest # <<>>
  /\ state[Head(cycle.rest)].status # "running"
  /\ state' = Status(Head(cycle.rest), "running")
  /\ cycle' = [Off EXCEPT !.pc = "discover", !.rest = Tail(cycle.rest), !.src = Head(cycle.rest)]
  /\ UNCHANGED <<world, rows, memory, counters, budgets, history>>

\* It is marked "running" by a run whose end was not recorded, or its state
\* cannot be read or written.
SkipSource ==
  /\ At("next") /\ ~ctxDone /\ cycle.rest # <<>>
  /\ (state[Head(cycle.rest)].status = "running" /\ NoFault) \/ Fault
  /\ cycle' = [cycle EXCEPT !.rest = Tail(@)]
  /\ UNCHANGED <<world, tables, counters, ctxDone, forgets, restarts, history>>

\* Gmail's "after:" takes the messages of that day too; without a cursor it is
\* "newer_than:1d".  A directory is walked for files modified after the cursor.
Cursor(s) == IF state[s].mode = "backfill" THEN state[s].cursor
             ELSE IF s \in Mail THEN day - 1 ELSE 0
Discovered(s) == {i \in ItemsOf[s] : version[i] > 0 /\
                    IF s \in Mail THEN stamp[i] >= Cursor(s) ELSE stamp[i] > Cursor(s)}
Newest(s) == {i \in Discovered(s) : \A j \in Discovered(s) : stamp[j] <= stamp[i]}
NewCursors(s) == IF s \notin Mail THEN {edits}
                 ELSE IF Discovered(s) = {} THEN {Cursor(s)}
                 ELSE {stamp[i] : i \in Newest(s)}

DiscoverSavesCursor ==
  /\ At("discover")
  /\ \E c \in NewCursors(Src) :
       /\ cycle' = [cycle EXCEPT !.pc = "item", !.todo = Discovered(Src),
                                 !.found = Discovered(Src) # {}, !.newCursor = c]
       /\ state' = IF state[Src].mode = "backfill" /\ Discovered(Src) # {}
                   THEN [state EXCEPT ![Src].cursor = c] ELSE state
  /\ UNCHANGED <<world, rows, memory, counters, budgets, history>>
Discover ==
  /\ At("discover")
  /\ \E c \in NewCursors(Src) :
       cycle' = [cycle EXCEPT !.pc = "item", !.todo = Discovered(Src),
                              !.found = Discovered(Src) # {}, !.newCursor = c]
  /\ UNCHANGED <<world, tables, counters, budgets, history>>

DiscoverFails ==
  /\ At("discover")
  /\ cycle' = [cycle EXCEPT !.pc = "reset"]
  /\ UNCHANGED <<world, tables, counters, budgets, history>>

-----------------------------------------------------------------------------
(* processItems. *)

\* The batch goes on without item i.
Without(i) == [cycle EXCEPT !.pc = "item", !.todo = @ \ {i}, !.item = AnyItem,
                            !.read = 0, !.left = {}]

Settle(is) == settled' = settled \cup is
Handled(i) == rows[i].result = "done"
\* Item i was processed and cannot have changed, has not, or cannot be read to
\* compare; or its row cannot be read.
SkipItem ==
  /\ At("item") /\ ~ctxDone
  /\ \E i \in cycle.todo :
       /\ \/ Handled(i) /\ NoFault /\ UNCHANGED settled
          \/ Fault /\ Settle({i})
       /\ cycle' = Without(i)
  /\ UNCHANGED <<world, tables, counters, ctxDone, forgets, restarts, seen, kept, today, lives>>

DueOnce(i) == ~Handled(i)
Due(i) == ~Handled(i) \/ rows[i].fp \notin {0, version[i]}
Capped(s) == dailyLLMUsed[s] >= MaxDailyLLM \/ dailyObsKept[s] >= MaxDailyObs

\* RecordItemProcessed, whose error nobody looks at.
Record(i, result, fp) ==
  /\ \/ NoFault /\ rows' = [rows EXCEPT ![i] = [result |-> result, fp |-> fp, old |-> FALSE]]
     \/ Fault /\ UNCHANGED rows
  /\ Settle({i})

Prefiltered ==
  /\ At("item") /\ ~ctxDone
  /\ \E i \in cycle.todo \cap Unwanted :
       /\ Due(i) /\ ~Capped(Src)
       /\ Record(i, "done", 0)
       /\ cycle' = Without(i)
  /\ UNCHANGED <<world, state, memory, counters, ctxDone, forgets, restarts, seen, kept, today, lives>>

TakeItem ==
  /\ At("item") /\ ~ctxDone
  /\ \E i \in cycle.todo \ Unwanted :
       /\ Due(i) /\ ~Capped(Src)
       /\ cycle' = [cycle EXCEPT !.pc = "read", !.item = i]
  /\ UNCHANGED <<world, tables, counters, budgets, history>>

\* No items left, the process is told to stop, or a daily limit is reached at
\* an item that needs work: the rest of the batch is given up.
BatchEnds ==
  /\ At("item")
  /\ cycle.todo = {} \/ ctxDone \/ (Capped(Src) /\ \E i \in cycle.todo : Due(i))
  /\ cycle' = [cycle EXCEPT !.pc = "finish", !.todo = {}]
  /\ Settle(cycle.todo)
  /\ UNCHANGED <<world, tables, counters, budgets, seen, kept, today, lives>>

Item == cycle.item
Counted(f) == [f EXCEPT ![Src] = @ + 1]

\* The item is read, again if it was read for the comparison, and a call of
\* Claude is counted before it is made.
ReadItem ==
  /\ At("read")
  /\ cycle' = [cycle EXCEPT !.pc = "extract", !.read = version[Item]]
  /\ dailyLLMUsed' = Counted(dailyLLMUsed)
  /\ today' = [today EXCEPT ![Src].calls = @ + 1]
  /\ UNCHANGED <<world, tables, dailyObsKept, lastResetDay, budgets, seen, kept, settled, lives>>

ReadFails ==
  /\ At("read")
  /\ Record(Item, "failed", 0)
  /\ cycle' = Without(Item)
  /\ UNCHANGED <<world, state, memory, counters, ctxDone, forgets, restarts, seen, kept, today, lives>>

\* ContentFingerprint, of the text that was read: a message has none.
FingerprintOfNow == IF Item \in Notes THEN version[Item] ELSE 0
Fingerprint == IF Item \in Notes THEN cycle.read ELSE 0

\* An observation of the text in hand.
Of(k) == <<Item, cycle.read, k>>
Finds(n) == found' = {o \in found : <<o[1], o[2]>> # <<Item, cycle.read>>} \cup {Of(k) : k \in 1..n}

\* Mutant: the item is recorded before its observations are saved
ExtractRecords ==
  /\ At("extract")
  /\ \E n \in 0..PerItem : cycle' = [cycle EXCEPT !.pc = "save", !.left = 1..n] /\ Finds(n)
  /\ rows' = [rows EXCEPT ![Item] = [result |-> "done", fp |-> Fingerprint, old |-> FALSE]]
  /\ seen' = [i \in Notes |-> seen[i] \cup (IF i = Item THEN {cycle.read} ELSE {})]
  /\ UNCHANGED <<world, state, memory, counters, budgets, gone, settled, today, lives>>
Extract ==
  /\ At("extract")
  /\ \E n \in 0..PerItem : cycle' = [cycle EXCEPT !.pc = "save", !.left = 1..n] /\ Finds(n)
  /\ seen' = [i \in Notes |-> seen[i] \cup (IF i = Item THEN {cycle.read} ELSE {})]
  /\ UNCHANGED <<world, tables, counters, budgets, gone, settled, today, lives>>

ExtractFails ==
  /\ At("extract")
  /\ Record(Item, "failed", Fingerprint)
  /\ cycle' = Without(Item)
  /\ UNCHANGED <<world, state, memory, counters, ctxDone, forgets, restarts, seen, kept, today, lives>>

\* The observations are saved in order; k is the next.
Saving(k) ==
  /\ At("save")
  /\ \A j \in cycle.left : k <= j
  /\ cycle' = [cycle EXCEPT !.left = @ \ {k}]
\* A row has the hash: the check before the save sees those that are active, and the
\* index of the table refuses a second one for those that are archived, too.
Exists(k) == Of(k) \in memory

\* What is there already is passed over, and what cannot be saved is given up: the
\* item is recorded as processed all the same.
SaveSkipped ==
  /\ \E k \in cycle.left :
       /\ Saving(k)
       /\ (Exists(k) /\ NoFault /\ UNCHANGED gone) \/ (Fault /\ gone' = gone \cup {Of(k)})
  /\ UNCHANGED <<world, tables, counters, ctxDone, forgets, restarts, seen, found, settled, today, lives>>

SaveObservation ==
  /\ \E k \in cycle.left :
       /\ Saving(k) /\ ~Exists(k)
       /\ memory' = memory \cup {Of(k)} /\ gone' = gone \ {Of(k)}
  /\ dailyObsKept' = Counted(dailyObsKept)
  /\ today' = [today EXCEPT ![Src].kept = @ + 1]
  /\ UNCHANGED <<world, state, rows, dailyLLMUsed, lastResetDay, budgets, seen, found, settled, lives>>

RecordItemProcessed ==
  /\ At("save") /\ cycle.left = {}
  /\ Record(Item, "done", Fingerprint)
  /\ cycle' = Without(Item)
  /\ UNCHANGED <<world, state, memory, counters, ctxDone, forgets, restarts, seen, kept, today, lives>>

-----------------------------------------------------------------------------
(* The end of a batch, and of the process. *)

\* runBackfill moves the cursor, or finds that it is done.
Advanced(s) == IF cycle.found THEN [state[s] EXCEPT !.cursor = cycle.newCursor]
               ELSE [state[s] EXCEPT !.mode = "incremental", !.cursor = 0]
Finish ==
  /\ At("finish")
  /\ cycle' = [cycle EXCEPT !.pc = "reset"]
  /\ \/ NoFault /\ state' = IF state[Src].mode = "backfill"
                            THEN [state EXCEPT ![Src] = Advanced(Src)] ELSE state
     \/ Fault /\ UNCHANGED state
  /\ UNCHANGED <<world, rows, memory, counters, ctxDone, forgets, restarts, history>>

\* processSource's deferred function.
ResetIdle ==
  /\ At("reset")
  /\ cycle' = [Off EXCEPT !.pc = "next", !.rest = cycle.rest]
  /\ (NoFault /\ state' = Status(Src, "idle")) \/ (Fault /\ UNCHANGED state)
  /\ UNCHANGED <<world, rows, memory, counters, ctxDone, forgets, restarts, history>>

\* Once a day, at any point of a cycle: rows a week old are deleted.
CleanupOldProcessedItems ==
  /\ ~ctxDone
  /\ \E i \in Items : rows[i].old
  /\ rows' = [i \in Items |-> IF rows[i].old THEN NoRow ELSE rows[i]]
  /\ UNCHANGED <<world, state, memory, counters, cycle, budgets, history>>

\* A skill or command of the user deletes an observation, or gives it another title or
\* summary and with it another hash.
ForgetObservation ==
  /\ forgets < MaxForgets /\ forgets' = forgets + 1
  /\ \E o \in memory : memory' = memory \ {o} /\ gone' = gone \cup {o}
  /\ UNCHANGED <<world, state, rows, counters, cycle, ctxDone, faults, restarts, seen, found, settled, today, lives>>

\* The supervisor's context is cancelled; the cycle in progress may get to
\* any point before the process is gone.
Shutdown ==
  /\ ~ctxDone /\ ctxDone' = TRUE
  /\ restarts < MaxRestarts
  /\ UNCHANGED <<world, tables, counters, cycle, faults, forgets, restarts, history>>

\* The process is gone or crashes at any point, and starts again with
\* recoverStaleStates.
NotRecovered == state
Recovered == [s \in Sources |-> [state[s] EXCEPT !.status = "idle"]]
Restart ==
  /\ restarts < MaxRestarts /\ restarts' = restarts + 1
  /\ \/ NoFault /\ state' = Recovered
     \/ Fault /\ \E s \in Sources : state' = [Recovered EXCEPT ![s] = state[s]]
  /\ dailyLLMUsed' = Zero /\ dailyObsKept' = Zero /\ lastResetDay' = 0
  /\ cycle' = Off /\ ctxDone' = FALSE
  /\ UNCHANGED <<world, rows, memory, forgets, history>>

-----------------------------------------------------------------------------
ItemStep ==
  \/ SkipItem \/ Prefiltered \/ TakeItem \/ BatchEnds \/ ReadItem \/ ReadFails
  \/ Extract \/ ExtractFails \/ SaveSkipped \/ SaveObservation \/ RecordItemProcessed

CycleStep ==
  \/ StartCycle \/ EndCycle \/ TakeSource \/ SkipSource \/ Discover \/ DiscoverFails
  \/ ItemStep \/ Finish \/ ResetIdle

Next ==
  \/ MailArrives \/ NoteWritten \/ Midnight
  \/ CycleStep \/ CleanupOldProcessedItems \/ ForgetObservation \/ Shutdown \/ Restart

Fairness ==
  /\ WF_vars(CycleStep) /\ WF_vars(Midnight) /\ WF_vars(ctxDone /\ Restart)
  /\ SF_vars(Discover)
  /\ \A i \in Items : /\ SF_vars(TakeItem /\ cycle'.item = i)
                      /\ SF_vars(ReadItem /\ cycle.item = i)
                      /\ SF_vars(Extract /\ cycle.item = i)

Spec == Init /\ [][Next]_vars
FairSpec == Spec /\ Fairness

-----------------------------------------------------------------------------
Versions == 0..(MaxEdits + 1)
Working == {"discover", "item", "read", "extract", "save", "finish", "reset"}
States == [mode : {"backfill", "incremental"}, cursor : Nat, status : {"idle", "running"}]
Rows == [result : {"none", "done", "failed"}, fp : Versions, old : BOOLEAN]
Cycles == [pc : {"off", "next"} \cup Working, rest : Seq(Sources), src : Sources,
           found : BOOLEAN, newCursor : Nat, todo : SUBSET Items, item : Items,
           read : Versions, left : SUBSET (1..PerItem)]

Observations == Items \X (1..(MaxEdits + 1)) \X (1..PerItem)

TypeOK ==
  /\ day \in 1..MaxDay /\ edits \in 0..MaxEdits
  /\ version \in [Items -> Versions] /\ stamp \in [Items -> Nat]
  /\ state \in [Sources -> States]
  /\ rows \in [Items -> Rows]
  /\ memory \cup found \cup gone \subseteq Observations
  /\ dailyLLMUsed \in [Sources -> 0..MaxDailyLLM]
  /\ dailyObsKept \in [Sources -> 0..(MaxDailyObs + PerItem - 1)]
  /\ lastResetDay \in 0..MaxDay
  /\ cycle \in Cycles
  /\ ctxDone \in BOOLEAN /\ faults \in 0..MaxFaults /\ forgets \in 0..MaxForgets /\ restarts \in 0..MaxRestarts
  /\ seen \in [Notes -> SUBSET Versions] /\ settled \subseteq Items
  /\ today \in [Sources -> [calls : Nat, kept : Nat]] /\ lives \in Nat

\* "max_daily_llm_calls: cost circuit breaker", "max_daily_observations:
\* per-source daily cap".  What a source costs on a calendar day is bounded,
\* over however many cycles and failures: the counters are in memory, so a
\* restart or a cycle that runs over midnight gives one allowance more, and the
\* last item may go over the cap by all it holds but one.
DailyCaps ==
  \A s \in Sources : /\ today[s].calls <= MaxDailyLLM * lives
                     /\ today[s].kept <= (MaxDailyObs + PerItem - 1) * lives

\* A source marked "running", which every cycle skips, is being worked on now:
\* no crash or shutdown leaves one behind as long as the tables can be written.
RunningMeansWorking ==
  faults = 0 => \A s \in Sources :
    state[s].status = "running" => cycle.pc \in Working /\ cycle.src = s

\* A backfill can be resumed: the messages its cursor has passed have been
\* processed or recorded as failed, whenever the process crashed, unless a
\* batch was cut by a daily limit or a shutdown, or a table failed.
BackfillIsResumable ==
  \A s \in Mail : \A i \in ItemsOf[s] :
    version[i] > 0 /\ stamp[i] < state[s].cursor => i \in settled

\* A note's row never claims a version that no extraction has seen: a change
\* made while the note is being processed is noticed by a later cycle.
RowsClaimWhatWasSeen ==
  \A i \in Notes : rows[i].result = "done" /\ rows[i].fp # 0 => rows[i].fp \in seen[i]

\* What Claude found in a text is not lost: when the table says of an item that this text
\* was processed, so that no cycle takes it up again, everything the last extraction found
\* in it is among the observations, wherever in a batch the process crashed or was stopped,
\* and whatever the cleanup had forgotten.  Left out is what the user deleted or reworded,
\* and what could not be saved: that is only logged (actor.go:424-427, 444-452), and the
\* item is recorded all the same (475).
Processed(i, v) == Handled(i) /\ (i \in Notes => rows[i].fp = v)
ProcessedIsKept ==
  \A o \in found : Processed(o[1], o[2]) => o \in memory \cup gone

\* "mutable sources detect edits and re-extract changed content": in the end
\* the row of every note is about the text it has now, unless the daily limit
\* is reached for good or a failed write left the source "running".
Current(i) == version[i] = 0 \/ i \in Unwanted \/ (Handled(i) /\ rows[i].fp = version[i])
Stuck(s) == state[s].status = "running" /\ ~(cycle.pc \in Working /\ cycle.src = s)
EditsAreNoticed ==
  \A s \in Sources \ Mail : \A i \in ItemsOf[s] :
    []<>(Current(i) \/ (Capped(s) /\ day = MaxDay) \/ Stuck(s))
=============================================================================
