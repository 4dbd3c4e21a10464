------------------------------- MODULE Reminders -------------------------------
(***************************************************************************)
(* Reminders and cron tasks: skills/remind.go.  The skills write the       *)
(* reminders table; ReminderActor.Run keeps gocron jobs in step with it,   *)
(* told by signals (API mode) or by polling (CLI mode, where the skills    *)
(* run in another process and their signals are drained); gocron runs      *)
(* fireReminder in goroutines of its own, and Run calls it itself for      *)
(* reminders that are past due.                                            *)
(*                                                                         *)
(* Texts, models and the conversation record of a task are left out: no    *)
(* step here depends on them.                                              *)
(***************************************************************************)
EXTENDS Naturals, Sequences, FiniteSets, SequencesExt

CONSTANTS
  Rows,         \* reminder ids (AUTOINCREMENT: never used twice)
  Slots,        \* bound: goroutines of gocron that run at the same time
  MaxTime,      \* bound: the clock
  SigCap,       \* capacity of signalCh
  MaxCalls,     \* bound: calls of the skills
  MaxRestarts,  \* bound: crashes of the process
  MaxFaults     \* bound: statements that SQLite refuses

Recurring == 0                    \* the schedule of a row with a cron_expr
Times == 1..MaxTime               \* the schedule of any other: its fire_at
Loop == "loop"                    \* the goroutine of Run, as one that fires
Fibers == Slots \cup {Loop}

ASSUME RemindersAssumption ==
  /\ Rows # {} /\ IsFiniteSet(Rows) /\ Loop \notin Slots
  /\ {MaxTime, SigCap, MaxCalls, MaxRestarts, MaxFaults} \subseteq Nat

VARIABLES
  mode,         \* "api" or "cli"
  now,          \* a fire_at of at most now is in the past
  row,          \* the reminders table: status and schedule
  jobs,         \* jobs and jobMeta: the tracked job's id (0: none) and schedule
  alive,        \* the jobs gocron still holds
  run,          \* the calls of fireReminder in progress
  loop,         \* Run: what it does and the rows or ids it still has to visit
  signals,      \* signalCh
  signalling,   \* the id a skill is about to signal
  tzChanged,    \* the user's time zone differs from lastLoc
  calls,        \* calls of the skills so far
  restarts,
  faults,
  sent,         \* history: messages sent for a one-time reminder
  unmarked,     \* history: the times its row could not be marked after that
  unreported,   \* history: Claude failed on it and the report was dropped
  disturbed     \* history: its job was replaced or lost in the middle of a fire

store == <<row, now>>
user == <<signals, signalling, tzChanged, calls>>
history == <<sent, unmarked, unreported, disturbed>>
vars == <<mode, store, jobs, alive, run, loop, user, restarts, faults, history>>

NoJob == [id |-> 0, at |-> 0]
NoRun(f) == [pc |-> "idle", row |-> CHOOSE r \in Rows : TRUE, once |-> FALSE, fresh |-> FALSE]
\* A call of fireReminder whose captured row is a one-time reminder, or not.
Firing(r, once) == [pc |-> "read", row |-> r, once |-> once, fresh |-> FALSE]

Pending(r) == row[r].status = "pending"
InFlight(r) == \E f \in Fibers : run[f].pc # "idle" /\ run[f].row = r
PendingRows == {[row |-> r, at |-> row[r].at] : r \in {q \in Rows : Pending(q)}}

Init ==
  /\ mode \in {"api", "cli"}
  /\ now = 0
  /\ row = [r \in Rows |-> [status |-> "none", at |-> 0, task |-> FALSE]]
  /\ jobs = [r \in Rows |-> NoJob]
  /\ alive = {}
  /\ run = [f \in Fibers |-> NoRun(f)]
  /\ loop = [pc |-> "idle", ids |-> {}, rows |-> {}]
  /\ signals = <<>> /\ signalling = {}
  /\ tzChanged = FALSE /\ calls = 0
  /\ restarts = 0 /\ faults = 0
  /\ sent = [r \in Rows |-> 0]
  /\ unmarked = [r \in Rows |-> 0]
  /\ unreported = [r \in Rows |-> FALSE]
  /\ disturbed = [r \in Rows |-> FALSE]

-----------------------------------------------------------------------------
(* The skills.  One skill at a time: it writes the row, then signals. *)

Called == signalling = {} /\ calls < MaxCalls /\ calls' = calls + 1

\* In CLI mode the signal goes to a channel that is drained.
Signal(r) == signalling' = IF mode = "api" THEN {r} ELSE {}

set_reminder ==
  /\ Called
  /\ \E r \in Rows, at \in Times \cup {Recurring}, task \in BOOLEAN :
       /\ row[r].status = "none"
       /\ row' = [row EXCEPT ![r] = [status |-> "pending", at |-> at, task |-> task]]
       /\ Signal(r)
  /\ UNCHANGED <<mode, now, jobs, alive, run, loop, signals, tzChanged, restarts,
                 faults, history>>

\* The schedule, or only the text; a recurring reminder has no other fire_at.
update_reminder ==
  /\ Called
  /\ \E r \in Rows, at \in Times \cup {Recurring} :
       /\ Pending(r)
       /\ row[r].at = Recurring => at = Recurring
       /\ row' = [row EXCEPT ![r].at = at]
       /\ Signal(r)
  /\ UNCHANGED <<mode, now, jobs, alive, run, loop, signals, tzChanged, restarts,
                 faults, history>>

cancel_reminder ==
  /\ Called
  /\ \E r \in Rows :
       /\ Pending(r)
       /\ row' = [row EXCEPT ![r].status = "cancelled"]
       /\ Signal(r)
  /\ UNCHANGED <<mode, now, jobs, alive, run, loop, signals, tzChanged, restarts,
                 faults, history>>

delete_reminder ==
  /\ Called
  /\ \E r \in Rows :
       /\ row[r].status \in {"cancelled", "fired"}
       /\ row' = [row EXCEPT ![r] = [status |-> "deleted", at |-> 0, task |-> FALSE]]
  /\ UNCHANGED <<mode, now, jobs, alive, run, loop, signals, signalling, tzChanged, restarts,
                 faults, history>>

SignalSent ==
  /\ \E r \in signalling : signals' = Append(signals, r)
  /\ Len(signals) < SigCap
  /\ signalling' = {}
  /\ UNCHANGED <<mode, store, jobs, alive, run, loop, tzChanged, calls, restarts, faults, history>>

\* Five seconds with a full channel: the skill reports an unresponsive scheduler.
SignalTimesOut ==
  /\ signalling # {} /\ Len(signals) = SigCap
  /\ signalling' = {}
  /\ UNCHANGED <<mode, store, jobs, alive, run, loop, signals, tzChanged, calls, restarts, faults, history>>

set_timezone ==
  /\ Called
  /\ tzChanged' = ~tzChanged
  /\ UNCHANGED <<mode, store, jobs, alive, run, loop, signals, signalling, restarts, faults, history>>

Tick ==
  /\ now < MaxTime /\ now' = now + 1
  /\ UNCHANGED <<mode, row, jobs, alive, run, loop, user, restarts, faults, history>>

-----------------------------------------------------------------------------
(* fireReminder and fireCronTask, on any goroutine f. *)

fireUnchanged == <<mode, now, jobs, alive, user, restarts>>
Fault == faults < MaxFaults /\ faults' = faults + 1

\* gocron's task then forgets the job of a one-time reminder; Run just goes on.
Returns(f) == IF f = Loop THEN NoRun(f) ELSE [run[f] EXCEPT !.pc = "cleanup", !.fresh = FALSE]

\* The row is read again: a reminder that is not pending any more is skipped.
ReadRow(f) ==
  /\ run[f].pc = "read"
  /\ LET r == run[f].row IN
       run' = [run EXCEPT ![f] =
                 IF Pending(r)
                 THEN [@ EXCEPT !.fresh = row[r].at # Recurring,
                                !.pc = IF row[r].task THEN "exec" ELSE "send"]
                 ELSE Returns(f)]
  /\ UNCHANGED <<fireUnchanged, faults, row, loop, history>>

\* The row cannot be read: the call is over, the reminder still pending.
ReadFails(f) ==
  /\ run[f].pc = "read" /\ Fault
  /\ run' = [run EXCEPT ![f] = Returns(f)]
  /\ UNCHANGED <<fireUnchanged, row, loop, history>>

\* Up to twenty minutes of Claude, with a result or without.
Execute(f) ==
  /\ run[f].pc = "exec"
  /\ \E next \in {"send", "report"} : run' = [run EXCEPT ![f].pc = next]
  /\ UNCHANGED <<fireUnchanged, faults, row, loop, history>>

\* sent[r] counts what a run that saw a one-time reminder sends.
Count(f) ==
  sent' = [sent EXCEPT ![run[f].row] = IF run[f].fresh THEN @ + 1 ELSE @]

SendOk(f) ==
  /\ run[f].pc \in {"send", "report"}
  /\ run' = [run EXCEPT ![f].pc = "mark"]
  /\ Count(f)
  /\ UNCHANGED <<fireUnchanged, faults, row, loop, unmarked, unreported, disturbed>>

\* Five seconds with a full Telegram inbox: the reminder stays pending ...
AfterSendFailedMarks(f) == [run[f] EXCEPT !.pc = "mark"]
AfterSendFailed(f) == Returns(f)

SendFails(f) ==
  /\ run[f].pc = "send"
  /\ run' = [run EXCEPT ![f] = AfterSendFailed(f)]
  /\ UNCHANGED <<fireUnchanged, faults, row, loop, history>>

\* ... but after a failed execution the outcome of the send is not looked at.
ReportFails(f) ==
  /\ run[f].pc = "report"
  /\ run' = [run EXCEPT ![f].pc = "mark"]
  /\ unreported' = [unreported EXCEPT ![run[f].row] = TRUE]
  /\ UNCHANGED <<fireUnchanged, faults, row, loop, sent, unmarked, disturbed>>

\* UPDATE ... SET status = 'fired' WHERE id = ? AND status = 'pending', for the
\* schedule the run read, not the one the row has now.
MarkedAlways(r) == [row[r] EXCEPT !.status = "fired"]
Marked(r) == [row[r] EXCEPT !.status = IF @ = "pending" THEN "fired" ELSE @]
markFiredIfOneTime(f) ==
  /\ run[f].pc = "mark"
  /\ row' = IF run[f].fresh THEN [row EXCEPT ![run[f].row] = Marked(run[f].row)] ELSE row
  /\ run' = [run EXCEPT ![f] = Returns(f)]
  /\ UNCHANGED <<fireUnchanged, faults, loop, history>>

\* The error of the UPDATE is only logged: the row is still pending, although the message
\* is on its way.
MarkFails(f) ==
  /\ run[f].pc = "mark" /\ run[f].fresh /\ Fault
  /\ unmarked' = [unmarked EXCEPT ![run[f].row] = @ + 1]
  /\ run' = [run EXCEPT ![f] = Returns(f)]
  /\ UNCHANGED <<fireUnchanged, row, loop, sent, unreported, disturbed>>

\* By the reminder's id: whichever job is tracked under it now.
Forget(f) == IF run[f].once THEN [jobs EXCEPT ![run[f].row] = NoJob] ELSE jobs
Cleanup(f) ==
  /\ run[f].pc = "cleanup"
  /\ jobs' = Forget(f)
  /\ run' = [run EXCEPT ![f] = NoRun(f)]
  /\ UNCHANGED <<mode, store, alive, loop, user, restarts, faults, history>>

\* gocron starts a job that is due: a cron job at any time, a one-time job once.
JobFires(j, f) ==
  /\ j \in alive /\ run[f].pc = "idle"
  /\ j.at <= now
  /\ alive' = IF j.at = Recurring THEN alive ELSE alive \ {j}
  /\ run' = [run EXCEPT ![f] = Firing(j.row, j.at # Recurring)]
  /\ UNCHANGED <<mode, store, jobs, loop, user, restarts, faults, history>>

-----------------------------------------------------------------------------
(* ReminderActor.Run.  It moves only while it is not firing itself. *)

LoopAt(pc) == loop.pc = pc /\ run[Loop].pc = "idle"

NewId == CHOOSE i \in 1..(Cardinality(Rows) + Cardinality(alive) + 1) :
           /\ \A j \in alive : j.id # i
           /\ \A r \in Rows : jobs[r].id # i

\* cancelJob: the effects on jobs and alive.  A run of the job goes on.
JobsWithout(r) == [jobs EXCEPT ![r] = NoJob]
AliveWithout(r) == {j \in alive : j.id # jobs[r].id}
Disturb(rs) == disturbed' = [r \in Rows |-> disturbed[r] \/ (r \in rs /\ InFlight(r))]

\* scheduleOrFire, for a row that was read before; jobs and alive are what is
\* left after a cancelJob.
scheduleOrSkip(s, js, al) ==
  IF s.at # Recurring /\ s.at <= now
  THEN jobs' = js /\ alive' = al /\ UNCHANGED run
  ELSE /\ jobs' = [js EXCEPT ![s.row] = [id |-> NewId, at |-> s.at]]
       /\ alive' = al \cup {[id |-> NewId, row |-> s.row, at |-> s.at]}
       /\ UNCHANGED run
scheduleOrFire(s, js, al) ==
  IF s.at # Recurring /\ s.at <= now
  THEN /\ run' = [run EXCEPT ![Loop] = Firing(s.row, TRUE)]
       /\ jobs' = js /\ alive' = al
  ELSE /\ jobs' = [js EXCEPT ![s.row] = [id |-> NewId, at |-> s.at]]
       /\ alive' = al \cup {[id |-> NewId, row |-> s.row, at |-> s.at]}
       /\ UNCHANGED run

handleSignal ==
  /\ LoopAt("idle") /\ signals # <<>>
  /\ signals' = Tail(signals)
  /\ LET r == Head(signals) IN
       CASE Pending(r) ->
              /\ scheduleOrFire([row |-> r, at |-> row[r].at], JobsWithout(r), AliveWithout(r))
              /\ Disturb(IF jobs[r] # NoJob THEN {r} ELSE {})
         [] row[r].status = "cancelled" ->
              /\ jobs' = JobsWithout(r) /\ alive' = AliveWithout(r)
              /\ UNCHANGED <<run, disturbed>>
         [] OTHER -> UNCHANGED <<jobs, alive, run, disturbed>>
  /\ UNCHANGED <<mode, store, loop, signalling, tzChanged, calls, restarts, faults, sent, unmarked, unreported>>

Tracked == {r \in Rows : jobs[r] # NoJob}
Closed(r) == row[r].status \in {"cancelled", "fired"}

\* Phase 1: forget the jobs of closed rows.
PollClosed ==
  /\ LoopAt("idle")
  /\ loop' = [loop EXCEPT !.pc = "drift", !.ids = Tracked]
  /\ jobs' = [r \in Rows |-> IF Closed(r) THEN NoJob ELSE jobs[r]]
  /\ alive' = {j \in alive : ~\E r \in Rows : Closed(r) /\ jobs[r].id = j.id}
  /\ UNCHANGED <<mode, store, run, user, restarts, faults, history>>

\* Phase 1.5: the row's schedule differs from the one its job was made for.
DriftedNever(r) == FALSE
Drifted(r) == Pending(r) /\ jobs[r] # NoJob /\ jobs[r].at # row[r].at
PollDrift ==
  /\ LoopAt("drift")
  /\ \E r \in loop.ids :
       /\ loop' = [loop EXCEPT !.ids = @ \ {r}]
       /\ IF Drifted(r)
          THEN /\ scheduleOrFire([row |-> r, at |-> row[r].at], JobsWithout(r), AliveWithout(r))
               /\ Disturb({r})
          ELSE UNCHANGED <<jobs, alive, run, disturbed>>
  /\ UNCHANGED <<mode, store, user, restarts, faults, sent, unmarked, unreported>>

\* Phase 2: the pending rows without a job.
PollAll ==
  /\ LoopAt("drift") /\ loop.ids = {}
  /\ loop' = [loop EXCEPT !.pc = "new", !.rows = PendingRows]
  /\ UNCHANGED <<mode, store, jobs, alive, run, user, restarts, faults, history>>
PollNew ==
  /\ LoopAt("drift") /\ loop.ids = {}
  /\ loop' = [loop EXCEPT !.pc = "new", !.rows = {s \in PendingRows : jobs[s.row] = NoJob}]
  /\ UNCHANGED <<mode, store, jobs, alive, run, user, restarts, faults, history>>

\* The rows found by phase 2 or by loadPendingReminders, one after the other.
ScheduleNext ==
  /\ loop.pc \in {"new", "load"} /\ run[Loop].pc = "idle"
  /\ \E s \in loop.rows :
       /\ loop' = [loop EXCEPT !.rows = @ \ {s}]
       /\ scheduleOrFire(s, jobs, alive)
  /\ UNCHANGED <<mode, store, user, restarts, faults, history>>

\* Rows that could not be read are passed over, and so is a signal whose row could not.
RowsUnread ==
  /\ loop.pc # "idle" /\ run[Loop].pc = "idle" /\ Fault
  /\ \E ids \in SUBSET loop.ids, rows \in SUBSET loop.rows :
       loop' = [loop EXCEPT !.ids = ids, !.rows = rows]
  /\ UNCHANGED <<mode, store, jobs, alive, run, user, restarts, history>>
SignalUnread ==
  /\ LoopAt("idle") /\ signals # <<>> /\ Fault
  /\ signals' = Tail(signals)
  /\ UNCHANGED <<mode, store, jobs, alive, run, loop, signalling, tzChanged, calls, restarts, history>>

\* ... and then the poll is over, unless the time zone is not lastLoc any more.
ScheduledAll ==
  /\ loop.pc \in {"new", "load"} /\ run[Loop].pc = "idle" /\ loop.rows = {}
  /\ loop.pc = "new" => ~tzChanged
  /\ loop' = [loop EXCEPT !.pc = "idle"]
  /\ UNCHANGED <<mode, store, jobs, alive, run, user, restarts, faults, history>>

\* maybeRebuildScheduler after a poll, or in API mode on set_timezone's signal:
\* the old scheduler is shut down (a run that outlasts it goes on), every
\* tracked job is forgotten and the pending rows are loaded again.
RebuildScheduler ==
  /\ tzChanged
  /\ (LoopAt("new") /\ loop.rows = {}) \/ (LoopAt("idle") /\ mode = "api")
  /\ tzChanged' = FALSE
  /\ jobs' = [r \in Rows |-> NoJob] /\ alive' = {}
  /\ loop' = [loop EXCEPT !.pc = "load", !.rows = PendingRows]
  /\ Disturb(Rows)
  /\ UNCHANGED <<mode, store, run, signals, signalling, calls, restarts, faults, sent, unmarked, unreported>>

\* The process dies and starts again: only the table is left.
Restart ==
  /\ restarts < MaxRestarts /\ restarts' = restarts + 1
  /\ jobs' = [r \in Rows |-> NoJob] /\ alive' = {}
  /\ run' = [f \in Fibers |-> NoRun(f)]
  /\ loop' = [pc |-> "load", ids |-> {}, rows |-> PendingRows]
  /\ signals' = <<>> /\ signalling' = {} /\ tzChanged' = FALSE
  /\ Disturb(Rows)
  /\ UNCHANGED <<mode, store, calls, faults, sent, unmarked, unreported>>

-----------------------------------------------------------------------------
Skills ==
  \/ set_reminder \/ update_reminder \/ cancel_reminder \/ delete_reminder
  \/ set_timezone

LoopStep ==
  \/ PollClosed \/ PollDrift \/ PollNew \/ ScheduleNext \/ ScheduledAll
  \/ RebuildScheduler

FireStep(f) ==
  ReadRow(f) \/ ReadFails(f) \/ Execute(f) \/ SendOk(f) \/ SendFails(f) \/ ReportFails(f)
  \/ markFiredIfOneTime(f) \/ MarkFails(f) \/ Cleanup(f)

Next ==
  \/ Skills \/ SignalSent \/ SignalTimesOut \/ handleSignal
  \/ Tick \/ Restart \/ LoopStep \/ RowsUnread \/ SignalUnread
  \/ \E f \in Fibers : FireStep(f)
  \/ \E j \in alive, f \in Slots : JobFires(j, f)

\* Goroutines keep running, timers go off (whenever a slot of the bounded model
\* is free again and again), and the Telegram inbox is not full for ever.
Fairness ==
  /\ WF_vars(LoopStep) /\ SF_vars(handleSignal)
  /\ \A f \in Fibers : WF_vars(FireStep(f))
  /\ \A r \in Rows :
       /\ SF_vars(\E f \in Fibers : run[f].row = r /\ SendOk(f))
       /\ SF_vars(\E j \in alive, f \in Slots :
                    j.row = r /\ j.at # Recurring /\ JobFires(j, f))

Spec == Init /\ [][Next]_vars
FairSpec == Spec /\ Fairness

-----------------------------------------------------------------------------
Schedules == Times \cup {Recurring}
Ids == 0..(2 * Cardinality(Rows) + Cardinality(Slots) + 1)

TypeOK ==
  /\ mode \in {"api", "cli"} /\ now \in 0..MaxTime
  /\ row \in [Rows -> [status : {"none", "pending", "fired", "cancelled", "deleted"},
                       at : Schedules, task : BOOLEAN]]
  /\ jobs \in [Rows -> [id : Ids, at : Schedules]]
  /\ alive \subseteq [id : Ids, row : Rows, at : Schedules]
  /\ run \in [Fibers -> [pc : {"idle", "read", "exec", "send", "report", "mark", "cleanup"},
                         row : Rows, once : BOOLEAN, fresh : BOOLEAN]]
  /\ loop.pc \in {"idle", "drift", "new", "load"} /\ loop.ids \subseteq Rows
  /\ loop.rows \subseteq [row : Rows, at : Schedules]
  /\ signals \in BoundedSeq(Rows, SigCap) /\ signalling \subseteq Rows
  /\ tzChanged \in BOOLEAN /\ calls \in 0..MaxCalls /\ restarts \in 0..MaxRestarts /\ faults \in 0..MaxFaults
  /\ sent \in [Rows -> Nat] /\ unmarked \in [Rows -> Nat]
  /\ unreported \in [Rows -> BOOLEAN] /\ disturbed \in [Rows -> BOOLEAN]

\* A one-time reminder reaches the chat once, and once more for every time its row could
\* not be marked after that, whatever polls, signals and timers do and whatever cannot be
\* read, unless its job was replaced, dropped or killed while one of its fires was in
\* flight: the tracked job of a running fire keeps phase 2 from firing the row again, and
\* it is given up only after the row is marked.
ReminderSentOnce == \A r \in Rows : sent[r] > 1 + unmarked[r] => disturbed[r]

\* A row says "fired" only after a message for it was put into the Telegram
\* inbox, or after Claude failed and the report about that was dropped.
FiredMeansSent == \A r \in Rows : row[r].status = "fired" => sent[r] > 0 \/ unreported[r]

\* Cancelled and fired are final: a fire that is still in flight when the user
\* cancels does not turn the row into a fired one.
ClosedStaysClosed ==
  [][\A r \in Rows : Closed(r) => row'[r].status \in {row[r].status, "deleted"}]_vars

\* A pending one-time reminder whose time has come is fired, or cancelled, or
\* moved: through full inboxes, lost signals, blocked loops and a restart.
DueReminderResolves ==
  \A r \in Rows :
    (Pending(r) /\ row[r].at \in 1..now) ~> (~Pending(r) \/ row[r].at \notin 1..now)

\* Run catches up with the table: a pending reminder is eventually scheduled
\* for what its row says, also when no signal arrives (CLI mode), unless the
\* row changes first.
ScheduleFollowsRow ==
  \A r \in Rows, at \in Schedules :
    (Pending(r) /\ row[r].at = at) ~>
      (~Pending(r) \/ row[r].at # at \/ (jobs[r] # NoJob /\ jobs[r].at = at))

\* remind.go: "markFiredIfOneTime marks a one-time (non-recurring) reminder as
\* fired."  It decides on the row the fire read up to twenty minutes ago.
RecurringIsNeverFired ==
  [][\A r \in Rows : row[r].status = "pending" /\ row'[r].status = "fired"
                       => row[r].at # Recurring]_vars
=============================================================================
