---------------------------- MODULE RemindersProofs ----------------------------
(***************************************************************************)
(* Proofs about Reminders, for any number of reminders, of goroutines that *)
(* fire at the same time, of calls of the skills and of crashes.           *)
(***************************************************************************)
EXTENDS Reminders, FiniteSetTheorems, TLAPS

-----------------------------------------------------------------------------
(* The parts of the invariant.                                             *)

\* A reminder that may still be fired, and whose fires were let finish.
Steady(r) == Pending(r) /\ ~disturbed[r]

\* f is in a call of fireReminder for the one-time reminder r; and it has read r
\* as such, so that it will send and mark it.
Once(f, r) == run[f].pc # "idle" /\ run[f].row = r /\ run[f].once
Fresh(f, r) == run[f].row = r /\ run[f].fresh

\* A row that was never written is known nowhere.
Untouched ==
  \A r \in Rows : row[r].status = "none" =>
    /\ jobs[r] = NoJob /\ sent[r] = 0
    /\ \A j \in alive : j.row # r
    /\ \A f \in Fibers : run[f].pc # "idle" => run[f].row # r
    /\ \A s \in loop.rows : s.row # r

\* What fires again and again is of a row that will be recurring for ever.
RecurringStays ==
  /\ \A j \in alive : j.at = Recurring => row[j.row].at = Recurring
  /\ \A s \in loop.rows : s.at = Recurring => row[s.row].at = Recurring
  /\ \A f \in Fibers : run[f].pc # "idle" /\ ~run[f].once => row[run[f].row].at = Recurring

FreshCalls ==
  \A f \in Fibers :
    /\ run[f].fresh => run[f].once /\ run[f].pc \in {"exec", "send", "report", "mark"}
    /\ f = Loop => run[f].pc # "cleanup"

\* gocron holds no job of a reminder but the tracked one.
AliveIsTracked ==
  \A j \in alive : Steady(j.row) =>
    jobs[j.row] # NoJob /\ j.id = jobs[j.row].id /\ j.at = jobs[j.row].at

\* A reminder is fired by one goroutine at a time.  One of gocron has its job still
\* tracked but gone from gocron; Run has none; and Run is not about to schedule it.
OneCall ==
  \A r \in Rows : Steady(r) => \A f \in Fibers : Once(f, r) =>
    /\ \A g \in Fibers : Once(g, r) => f = g
    /\ \A s \in loop.rows : s.row # r
    /\ IF f = Loop THEN jobs[r] = NoJob
                   ELSE jobs[r] # NoJob /\ \A j \in alive : j.row # r

\* The rows that Run is about to schedule have no job yet.
ToSchedule ==
  /\ \A s, t \in loop.rows : s.row = t.row => s = t
  /\ \A s \in loop.rows : Steady(s.row) => jobs[s.row] = NoJob
  /\ loop.pc \notin {"new", "load"} => loop.rows = {}

\* One goroutine sends, once, and then marks the row, or adds to what could not be marked.
SentByOne ==
  \A r \in Rows : ~disturbed[r] =>
    /\ \A f, g \in Fibers : Fresh(f, r) /\ Fresh(g, r) => f = g
    /\ \A f \in Fibers : Fresh(f, r) /\ run[f].pc # "mark" => sent[r] <= unmarked[r]
    /\ Pending(r) /\ sent[r] > unmarked[r] => \E f \in Fibers : Fresh(f, r)
    /\ sent[r] <= unmarked[r] + 1

MarkIsEarned ==
  \A f \in Fibers : run[f].fresh /\ run[f].pc = "mark" =>
    sent[run[f].row] > 0 \/ unreported[run[f].row]

-----------------------------------------------------------------------------
(* Types. *)

RowRecords == [status : {"none", "pending", "fired", "cancelled", "deleted"},
               at : Schedules, task : BOOLEAN]
JobRecords == [id : Nat \ {0}, row : Rows, at : Schedules]
RunRecords == [pc : {"idle", "read", "exec", "send", "report", "mark", "cleanup"},
               row : Rows, once : BOOLEAN, fresh : BOOLEAN]
Entries == [row : Rows, at : Schedules]
LoopRecords == [pc : {"idle", "drift", "new", "load"}, ids : SUBSET Rows, rows : SUBSET Entries]

TableType == row \in [Rows -> RowRecords] /\ signals \in Seq(Rows) /\ signalling \subseteq Rows
JobsType ==
  /\ jobs \in [Rows -> [id : Nat, at : Schedules]]
  /\ alive \subseteq JobRecords /\ IsFiniteSet(alive)
RunType == run \in [Fibers -> RunRecords] /\ loop \in LoopRecords
HistoryType ==
  /\ sent \in [Rows -> Nat] /\ unmarked \in [Rows -> Nat]
  /\ unreported \in [Rows -> BOOLEAN] /\ disturbed \in [Rows -> BOOLEAN]
TypeInv == TableType /\ JobsType /\ RunType /\ HistoryType

IInv ==
  /\ TypeInv /\ Untouched /\ RecurringStays /\ FreshCalls /\ AliveIsTracked /\ OneCall
  /\ ToSchedule /\ SentByOne /\ MarkIsEarned /\ FiredMeansSent

LEMMA Fiber == Loop \in Fibers /\ Slots \subseteq Fibers /\ Loop \notin Slots
               /\ \A f \in Fibers : f # Loop => f \in Slots
BY RemindersAssumption DEF Fibers

\* There is always an id that no job has: fewer are in use than may be chosen from.
LEMMA NewIdIs ==
  ASSUME JobsType
  PROVE  NewId \in Nat \ {0}
<1> DEFINE ofAlive == [j \in alive |-> j.id]
           ofTracked == [r \in Rows |-> jobs[r].id]
           A == {j.id : j \in alive}
           B == {jobs[r].id : r \in Rows}
           n == Cardinality(Rows) + Cardinality(alive) + 1
<1>1. IsFiniteSet(alive) /\ IsFiniteSet(Rows)
  BY RemindersAssumption DEF JobsType
<1>2. ofAlive \in Surjection(alive, A) /\ ofTracked \in Surjection(Rows, B)
  BY DEF Surjection
<1>3. /\ IsFiniteSet(A) /\ Cardinality(A) <= Cardinality(alive)
      /\ IsFiniteSet(B) /\ Cardinality(B) <= Cardinality(Rows)
  BY <1>1, <1>2, FS_Surjection
<1>4. IsFiniteSet(A \cup B) /\ Cardinality(A \cup B) < n /\ n \in Nat
  <2>1. /\ Cardinality(A) \in Nat /\ Cardinality(B) \in Nat /\ Cardinality(alive) \in Nat
        /\ Cardinality(Rows) \in Nat /\ IsFiniteSet(A \cap B)
    BY <1>1, <1>3, FS_CardinalityType, FS_Subset
  <2>2. Cardinality(A \cap B) \in Nat
    BY <2>1, FS_CardinalityType
  <2>3. IsFiniteSet(A \cup B) /\ Cardinality(A \cup B) = Cardinality(A) + Cardinality(B) - Cardinality(A \cap B)
    BY <1>3, FS_Union
  <2> HIDE DEF A, B
  <2> QED BY <1>3, <2>1, <2>2, <2>3
<1>5. ~(1..n \subseteq A \cup B)
  <2>1. Cardinality(1..n) = n
    BY <1>4, FS_Interval
  <2>2. SUFFICES ASSUME 1..n \in SUBSET (A \cup B) PROVE FALSE
    OBVIOUS
  <2>3. Cardinality(1..n) <= Cardinality(A \cup B)
    BY <1>4, <2>2, FS_Subset
  <2>4. Cardinality(A \cup B) \in Nat
    BY <1>4, FS_CardinalityType
  <2> HIDE DEF A, B, n
  <2> QED BY <1>4, <2>1, <2>3, <2>4
<1>6. PICK i \in 1..n : i \notin A \cup B
  BY <1>5
<1>7. (\A j \in alive : j.id # i) /\ (\A r \in Rows : jobs[r].id # i)
  BY <1>6
<1>8. NewId \in 1..n
  BY <1>6, <1>7 DEF NewId
<1> HIDE DEF n
<1> QED BY <1>4, <1>8

-----------------------------------------------------------------------------
(* Steps that fire and schedule nothing. *)

\* The rows change as the skills and markFiredIfOneTime change them; jobs are lost, and
\* those of a pending reminder are not.
RowsMove ==
  \A r \in Rows :
    /\ row[r].status # "none" => row'[r].status # "none"
    /\ row'[r].status = "pending" => row[r].status = "pending"
    /\ row'[r].status = "none" => row[r].status = "none"
    /\ row[r].at = Recurring => row'[r].at = Recurring
Calm ==
  /\ RowsMove /\ \A r \in Rows : row'[r].status = "fired" => row[r].status = "fired"
  /\ alive' \subseteq alive
  /\ \A r \in Rows : jobs'[r] = jobs[r] \/ (jobs'[r] = NoJob /\ ~Pending(r))
  /\ loop'.rows \subseteq loop.rows /\ (loop'.pc \notin {"new", "load"} => loop'.rows = {})
  /\ UNCHANGED <<run, history>>

LEMMA CalmKeeps ==
  ASSUME IInv, TypeInv', Calm
  PROVE  IInv'
<1> USE DEF IInv
<1>1. /\ run' = run /\ sent' = sent /\ unmarked' = unmarked /\ disturbed' = disturbed /\ unreported' = unreported
      /\ \A r \in Rows : Steady(r)' => Steady(r)
      /\ \A r \in Rows : Pending(r)' => Pending(r) /\ jobs'[r] = jobs[r]
      /\ alive' \subseteq alive /\ loop'.rows \subseteq loop.rows
  BY DEF Calm, RowsMove, history, Steady, Pending
<1>2. (\A j \in alive : j.row \in Rows) /\ (\A s \in loop.rows : s.row \in Rows)
      /\ \A f \in Fibers : run[f].row \in Rows
  BY DEF TypeInv, JobsType, JobRecords, RunType, LoopRecords, Entries, RunRecords
<1>3. Untouched'
  BY <1>1 DEF Untouched, Calm, RowsMove
<1>4. RecurringStays'
  BY <1>1, <1>2 DEF RecurringStays, Calm, RowsMove
<1>5. FreshCalls' /\ SentByOne' /\ MarkIsEarned'
  BY <1>1 DEF FreshCalls, SentByOne, MarkIsEarned, Fresh, Pending
<1>6. AliveIsTracked'
  BY <1>1, <1>2 DEF AliveIsTracked, Steady
<1>7. OneCall'
  BY <1>1 DEF OneCall, Steady, Once
<1>8. ToSchedule'
  BY <1>1, <1>2 DEF ToSchedule, Steady, Calm
<1>9. FiredMeansSent'
  BY <1>1 DEF FiredMeansSent, Calm
<1> QED BY <1>3, <1>4, <1>5, <1>6, <1>7, <1>8, <1>9

LEMMA AliveSubset ==
  ASSUME JobsType, alive' \subseteq alive
  PROVE  alive' \subseteq JobRecords /\ IsFiniteSet(alive')
BY FS_Subset DEF JobsType

\* The skills but set_reminder.
LEMMA SkillsCalm ==
  ASSUME TypeInv, ToSchedule, update_reminder \/ cancel_reminder \/ delete_reminder
  PROVE  TypeInv' /\ Calm
<1> USE DEF TypeInv
<1>1. /\ UNCHANGED <<jobs, alive, run, loop, signals, history>>
      /\ JobsType' /\ RunType' /\ HistoryType'
  BY DEF update_reminder, cancel_reminder, delete_reminder, history, JobsType, RunType, HistoryType
<1>2. signalling' \subseteq Rows
  BY DEF update_reminder, cancel_reminder, delete_reminder, Signal, TableType
<1>3. PICK r \in Rows, q \in RowRecords :
        /\ row' = [row EXCEPT ![r] = q] /\ row[r].status \in {"pending", "cancelled", "fired"}
        /\ q.status \in {row[r].status, "cancelled", "deleted"}
        /\ row[r].at = Recurring => q.at = Recurring
  <2>1. CASE update_reminder
    <3>1. PICK r \in Rows, at \in Times \cup {Recurring} :
            /\ Pending(r) /\ (row[r].at = Recurring => at = Recurring)
            /\ row' = [row EXCEPT ![r].at = at]
      BY <2>1 DEF update_reminder
    <3>2. /\ row[r] \in RowRecords /\ [row[r] EXCEPT !.at = at] \in RowRecords
          /\ [row[r] EXCEPT !.at = at].at = at /\ [row[r] EXCEPT !.at = at].status = row[r].status
      BY DEF TableType, RowRecords, Schedules
    <3> QED BY <3>1, <3>2 DEF Pending
  <2>2. CASE cancel_reminder
    <3>1. PICK r \in Rows : Pending(r) /\ row' = [row EXCEPT ![r].status = "cancelled"]
      BY <2>2 DEF cancel_reminder
    <3>2. LET q == [row[r] EXCEPT !.status = "cancelled"] IN
            q \in RowRecords /\ q.status = "cancelled" /\ q.at = row[r].at
      BY DEF TableType, RowRecords
    <3> QED BY <3>1, <3>2 DEF Pending
  <2>3. CASE delete_reminder
    <3>1. PICK r \in Rows :
            /\ row[r].status \in {"cancelled", "fired"}
            /\ row' = [row EXCEPT ![r] = [status |-> "deleted", at |-> 0, task |-> FALSE]]
      BY <2>3 DEF delete_reminder
    <3>2. [status |-> "deleted", at |-> 0, task |-> FALSE] \in RowRecords
      BY DEF RowRecords, Schedules, Recurring
    <3> QED BY <3>1, <3>2 DEF Recurring
  <2> QED BY <2>1, <2>2, <2>3
<1>4. TableType'
  BY <1>1, <1>2, <1>3 DEF TableType
<1>5. RowsMove /\ \A p \in Rows : row'[p].status = "fired" => row[p].status = "fired"
  BY <1>3 DEF RowsMove, TableType
<1>6. loop.pc \notin {"new", "load"} => loop.rows = {}
  BY DEF ToSchedule
<1> QED BY <1>1, <1>4, <1>5, <1>6 DEF Calm

\* Signals, the clock and the time zone; Run has scheduled what it found.
LEMMA TimeCalm ==
  ASSUME TypeInv, ToSchedule,
         SignalSent \/ SignalTimesOut \/ set_timezone \/ Tick \/ ScheduledAll
         \/ RowsUnread \/ SignalUnread
  PROVE  TypeInv' /\ Calm
<1> USE DEF TypeInv
<1>1. UNCHANGED <<row, jobs, alive, run, history>>
  BY DEF SignalSent, SignalTimesOut, set_timezone, Tick, ScheduledAll, RowsUnread, SignalUnread, store
<1>2. JobsType' /\ HistoryType'
  BY <1>1 DEF history, JobsType, HistoryType
<1>3. signals' \in Seq(Rows) /\ signalling' \subseteq Rows
  <2>1. CASE SignalSent
    BY <2>1 DEF SignalSent, TableType
  <2>2. CASE SignalTimesOut \/ SignalUnread
    BY <2>2 DEF SignalTimesOut, SignalUnread, TableType
  <2>3. CASE UNCHANGED <<signals, signalling>>
    BY <2>3 DEF TableType
  <2> QED BY <2>1, <2>2, <2>3 DEF set_timezone, Tick, ScheduledAll, RowsUnread, user
<1>4. RunType' /\ loop'.rows \subseteq loop.rows /\ (loop'.pc \notin {"new", "load"} => loop'.rows = {})
  <2>1. CASE ScheduledAll
    BY <1>1, <2>1 DEF ScheduledAll, RunType, LoopRecords
  <2>2. CASE loop' = loop
    BY <1>1, <2>2 DEF RunType, ToSchedule
  <2>3. CASE RowsUnread
    <3>1. PICK ids \in SUBSET loop.ids, rows \in SUBSET loop.rows :
            loop' = [loop EXCEPT !.ids = ids, !.rows = rows]
      BY <2>3 DEF RowsUnread
    <3>2. loop' \in LoopRecords /\ loop'.rows = rows /\ loop'.pc = loop.pc
      BY <3>1 DEF RunType, LoopRecords
    <3> QED BY <1>1, <3>1, <3>2 DEF RunType, ToSchedule
  <2> QED BY <2>1, <2>2, <2>3 DEF SignalSent, SignalTimesOut, set_timezone, Tick, SignalUnread
<1> QED BY <1>1, <1>2, <1>3, <1>4 DEF TableType, Calm, RowsMove

\* The poll forgets the jobs of closed rows.
LEMMA PollClosedCalm ==
  ASSUME TypeInv, ToSchedule, PollClosed
  PROVE  TypeInv' /\ Calm
<1> USE DEF TypeInv
<1>1. TableType' /\ HistoryType' /\ UNCHANGED <<row, run, history>>
  BY DEF PollClosed, store, user, history, TableType, HistoryType
<1>2. alive' \subseteq alive
  BY DEF PollClosed
<1>3. jobs' \in [Rows -> [id : Nat, at : Schedules]]
  <2>1. NoJob \in [id : Nat, at : Schedules]
    BY DEF NoJob, Schedules, Recurring
  <2> QED BY <2>1 DEF PollClosed, JobsType
<1>4. \A r \in Rows : jobs'[r] = jobs[r] \/ (jobs'[r] = NoJob /\ ~Pending(r))
  BY DEF PollClosed, Closed, Pending, JobsType
<1>5. RunType' /\ loop'.rows = loop.rows /\ loop.rows = {}
  <2>1. loop.pc = "idle" /\ loop' = [loop EXCEPT !.pc = "drift", !.ids = Tracked] /\ Tracked \subseteq Rows
    BY DEF PollClosed, LoopAt, Tracked
  <2>2. loop' \in LoopRecords /\ loop'.rows = loop.rows
    BY <2>1 DEF RunType, LoopRecords
  <2> QED BY <1>1, <2>1, <2>2 DEF RunType, ToSchedule
<1> QED BY <1>1, <1>2, <1>3, <1>4, <1>5, AliveSubset DEF JobsType, Calm, RowsMove

\* A row is written for the first time: nothing knows it yet.
LEMMA SetKeeps ==
  ASSUME IInv, set_reminder
  PROVE  IInv'
<1> USE DEF IInv, TypeInv
<1>1. PICK r \in Rows, at \in Times \cup {Recurring}, task \in BOOLEAN :
        /\ row[r].status = "none"
        /\ row' = [row EXCEPT ![r] = [status |-> "pending", at |-> at, task |-> task]]
        /\ Signal(r)
  BY DEF set_reminder
<1>2. UNCHANGED <<jobs, alive, run, loop, signals, history>>
  BY DEF set_reminder
<1>3. /\ row'[r] = [status |-> "pending", at |-> at, task |-> task]
      /\ \A p \in Rows : p # r => row'[p] = row[p]
  BY <1>1 DEF TableType
<1>4. TypeInv'
  <2>1. [status |-> "pending", at |-> at, task |-> task] \in RowRecords
    BY DEF RowRecords, Schedules
  <2>2. signalling' \subseteq Rows
    BY <1>1 DEF Signal
  <2> QED BY <1>1, <1>2, <2>1, <2>2 DEF TableType, JobsType, RunType, HistoryType, history
<1>5. /\ jobs[r] = NoJob /\ sent[r] = 0
      /\ \A j \in alive : j.row # r
      /\ \A f \in Fibers : run[f].pc # "idle" => run[f].row # r
      /\ \A s \in loop.rows : s.row # r
  BY <1>1 DEF Untouched
<1>6. (\A j \in alive : j.row \in Rows) /\ (\A s \in loop.rows : s.row \in Rows)
      /\ \A f \in Fibers : run[f].row \in Rows
  BY DEF JobsType, JobRecords, RunType, LoopRecords, Entries, RunRecords
<1>7. \A f \in Fibers : ~Once(f, r) /\ ~Fresh(f, r)
  BY <1>5 DEF Once, Fresh, FreshCalls
<1>8. Untouched'
  BY <1>2, <1>3 DEF Untouched, history
<1>9. RecurringStays'
  BY <1>2, <1>3, <1>5, <1>6 DEF RecurringStays
<1>10. \A p \in Rows : p # r => (Steady(p)' <=> Steady(p)) /\ (Pending(p)' <=> Pending(p))
  BY <1>2, <1>3 DEF Steady, Pending, history
<1>11. AliveIsTracked' /\ ToSchedule'
  BY <1>2, <1>5, <1>6, <1>10 DEF AliveIsTracked, ToSchedule
<1>12. OneCall'
  BY <1>2, <1>7, <1>10 DEF OneCall, Once
<1>13. FreshCalls' /\ MarkIsEarned'
  BY <1>2 DEF FreshCalls, MarkIsEarned, history
<1>14. SentByOne'
  <2>1. UNCHANGED <<run, sent, unmarked, disturbed>> /\ unmarked[r] \in Nat
    BY <1>2 DEF history, HistoryType
  <2> SUFFICES ASSUME NEW p \in Rows, ~disturbed[p]
               PROVE  /\ \A f, g \in Fibers : Fresh(f, p) /\ Fresh(g, p) => f = g
                      /\ \A f \in Fibers : Fresh(f, p) /\ run[f].pc # "mark"
                                             => sent[p] <= unmarked[p]
                      /\ Pending(p)' /\ sent[p] > unmarked[p] => \E f \in Fibers : Fresh(f, p)
                      /\ sent[p] <= unmarked[p] + 1
    BY <2>1 DEF SentByOne, Fresh
  <2>2. CASE p = r
    BY <1>5, <1>7, <2>1, <2>2
  <2>3. CASE p # r
    BY <1>10, <2>3 DEF SentByOne
  <2> QED BY <2>2, <2>3
<1>15. FiredMeansSent'
  BY <1>2, <1>3 DEF FiredMeansSent, history
<1> QED BY <1>4, <1>8, <1>9, <1>11, <1>12, <1>13, <1>14, <1>15

-----------------------------------------------------------------------------
(* Scheduling.                                                             *)

\* Run is about to schedule or fire s: its other jobs (js, al) are those tracked and held
\* before, less some; nothing knows s.row any more unless it is disturbed.
Prepared(s, js, al) ==
  /\ s \in Entries /\ row[s.row].status # "none"
  /\ s.at = Recurring => row[s.row].at = Recurring
  /\ run[Loop].pc = "idle"
  /\ js \in [Rows -> [id : Nat, at : Schedules]] /\ (\A r \in Rows : r # s.row => js[r] = jobs[r])
  /\ al \subseteq alive
  /\ TableType' /\ HistoryType' /\ UNCHANGED <<row, sent, unmarked, unreported>>
  /\ \A r \in Rows : disturbed[r] => disturbed'[r]
  /\ loop' \in LoopRecords /\ loop'.rows \subseteq loop.rows
  /\ loop'.pc \notin {"new", "load"} => loop'.rows = {}
  /\ \A t \in loop'.rows : t.row # s.row
  /\ Steady(s.row) /\ ~disturbed'[s.row] =>
       /\ js[s.row] = NoJob
       /\ \A j \in al : j.row # s.row
       /\ \A f \in Fibers : ~Once(f, s.row)

LEMMA ScheduleKeeps ==
  ASSUME IInv, NEW s, NEW js, NEW al, Prepared(s, js, al), scheduleOrFire(s, js, al)
  PROVE  IInv'
<1> USE DEF IInv, TypeInv
<1> DEFINE r == s.row
<1>1. /\ r \in Rows /\ s.at \in Schedules
      /\ row' = row /\ sent' = sent /\ unmarked' = unmarked /\ unreported' = unreported
      /\ \A q \in Rows : Steady(q)' => Steady(q) /\ ~disturbed'[q]
      /\ \A q \in Rows : (Pending(q)' <=> Pending(q)) /\ (disturbed[q] => disturbed'[q])
  BY DEF Prepared, Entries, Steady, Pending
<1>2. (\A j \in alive : j.row \in Rows) /\ (\A t \in loop.rows : t.row \in Rows)
      /\ \A f \in Fibers : run[f].row \in Rows
  BY DEF JobsType, JobRecords, RunType, LoopRecords, Entries, RunRecords
<1>3. al \subseteq JobRecords /\ IsFiniteSet(al)
  BY FS_Subset DEF Prepared, JobsType
<1>4. Steady(r)' => /\ js[r] = NoJob /\ (\A j \in al : j.row # r)
                    /\ \A f \in Fibers : ~Once(f, r)
  BY <1>1 DEF Prepared
<1>5. loop'.rows \subseteq loop.rows /\ \A t \in loop'.rows : t.row # r
  BY DEF Prepared
<1>6. ~run[Loop].fresh /\ run[Loop].pc = "idle" /\ row[r].status # "none"
  BY Fiber DEF Prepared, FreshCalls
<1>7. SUFFICES ASSUME /\ run' \in [Fibers -> RunRecords]
                      /\ \A f \in Fibers : f # Loop => run'[f] = run[f]
                      /\ ~run'[Loop].fresh /\ run'[Loop].pc # "cleanup"
                      /\ run'[Loop].pc # "idle" => run'[Loop].once /\ run'[Loop].row = r
                      /\ run'[Loop].pc # "idle" => jobs' = js /\ alive' = al
                      /\ jobs' \in [Rows -> [id : Nat, at : Schedules]]
                      /\ \A q \in Rows : q # r => jobs'[q] = jobs[q]
                      /\ alive' \subseteq JobRecords /\ IsFiniteSet(alive')
                      /\ \A j \in alive' : \/ j \in al
                                           \/ /\ j.row = r /\ (j.at = Recurring => row[r].at = Recurring)
                                              /\ jobs'[r] # NoJob
                                              /\ j.id = jobs'[r].id /\ j.at = jobs'[r].at
               PROVE  IInv'
  <2>1. CASE s.at # Recurring /\ s.at <= now
    <3>1. run' = [run EXCEPT ![Loop] = Firing(r, TRUE)] /\ jobs' = js /\ alive' = al
      BY <2>1 DEF scheduleOrFire
    <3>2. Firing(r, TRUE) \in RunRecords
      BY <1>1 DEF Firing, RunRecords
    <3>3. run' \in [Fibers -> RunRecords] /\ run'[Loop] = Firing(r, TRUE)
      BY <3>1, <3>2, Fiber DEF RunType
    <3> QED BY <1>3, <1>7, <3>1, <3>3 DEF Prepared, Firing, RunType
  <2>2. CASE ~(s.at # Recurring /\ s.at <= now)
    <3>1. PICK i \in Nat \ {0} : i = NewId
      BY NewIdIs
    <3>2. /\ jobs' = [js EXCEPT ![r] = [id |-> i, at |-> s.at]]
          /\ alive' = al \cup {[id |-> i, row |-> r, at |-> s.at]}
          /\ run' = run
      BY <2>2, <3>1 DEF scheduleOrFire
    <3>3. IsFiniteSet(alive') /\ alive' \subseteq JobRecords
      <4>1. PICK n \in JobRecords : n = [id |-> i, row |-> r, at |-> s.at]
        BY <1>1, <3>1 DEF JobRecords
      <4>2. IsFiniteSet(al \cup {n})
        BY <1>3, FS_AddElement
      <4> QED BY <1>3, <3>2, <4>1, <4>2
    <3>4. [id |-> i, at |-> s.at] \in [id : Nat, at : Schedules] /\ [id |-> i, at |-> s.at] # NoJob
      BY <1>1, <3>1 DEF NoJob
    <3>5. /\ jobs' \in [Rows -> [id : Nat, at : Schedules]]
          /\ jobs'[r] = [id |-> i, at |-> s.at]
          /\ \A q \in Rows : q # r => jobs'[q] = jobs[q]
      BY <1>1, <3>2, <3>4 DEF Prepared
    <3>6. s.at = Recurring => row[r].at = Recurring
      BY DEF Prepared
    <3> QED BY <1>6, <1>7, <3>2, <3>3, <3>4, <3>5, <3>6 DEF RunType
  <2> QED BY <2>1, <2>2
<1>8. TypeInv'
  BY <1>7 DEF Prepared, JobsType, RunType
<1> HIDE DEF r
<1>9. \A f \in Fibers, q \in Rows : (Once(f, q)' => Once(f, q) \/ (f = Loop /\ q = r))
                                    /\ (Fresh(f, q)' <=> Fresh(f, q))
  BY <1>6, <1>7 DEF Once, Fresh, r
<1>10. \A j \in alive' : j.row \in Rows /\ (j.row # r => j \in alive)
  BY <1>7, <1>8 DEF JobsType, JobRecords, Prepared
<1>11. Untouched'
  BY <1>1, <1>5, <1>6, <1>7, <1>10 DEF Untouched
<1>12. RecurringStays'
  BY <1>1, <1>5, <1>6, <1>7, <1>10 DEF RecurringStays, Prepared
<1>13. FreshCalls'
  BY <1>7 DEF FreshCalls
<1>14. AliveIsTracked'
  BY <1>1, <1>4, <1>7, <1>10 DEF AliveIsTracked
<1>15. OneCall'
  <2> SUFFICES ASSUME NEW q \in Rows, Steady(q)', NEW f \in Fibers, Once(f, q)'
               PROVE  /\ \A g \in Fibers : Once(g, q)' => f = g
                      /\ \A t \in loop'.rows : t.row # q
                      /\ IF f = Loop THEN jobs'[q] = NoJob
                                     ELSE jobs'[q] # NoJob /\ \A j \in alive' : j.row # q
    BY DEF OneCall
  <2>1. CASE q = r
    <3>1. f = Loop /\ \A g \in Fibers : Once(g, q)' => g = Loop
      BY <1>4, <1>9, <2>1
    <3>2. jobs' = js
      BY <1>7, <3>1 DEF Once
    <3> QED BY <1>4, <1>5, <2>1, <3>1, <3>2
  <2>2. CASE q # r
    <3>1. Once(f, q) /\ Steady(q) /\ jobs'[q] = jobs[q]
      BY <1>1, <1>7, <1>9, <2>2
    <3> QED BY <1>5, <1>9, <1>10, <2>2, <3>1 DEF OneCall
  <2> QED BY <2>1, <2>2
<1>16. ToSchedule'
  BY <1>1, <1>2, <1>5, <1>7 DEF ToSchedule, Prepared
<1>17. SentByOne'
  <2>1. \A f \in Fibers, q \in Rows : Fresh(f, q)' => run'[f] = run[f]
    BY <1>7 DEF Fresh
  <2> QED BY <1>1, <1>9, <2>1 DEF SentByOne
<1>18. MarkIsEarned'
  BY <1>1, <1>7 DEF MarkIsEarned
<1>19. FiredMeansSent'
  BY <1>1 DEF FiredMeansSent
<1> QED BY <1>8, <1>11, <1>12, <1>13, <1>14, <1>15, <1>16, <1>17, <1>18, <1>19

\* What a job cancelled by its id leaves: none of the reminder, if its fires were let be.
LEMMA CancelledJobs ==
  ASSUME IInv, NEW r \in Rows
  PROVE  /\ JobsWithout(r) \in [Rows -> [id : Nat, at : Schedules]]
         /\ JobsWithout(r)[r] = NoJob
         /\ \A q \in Rows : q # r => JobsWithout(r)[q] = jobs[q]
         /\ AliveWithout(r) \subseteq alive
         /\ Steady(r) => \A j \in AliveWithout(r) : j.row # r
<1> USE DEF IInv, TypeInv
<1>1. NoJob \in [id : Nat, at : Schedules]
  BY DEF NoJob, Schedules, Recurring
<1>2. Steady(r) => \A j \in AliveWithout(r) : j.row # r
  BY DEF AliveWithout, AliveIsTracked
<1> QED BY <1>1, <1>2 DEF JobsWithout, AliveWithout, JobsType

LEMMA DisturbTypes ==
  ASSUME HistoryType, NEW rs, Disturb(rs), UNCHANGED <<sent, unmarked, unreported>>
  PROVE  HistoryType' /\ \A r \in Rows : disturbed[r] => disturbed'[r]
BY DEF HistoryType, Disturb

\* A reminder without a job that was let be and that Run does not fire is fired by nobody.
LEMMA NobodyFires ==
  ASSUME IInv, NEW r \in Rows, Steady(r), jobs[r] = NoJob, run[Loop].pc = "idle"
  PROVE  \A f \in Fibers : ~Once(f, r)
BY DEF IInv, OneCall, Once

LEMMA SignalKeeps ==
  ASSUME IInv, handleSignal
  PROVE  IInv'
<1> USE DEF IInv, TypeInv
<1>1. PICK r \in Rows : r = Head(signals)
  BY DEF handleSignal, TableType
<1>2. /\ UNCHANGED <<row, loop, sent, unmarked, unreported>> /\ TableType' /\ loop.pc = "idle"
      /\ run[Loop].pc = "idle"
  BY DEF handleSignal, LoopAt, TableType, store
<1>3. loop.rows = {} /\ loop' \in LoopRecords
  BY <1>2 DEF ToSchedule, RunType
<1>4. CASE Pending(r)
  <2>1. /\ scheduleOrFire([row |-> r, at |-> row[r].at], JobsWithout(r), AliveWithout(r))
        /\ Disturb(IF jobs[r] # NoJob THEN {r} ELSE {})
    BY <1>1, <1>4, Zenon DEF handleSignal, Pending
  <2>2. HistoryType' /\ \A q \in Rows : disturbed[q] => disturbed'[q]
    BY <1>2, <2>1, DisturbTypes
  <2>3. [row |-> r, at |-> row[r].at] \in Entries /\ row[r].status = "pending"
    BY <1>4 DEF Pending, TableType, RowRecords, Entries
  <2>4. ASSUME Steady(r), ~disturbed'[r], NEW f \in Fibers, Once(f, r) PROVE FALSE
    <3>1. jobs[r] # NoJob
      BY <1>2, <2>4, NobodyFires
    <3>2. disturbed'[r] = (disturbed[r] \/ InFlight(r))
      BY <2>1, <3>1 DEF Disturb
    <3>3. ~InFlight(r)
      BY <2>4, <3>2
    <3> QED BY <2>4, <3>3 DEF Once, InFlight
  <2>5. Prepared([row |-> r, at |-> row[r].at], JobsWithout(r), AliveWithout(r))
    BY <1>2, <1>3, <2>2, <2>3, <2>4, CancelledJobs DEF Prepared
  <2> QED BY <2>1, <2>5, ScheduleKeeps
<1>5. CASE ~Pending(r)
  <2>1. UNCHANGED <<run, disturbed>>
        /\ \/ jobs' = JobsWithout(r) /\ alive' = AliveWithout(r)
           \/ jobs' = jobs /\ alive' = alive
    BY <1>1, <1>5 DEF handleSignal
  <2>2. /\ jobs' \in [Rows -> [id : Nat, at : Schedules]] /\ alive' \subseteq alive
        /\ \A q \in Rows : jobs'[q] = jobs[q] \/ (jobs'[q] = NoJob /\ ~Pending(q))
    BY <1>5, <2>1, CancelledJobs DEF JobsType
  <2>3. TypeInv'
    BY <1>2, <2>1, <2>2, AliveSubset DEF JobsType, RunType, HistoryType
  <2>4. Calm
    BY <1>2, <1>3, <2>1, <2>2 DEF Calm, RowsMove, history
  <2> QED BY <2>3, <2>4, CalmKeeps
<1> QED BY <1>4, <1>5

LEMMA DriftKeeps ==
  ASSUME IInv, PollDrift
  PROVE  IInv'
<1> USE DEF IInv, TypeInv
<1>1. PICK r \in loop.ids :
        /\ loop' = [loop EXCEPT !.ids = @ \ {r}]
        /\ IF Drifted(r)
           THEN /\ scheduleOrFire([row |-> r, at |-> row[r].at], JobsWithout(r), AliveWithout(r))
                /\ Disturb({r})
           ELSE UNCHANGED <<jobs, alive, run, disturbed>>
  BY DEF PollDrift
<1>2. /\ UNCHANGED <<row, sent, unmarked, unreported>> /\ TableType' /\ loop.pc = "drift"
      /\ run[Loop].pc = "idle"
  BY DEF PollDrift, LoopAt, TableType, store, user
<1>3. r \in Rows /\ loop' \in LoopRecords /\ loop'.rows = loop.rows /\ loop.rows = {}
  BY <1>1, <1>2 DEF RunType, LoopRecords, ToSchedule
<1>4. CASE Drifted(r)
  <2>1. HistoryType' /\ \A q \in Rows : disturbed[q] => disturbed'[q]
    BY <1>1, <1>2, <1>4, DisturbTypes
  <2>2. [row |-> r, at |-> row[r].at] \in Entries /\ row[r].status = "pending"
    BY <1>3, <1>4 DEF Drifted, Pending, TableType, RowRecords, Entries
  <2>3. ASSUME ~disturbed'[r], NEW f \in Fibers, Once(f, r) PROVE FALSE
    BY <1>1, <1>3, <1>4, <2>3 DEF Disturb, Once, InFlight
  <2>4. Prepared([row |-> r, at |-> row[r].at], JobsWithout(r), AliveWithout(r))
    BY <1>2, <1>3, <2>1, <2>2, <2>3, CancelledJobs DEF Prepared
  <2> QED BY <1>1, <1>4, <2>4, ScheduleKeeps
<1>5. CASE ~Drifted(r)
  <2>1. UNCHANGED <<jobs, alive, run, disturbed>>
    BY <1>1, <1>5
  <2>2. TypeInv'
    BY <1>2, <1>3, <2>1 DEF JobsType, RunType, HistoryType
  <2>3. Calm
    BY <1>2, <1>3, <2>1 DEF Calm, RowsMove, history
  <2> QED BY <2>2, <2>3, CalmKeeps
<1> QED BY <1>4, <1>5

LEMMA ScheduleNextKeeps ==
  ASSUME IInv, ScheduleNext
  PROVE  IInv'
<1> USE DEF IInv, TypeInv
<1>1. PICK s \in loop.rows :
        loop' = [loop EXCEPT !.rows = @ \ {s}] /\ scheduleOrFire(s, jobs, alive)
  BY DEF ScheduleNext
<1>2. /\ UNCHANGED <<row, sent, unmarked, unreported, disturbed>> /\ TableType' /\ HistoryType'
      /\ loop.pc \in {"new", "load"} /\ run[Loop].pc = "idle"
  BY DEF ScheduleNext, TableType, HistoryType, store, user, history
<1>3. s \in Entries /\ row[s.row].status # "none" /\ (s.at = Recurring => row[s.row].at = Recurring)
  BY DEF RunType, LoopRecords, Entries, Untouched, RecurringStays
<1>4. /\ loop' \in LoopRecords /\ loop'.rows = loop.rows \ {s} /\ loop'.pc = loop.pc
  BY <1>1 DEF RunType, LoopRecords
<1>5. \A t \in loop'.rows : t.row # s.row
  BY <1>1, <1>4 DEF ToSchedule
<1>6. ASSUME Steady(s.row)
      PROVE  /\ jobs[s.row] = NoJob /\ (\A j \in alive : j.row # s.row)
             /\ \A f \in Fibers : ~Once(f, s.row)
  <2>1. jobs[s.row] = NoJob
    BY <1>6 DEF ToSchedule
  <2> QED BY <1>2, <1>3, <1>6, <2>1, NobodyFires DEF AliveIsTracked, Entries
<1>7. Prepared(s, jobs, alive)
  BY <1>2, <1>3, <1>4, <1>5, <1>6 DEF Prepared, JobsType
<1> QED BY <1>1, <1>7, ScheduleKeeps

-----------------------------------------------------------------------------
(* The goroutines that fire.                                               *)

\* A call goes on: it has run Claude, or sent what it had to.
LEMMA GoesOnKeeps ==
  ASSUME IInv, NEW f \in Fibers, Execute(f) \/ SendOk(f) \/ ReportFails(f)
  PROVE  IInv'
<1> USE DEF IInv, TypeInv
<1> DEFINE r == run[f].row
<1>1. PICK p \in {"send", "report", "mark"} :
        run' = [run EXCEPT ![f].pc = p] /\ run[f].pc \in {"exec", "send", "report"}
  BY DEF Execute, SendOk, ReportFails
<1>2. /\ UNCHANGED <<row, jobs, alive, loop, signals, signalling, disturbed>>
      /\ r \in Rows
  BY DEF Execute, SendOk, ReportFails, fireUnchanged, user, history, RunType, RunRecords
<1>3. /\ run' \in [Fibers -> RunRecords]
      /\ run'[f].pc = p /\ run'[f].row = r /\ run'[f].once = run[f].once
      /\ run'[f].fresh = run[f].fresh
      /\ \A g \in Fibers : g # f => run'[g] = run[g]
  BY <1>1 DEF RunType, RunRecords
<1>4. /\ sent' \in [Rows -> Nat] /\ unmarked' = unmarked /\ \A q \in Rows : sent'[q] >= sent[q]
      /\ \A q \in Rows : sent'[q] # sent[q] =>
           SendOk(f) /\ q = r /\ run[f].fresh /\ sent'[q] = sent[q] + 1
  BY <1>2 DEF Execute, SendOk, ReportFails, Count, history, HistoryType
<1>5. unreported' \in [Rows -> BOOLEAN] /\ \A q \in Rows : unreported[q] => unreported'[q]
  BY DEF Execute, SendOk, ReportFails, history, HistoryType
<1>6. TypeInv'
  BY <1>2, <1>3, <1>4, <1>5 DEF TableType, JobsType, RunType, HistoryType
<1>7. \A g \in Fibers, q \in Rows : /\ Once(g, q)' <=> Once(g, q)
                                    /\ Fresh(g, q)' <=> Fresh(g, q)
  BY <1>1, <1>3 DEF Once, Fresh
<1>8. Untouched'
  BY <1>1, <1>2, <1>3, <1>4 DEF Untouched
<1>9. RecurringStays' /\ AliveIsTracked' /\ ToSchedule'
  BY <1>1, <1>2, <1>3 DEF RecurringStays, AliveIsTracked, ToSchedule, Steady, Pending
<1>10. FreshCalls'
  BY <1>1, <1>3 DEF FreshCalls
<1>11. OneCall'
  BY <1>2, <1>7 DEF OneCall, Steady, Pending
<1> HIDE DEF r
<1>12. ASSUME NEW q \in Rows, sent'[q] # sent[q]
       PROVE  /\ q = r /\ Fresh(f, q) /\ run'[f].pc = "mark" /\ sent'[q] = sent[q] + 1
              /\ ~disturbed[q] => sent[q] <= unmarked[q]
  <2>1. q = r /\ Fresh(f, q) /\ sent'[q] = sent[q] + 1 /\ SendOk(f)
    BY <1>4, <1>12 DEF Fresh, r
  <2>2. run'[f].pc = "mark"
    BY <2>1 DEF SendOk, RunType, RunRecords
  <2>3. run[f].pc # "mark"
    BY <1>1
  <2> QED BY <2>1, <2>2, <2>3 DEF SentByOne
<1>13. SentByOne'
  <2> SUFFICES ASSUME NEW q \in Rows, ~disturbed[q]
               PROVE  /\ \A g, h \in Fibers : Fresh(g, q) /\ Fresh(h, q) => g = h
                      /\ \A g \in Fibers : Fresh(g, q) /\ run'[g].pc # "mark" => sent'[q] <= unmarked[q]
                      /\ Pending(q) /\ sent'[q] > unmarked[q] => \E g \in Fibers : Fresh(g, q)
                      /\ sent'[q] <= unmarked[q] + 1
    BY <1>2, <1>4, <1>7 DEF SentByOne, Pending
  <2>1. CASE sent'[q] = sent[q]
    <3>1. \A g \in Fibers : run'[g].pc # "mark" => run[g].pc # "mark"
      BY <1>1, <1>3
    <3> QED BY <2>1, <3>1 DEF SentByOne
  <2>2. CASE sent'[q] # sent[q]
    <3>1. Fresh(f, q) /\ run'[f].pc = "mark" /\ sent'[q] = sent[q] + 1 /\ sent[q] <= unmarked[q]
      BY <1>12, <2>2
    <3>2. \A g, h \in Fibers : Fresh(g, q) /\ Fresh(h, q) => g = h
      BY DEF SentByOne
    <3>3. sent'[q] <= unmarked[q] + 1
      BY <3>1 DEF HistoryType
    <3> QED BY <3>1, <3>2, <3>3
  <2> QED BY <2>1, <2>2
<1>14. MarkIsEarned'
  <2> SUFFICES ASSUME NEW g \in Fibers, run'[g].fresh, run'[g].pc = "mark"
               PROVE  sent'[run'[g].row] > 0 \/ unreported'[run'[g].row]
    BY DEF MarkIsEarned
  <2>1. CASE g = f
    <3>1. run'[g].row = r /\ run[f].fresh /\ r \in Rows /\ p = "mark"
      BY <1>2, <1>3, <2>1
    <3>2. SendOk(f) \/ ReportFails(f)
      BY <1>1, <3>1 DEF Execute, RunType, RunRecords
    <3>3. CASE SendOk(f)
      BY <1>6, <3>1, <3>3 DEF SendOk, Count, HistoryType, r
    <3>4. CASE ReportFails(f)
      BY <3>1, <3>4 DEF ReportFails, HistoryType, r
    <3> QED BY <3>2, <3>3, <3>4
  <2>2. CASE g # f
    <3>1. run'[g] = run[g] /\ run[g].row \in Rows
      BY <1>3, <2>2 DEF RunType, RunRecords
    <3>2. sent[run[g].row] > 0 \/ unreported[run[g].row]
      BY <3>1 DEF MarkIsEarned
    <3>3. \A q \in Rows : sent[q] \in Nat /\ sent'[q] \in Nat
      BY <1>4 DEF HistoryType
    <3> QED BY <1>4, <1>5, <3>1, <3>2, <3>3
  <2> QED BY <2>1, <2>2
<1>15. FiredMeansSent'
  <2>1. \A q \in Rows : sent[q] \in Nat /\ sent'[q] \in Nat
    BY <1>4 DEF HistoryType
  <2> QED BY <1>2, <1>4, <1>5, <2>1 DEF FiredMeansSent
<1> QED BY <1>6, <1>8, <1>9, <1>10, <1>11, <1>13, <1>14, <1>15

\* What a call that returns leaves behind.
LEMMA ReturnsIs ==
  ASSUME TypeInv, NEW f \in Fibers
  PROVE  /\ Returns(f) \in RunRecords /\ ~Returns(f).fresh
         /\ Returns(f).pc # "idle" => /\ f # Loop /\ Returns(f).pc = "cleanup"
                                      /\ Returns(f).row = run[f].row /\ Returns(f).once = run[f].once
         /\ f = Loop => Returns(f).pc = "idle"
<1>1. CASE f = Loop
  <2>1. (CHOOSE r \in Rows : TRUE) \in Rows
    BY RemindersAssumption
  <2> QED BY <1>1, <2>1 DEF Returns, NoRun, RunRecords
<1>2. CASE f # Loop
  BY <1>2 DEF Returns, TypeInv, RunType, RunRecords
<1> QED BY <1>1, <1>2

\* A call returns after it marked the row or could not, before it sent anything because the
\* row is not pending any more, or because it could not read it or send.
LEMMA ReturnKeeps ==
  ASSUME IInv, NEW f \in Fibers, run[f].pc # "idle",
         run' = [run EXCEPT ![f] = Returns(f)],
         UNCHANGED <<jobs, alive, loop, signals, signalling, sent, unreported, disturbed>>,
         \/ /\ row' = row /\ unmarked' = unmarked
            /\ run[f].fresh => run[f].pc # "mark"
         \/ /\ run[f].fresh /\ run[f].pc = "mark" /\ unmarked' = unmarked
            /\ row' = [row EXCEPT ![run[f].row] = Marked(run[f].row)]
         \/ /\ run[f].fresh /\ run[f].pc = "mark" /\ row' = row
            /\ unmarked' = [unmarked EXCEPT ![run[f].row] = @ + 1]
  PROVE  IInv'
<1> USE DEF IInv, TypeInv
<1>1. /\ run' \in [Fibers -> RunRecords] /\ ~run'[f].fresh
      /\ run'[f].pc # "idle" => /\ f # Loop /\ run'[f].pc = "cleanup"
                                /\ run'[f].row = run[f].row /\ run'[f].once = run[f].once
      /\ f = Loop => run'[f].pc = "idle"
      /\ \A g \in Fibers : g # f => run'[g] = run[g]
  BY ReturnsIs DEF RunType
<1>2. \A g \in Fibers : run[g].row \in Rows /\ run'[g].row \in Rows
  BY <1>1 DEF RunType, RunRecords
<1>3. /\ TableType' /\ \A q \in Rows : /\ row'[q].at = row[q].at
                                       /\ row'[q].status = "none" <=> row[q].status = "none"
                                       /\ Pending(q)' => Pending(q) /\ row'[q] = row[q]
                                       /\ row'[q].status = "fired" /\ row[q].status # "fired" =>
                                            q = run[f].row /\ run[f].fresh /\ run[f].pc = "mark"
      /\ run[f].fresh /\ run[f].pc = "mark" =>
           row'[run[f].row].status # "pending" \/ unmarked' = [unmarked EXCEPT ![run[f].row] = @ + 1]
  <2>1. CASE /\ row' = row /\ signals' = signals /\ signalling' = signalling
             /\ run[f].fresh /\ run[f].pc = "mark" =>
                  unmarked' = [unmarked EXCEPT ![run[f].row] = @ + 1]
    BY <1>2, <2>1 DEF TableType, Pending
  <2>2. CASE /\ run[f].fresh /\ run[f].pc = "mark"
             /\ row' = [row EXCEPT ![run[f].row] = Marked(run[f].row)]
    <3>1. PICK r \in Rows : r = run[f].row
      BY <1>2
    <3>2. PICK s \in {row[r].status, "fired"} :
            /\ Marked(r) = [row[r] EXCEPT !.status = s]
            /\ s = IF row[r].status = "pending" THEN "fired" ELSE row[r].status
      BY DEF Marked
    <3>3. /\ [row[r] EXCEPT !.status = s] \in RowRecords
          /\ [row[r] EXCEPT !.status = s].at = row[r].at
          /\ [row[r] EXCEPT !.status = s].status = s
      BY DEF TableType, RowRecords
    <3>4. row' = [row EXCEPT ![r] = [row[r] EXCEPT !.status = s]]
      BY <2>2, <3>1, <3>2
    <3>5. /\ TableType' /\ row'[r].at = row[r].at /\ row'[r].status = s
          /\ \A q \in Rows : q # r => row'[q] = row[q]
      BY <3>3, <3>4 DEF TableType
    <3> QED BY <2>2, <3>1, <3>2, <3>5, SMTT(30) DEF Pending
  <2> QED BY <2>1, <2>2
<1>4. TypeInv' /\ \A q \in Rows : /\ unmarked[q] \in Nat /\ sent[q] \in Nat
                                /\ unmarked'[q] \in Nat /\ unmarked'[q] >= unmarked[q]
  BY <1>1, <1>2, <1>3 DEF JobsType, RunType, HistoryType
<1>5. \A g \in Fibers, q \in Rows : /\ Once(g, q)' => Once(g, q)
                                    /\ Fresh(g, q)' => Fresh(g, q) /\ g # f /\ run'[g] = run[g]
                                    /\ Fresh(g, q) /\ g # f => Fresh(g, q)'
  BY <1>1 DEF Once, Fresh
<1>6. Untouched'
  BY <1>1, <1>3 DEF Untouched
<1>7. RecurringStays'
  <2>1. (\A j \in alive : j.row \in Rows) /\ (\A s \in loop.rows : s.row \in Rows)
    BY DEF JobsType, JobRecords, RunType, LoopRecords, Entries
  <2> QED BY <1>1, <1>2, <1>3, <2>1 DEF RecurringStays
<1>8. FreshCalls'
  BY <1>1 DEF FreshCalls
<1>9. \A q \in Rows : Steady(q)' => Steady(q)
  BY <1>3 DEF Steady
<1>10. AliveIsTracked' /\ ToSchedule'
  <2>1. (\A j \in alive : j.row \in Rows) /\ (\A s \in loop.rows : s.row \in Rows)
    BY DEF JobsType, JobRecords, RunType, LoopRecords, Entries
  <2> QED BY <1>9, <2>1 DEF AliveIsTracked, ToSchedule
<1>11. OneCall'
  BY <1>5, <1>9 DEF OneCall
<1>12. SentByOne'
  <2> SUFFICES ASSUME NEW q \in Rows, ~disturbed[q]
               PROVE  /\ \A g, h \in Fibers : Fresh(g, q)' /\ Fresh(h, q)' => g = h
                      /\ \A g \in Fibers : Fresh(g, q)' /\ run'[g].pc # "mark" => sent[q] <= unmarked'[q]
                      /\ Pending(q)' /\ sent[q] > unmarked'[q] => \E g \in Fibers : Fresh(g, q)'
                      /\ sent[q] <= unmarked'[q] + 1
    BY DEF SentByOne
  <2>1. ASSUME Pending(q)', sent[q] > unmarked'[q] PROVE \E g \in Fibers : Fresh(g, q)'
    <3>1. PICK g \in Fibers : Fresh(g, q) /\ sent[q] > unmarked[q]
      BY <1>3, <1>4, <2>1 DEF SentByOne
    <3>2. run[g].pc = "mark"
      BY <1>4, <3>1 DEF SentByOne
    <3>3. g # f
      <4> SUFFICES ASSUME g = f PROVE FALSE
        OBVIOUS
      <4>1. q = run[f].row /\ run[f].fresh /\ row'[q].status = "pending"
        BY <2>1, <3>1 DEF Fresh, Pending
      <4>2. unmarked' = [unmarked EXCEPT ![q] = @ + 1]
        BY <1>3, <3>2, <4>1
      <4>3. unmarked'[q] = unmarked[q] + 1 /\ sent[q] <= unmarked[q] + 1
        BY <4>2 DEF SentByOne, HistoryType
      <4> QED BY <1>4, <2>1, <4>3
    <3> QED BY <1>5, <3>1, <3>3
  <2>2. \A g \in Fibers : Fresh(g, q)' /\ run'[g].pc # "mark" => sent[q] <= unmarked[q]
    BY <1>5 DEF SentByOne
  <2>3. sent[q] <= unmarked[q] + 1
    BY DEF SentByOne
  <2>4. \A g, h \in Fibers : Fresh(g, q)' /\ Fresh(h, q)' => g = h
    BY <1>5 DEF SentByOne
  <2> QED BY <1>4, <2>1, <2>2, <2>3, <2>4
<1>13. MarkIsEarned'
  BY <1>1 DEF MarkIsEarned
<1>14. FiredMeansSent'
  BY <1>3 DEF FiredMeansSent, MarkIsEarned
<1> QED BY <1>4, <1>6, <1>7, <1>8, <1>10, <1>11, <1>12, <1>13, <1>14

\* A call has read a pending row: nobody else is in a call that saw it as one-time.
LEMMA ReadKeeps ==
  ASSUME IInv, NEW f \in Fibers, ReadRow(f)
  PROVE  IInv'
<1> USE DEF IInv, TypeInv
<1>1. /\ run[f].pc = "read" /\ run[f].row \in Rows /\ ~run[f].fresh
      /\ UNCHANGED <<row, jobs, alive, loop, signals, signalling, sent, unmarked, unreported, disturbed>>
  BY DEF ReadRow, fireUnchanged, user, history, RunType, RunRecords, FreshCalls
<1>2. PICK r \in Rows : r = run[f].row
  BY <1>1
<1>3. CASE ~Pending(r)
  <2>1. run' = [run EXCEPT ![f] = Returns(f)]
    BY <1>2, <1>3 DEF ReadRow
  <2> QED BY <1>1, <2>1, ReturnKeeps
<1>4. CASE Pending(r)
  <2>1. PICK p \in {"exec", "send"}, b \in BOOLEAN :
          /\ run' = [run EXCEPT ![f] = [@ EXCEPT !.fresh = b, !.pc = p]]
          /\ b = (row[r].at # Recurring)
    BY <1>2, <1>4 DEF ReadRow
  <2>2. /\ run' \in [Fibers -> RunRecords]
        /\ run'[f].pc = p /\ run'[f].row = r /\ run'[f].once = run[f].once /\ run'[f].fresh = b
        /\ \A g \in Fibers : g # f => run'[g] = run[g]
    BY <1>2, <2>1 DEF RunType, RunRecords
  <2>3. b => run[f].once
    BY <1>1, <1>2, <2>1 DEF RecurringStays
  <2>4. /\ \A g \in Fibers, q \in Rows : Once(g, q)' <=> Once(g, q)
        /\ \A g \in Fibers, q \in Rows : g # f => (Fresh(g, q)' <=> Fresh(g, q))
        /\ \A q \in Rows : ~Fresh(f, q) /\ (Fresh(f, q)' <=> b /\ q = r)
    BY <1>1, <1>2, <2>2 DEF Once, Fresh
  <2>5. TypeInv' /\ AliveIsTracked' /\ ToSchedule' /\ FiredMeansSent'
    BY <1>1, <2>2 DEF TableType, JobsType, RunType, HistoryType, AliveIsTracked, ToSchedule,
                      FiredMeansSent, Steady, Pending
  <2>6. Untouched' /\ RecurringStays' /\ FreshCalls' /\ MarkIsEarned'
    BY <1>1, <1>2, <2>2, <2>3 DEF Untouched, RecurringStays, FreshCalls, MarkIsEarned
  <2>7. OneCall'
    BY <1>1, <2>4 DEF OneCall, Steady, Pending
  <2>8. ASSUME b, ~disturbed[r] PROVE (\A g \in Fibers : ~Fresh(g, r)) /\ sent[r] <= unmarked[r]
    <3>1. Once(f, r) /\ Steady(r)
      BY <1>1, <1>2, <1>4, <2>3, <2>8 DEF Once, Steady
    <3>2. \A g \in Fibers : Fresh(g, r) => Once(g, r)
      BY DEF Fresh, Once, FreshCalls
    <3>3. \A g \in Fibers : ~Fresh(g, r)
      BY <2>4, <3>1, <3>2 DEF OneCall
    <3> QED BY <1>4, <2>8, <3>3 DEF SentByOne, HistoryType
  <2>9. SentByOne'
    <3> SUFFICES ASSUME NEW q \in Rows, ~disturbed[q]
                 PROVE  /\ \A g, h \in Fibers : Fresh(g, q)' /\ Fresh(h, q)' => g = h
                        /\ \A g \in Fibers : Fresh(g, q)' /\ run'[g].pc # "mark" => sent[q] <= unmarked[q]
                        /\ Pending(q) /\ sent[q] > unmarked[q] => \E g \in Fibers : Fresh(g, q)'
                        /\ sent[q] <= unmarked[q] + 1
      BY <1>1 DEF SentByOne, Pending
    <3>1. CASE b /\ q = r
      BY <2>4, <2>8, <3>1 DEF SentByOne
    <3>2. CASE ~(b /\ q = r)
      <4>1. \A g \in Fibers : (Fresh(g, q)' <=> Fresh(g, q)) /\ (Fresh(g, q) => run'[g] = run[g])
        BY <2>2, <2>4, <3>2
      <4> QED BY <4>1 DEF SentByOne
    <3> QED BY <3>1, <3>2
  <2> QED BY <2>5, <2>6, <2>7, <2>9
<1> QED BY <1>3, <1>4

\* gocron forgets the tracked job of a reminder it fired: that was its last.
LEMMA CleanupKeeps ==
  ASSUME IInv, NEW f \in Fibers, Cleanup(f)
  PROVE  IInv'
<1> USE DEF IInv, TypeInv
<1>1. /\ run[f].pc = "cleanup" /\ f # Loop /\ ~run[f].fresh
      /\ UNCHANGED <<row, alive, loop, signals, signalling, sent, unmarked, unreported, disturbed>>
  BY DEF Cleanup, store, user, history, FreshCalls
<1>2. PICK r \in Rows : r = run[f].row
  BY DEF RunType, RunRecords
<1>3. /\ run' \in [Fibers -> RunRecords] /\ run'[f].pc = "idle" /\ ~run'[f].fresh
      /\ \A g \in Fibers : g # f => run'[g] = run[g]
  <2>1. NoRun(f) \in RunRecords /\ NoRun(f).pc = "idle" /\ ~NoRun(f).fresh
    <3>1. (CHOOSE q \in Rows : TRUE) \in Rows
      BY RemindersAssumption
    <3> QED BY <3>1 DEF NoRun, RunRecords
  <2> QED BY <2>1 DEF Cleanup, RunType
<1>4. /\ jobs' \in [Rows -> [id : Nat, at : Schedules]]
      /\ \A q \in Rows : jobs'[q] = jobs[q] \/ (jobs'[q] = NoJob /\ Once(f, q))
  <2>1. NoJob \in [id : Nat, at : Schedules]
    BY DEF NoJob, Schedules, Recurring
  <2>2. jobs' = IF run[f].once THEN [jobs EXCEPT ![r] = NoJob] ELSE jobs
    BY <1>2 DEF Cleanup, Forget
  <2> QED BY <1>1, <1>2, <2>1, <2>2 DEF JobsType, Once
<1>5. TypeInv'
  BY <1>1, <1>3, <1>4 DEF TableType, JobsType, RunType, HistoryType
<1>6. \A g \in Fibers, q \in Rows : /\ Once(g, q)' => Once(g, q) /\ g # f
                                    /\ Fresh(g, q)' <=> Fresh(g, q)
                                    /\ Fresh(g, q) => run'[g] = run[g]
  BY <1>1, <1>3 DEF Once, Fresh
<1>7. (\A j \in alive : j.row \in Rows) /\ (\A s \in loop.rows : s.row \in Rows)
  BY DEF JobsType, JobRecords, RunType, LoopRecords, Entries
<1>8. Untouched'
  BY <1>1, <1>3, <1>4 DEF Untouched
<1>9. RecurringStays' /\ FreshCalls' /\ MarkIsEarned' /\ FiredMeansSent'
  BY <1>1, <1>3 DEF RecurringStays, FreshCalls, MarkIsEarned, FiredMeansSent
<1>10. \A q \in Rows : Steady(q)' <=> Steady(q)
  BY <1>1 DEF Steady, Pending
<1>11. AliveIsTracked'
  BY <1>1, <1>4, <1>7, <1>10 DEF AliveIsTracked, OneCall
<1>12. OneCall'
  <2> SUFFICES ASSUME NEW q \in Rows, Steady(q), NEW g \in Fibers, Once(g, q)'
               PROVE  /\ \A h \in Fibers : Once(h, q)' => g = h
                      /\ \A s \in loop.rows : s.row # q
                      /\ IF g = Loop THEN jobs'[q] = NoJob
                                     ELSE jobs'[q] # NoJob /\ \A j \in alive : j.row # q
    BY <1>1, <1>10 DEF OneCall
  <2>1. Once(g, q) /\ g # f /\ \A h \in Fibers : Once(h, q) => g = h
    BY <1>6 DEF OneCall
  <2>2. jobs'[q] = jobs[q]
    BY <1>4, <2>1
  <2> QED BY <1>6, <2>1, <2>2 DEF OneCall
<1>13. ToSchedule'
  BY <1>1, <1>4, <1>7, <1>10 DEF ToSchedule
<1>14. SentByOne'
  BY <1>1, <1>6 DEF SentByOne, Pending
<1> QED BY <1>5, <1>8, <1>9, <1>11, <1>12, <1>13, <1>14

\* gocron fires a job of a reminder that nobody fires and Run does not schedule.
LEMMA FireKeeps ==
  ASSUME IInv, NEW j \in alive, NEW f \in Slots, JobFires(j, f)
  PROVE  IInv'
<1> USE DEF IInv, TypeInv
<1>1. /\ run[f].pc = "idle" /\ f \in Fibers /\ f # Loop /\ ~run[f].fresh
      /\ UNCHANGED <<row, jobs, loop, signals, signalling, sent, unmarked, unreported, disturbed>>
  BY Fiber DEF JobFires, store, user, history, FreshCalls
<1>2. j \in JobRecords /\ j.row \in Rows /\ row[j.row].status # "none"
  BY DEF JobsType, JobRecords, Untouched
<1>3. PICK once \in BOOLEAN : once = (j.at # Recurring)
  OBVIOUS
<1>4. /\ run' \in [Fibers -> RunRecords]
      /\ run'[f].pc = "read" /\ run'[f].row = j.row /\ run'[f].once = once /\ ~run'[f].fresh
      /\ \A g \in Fibers : g # f => run'[g] = run[g]
  <2>1. run' = [run EXCEPT ![f] = Firing(j.row, once)]
    BY <1>3 DEF JobFires
  <2> QED BY <1>1, <1>2, <2>1 DEF RunType, RunRecords, Firing
<1>5. alive' \subseteq alive /\ (once => alive' = alive \ {j})
  BY <1>3 DEF JobFires
<1>6. TypeInv'
  BY <1>1, <1>4, <1>5, AliveSubset DEF TableType, JobsType, RunType, HistoryType
<1>7. \A g \in Fibers, q \in Rows : /\ Once(g, q)' <=> Once(g, q) \/ (g = f /\ q = j.row /\ once)
                                    /\ Fresh(g, q)' <=> Fresh(g, q)
                                    /\ Fresh(g, q) => run'[g] = run[g]
  BY <1>1, <1>4 DEF Once, Fresh
<1>8. Untouched' /\ FreshCalls' /\ MarkIsEarned' /\ FiredMeansSent'
  BY <1>1, <1>2, <1>4, <1>5 DEF Untouched, FreshCalls, MarkIsEarned, FiredMeansSent
<1>9. RecurringStays'
  BY <1>1, <1>3, <1>4, <1>5 DEF RecurringStays
<1>10. AliveIsTracked' /\ ToSchedule' /\ SentByOne'
  BY <1>1, <1>5, <1>7 DEF AliveIsTracked, ToSchedule, SentByOne, Steady, Pending
<1>11. ASSUME once, Steady(j.row)
       PROVE  /\ \A g \in Fibers : ~Once(g, j.row)
              /\ \A s \in loop.rows : s.row # j.row
              /\ jobs[j.row] # NoJob /\ \A k \in alive' : k.row # j.row
  <2>1. jobs[j.row] # NoJob /\ j.id = jobs[j.row].id /\ j.at = jobs[j.row].at
    BY <1>11 DEF AliveIsTracked
  <2>2. \A k \in alive : k.row = j.row => k = j
    BY <1>11, <2>1 DEF AliveIsTracked, JobsType, JobRecords
  <2>3. \A s \in loop.rows : s.row # j.row
    BY <1>11, <2>1 DEF ToSchedule
  <2>4. \A g \in Fibers : ~Once(g, j.row)
    BY <1>2, <1>11, <2>1 DEF OneCall
  <2> QED BY <1>5, <1>11, <2>1, <2>2, <2>3, <2>4
<1>12. OneCall'
  <2> SUFFICES ASSUME NEW q \in Rows, Steady(q), NEW g \in Fibers, Once(g, q)'
               PROVE  /\ \A h \in Fibers : Once(h, q)' => g = h
                      /\ \A s \in loop.rows : s.row # q
                      /\ IF g = Loop THEN jobs[q] = NoJob
                                     ELSE jobs[q] # NoJob /\ \A k \in alive' : k.row # q
    BY <1>1 DEF OneCall, Steady, Pending
  <2>1. CASE once /\ q = j.row
    BY <1>1, <1>7, <1>11, <2>1
  <2>2. CASE ~(once /\ q = j.row)
    BY <1>5, <1>7, <2>2 DEF OneCall
  <2> QED BY <2>1, <2>2
<1> QED BY <1>6, <1>8, <1>9, <1>10, <1>12

-----------------------------------------------------------------------------
(* Run reads the table.                                                    *)

LEMMA PendingRowsAre ==
  ASSUME TypeInv
  PROVE  /\ PendingRows \subseteq Entries
         /\ \A s \in PendingRows : s.row \in Rows /\ Pending(s.row) /\ s.at = row[s.row].at
         /\ \A s, t \in PendingRows : s.row = t.row => s = t
<1>1. \A r \in Rows : [row |-> r, at |-> row[r].at] \in Entries
  BY DEF TypeInv, TableType, RowRecords, Entries
<1> QED BY <1>1 DEF PendingRows

LEMMA PollNewKeeps ==
  ASSUME IInv, PollNew
  PROVE  IInv'
<1> USE DEF IInv, TypeInv
<1>1. /\ UNCHANGED <<row, jobs, alive, run, signals, signalling, sent, unmarked, unreported, disturbed>>
      /\ run[Loop].pc = "idle"
      /\ loop' = [loop EXCEPT !.pc = "new", !.rows = {s \in PendingRows : jobs[s.row] = NoJob}]
  BY DEF PollNew, LoopAt, store, user, history
<1>2. /\ loop'.rows = {s \in PendingRows : jobs[s.row] = NoJob} /\ loop'.pc = "new"
      /\ loop' \in LoopRecords
  BY <1>1, PendingRowsAre DEF RunType, LoopRecords
<1>3. TypeInv'
  BY <1>1, <1>2 DEF TableType, JobsType, RunType, HistoryType
<1>4. \A s \in loop'.rows : /\ s.row \in Rows /\ jobs[s.row] = NoJob /\ s.at = row[s.row].at
                            /\ row[s.row].status = "pending"
  BY <1>2, PendingRowsAre DEF Pending
<1>5. Untouched' /\ RecurringStays'
  BY <1>1, <1>4 DEF Untouched, RecurringStays
<1>6. FreshCalls' /\ AliveIsTracked' /\ SentByOne' /\ MarkIsEarned' /\ FiredMeansSent'
  BY <1>1 DEF FreshCalls, AliveIsTracked, SentByOne, MarkIsEarned, FiredMeansSent,
              Steady, Pending, Fresh
<1>7. ToSchedule'
  BY <1>1, <1>2, <1>4, PendingRowsAre DEF ToSchedule
<1>8. \A r \in Rows : jobs[r] = NoJob /\ Steady(r) => \A f \in Fibers : ~Once(f, r)
  BY <1>1, NobodyFires
<1>9. OneCall'
  BY <1>1, <1>4, <1>8 DEF OneCall, Steady, Pending, Once
<1> QED BY <1>3, <1>5, <1>6, <1>7, <1>9

\* A new scheduler, in a new process or in the old one: every fire in flight is disturbed.
LEMMA ReloadKeeps ==
  ASSUME IInv, TableType',
         jobs' = [r \in Rows |-> NoJob], alive' = {},
         run' = run \/ run' = [f \in Fibers |-> NoRun(f)],
         loop' \in LoopRecords, loop'.pc = "load", loop'.rows = PendingRows,
         Disturb(Rows), UNCHANGED <<row, sent, unmarked, unreported>>
  PROVE  IInv'
<1> USE DEF IInv, TypeInv
<1>1. HistoryType' /\ \A r \in Rows : disturbed[r] => disturbed'[r]
  BY DisturbTypes
<1>2. \A r \in Rows : ~disturbed'[r] => ~disturbed[r] /\ \A f \in Fibers : run[f].pc # "idle" => run[f].row # r
  BY DEF Disturb, InFlight
<1>3. /\ \A f \in Fibers : run'[f] = run[f] \/ (run'[f].pc = "idle" /\ ~run'[f].fresh)
      /\ run' \in [Fibers -> RunRecords]
  <2>1. \A f \in Fibers : NoRun(f) \in RunRecords /\ NoRun(f).pc = "idle" /\ ~NoRun(f).fresh
    <3>1. (CHOOSE q \in Rows : TRUE) \in Rows
      BY RemindersAssumption
    <3> QED BY <3>1 DEF NoRun, RunRecords
  <2> QED BY <2>1 DEF RunType
<1>4. JobsType'
  <2>1. NoJob \in [id : Nat, at : Schedules]
    BY DEF NoJob, Schedules, Recurring
  <2> QED BY <2>1, FS_EmptySet DEF JobsType
<1>5. TypeInv'
  BY <1>1, <1>3, <1>4 DEF RunType
<1>6. \A s \in loop'.rows : s.row \in Rows /\ s.at = row[s.row].at /\ row[s.row].status = "pending"
  BY PendingRowsAre DEF Pending
<1>7. Untouched' /\ RecurringStays'
  BY <1>3, <1>6 DEF Untouched, RecurringStays
<1>8. FreshCalls' /\ MarkIsEarned' /\ FiredMeansSent'
  BY <1>3 DEF FreshCalls, MarkIsEarned, FiredMeansSent
<1>9. AliveIsTracked'
  BY DEF AliveIsTracked
<1>10. ToSchedule'
  BY <1>6, PendingRowsAre DEF ToSchedule
<1>11. OneCall'
  BY <1>2, <1>3 DEF OneCall, Steady, Once
<1>12. SentByOne'
  <2>1. \A r \in Rows, f \in Fibers : ~disturbed'[r] => ~Fresh(f, r) /\ ~Fresh(f, r)'
    BY <1>2, <1>3 DEF Fresh, FreshCalls
  <2> QED BY <1>2, <2>1 DEF SentByOne, Pending
<1> QED BY <1>5, <1>7, <1>8, <1>9, <1>10, <1>11, <1>12

LEMMA RebuildKeeps ==
  ASSUME IInv, RebuildScheduler
  PROVE  IInv'
<1>1. /\ jobs' = [r \in Rows |-> NoJob] /\ alive' = {} /\ run' = run
      /\ loop' = [loop EXCEPT !.pc = "load", !.rows = PendingRows]
      /\ Disturb(Rows) /\ UNCHANGED <<row, sent, unmarked, unreported, signals, signalling>>
  BY DEF RebuildScheduler, store
<1>2. TableType'
  BY <1>1 DEF IInv, TypeInv, TableType
<1>3. loop' \in LoopRecords /\ loop'.pc = "load" /\ loop'.rows = PendingRows
  BY <1>1, PendingRowsAre DEF IInv, TypeInv, RunType, LoopRecords
<1> QED BY <1>1, <1>2, <1>3, ReloadKeeps

LEMMA RestartKeeps ==
  ASSUME IInv, Restart
  PROVE  IInv'
<1>1. /\ jobs' = [r \in Rows |-> NoJob] /\ alive' = {} /\ run' = [f \in Fibers |-> NoRun(f)]
      /\ loop' = [pc |-> "load", ids |-> {}, rows |-> PendingRows]
      /\ Disturb(Rows) /\ UNCHANGED <<row, sent, unmarked, unreported>> /\ signals' = <<>> /\ signalling' = {}
  BY DEF Restart, store
<1>2. TableType'
  BY <1>1 DEF IInv, TypeInv, TableType
<1>3. loop' \in LoopRecords /\ loop'.pc = "load" /\ loop'.rows = PendingRows
  BY <1>1, PendingRowsAre DEF IInv, TypeInv, LoopRecords
<1> QED BY <1>1, <1>2, <1>3, ReloadKeeps

-----------------------------------------------------------------------------
LEMMA InitGood == Init => IInv
<1> SUFFICES ASSUME Init PROVE IInv
  OBVIOUS
<1>1. (CHOOSE q \in Rows : TRUE) \in Rows
  BY RemindersAssumption
<1>2. TypeInv
  <2>1. NoJob \in [id : Nat, at : Schedules] /\ 0 \in Schedules
    BY DEF NoJob, Schedules, Recurring
  <2>2. TableType /\ HistoryType
    BY <2>1 DEF Init, TableType, HistoryType, RowRecords
  <2>3. JobsType
    BY <2>1, FS_EmptySet DEF Init, JobsType
  <2>4. RunType
    BY <1>1 DEF Init, RunType, RunRecords, NoRun, LoopRecords
  <2> QED BY <2>2, <2>3, <2>4 DEF TypeInv
<1>3. \A f \in Fibers : run[f].pc = "idle" /\ ~run[f].fresh
  BY DEF Init, NoRun
<1>4. \A r \in Rows : row[r].status = "none" /\ jobs[r] = NoJob /\ sent[r] = 0 /\ unmarked[r] = 0
  BY DEF Init
<1>5. alive = {} /\ loop.rows = {}
  BY DEF Init
<1>6. Untouched /\ RecurringStays /\ FreshCalls /\ AliveIsTracked /\ ToSchedule /\ MarkIsEarned
  BY <1>3, <1>4, <1>5 DEF Untouched, RecurringStays, FreshCalls, AliveIsTracked, ToSchedule, MarkIsEarned
<1>7. OneCall /\ SentByOne /\ FiredMeansSent
  BY <1>3, <1>4 DEF OneCall, SentByOne, FiredMeansSent, Once, Fresh
<1> QED BY <1>2, <1>6, <1>7 DEF IInv

LEMMA NextKeeps ==
  ASSUME IInv, [Next]_vars
  PROVE  IInv'
<1>1. CASE Skills
  <2>1. CASE set_timezone
    BY <2>1, TimeCalm, CalmKeeps DEF IInv
  <2> QED BY <1>1, <2>1, SetKeeps, SkillsCalm, CalmKeeps DEF Skills, IInv
<1>2. CASE SignalSent \/ SignalTimesOut \/ Tick \/ RowsUnread \/ SignalUnread
  BY <1>2, TimeCalm, CalmKeeps DEF IInv
<1>3. CASE handleSignal
  BY <1>3, SignalKeeps
<1>4. CASE Restart
  BY <1>4, RestartKeeps
<1>5. CASE LoopStep
  <2>1. CASE PollClosed
    BY <2>1, PollClosedCalm, CalmKeeps DEF IInv
  <2>2. CASE ScheduledAll
    BY <2>2, TimeCalm, CalmKeeps DEF IInv
  <2> QED BY <1>5, <2>1, <2>2, DriftKeeps, PollNewKeeps, ScheduleNextKeeps, RebuildKeeps DEF LoopStep
<1>6. ASSUME NEW f \in Fibers, FireStep(f) PROVE IInv'
  <2>1. CASE ReadRow(f)
    BY <2>1, ReadKeeps
  <2>2. CASE Execute(f) \/ SendOk(f) \/ ReportFails(f)
    BY <2>2, GoesOnKeeps
  <2>3. CASE SendFails(f)
    <3>1. /\ run[f].pc = "send" /\ run' = [run EXCEPT ![f] = Returns(f)] /\ row' = row
          /\ UNCHANGED <<jobs, alive, loop, signals, signalling, sent, unmarked, unreported, disturbed>>
      BY <2>3 DEF SendFails, AfterSendFailed, fireUnchanged, user, history
    <3> QED BY <3>1, ReturnKeeps
  <2>6. CASE ReadFails(f)
    <3>1. /\ run[f].pc = "read" /\ run' = [run EXCEPT ![f] = Returns(f)] /\ row' = row
          /\ UNCHANGED <<jobs, alive, loop, signals, signalling, sent, unmarked, unreported, disturbed>>
      BY <2>6 DEF ReadFails, fireUnchanged, user, history
    <3> QED BY <3>1, ReturnKeeps
  <2>7. CASE MarkFails(f)
    <3>1. /\ run[f].pc = "mark" /\ run[f].fresh /\ run' = [run EXCEPT ![f] = Returns(f)] /\ row' = row
          /\ unmarked' = [unmarked EXCEPT ![run[f].row] = @ + 1]
          /\ UNCHANGED <<jobs, alive, loop, signals, signalling, sent, unreported, disturbed>>
      BY <2>7 DEF MarkFails, fireUnchanged, user
    <3> QED BY <3>1, ReturnKeeps
  <2>4. CASE markFiredIfOneTime(f)
    <3>1. /\ run[f].pc = "mark" /\ run' = [run EXCEPT ![f] = Returns(f)]
          /\ row' = IF run[f].fresh THEN [row EXCEPT ![run[f].row] = Marked(run[f].row)] ELSE row
          /\ UNCHANGED <<jobs, alive, loop, signals, signalling, sent, unmarked, unreported, disturbed>>
      BY <2>4 DEF markFiredIfOneTime, fireUnchanged, user, history
    <3> QED BY <3>1, ReturnKeeps
  <2>5. CASE Cleanup(f)
    BY <2>5, CleanupKeeps
  <2> QED BY <1>6, <2>1, <2>2, <2>3, <2>4, <2>5, <2>6, <2>7 DEF FireStep
<1>7. ASSUME NEW j \in alive, NEW f \in Slots, JobFires(j, f) PROVE IInv'
  BY <1>7, FireKeeps
<1>8. CASE UNCHANGED vars
  <2>1. Calm /\ TypeInv'
    BY <1>8 DEF vars, store, user, history, Calm, RowsMove, IInv, TypeInv, TableType, JobsType,
                RunType, HistoryType, ToSchedule
  <2> QED BY <2>1, CalmKeeps
<1> QED BY <1>1, <1>2, <1>3, <1>4, <1>5, <1>6, <1>7, <1>8 DEF Next

\* The inductive invariant: a reminder whose fires were let finish is fired by one
\* goroutine at a time (its job is tracked while gocron fires it and gone while Run does),
\* and whoever read it as a one-time reminder sends it before anybody else can.
THEOREM Invariance == Spec => []IInv
<1>1. IInv /\ [Next]_vars => IInv'
  BY NextKeeps
<1> QED BY InitGood, <1>1, PTL DEF Spec

\* Whatever polls, signals, timers, skills and restarts do, a one-time reminder is sent at
\* most once more than its row could not be marked, unless its job was replaced, dropped or
\* killed in the middle of a fire.
THEOREM OneMessagePerReminder == Spec => []ReminderSentOnce
<1>1. IInv => ReminderSentOnce
  <2> SUFFICES ASSUME IInv, NEW r \in Rows, ~disturbed[r] PROVE ~(sent[r] > 1 + unmarked[r])
    BY DEF ReminderSentOnce
  <2>1. sent[r] <= unmarked[r] + 1 /\ sent[r] \in Nat /\ unmarked[r] \in Nat
    BY DEF IInv, SentByOne, TypeInv, HistoryType
  <2> QED BY <2>1
<1> QED BY Invariance, <1>1, PTL

\* markFiredIfOneTime never marks a reminder nobody was told about, but for a failed task
\* whose report was dropped.
THEOREM FiredWasSent == Spec => []FiredMeansSent
<1>1. IInv => FiredMeansSent
  BY DEF IInv
<1> QED BY Invariance, <1>1, PTL

\* No skill and no late fire reopens a cancelled or fired reminder, or turns one into the
\* other.
THEOREM ClosedIsFinal == Spec => ClosedStaysClosed
<1>1. ASSUME IInv, [Next]_vars, NEW r \in Rows, Closed(r)
      PROVE  row'[r].status \in {row[r].status, "deleted"}
  <2> USE DEF IInv, TypeInv, TableType, Closed
  <2>1. CASE set_reminder
    BY <1>1, <2>1 DEF set_reminder
  <2>2. CASE update_reminder
    <3>1. PICK p \in Rows, at \in Times \cup {Recurring} : row' = [row EXCEPT ![p].at = at]
      BY <2>2 DEF update_reminder
    <3> QED BY <1>1, <3>1 DEF RowRecords
  <2>3. CASE cancel_reminder
    BY <1>1, <2>3 DEF cancel_reminder, Pending
  <2>4. CASE delete_reminder
    BY <1>1, <2>4 DEF delete_reminder
  <2>5. ASSUME NEW f \in Fibers, markFiredIfOneTime(f)
        PROVE  row'[r].status \in {row[r].status, "deleted"}
    <3>1. run[f].row \in Rows
      BY <1>1 DEF RunType, RunRecords
    <3>2. row'[r] = row[r] \/ row'[r] = Marked(r)
      BY <1>1, <2>5, <3>1 DEF markFiredIfOneTime
    <3>3. Marked(r).status = row[r].status
      BY <1>1 DEF Marked, RowRecords
    <3> QED BY <3>2, <3>3
  <2>6. CASE row' = row
    BY <2>6
  <2>7. \/ set_reminder \/ update_reminder \/ cancel_reminder \/ delete_reminder
        \/ (\E f \in Fibers : markFiredIfOneTime(f)) \/ row' = row
    BY <1>1 DEF Next, Skills, LoopStep, FireStep, SignalSent, SignalTimesOut, handleSignal, Tick, Restart,
                set_timezone, PollClosed, PollDrift, PollNew, ScheduleNext, ScheduledAll,
                RowsUnread, SignalUnread, RebuildScheduler, ReadRow, ReadFails, Execute, SendOk, SendFails,
                ReportFails, MarkFails, Cleanup, JobFires,
                fireUnchanged, store, vars
  <2> QED BY <2>1, <2>2, <2>3, <2>4, <2>5, <2>6, <2>7
<1>2. IInv /\ [Next]_vars => [\A r \in Rows : Closed(r) => row'[r].status \in {row[r].status, "deleted"}]_vars
  BY <1>1
<1> QED BY Invariance, <1>2, PTL DEF Spec, ClosedStaysClosed
=============================================================================
