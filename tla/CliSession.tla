------------------------------ MODULE CliSession ------------------------------
(***************************************************************************)
(* CLI mode: the long-lived claude processes of internal/claude/           *)
(* subprocess.go (CLIManager and CLIProcess) and their use by a turn,      *)
(* handleWithCLI of internal/session/actor.go, with the commands that are  *)
(* meant to reach the process: /stop, /effort, /retry and /project.        *)
(*                                                                         *)
(* The session runs one turn at a time (module SessionDispatch).  Messages *)
(* are numbered; of what a process prints only the init event, a text and  *)
(* the result are told apart.                                              *)
(***************************************************************************)
EXTENDS Naturals, Sequences

CONSTANTS
  Keys,         \* users' chats
  Efforts,      \* effort levels, Default among them
  Default,      \* the effort of the configuration
  Projects,     \* projects, NoProject among them
  NoProject,
  Procs,        \* bound: process ids; an id is used again after the process is gone
  MaxMsgs,      \* bound: messages to Claude
  MaxUpsets     \* bound: processes that die by themselves, commands that change
                \* a setting and changes of the plugins, together

NoProc == "none"

ASSUME CliAssumption ==
  /\ Default \in Efforts /\ NoProject \in Projects /\ Keys # {} /\ NoProc \notin Procs
  /\ MaxMsgs \in Nat /\ MaxUpsets \in Nat

VARIABLES
  effort,       \* effortOverride, Default if there is none
  project,      \* activeProjects, NoProject if there is none
  plugins,      \* version of the installed plugins
  reload,       \* the file .curlycatclaw-reload-needed exists
  tracked,      \* CLIManager.processes
  proc,         \* the processes
  turn,         \* the turn in progress
  lastUserMsg,  \* users with a message that /retry can repeat
  msgs, upsets, \* counters
  changed       \* history: the last change of the plugins by a user's own turn

settings == <<effort, project>>
bounds == <<lastUserMsg, msgs, upsets, changed>>
vars == <<settings, plugins, reload, tracked, proc, turn, bounds>>

\* life: "up", "dying" (killed, done not closed yet) or "gone".
\* stdin: messages written; stdout: events not read yet.
Gone(k) == [life |-> "gone", key |-> k, effort |-> Default, project |-> NoProject,
            plugins |-> 0, owner |-> 0, retry |-> FALSE, initSent |-> FALSE, inited |-> FALSE,
            stdin |-> <<>>, stdout |-> <<>>]
AnyKey == CHOOSE k \in Keys : TRUE
\* restore: the effort to go back to after /retry with a level, if retry.
Idle == [pc |-> "idle", key |-> AnyKey, msg |-> 0, proc |-> NoProc, cancelled |-> FALSE,
         retry |-> FALSE, restore |-> Default]

Init ==
  /\ effort = [k \in Keys |-> Default]
  /\ project = [k \in Keys |-> NoProject]
  /\ plugins = 0 /\ reload = FALSE
  /\ tracked = [k \in Keys |-> NoProc]
  /\ proc = [p \in Procs |-> Gone(AnyKey)]
  /\ turn = Idle
  /\ lastUserMsg = {} /\ msgs = 0 /\ upsets = 0
  /\ changed = [k \in Keys |-> [plugins |-> 0, msg |-> 0]]

Event(kind, msg) == [kind |-> kind, msg |-> msg]
P == turn.proc

\* A process that is killed or dies; lines it has printed can still be read
\* by the turn that reads them.
Dying(p) == [p EXCEPT !.life = IF @ = "up" THEN "dying" ELSE @]

\* Kill, by somebody who does not read the process: what it holds is lost.
Killed(p) == [Gone(AnyKey) EXCEPT !.life = Dying(p).life]

\* CLIManager.Remove kills the tracked process of a user and forgets it.
\* ps is the value of proc it starts from.
RemoveProc(k, ps) ==
  /\ proc' = [p \in Procs |-> IF p # tracked[k] THEN ps[p]
                              ELSE IF p = P THEN Dying(ps[p]) ELSE Killed(ps[p])]
  /\ tracked' = [tracked EXCEPT ![k] = NoProc]
Keep(ps) == proc' = ps /\ UNCHANGED tracked

-----------------------------------------------------------------------------
(* Commands, each a turn of its own that never reaches Claude. *)

Upset == upsets < MaxUpsets /\ upsets' = upsets + 1
Command == turn = Idle /\ Upset
commandUnchanged == <<plugins, reload, turn, lastUserMsg, msgs, changed>>

\* /effort <level>
handleEffort ==
  \E k \in Keys, e \in Efforts :
    /\ Command
    /\ effort' = [effort EXCEPT ![k] = e]
    /\ RemoveProc(k, proc)
    /\ UNCHANGED <<project, commandUnchanged>>

\* /effort reset: the process is left alone.
handleEffortReset ==
  \E k \in Keys :
    /\ Command
    /\ effort' = [effort EXCEPT ![k] = Default]
    /\ UNCHANGED <<project, tracked, proc, commandUnchanged>>

\* /project <name> and /project off
handleProjectKeepsProcess ==
  \E k \in Keys, p \in Projects :
    /\ Command
    /\ project' = [project EXCEPT ![k] = p]
    /\ UNCHANGED <<effort, tracked, proc, commandUnchanged>>
handleProject ==
  \E k \in Keys, p \in Projects :
    /\ Command
    /\ project' = [project EXCEPT ![k] = p]
    /\ RemoveProc(k, proc)
    /\ UNCHANGED <<effort, commandUnchanged>>

\* Cleanup: a process idle for four hours, or dead.  No turn takes that long.
Cleanup ==
  /\ \E k \in Keys :
       /\ tracked[k] # NoProc
       /\ turn = Idle \/ turn.key # k \/ proc[tracked[k]].life = "gone"
       /\ RemoveProc(k, proc)
  /\ UNCHANGED <<settings, plugins, reload, turn, bounds>>

-----------------------------------------------------------------------------
(* A turn: handleWithCLI. *)

\* A reload file that a turn of anybody left behind is honoured first.
Begin(k, retry, restore) ==
  /\ turn = Idle /\ msgs < MaxMsgs
  /\ msgs' = msgs + 1
  /\ turn' = [Idle EXCEPT !.pc = "get", !.key = k, !.msg = msgs + 1,
                          !.retry = retry, !.restore = restore]
  /\ IF reload \/ retry THEN RemoveProc(k, proc) ELSE Keep(proc)
  /\ reload' = FALSE
  /\ lastUserMsg' = lastUserMsg \cup {k}
  /\ UNCHANGED <<project, plugins, upsets, changed>>

handleMessage == \E k \in Keys : Begin(k, FALSE, Default) /\ UNCHANGED effort

\* /retry <level>: the level is in force for this turn only.  (/retry alone is
\* a message like any other.)
handleRetry ==
  \E k \in lastUserMsg, e \in Efforts :
    Begin(k, TRUE, effort[k]) /\ effort' = [effort EXCEPT ![k] = e]

\* The turn ends; what /retry deferred happens now.  Nobody reads the pipe of
\* a process after the turn that could, unless it is tracked.
Tidy(ps) == [p \in Procs |-> IF ps[p].life # "up" /\ \A k \in Keys : tracked[k] # p
                             THEN Killed(ps[p]) ELSE ps[p]]
EndTurn(ps, removes) ==
  /\ turn' = Idle
  /\ IF turn.retry THEN effort' = [effort EXCEPT ![turn.key] = turn.restore]
                   ELSE UNCHANGED effort
  /\ IF removes \/ turn.retry THEN RemoveProc(turn.key, Tidy(ps)) ELSE Keep(Tidy(ps))
  /\ UNCHANGED project

Alive(p) == p # NoProc /\ proc[p].life # "gone"

\* GetOrCreate finds a process that is alive, or not known to be dead yet.
GetExisting ==
  /\ turn.pc = "get" /\ Alive(tracked[turn.key])
  /\ turn' = [turn EXCEPT !.pc = "send", !.proc = tracked[turn.key]]
  /\ UNCHANGED <<settings, plugins, reload, tracked, proc, bounds>>

\* spawn starts a process for the settings of now and writes the message.
Unused(p) == proc[p].life = "gone" /\ \A k \in Keys : tracked[k] # p
SpawnStarts ==
  /\ turn.pc = "get" /\ ~Alive(tracked[turn.key]) /\ ~turn.cancelled
  /\ \E p \in Procs : Unused(p)
  /\ LET p == CHOOSE q \in Procs : Unused(q) IN
       /\ turn' = [turn EXCEPT !.pc = "init", !.proc = p]
       /\ proc' = [proc EXCEPT ![p] =
            [Gone(turn.key) EXCEPT !.life = "up", !.owner = turn.msg, !.retry = turn.retry,
               !.effort = effort[turn.key], !.project = project[turn.key],
               !.plugins = plugins, !.stdin = <<turn.msg>>]]
  /\ tracked' = [tracked EXCEPT ![turn.key] = NoProc]
  /\ UNCHANGED <<settings, plugins, reload, bounds>>

\* exec.CommandContext does not start a process for a cancelled turn; or the
\* start fails otherwise.
SpawnFails ==
  /\ turn.pc = "get" /\ ~Alive(tracked[turn.key])
  /\ EndTurn(proc, TRUE)
  /\ UNCHANGED <<plugins, reload, bounds>>

\* The process is tracked once its init event is read.
InitEvent == turn.pc = "init" /\ proc[P].stdout # <<>> /\ Head(proc[P].stdout).kind = "init"
InitReadForgets ==
  /\ InitEvent
  /\ proc' = [proc EXCEPT ![P].stdout = Tail(@)]
  /\ tracked' = [tracked EXCEPT ![turn.key] = P]
  /\ turn' = [turn EXCEPT !.pc = "send"]
  /\ UNCHANGED <<settings, plugins, reload, bounds>>
InitRead ==
  /\ InitEvent
  /\ proc' = [proc EXCEPT ![P].stdout = Tail(@), ![P].initSent = TRUE]
  /\ tracked' = [tracked EXCEPT ![turn.key] = P]
  /\ turn' = [turn EXCEPT !.pc = "send"]
  /\ UNCHANGED <<settings, plugins, reload, bounds>>

\* Thirty seconds without an init event, an exit, or /stop.
InitFailsLeavesProcess ==
  /\ turn.pc = "init"
  /\ EndTurn(proc, FALSE)
  /\ UNCHANGED <<plugins, reload, bounds>>
InitFails ==
  /\ turn.pc = "init"
  /\ EndTurn([proc EXCEPT ![P] = Killed(@)], FALSE)
  /\ UNCHANGED <<plugins, reload, bounds>>

\* Send writes the message, except the one that spawn has already written.
Writable == turn.pc = "send" /\ (proc[P].initSent \/ proc[P].life # "gone")
SendSkipsAlways ==
  /\ Writable
  /\ proc' = IF proc[P].initSent THEN proc ELSE [proc EXCEPT ![P].stdin = Append(@, turn.msg)]
  /\ turn' = [turn EXCEPT !.pc = "reading"]
  /\ UNCHANGED <<settings, plugins, reload, tracked, bounds>>
SendWrites ==
  /\ Writable
  /\ proc' = [proc EXCEPT ![P].initSent = FALSE,
                          ![P].stdin = IF proc[P].initSent THEN @ ELSE Append(@, turn.msg)]
  /\ turn' = [turn EXCEPT !.pc = "reading"]
  /\ UNCHANGED <<settings, plugins, reload, tracked, bounds>>

\* The pipe is closed, the process is gone, or the turn was cancelled: the
\* user's process is removed, so that the next message gets a new one.
SendBroken ==
  \/ turn.pc = "send" /\ ~proc[P].initSent /\ proc[P].life # "up"
  \/ turn.pc = "reading" /\ (turn.cancelled \/ proc[P].life # "up")
SendFails ==
  SendBroken /\ EndTurn(proc, TRUE) /\ UNCHANGED <<plugins, reload, bounds>>

Reading(kinds) == turn.pc = "reading" /\ proc[P].stdout # <<>> /\ Head(proc[P].stdout).kind \in kinds

ReadText ==
  /\ Reading({"init", "text"})
  /\ proc' = [proc EXCEPT ![P].stdout = Tail(@)]
  /\ UNCHANGED <<settings, plugins, reload, tracked, turn, bounds>>

\* The result ends the turn; a plugin change made during it removes the process.
ReadResult ==
  /\ Reading({"result"})
  /\ EndTurn([proc EXCEPT ![P].stdout = Tail(@)], reload)
  /\ reload' = FALSE
  /\ UNCHANGED <<plugins, bounds>>

\* /stop: cancels the turn's context, which kills a process this turn spawned,
\* and removes the user's process.
stopActive ==
  /\ turn # Idle /\ ~turn.cancelled
  /\ turn' = [turn EXCEPT !.cancelled = TRUE]
  /\ RemoveProc(turn.key, [p \in Procs |-> IF proc[p].owner = turn.msg THEN Dying(proc[p]) ELSE proc[p]])
  /\ UNCHANGED <<settings, plugins, reload, bounds>>

-----------------------------------------------------------------------------
(* The claude process. *)

Prints(p, e) == proc' = [proc EXCEPT ![p].stdout = Append(@, e)]
procUnchanged == <<settings, tracked, turn, lastUserMsg, msgs>>

\* It waits for its first message before it prints the init event.
PrintsInit(p) ==
  /\ proc[p].life = "up" /\ ~proc[p].inited /\ proc[p].stdin # <<>>
  /\ proc' = [proc EXCEPT ![p].stdout = Append(@, Event("init", proc[p].owner)),
                          ![p].inited = TRUE]
  /\ UNCHANGED <<procUnchanged, plugins, reload, upsets, changed>>

Working(p) == proc[p].life = "up" /\ proc[p].inited /\ proc[p].stdin # <<>>

\* At most one event is in the scan channel when it prints the next text.
PrintsText(p) ==
  /\ Working(p) /\ proc[p].stdout = <<>>
  /\ Prints(p, Event("text", Head(proc[p].stdin)))
  /\ UNCHANGED <<procUnchanged, plugins, reload, upsets, changed>>

PrintsResult(p) ==
  /\ Working(p)
  /\ proc' = [proc EXCEPT ![p].stdout = Append(@, Event("result", Head(proc[p].stdin))),
                          ![p].stdin = Tail(@)]
  /\ UNCHANGED <<procUnchanged, plugins, reload, upsets, changed>>

\* A plugin skill of its MCP server changes the plugins and leaves the file.
ChangesPlugins(p) ==
  /\ Working(p) /\ Upset
  /\ plugins' = plugins + 1 /\ reload' = TRUE
  /\ changed' = [changed EXCEPT ![proc[p].key] =
                 [plugins |-> plugins + 1, msg |-> Head(proc[p].stdin)]]
  /\ UNCHANGED <<procUnchanged, proc>>

Dies(p) ==
  /\ proc[p].life = "up" /\ Upset
  /\ proc' = [proc EXCEPT ![p] = Dying(@)]
  /\ UNCHANGED <<procUnchanged, plugins, reload, changed>>

\* cmd.Wait returns and done is closed.
DoneClosed(p) ==
  /\ proc[p].life = "dying"
  /\ proc' = [proc EXCEPT ![p] = IF turn.proc = p THEN [@ EXCEPT !.life = "gone"] ELSE Gone(AnyKey)]
  /\ UNCHANGED <<procUnchanged, plugins, reload, upsets, changed>>

-----------------------------------------------------------------------------
TurnStep ==
  \/ GetExisting \/ SpawnStarts \/ SpawnFails \/ InitRead \/ InitFails
  \/ SendWrites \/ SendFails \/ ReadText \/ ReadResult

Next ==
  \/ handleEffort \/ handleEffortReset \/ handleProject \/ Cleanup
  \/ handleMessage \/ handleRetry \/ TurnStep \/ stopActive
  \/ \E p \in Procs :
       \/ PrintsInit(p) \/ PrintsText(p) \/ PrintsResult(p)
       \/ ChangesPlugins(p) \/ Dies(p) \/ DoneClosed(p)

\* The turn's goroutine runs, and Claude does not talk for ever about a message
\* it has got: handleWithCLI has no time limit of its own.
ClaudeAnswers == P # NoProc /\ PrintsResult(P)
Fairness == WF_vars(TurnStep) /\ SF_vars(ClaudeAnswers)

Spec == Init /\ [][Next]_vars
FairSpec == Spec /\ Fairness

-----------------------------------------------------------------------------
Msgs == 0..MaxMsgs
Events == [kind : {"init", "text", "result"}, msg : Msgs]

TypeOK ==
  /\ effort \in [Keys -> Efforts] /\ project \in [Keys -> Projects]
  /\ plugins \in 0..MaxUpsets /\ reload \in BOOLEAN
  /\ tracked \in [Keys -> Procs \cup {NoProc}]
  /\ \A p \in Procs :
       /\ proc[p].life \in {"up", "dying", "gone"} /\ proc[p].key \in Keys
       /\ proc[p].effort \in Efforts /\ proc[p].project \in Projects
       /\ proc[p].plugins \in 0..MaxUpsets /\ proc[p].owner \in Msgs
       /\ proc[p].retry \in BOOLEAN /\ proc[p].initSent \in BOOLEAN /\ proc[p].inited \in BOOLEAN
       /\ proc[p].stdin \in Seq(Msgs)
       /\ proc[p].life = "up" => Len(proc[p].stdin) <= 1
       /\ proc[p].stdout \in Seq(Events)
  /\ turn \in [pc : {"idle", "get", "init", "send", "reading"}, key : Keys, msg : Msgs,
               proc : Procs \cup {NoProc}, cancelled : BOOLEAN,
               retry : BOOLEAN, restore : Efforts]
  /\ lastUserMsg \subseteq Keys /\ msgs \in 0..MaxMsgs /\ upsets \in 0..MaxUpsets
  /\ changed \in [Keys -> [plugins : 0..MaxUpsets, msg : Msgs]]

\* A turn only ever reads what Claude says to its own message, by the process
\* of its own user: nothing of an answer that was stopped, failed or timed out
\* is left in a pipe that is used again.
OwnAnswer ==
  turn.pc = "reading" =>
    /\ proc[P].key = turn.key
    /\ \A i \in DOMAIN proc[P].stdout : proc[P].stdout[i].msg = turn.msg
    /\ proc[P].life = "up" => \A i \in DOMAIN proc[P].stdin : proc[P].stdin[i] = turn.msg

\* No process outlives its use: one that is up is the tracked process of its
\* user or is being started by the turn in progress.
NoOrphans ==
  \A p \in Procs :
    proc[p].life = "up" => tracked[proc[p].key] = p \/ (turn.pc = "init" /\ P = p)

\* A turn talks to a process of its settings, although these are fixed when the
\* process starts: the user's active project, the plugins that the user's own
\* earlier turns left, and for /retry <level> that level.  The process of a
\* /retry answers nothing else: neither the process from before nor the
\* temporary level leaks across the turn, however it ends.
ConfigApplies ==
  turn.pc = "reading" =>
    /\ proc[P].project = project[turn.key]
    /\ changed[turn.key].msg < turn.msg => proc[P].plugins >= changed[turn.key].plugins
    /\ proc[P].retry = turn.retry
    /\ turn.retry => proc[P].effort = effort[turn.key]

\* Every turn ends, if Claude answers: also when the process dies, does not
\* start, or was started by the turn itself with the message already written.
TurnEnds == (turn # Idle) ~> (turn = Idle)

\* handleEffortCommand: "kill+respawn so the new effort takes effect (--effort
\* is spawn-time)".  A turn talks to a process of the effort now in force.
EffortApplies == turn.pc = "reading" => proc[P].effort = effort[turn.key]
=============================================================================
