------------------------------ MODULE TurnProofs ------------------------------
(***************************************************************************)
(* Proofs about a turn: about CliSession (the processes of CLI mode), for  *)
(* any chats, effort levels, projects and processes, and any number of     *)
(* messages, deaths and commands; and about StreamDelivery (how the text   *)
(* and the files of a turn reach the user), for any number of pieces,      *)
(* rounds and files, any length of a message and any capacity of the inbox.*)
(***************************************************************************)
EXTENDS CliSession, StreamDelivery, SequenceTheorems, TLAPS

\* The turn has a process of its own, or is about to look for one.
HasProc == turn.pc \in {"init", "send", "reading"}

-----------------------------------------------------------------------------
(* The parts of the invariant. *)

\* A process is tracked for one user, its own; one that is starting for none.
TrackedOnce ==
  /\ \A j, k \in Keys : tracked[j] = tracked[k] /\ tracked[j] # NoProc => j = k
  /\ \A k \in Keys : tracked[k] # NoProc /\ proc[tracked[k]].life # "gone"
                       => proc[tracked[k]].key = k
  /\ turn.pc = "init" =>
       tracked[turn.key] = NoProc /\ \A k \in Keys : tracked[k] # turn.proc

TurnHasProc ==
  /\ turn.pc = "idle" => turn = Idle
  /\ turn.pc = "get" => turn.proc = NoProc
  /\ HasProc => turn.proc \in Procs /\ proc[turn.proc].key = turn.key
  /\ \A k \in Keys : HasProc /\ tracked[k] = turn.proc => k = turn.key
  /\ turn.pc # "idle" => turn.msg = msgs

\* In the pipes of a process that works for message m is nothing of another message,
\* and nothing after the result.
Serves(p, m) ==
  /\ proc[p].stdin \in {<<>>, <<m>>}
  /\ \A i \in DOMAIN proc[p].stdout :
       /\ proc[p].stdout[i].msg = m
       /\ proc[p].stdout[i].kind = "result" => i = Len(proc[p].stdout) /\ proc[p].stdin = <<>>

\* A process the turn does not use has empty pipes.
Quiet(p) == proc[p].stdin = <<>> /\ proc[p].stdout = <<>>

PipesOwned ==
  /\ \A k \in Keys : tracked[k] # NoProc /\ tracked[k] # turn.proc =>
       Quiet(tracked[k]) /\ ~proc[tracked[k]].initSent
  /\ \A p \in Procs : proc[p].life = "up" /\ ~proc[p].inited => turn.pc = "init" /\ P = p
  /\ HasProc => Serves(P, turn.msg)
  /\ turn.pc = "init" => proc[P].owner = turn.msg
  /\ turn.pc = "send" /\ ~proc[P].initSent => Quiet(P)
  /\ turn.pc = "reading" => ~proc[P].initSent
  /\ \A p \in Procs : ~proc[p].inited => proc[p].stdout = <<>>

\* What a process was started with is what its user has now.
ConfigCurrent ==
  /\ \A k \in Keys : tracked[k] # NoProc /\ proc[tracked[k]].life # "gone" =>
       /\ proc[tracked[k]].project = project[k]
       /\ tracked[k] # turn.proc =>
            /\ ~proc[tracked[k]].retry
            /\ proc[tracked[k]].plugins >= changed[k].plugins
  /\ HasProc =>
       /\ proc[P].project = project[turn.key]
       /\ changed[turn.key].msg < turn.msg => proc[P].plugins >= changed[turn.key].plugins
       /\ proc[P].retry = turn.retry
       /\ turn.retry => proc[P].effort = effort[turn.key]
  /\ turn.pc = "get" /\ turn.retry => tracked[turn.key] = NoProc

ChangesKnown ==
  /\ \A k \in Keys : changed[k].plugins <= plugins /\ changed[k].msg <= msgs
  /\ turn.pc # "idle" /\ changed[turn.key].msg = turn.msg => reload
  /\ plugins <= upsets

-----------------------------------------------------------------------------
(* Types. *)

Lives == {"up", "dying", "gone"}
ProcRecords == [life : Lives, key : Keys, effort : Efforts, project : Projects,
                plugins : 0..MaxUpsets, owner : Msgs, retry : BOOLEAN, initSent : BOOLEAN,
                inited : BOOLEAN, stdin : Seq(Msgs), stdout : Seq(Events)]
TurnRecords == [pc : {"idle", "get", "init", "send", "reading"}, key : Keys, msg : Msgs,
                proc : Procs \cup {NoProc}, cancelled : BOOLEAN,
                retry : BOOLEAN, restore : Efforts]

SettingsType == effort \in [Keys -> Efforts] /\ project \in [Keys -> Projects]
ProcType == tracked \in [Keys -> Procs \cup {NoProc}] /\ proc \in [Procs -> ProcRecords]
TurnType == turn \in TurnRecords
CountersType ==
  /\ plugins \in 0..MaxUpsets /\ reload \in BOOLEAN
  /\ lastUserMsg \subseteq Keys /\ msgs \in 0..MaxMsgs /\ upsets \in 0..MaxUpsets
  /\ changed \in [Keys -> [plugins : 0..MaxUpsets, msg : Msgs]]
TypeInv == SettingsType /\ ProcType /\ TurnType /\ CountersType

IInv ==
  /\ TypeInv /\ TrackedOnce /\ TurnHasProc /\ PipesOwned
  /\ NoOrphans /\ ConfigCurrent /\ ChangesKnown

LEMMA Numbers ==
  /\ MaxMsgs \in Nat /\ MaxUpsets \in Nat /\ 0 \in Msgs /\ Msgs \subseteq Nat
  /\ AnyKey \in Keys /\ Default \in Efforts /\ NoProject \in Projects /\ NoProc \notin Procs
<1>1. AnyKey \in Keys
  BY CliAssumption DEF AnyKey
<1> QED BY <1>1, CliAssumption DEF Msgs

\* A process that was killed by others is as one that never ran, and one that
\* dies keeps what it has printed.
LEMMA GoneIs ==
  ASSUME NEW k \in Keys
  PROVE  /\ Gone(k) \in ProcRecords /\ Gone(k).life = "gone" /\ Gone(k).key = k
         /\ Gone(k).stdin = <<>> /\ Gone(k).stdout = <<>> /\ ~Gone(k).initSent /\ ~Gone(k).inited
BY Numbers DEF Gone, ProcRecords, Lives

LEMMA DyingIs ==
  ASSUME NEW r \in ProcRecords
  PROVE  /\ Dying(r) \in ProcRecords /\ Dying(r).life # "up"
         /\ Dying(r).life = "gone" <=> r.life = "gone"
         /\ \E l \in {"dying", "gone"} :
              Dying(r) = [r EXCEPT !.life = l] /\ (r.life = "gone" => l = "gone")
BY DEF Dying, ProcRecords, Lives

LEMMA KilledIs ==
  ASSUME NEW r \in ProcRecords
  PROVE  /\ Killed(r) \in ProcRecords /\ Killed(r).life # "up"
         /\ Killed(r).life = "gone" <=> r.life = "gone"
         /\ Killed(r).stdin = <<>> /\ Killed(r).stdout = <<>>
         /\ ~Killed(r).initSent /\ ~Killed(r).inited
<1>1. Gone(AnyKey) \in ProcRecords
  BY GoneIs, Numbers
<1>2. Dying(r).life \in Lives
  BY DyingIs DEF ProcRecords
<1>3. /\ Killed(r) \in ProcRecords /\ Killed(r).life = Dying(r).life
      /\ Killed(r).stdin = Gone(AnyKey).stdin /\ Killed(r).stdout = Gone(AnyKey).stdout
      /\ Killed(r).initSent = Gone(AnyKey).initSent /\ Killed(r).inited = Gone(AnyKey).inited
  BY <1>1, <1>2 DEF Killed, ProcRecords
<1> QED BY <1>3, DyingIs, GoneIs, Numbers

LEMMA IdleIs ==
  /\ Idle \in TurnRecords /\ Idle.pc = "idle" /\ Idle.proc = NoProc
BY Numbers DEF Idle, TurnRecords

\* RemoveProc takes one process from one user, and leaves every other alone.
LEMMA RemoveShape ==
  ASSUME ProcType, NEW k \in Keys, NEW ps \in [Procs -> ProcRecords], RemoveProc(k, ps)
  PROVE  /\ ProcType'
         /\ tracked'[k] = NoProc /\ \A j \in Keys : j # k => tracked'[j] = tracked[j]
         /\ \A p \in Procs : p # tracked[k] => proc'[p] = ps[p]
         /\ tracked[k] # NoProc /\ tracked[k] = P => proc'[tracked[k]] = Dying(ps[tracked[k]])
         /\ tracked[k] # NoProc /\ tracked[k] # P => proc'[tracked[k]] = Killed(ps[tracked[k]])
<1>1. \A p \in Procs : Dying(ps[p]) \in ProcRecords /\ Killed(ps[p]) \in ProcRecords
  BY DyingIs, KilledIs
<1>2. tracked' \in [Keys -> Procs \cup {NoProc}]
  BY DEF RemoveProc, ProcType
<1>3. proc' \in [Procs -> ProcRecords]
  BY <1>1 DEF RemoveProc
<1> QED BY <1>2, <1>3 DEF RemoveProc, ProcType

-----------------------------------------------------------------------------
(* Every action keeps the types. *)

LEMMA CommandsTyped ==
  ASSUME TypeInv, handleEffort \/ handleEffortReset \/ handleProject \/ Cleanup
  PROVE  TypeInv'
<1> USE DEF TypeInv
<1>1. SettingsType'
  BY Numbers DEF handleEffort, handleEffortReset, handleProject, Cleanup, SettingsType, settings
<1>2. ProcType'
  <2>1. CASE handleEffortReset
    BY <2>1 DEF handleEffortReset, ProcType
  <2>2. CASE \E k \in Keys : RemoveProc(k, proc)
    BY <2>2, RemoveShape DEF ProcType
  <2> QED BY <2>1, <2>2 DEF handleEffort, handleEffortReset, handleProject, Cleanup
<1>3. TurnType'
  BY DEF handleEffort, handleEffortReset, handleProject, Cleanup, Command, commandUnchanged, TurnType
<1>4. CountersType'
  <2>1. CASE Cleanup
    BY <2>1 DEF Cleanup, bounds, CountersType
  <2>2. CASE Upset /\ UNCHANGED commandUnchanged
    BY <2>2, Numbers DEF Upset, commandUnchanged, CountersType
  <2> QED BY <2>1, <2>2 DEF handleEffort, handleEffortReset, handleProject, Command, commandUnchanged
<1> QED BY <1>1, <1>2, <1>3, <1>4

LEMMA BeginTyped ==
  ASSUME TypeInv, NEW k \in Keys, NEW retry \in BOOLEAN, NEW restore \in Efforts,
         Begin(k, retry, restore)
  PROVE  ProcType' /\ TurnType' /\ CountersType'
<1> USE DEF TypeInv
<1>1. ProcType'
  BY RemoveShape DEF Begin, Keep, ProcType
<1>2. msgs' \in 0..MaxMsgs /\ msgs + 1 \in Msgs
  BY Numbers DEF Begin, CountersType, Msgs
<1>3. TurnType'
  BY <1>2, IdleIs DEF Begin, TurnType, TurnRecords
<1>4. CountersType'
  BY <1>2 DEF Begin, CountersType
<1> QED BY <1>1, <1>3, <1>4

LEMMA MessagesTyped ==
  ASSUME TypeInv, handleMessage \/ handleRetry
  PROVE  TypeInv'
<1> USE DEF TypeInv
<1>1. CASE handleMessage
  BY <1>1, BeginTyped, Numbers DEF handleMessage, SettingsType, Begin
<1>2. CASE handleRetry
  <2>1. PICK k \in lastUserMsg, e \in Efforts :
          Begin(k, TRUE, effort[k]) /\ effort' = [effort EXCEPT ![k] = e]
    BY <1>2 DEF handleRetry
  <2>2. k \in Keys /\ effort[k] \in Efforts
    BY DEF CountersType, SettingsType
  <2>3. SettingsType'
    BY <2>1 DEF SettingsType, Begin
  <2> QED BY <2>1, <2>2, <2>3, BeginTyped
<1> QED BY <1>1, <1>2

LEMMA TidyTyped ==
  ASSUME ProcType, NEW ps \in [Procs -> ProcRecords]
  PROVE  Tidy(ps) \in [Procs -> ProcRecords]
BY KilledIs DEF Tidy

\* The end of a turn keeps the processes and restores the settings.
LEMMA EndTurnTyped ==
  ASSUME TypeInv, NEW ps \in [Procs -> ProcRecords], NEW removes \in BOOLEAN,
         EndTurn(ps, removes)
  PROVE  SettingsType' /\ ProcType' /\ TurnType'
<1> USE DEF TypeInv
<1>1. Tidy(ps) \in [Procs -> ProcRecords]
  BY TidyTyped
<1>2. turn.key \in Keys /\ turn.restore \in Efforts
  BY DEF TurnType, TurnRecords
<1>3. ProcType'
  <2>1. CASE RemoveProc(turn.key, Tidy(ps))
    BY <1>1, <1>2, <2>1, RemoveShape
  <2>2. CASE Keep(Tidy(ps))
    BY <1>1, <2>2 DEF Keep, ProcType
  <2> QED BY <2>1, <2>2 DEF EndTurn
<1>4. SettingsType'
  BY <1>2 DEF EndTurn, SettingsType
<1> QED BY <1>3, <1>4, IdleIs DEF EndTurn, TurnType

\* Steps of the turn in progress that read or write its process.
LEMMA TurnProc ==
  ASSUME TypeInv, TurnHasProc, HasProc
  PROVE  /\ P \in Procs /\ P # NoProc /\ proc[P] \in ProcRecords
         /\ turn.key \in Keys /\ turn.msg \in Msgs /\ turn.retry \in BOOLEAN
BY Numbers DEF TypeInv, TurnHasProc, ProcType, TurnType, TurnRecords, P

LEMMA TailTyped ==
  ASSUME NEW S, NEW q \in Seq(S), q # <<>>
  PROVE  Tail(q) \in Seq(S) /\ Head(q) \in S
OBVIOUS

\* The process of a turn whose first event was read.
LEMMA AfterRead ==
  ASSUME NEW r \in ProcRecords, r.stdout # <<>>
  PROVE  [r EXCEPT !.stdout = Tail(@)] \in ProcRecords
<1>1. Tail(r.stdout) \in Seq(Events)
  BY TailTyped DEF ProcRecords
<1> QED BY <1>1 DEF ProcRecords

LEMMA EndsTyped ==
  ASSUME TypeInv, TurnHasProc, SpawnFails \/ InitFails \/ SendFails \/ ReadResult
  PROVE  TypeInv'
<1> USE DEF TypeInv
<1>1. proc \in [Procs -> ProcRecords]
  BY DEF ProcType
<1>2. CASE SpawnFails \/ SendFails
  BY <1>1, <1>2, EndTurnTyped DEF SpawnFails, SendFails, bounds, CountersType
<1>3. CASE InitFails
  <2>1. [proc EXCEPT ![P] = Killed(@)] \in [Procs -> ProcRecords]
    BY <1>1, KilledIs
  <2> QED BY <1>3, <2>1, EndTurnTyped DEF InitFails, bounds, CountersType
<1>4. CASE ReadResult
  <2>1. HasProc /\ proc[P].stdout # <<>>
    BY <1>4 DEF ReadResult, Reading, HasProc
  <2>2. [proc EXCEPT ![P].stdout = Tail(@)] \in [Procs -> ProcRecords]
    BY <1>1, <2>1, TurnProc, AfterRead
  <2>3. reload \in BOOLEAN
    BY DEF CountersType
  <2>4. SettingsType' /\ ProcType' /\ TurnType'
    BY <1>4, <2>2, <2>3, EndTurnTyped DEF ReadResult
  <2> QED BY <1>4, <2>4 DEF ReadResult, bounds, CountersType
<1> QED BY <1>2, <1>3, <1>4

\* The record of a process that starts.
Spawned(p) ==
  [Gone(turn.key) EXCEPT !.life = "up", !.owner = turn.msg, !.retry = turn.retry,
     !.effort = effort[turn.key], !.project = project[turn.key],
     !.plugins = plugins, !.stdin = <<turn.msg>>]

LEMMA SpawnShape ==
  ASSUME TypeInv, SpawnStarts
  PROVE  \E p \in Procs :
           /\ Unused(p) /\ ~Alive(tracked[turn.key])
           /\ turn' = [turn EXCEPT !.pc = "init", !.proc = p]
           /\ proc' = [proc EXCEPT ![p] = Spawned(p)]
           /\ Spawned(p) \in ProcRecords
<1>1. (CHOOSE q \in Procs : Unused(q)) \in Procs /\ Unused(CHOOSE q \in Procs : Unused(q))
  BY DEF SpawnStarts
<1>2. ASSUME NEW p \in Procs PROVE Spawned(p) \in ProcRecords
  <2>1. Gone(turn.key) \in ProcRecords /\ turn.msg \in Msgs /\ turn.retry \in BOOLEAN
    BY GoneIs DEF TypeInv, TurnType, TurnRecords
  <2>2. /\ effort[turn.key] \in Efforts /\ project[turn.key] \in Projects
        /\ plugins \in 0..MaxUpsets
    BY DEF TypeInv, TurnType, TurnRecords, SettingsType, CountersType
  <2>3. <<turn.msg>> \in Seq(Msgs) /\ "up" \in Lives
    BY <2>1 DEF Lives
  <2> QED BY <2>1, <2>2, <2>3 DEF Spawned, ProcRecords
<1> QED BY <1>1, <1>2 DEF SpawnStarts, Spawned

LEMMA StepsTyped ==
  ASSUME TypeInv, TurnHasProc,
         GetExisting \/ SpawnStarts \/ InitRead \/ SendWrites \/ ReadText
  PROVE  TypeInv'
<1> USE DEF TypeInv
<1>1. SettingsType' /\ CountersType'
  BY DEF GetExisting, SpawnStarts, InitRead, SendWrites, ReadText, settings, bounds,
         SettingsType, CountersType
<1>2. TurnType'
  <2>1. CASE SpawnStarts
    BY <2>1, SpawnShape DEF TurnType, TurnRecords
  <2>2. CASE GetExisting
    BY <2>2 DEF GetExisting, TurnType, TurnRecords, ProcType
  <2>3. CASE InitRead \/ SendWrites \/ ReadText
    BY <2>3 DEF InitRead, SendWrites, ReadText, TurnType, TurnRecords
  <2> QED BY <2>1, <2>2, <2>3
<1>3. tracked' \in [Keys -> Procs \cup {NoProc}]
  <2>1. CASE InitRead
    BY <2>1 DEF InitRead, TurnType, TurnRecords, ProcType, P
  <2>2. CASE SpawnStarts
    BY <2>2 DEF SpawnStarts, ProcType
  <2> QED BY <2>1, <2>2 DEF GetExisting, SendWrites, ReadText, ProcType
<1>4. proc' \in [Procs -> ProcRecords]
  <2>1. CASE GetExisting
    BY <2>1 DEF GetExisting, ProcType
  <2>2. CASE SpawnStarts
    BY <2>2, SpawnShape DEF ProcType
  <2>3. CASE InitRead
    <3>1. [proc[P] EXCEPT !.stdout = Tail(@), !.initSent = TRUE] \in ProcRecords
      <4>1. HasProc /\ proc[P].stdout # <<>>
        BY <2>3 DEF InitRead, InitEvent, HasProc
      <4>2. [proc[P] EXCEPT !.stdout = Tail(@)] \in ProcRecords /\ proc[P] \in ProcRecords
        BY <4>1, AfterRead, TurnProc
      <4> QED BY <4>2 DEF ProcRecords
    <3> QED BY <2>3, <3>1 DEF InitRead, ProcType
  <2>4. CASE SendWrites
    <3>1. HasProc
      BY <2>4 DEF SendWrites, Writable, HasProc
    <3>2. Append(proc[P].stdin, turn.msg) \in Seq(Msgs) /\ proc[P].stdin \in Seq(Msgs)
      BY <3>1, TurnProc DEF ProcRecords
    <3>3. ASSUME NEW q \in Seq(Msgs)
          PROVE  [proc[P] EXCEPT !.initSent = FALSE, !.stdin = q] \in ProcRecords
      BY <3>1, TurnProc DEF ProcRecords
    <3> QED BY <2>4, <3>2, <3>3 DEF SendWrites, ProcType
  <2>5. CASE ReadText
    <3>1. HasProc /\ proc[P].stdout # <<>>
      BY <2>5 DEF ReadText, Reading, HasProc
    <3> QED BY <2>5, <3>1, AfterRead, TurnProc DEF ReadText, ProcType
  <2> QED BY <2>1, <2>2, <2>3, <2>4, <2>5
<1> QED BY <1>1, <1>2, <1>3, <1>4 DEF ProcType


\* What a process prints, and what becomes of it.
LEMMA ProcessTyped ==
  ASSUME TypeInv, ChangesKnown, NEW p \in Procs,
         \/ PrintsInit(p) \/ PrintsText(p) \/ PrintsResult(p)
         \/ ChangesPlugins(p) \/ Dies(p) \/ DoneClosed(p)
  PROVE  TypeInv'
<1> USE DEF TypeInv
<1>1. SettingsType' /\ TurnType' /\ tracked' \in [Keys -> Procs \cup {NoProc}]
  BY DEF PrintsInit, PrintsText, PrintsResult, ChangesPlugins, Dies, DoneClosed,
         procUnchanged, settings, SettingsType, TurnType, ProcType
<1>2. /\ proc[p] \in ProcRecords /\ proc[p].stdin \in Seq(Msgs) /\ proc[p].stdout \in Seq(Events)
      /\ proc[p].owner \in Msgs /\ proc[p].key \in Keys
  BY DEF ProcType, ProcRecords
<1>3. CountersType'
  <2>1. upsets' \in 0..MaxUpsets
    BY Numbers DEF PrintsInit, PrintsText, PrintsResult, ChangesPlugins, Dies, DoneClosed,
                   Upset, CountersType
  <2>2. CASE ChangesPlugins(p)
    <3>1. plugins' \in 0..MaxUpsets
      <4>1. plugins \in 0..MaxUpsets /\ upsets \in 0..MaxUpsets /\ plugins <= upsets
        BY DEF CountersType, ChangesKnown
      <4>2. upsets < MaxUpsets /\ plugins' = plugins + 1
        BY <2>2 DEF ChangesPlugins, Upset
      <4> QED BY <4>1, <4>2, Numbers
    <3>2. Head(proc[p].stdin) \in Msgs
      BY <1>2, <2>2, TailTyped DEF ChangesPlugins, Working
    <3> QED BY <1>2, <2>1, <2>2, <3>1, <3>2 DEF ChangesPlugins, procUnchanged, CountersType
  <2>3. CASE ~ChangesPlugins(p)
    BY <2>1, <2>3 DEF PrintsInit, PrintsText, PrintsResult, Dies, DoneClosed,
                      procUnchanged, CountersType
  <2> QED BY <2>2, <2>3
<1>4. proc' \in [Procs -> ProcRecords]
  <2>1. CASE \E r \in ProcRecords : proc' = [proc EXCEPT ![p] = r]
    BY <2>1 DEF ProcType
  <2>2. ASSUME NEW kind \in {"init", "text", "result"}, NEW m \in Msgs
        PROVE  Append(proc[p].stdout, Event(kind, m)) \in Seq(Events)
    BY <1>2 DEF Event, Events
  <2>3. CASE PrintsInit(p)
    <3>1. [proc[p] EXCEPT !.stdout = Append(@, Event("init", proc[p].owner)), !.inited = TRUE]
            \in ProcRecords
      BY <1>2, <2>2 DEF ProcRecords
    <3> QED BY <2>3, <3>1 DEF PrintsInit, ProcType
  <2>4. CASE PrintsText(p)
    <3>1. Head(proc[p].stdin) \in Msgs
      BY <1>2, <2>4, TailTyped DEF PrintsText, Working
    <3>2. [proc[p] EXCEPT !.stdout = Append(@, Event("text", Head(proc[p].stdin)))] \in ProcRecords
      BY <1>2, <2>2, <3>1 DEF ProcRecords
    <3> QED BY <2>4, <3>2 DEF PrintsText, Prints, ProcType
  <2>5. CASE PrintsResult(p)
    <3>1. Head(proc[p].stdin) \in Msgs /\ Tail(proc[p].stdin) \in Seq(Msgs)
      BY <1>2, <2>5, TailTyped DEF PrintsResult, Working
    <3>2. [proc[p] EXCEPT !.stdout = Append(@, Event("result", Head(proc[p].stdin))),
                          !.stdin = Tail(@)] \in ProcRecords
      BY <1>2, <2>2, <3>1 DEF ProcRecords
    <3> QED BY <2>5, <3>2 DEF PrintsResult, ProcType
  <2>6. CASE Dies(p)
    BY <1>2, <2>1, <2>6, DyingIs DEF Dies, ProcType
  <2>7. CASE DoneClosed(p)
    <3>1. [proc[p] EXCEPT !.life = "gone"] \in ProcRecords /\ Gone(AnyKey) \in ProcRecords
      BY <1>2, GoneIs, Numbers DEF ProcRecords, Lives
    <3> QED BY <2>7, <3>1 DEF DoneClosed, ProcType
  <2>8. CASE ChangesPlugins(p)
    BY <2>8 DEF ChangesPlugins, ProcType
  <2> QED BY <2>3, <2>4, <2>5, <2>6, <2>7, <2>8
<1> QED BY <1>1, <1>3, <1>4 DEF ProcType

LEMMA StopTyped ==
  ASSUME TypeInv, stopActive
  PROVE  TypeInv'
<1> USE DEF TypeInv
<1> DEFINE ps == [p \in Procs |-> IF proc[p].owner = turn.msg THEN Dying(proc[p]) ELSE proc[p]]
<1>1. ps \in [Procs -> ProcRecords]
  BY DyingIs DEF ProcType
<1>2. turn.key \in Keys
  BY DEF TurnType, TurnRecords
<1>3. ProcType'
  BY <1>1, <1>2, RemoveShape DEF stopActive
<1>4. TurnType'
  BY DEF stopActive, TurnType, TurnRecords
<1> QED BY <1>3, <1>4 DEF stopActive, settings, bounds, SettingsType, CountersType

LEMMA NextTyped ==
  ASSUME TypeInv, TurnHasProc, ChangesKnown, Next
  PROVE  TypeInv'
BY CommandsTyped, MessagesTyped, EndsTyped, StepsTyped, ProcessTyped, StopTyped DEF Next, TurnStep

-----------------------------------------------------------------------------
(* Processes that stop.  Whoever kills a process, and whenever it dies, the *)
(* invariant stands: the commands, Cleanup, /stop and a death.             *)

\* It ends, and what it holds stays for the turn that reads it.
Ended(p) ==
  \E l \in {"dying", "gone"} :
    proc'[p] = [proc[p] EXCEPT !.life = l] /\ (proc[p].life = "gone" => l = "gone")
\* It ends, and what it holds is lost.
Emptied(p) ==
  /\ p # P /\ proc'[p].life # "up"
  /\ proc'[p].stdin = <<>> /\ proc'[p].stdout = <<>> /\ ~proc'[p].initSent
  /\ proc'[p].life = "gone" \/ \A k \in Keys : tracked'[k] # p

Fades ==
  /\ \A p \in Procs : proc'[p] = proc[p] \/ Ended(p) \/ Emptied(p)
  /\ \A k \in Keys :
       /\ tracked'[k] \in {tracked[k], NoProc}
       /\ tracked[k] # NoProc /\ tracked'[k] = NoProc => proc'[tracked[k]].life # "up"
       /\ project'[k] = project[k] \/ (turn = Idle /\ tracked'[k] = NoProc)
  /\ turn # Idle => effort' = effort
  /\ \E c \in BOOLEAN : turn' = [turn EXCEPT !.cancelled = c] /\ (turn = Idle => turn' = turn)
  /\ UNCHANGED <<plugins, reload, msgs, changed>> /\ upsets' >= upsets

LEMMA CountersAre ==
  ASSUME TypeInv
  PROVE  /\ msgs \in Nat /\ upsets \in Nat /\ plugins \in Nat
         /\ \A k \in Keys : changed[k].msg \in Nat /\ changed[k].plugins \in Nat
BY Numbers DEF TypeInv, CountersType, Msgs

\* The same in the terms of the invariant.
LEMMA FadesShape ==
  ASSUME TypeInv, TypeInv', Fades
  PROVE  /\ turn'.pc = turn.pc /\ turn'.key = turn.key /\ turn'.msg = turn.msg
         /\ turn'.proc = turn.proc /\ turn'.retry = turn.retry /\ (HasProc' <=> HasProc)
         /\ turn = Idle => turn' = Idle
         /\ P \in Procs =>
              /\ proc'[P].key = proc[P].key /\ proc'[P].owner = proc[P].owner
              /\ proc'[P].stdin = proc[P].stdin /\ proc'[P].stdout = proc[P].stdout
              /\ proc'[P].initSent = proc[P].initSent /\ proc'[P].inited = proc[P].inited
              /\ proc'[P].project = proc[P].project /\ proc'[P].retry = proc[P].retry
              /\ proc'[P].plugins = proc[P].plugins /\ proc'[P].effort = proc[P].effort
         /\ \A p \in Procs : proc'[p].life = "up" => proc'[p] = proc[p]
<1>1. turn \in TurnRecords
  BY DEF TypeInv, TurnType
<1>2. /\ turn'.pc = turn.pc /\ turn'.key = turn.key /\ turn'.msg = turn.msg
      /\ turn'.proc = turn.proc /\ turn'.retry = turn.retry
      /\ turn = Idle => turn' = Idle
  BY <1>1 DEF Fades, TurnRecords
<1>3. ASSUME NEW p \in Procs, Ended(p)
      PROVE  /\ proc'[p].key = proc[p].key /\ proc'[p].owner = proc[p].owner
             /\ proc'[p].stdin = proc[p].stdin /\ proc'[p].stdout = proc[p].stdout
             /\ proc'[p].initSent = proc[p].initSent /\ proc'[p].inited = proc[p].inited
             /\ proc'[p].project = proc[p].project /\ proc'[p].retry = proc[p].retry
             /\ proc'[p].plugins = proc[p].plugins /\ proc'[p].effort = proc[p].effort
             /\ proc'[p].life # "up"
  BY <1>3 DEF Ended, TypeInv, ProcType, ProcRecords
<1>4. P \in Procs => proc'[P] = proc[P] \/ Ended(P)
  BY DEF Fades, Emptied
<1>5. \A p \in Procs : proc'[p].life = "up" => proc'[p] = proc[p]
  BY <1>3 DEF Fades, Emptied
<1> QED BY <1>2, <1>3, <1>4, <1>5 DEF HasProc

\* A process that is still tracked afterwards was, for the same user, before, and
\* if it has not gone it has what it had, but for its life.
LEMMA FadesTracked ==
  ASSUME TypeInv, TypeInv', Fades, NEW k \in Keys, tracked'[k] # NoProc
  PROVE  /\ tracked'[k] = tracked[k] /\ tracked[k] \in Procs /\ project'[k] = project[k]
         /\ proc'[tracked[k]].life # "gone" =>
              /\ proc[tracked[k]].life # "gone" /\ proc'[tracked[k]].key = proc[tracked[k]].key
              /\ proc'[tracked[k]].project = proc[tracked[k]].project
              /\ proc'[tracked[k]].retry = proc[tracked[k]].retry
              /\ proc'[tracked[k]].plugins = proc[tracked[k]].plugins
         /\ Quiet(tracked[k]) /\ ~proc[tracked[k]].initSent =>
              Quiet(tracked[k])' /\ ~proc'[tracked[k]].initSent
<1> DEFINE p == tracked[k]
<1>1. tracked'[k] = p /\ p \in Procs /\ project'[k] = project[k]
  BY DEF Fades, TypeInv, ProcType
<1>2. proc[p] \in ProcRecords
  BY <1>1 DEF TypeInv, ProcType
<1> HIDE DEF p
<1>3. CASE proc'[p] = proc[p]
  BY <1>1, <1>3 DEF Quiet, p
<1>4. CASE Ended(p)
  BY <1>1, <1>2, <1>4 DEF Ended, ProcRecords, Quiet, p
<1>5. CASE Emptied(p)
  BY <1>1, <1>5 DEF Emptied, Quiet, p
<1> QED BY <1>1, <1>3, <1>4, <1>5 DEF Fades

LEMMA FadesTracking ==
  ASSUME IInv, TypeInv', Fades
  PROVE  TrackedOnce' /\ NoOrphans' /\ TurnHasProc'
<1> USE DEF IInv
<1>1. \A k \in Keys : tracked'[k] \in {tracked[k], NoProc}
  BY DEF Fades
<1>2. turn \in TurnRecords
  BY DEF TypeInv, TurnType
<1>3. TrackedOnce'
  <2>1. \A j, k \in Keys : tracked'[j] = tracked'[k] /\ tracked'[j] # NoProc => j = k
    BY <1>1 DEF TrackedOnce
  <2>2. ASSUME NEW k \in Keys, tracked'[k] # NoProc, proc'[tracked'[k]].life # "gone"
        PROVE  proc'[tracked'[k]].key = k
    BY <2>2, FadesTracked DEF TrackedOnce
  <2>3. turn'.pc = "init" =>
          tracked'[turn'.key] = NoProc /\ \A k \in Keys : tracked'[k] # turn'.proc
    <3>1. turn.pc = "init" => turn.key \in Keys /\ turn.proc \in Procs
      BY <1>2 DEF TurnHasProc, HasProc, TurnRecords
    <3>2. turn'.pc = turn.pc /\ turn'.key = turn.key /\ turn'.proc = turn.proc
      BY FadesShape
    <3> QED BY <1>1, <3>1, <3>2, Numbers DEF TrackedOnce
  <2> QED BY <2>1, <2>2, <2>3 DEF TrackedOnce
<1>4. NoOrphans'
  <2> SUFFICES ASSUME NEW p \in Procs, proc'[p].life = "up"
               PROVE  tracked'[proc'[p].key] = p \/ (turn'.pc = "init" /\ turn'.proc = p)
    BY DEF NoOrphans, P
  <2>1. proc'[p] = proc[p] /\ proc[p].key \in Keys /\ p # NoProc
    BY FadesShape, Numbers DEF TypeInv, ProcType, ProcRecords
  <2>2. CASE tracked[proc[p].key] = p
    BY <2>1, <2>2 DEF Fades
  <2>3. CASE turn.pc = "init" /\ turn.proc = p
    BY <2>3, FadesShape
  <2> QED BY <2>1, <2>2, <2>3 DEF NoOrphans, P
<1>5. TurnHasProc'
  <2>1. /\ turn'.pc = turn.pc /\ turn'.key = turn.key /\ turn'.msg = turn.msg /\ msgs' = msgs
        /\ turn'.proc = turn.proc /\ (turn = Idle => turn' = Idle) /\ (HasProc' <=> HasProc)
    BY FadesShape DEF Fades
  <2>2. P \in Procs => proc'[P].key = proc[P].key
    BY FadesShape
  <2>3. HasProc => turn.proc # NoProc
    BY Numbers DEF TurnHasProc
  <2> QED BY <1>1, <2>1, <2>2, <2>3 DEF TurnHasProc, P
<1> QED BY <1>3, <1>4, <1>5

LEMMA FadesPipes ==
  ASSUME IInv, TypeInv', Fades
  PROVE  PipesOwned'
<1> USE DEF IInv
<1>1. /\ turn'.pc = turn.pc /\ turn'.key = turn.key /\ turn'.msg = turn.msg
      /\ turn'.proc = turn.proc /\ (HasProc' <=> HasProc)
  BY FadesShape
<1>2. HasProc => P \in Procs
  BY DEF TurnHasProc, P
<1>3. ASSUME NEW k \in Keys, tracked'[k] # NoProc, tracked'[k] # turn'.proc
      PROVE  Quiet(tracked[k])' /\ ~proc'[tracked'[k]].initSent /\ tracked'[k] = tracked[k]
  BY <1>1, <1>3, FadesTracked DEF PipesOwned
<1>4. \A p \in Procs : proc'[p].life = "up" /\ ~proc'[p].inited => turn'.pc = "init" /\ turn'.proc = p
  BY <1>1, FadesShape DEF PipesOwned, P
<1>5. HasProc =>
        /\ Serves(P, turn.msg)' /\ (turn.pc = "init" => proc'[P].owner = turn.msg)
        /\ turn.pc = "send" /\ ~proc'[P].initSent => Quiet(P)'
        /\ turn.pc = "reading" => ~proc'[P].initSent
  <2> SUFFICES ASSUME HasProc
               PROVE  /\ Serves(P, turn.msg)' /\ (turn.pc = "init" => proc'[P].owner = turn.msg)
                      /\ turn.pc = "send" /\ ~proc'[P].initSent => Quiet(P)'
                      /\ turn.pc = "reading" => ~proc'[P].initSent
    OBVIOUS
  <2>1. /\ proc'[P].stdin = proc[P].stdin /\ proc'[P].stdout = proc[P].stdout
        /\ proc'[P].owner = proc[P].owner /\ proc'[P].initSent = proc[P].initSent
    BY <1>2, FadesShape
  <2>2. Serves(P, turn.msg)
    BY DEF PipesOwned
  <2>3. P' = P
    BY <1>1 DEF P
  <2> QED BY <1>1, <2>1, <2>2, <2>3 DEF PipesOwned, Serves, Quiet
<1>6. ASSUME NEW p \in Procs, ~proc'[p].inited PROVE proc'[p].stdout = <<>>
  <2>1. proc[p] \in ProcRecords
    BY DEF TypeInv, ProcType
  <2>2. CASE Ended(p)
    BY <1>6, <2>1, <2>2 DEF Ended, ProcRecords, PipesOwned
  <2> QED BY <1>6, <2>2 DEF Fades, Emptied, PipesOwned
<1> QED BY <1>1, <1>3, <1>4, <1>5, <1>6 DEF PipesOwned, Quiet, HasProc, P

LEMMA FadesConfig ==
  ASSUME IInv, TypeInv', Fades
  PROVE  ConfigCurrent' /\ ChangesKnown'
<1> USE DEF IInv
<1>1. /\ turn'.pc = turn.pc /\ turn'.key = turn.key /\ turn'.msg = turn.msg
      /\ turn'.proc = turn.proc /\ turn'.retry = turn.retry /\ (HasProc' <=> HasProc)
      /\ UNCHANGED <<plugins, reload, msgs, changed>> /\ upsets' >= upsets
  BY FadesShape DEF Fades
<1>2. HasProc => P \in Procs /\ turn # Idle
  BY IdleIs DEF TurnHasProc, P, HasProc
<1>3. ASSUME NEW k \in Keys, tracked'[k] # NoProc, proc'[tracked'[k]].life # "gone"
      PROVE  /\ proc'[tracked'[k]].project = project'[k]
             /\ tracked'[k] # turn'.proc =>
                  /\ ~proc'[tracked'[k]].retry
                  /\ proc'[tracked'[k]].plugins >= changed'[k].plugins
  <2>1. tracked'[k] = tracked[k] /\ project'[k] = project[k]
    BY <1>3, FadesTracked
  <2>2. /\ proc[tracked[k]].life # "gone"
        /\ proc'[tracked[k]].project = proc[tracked[k]].project
        /\ proc'[tracked[k]].retry = proc[tracked[k]].retry
        /\ proc'[tracked[k]].plugins = proc[tracked[k]].plugins
    BY <1>3, <2>1, FadesTracked
  <2> QED BY <1>1, <1>3, <2>1, <2>2 DEF ConfigCurrent
<1>4. HasProc =>
        /\ proc'[P].project = project'[turn.key]
        /\ changed[turn.key].msg < turn.msg => proc'[P].plugins >= changed[turn.key].plugins
        /\ proc'[P].retry = turn.retry
        /\ turn.retry => proc'[P].effort = effort'[turn.key]
  <2>1. turn.key \in Keys
    BY DEF TypeInv, TurnType, TurnRecords
  <2> QED BY <1>2, <2>1, FadesShape DEF ConfigCurrent, Fades
<1>5. turn.pc = "get" /\ turn.retry => tracked'[turn.key] = NoProc
  BY DEF Fades, ConfigCurrent, TypeInv, TurnType, TurnRecords
<1>6. ConfigCurrent'
  BY <1>1, <1>3, <1>4, <1>5 DEF ConfigCurrent, P
<1>7. ChangesKnown'
  <2>1. plugins \in Nat /\ upsets \in Nat /\ upsets' \in Nat
    BY Numbers DEF TypeInv, CountersType
  <2> QED BY <1>1, <2>1 DEF ChangesKnown
<1> QED BY <1>6, <1>7

LEMMA FadesKeep ==
  ASSUME IInv, TypeInv', Fades
  PROVE  IInv'
<1>1. TrackedOnce' /\ NoOrphans' /\ TurnHasProc'
  BY FadesTracking
<1>2. PipesOwned'
  BY FadesPipes
<1>3. ConfigCurrent' /\ ChangesKnown'
  BY FadesConfig
<1> QED BY <1>1, <1>2, <1>3 DEF IInv

\* RemoveProc is such a step, whoever's process it takes and whatever died before.
LEMMA RemoveFades ==
  ASSUME ProcType, TrackedOnce, NEW k \in Keys, NEW ps \in [Procs -> ProcRecords], RemoveProc(k, ps),
         \A p \in Procs : ps[p] = proc[p] \/ ps[p] = Dying(proc[p])
  PROVE  /\ \A p \in Procs : proc'[p] = proc[p] \/ Ended(p) \/ Emptied(p)
         /\ \A j \in Keys :
              /\ tracked'[j] \in {tracked[j], NoProc}
              /\ tracked[j] # NoProc /\ tracked'[j] = NoProc => proc'[tracked[j]].life # "up"
         /\ tracked'[k] = NoProc
<1>1. /\ tracked'[k] = NoProc /\ \A j \in Keys : j # k => tracked'[j] = tracked[j]
      /\ \A p \in Procs : p # tracked[k] => proc'[p] = ps[p]
      /\ tracked[k] # NoProc /\ tracked[k] = P => proc'[tracked[k]] = Dying(ps[tracked[k]])
      /\ tracked[k] # NoProc /\ tracked[k] # P => proc'[tracked[k]] = Killed(ps[tracked[k]])
  BY RemoveShape
<1>2. \A p \in Procs : proc[p] \in ProcRecords /\ ps[p] \in ProcRecords
  BY DEF ProcType
<1>3. ASSUME NEW p \in Procs, proc'[p] = Dying(proc[p]) PROVE Ended(p)
  BY <1>2, <1>3, DyingIs DEF Ended
<1>4. ASSUME NEW r \in ProcRecords PROVE Dying(Dying(r)) = Dying(r)
  BY <1>4 DEF Dying, ProcRecords
<1>5. ASSUME NEW p \in Procs, p # tracked[k] PROVE proc'[p] = proc[p] \/ Ended(p)
  BY <1>1, <1>3, <1>5
<1>6. ASSUME tracked[k] # NoProc, tracked[k] = P PROVE Ended(tracked[k])
  <2>1. tracked[k] \in Procs
    BY <1>6 DEF ProcType
  <2>2. proc'[tracked[k]] = Dying(proc[tracked[k]])
    BY <1>1, <1>2, <1>4, <1>6, <2>1
  <2> QED BY <1>3, <2>1, <2>2
<1>7. ASSUME tracked[k] # NoProc, tracked[k] # P PROVE Emptied(tracked[k])
  <2>1. tracked[k] \in Procs /\ proc'[tracked[k]] = Killed(ps[tracked[k]])
    BY <1>1, <1>7 DEF ProcType
  <2>2. \A j \in Keys : tracked'[j] # tracked[k]
    BY <1>1, <1>7 DEF TrackedOnce
  <2> QED BY <1>2, <1>7, <2>1, <2>2, KilledIs DEF Emptied
<1>8. tracked[k] # NoProc => proc'[tracked[k]].life # "up"
  <2>1. tracked[k] # NoProc => tracked[k] \in Procs
    BY DEF ProcType
  <2> QED BY <1>1, <1>2, <2>1, DyingIs, KilledIs
<1>9. \A p \in Procs : proc'[p] = proc[p] \/ Ended(p) \/ Emptied(p)
  BY <1>5, <1>6, <1>7, Numbers
<1> QED BY <1>1, <1>8, <1>9

LEMMA CommandsFade ==
  ASSUME IInv, handleEffort \/ handleEffortReset \/ handleProject \/ Cleanup
  PROVE  Fades
<1> USE DEF IInv, TypeInv
<1>1. proc \in [Procs -> ProcRecords] /\ turn \in TurnRecords /\ upsets \in Nat
  BY Numbers DEF ProcType, TurnType, CountersType
<1>2. \E c \in BOOLEAN : turn' = [turn EXCEPT !.cancelled = c] /\ (turn = Idle => turn' = turn)
  <2>1. turn' = turn
    BY DEF handleEffort, handleEffortReset, handleProject, Cleanup, Command, commandUnchanged
  <2>2. turn' = [turn EXCEPT !.cancelled = turn.cancelled] /\ turn.cancelled \in BOOLEAN
    BY <1>1, <2>1 DEF TurnRecords
  <2> QED BY <2>1, <2>2
<1>3. UNCHANGED <<plugins, reload, msgs, changed>> /\ upsets' >= upsets
  BY <1>1 DEF handleEffort, handleEffortReset, handleProject, Cleanup, Command, Upset,
              commandUnchanged, bounds
<1>4. turn # Idle => effort' = effort
  BY DEF handleEffort, handleEffortReset, handleProject, Cleanup, Command, settings
<1>5. CASE handleEffortReset
  BY <1>2, <1>3, <1>4, <1>5 DEF handleEffortReset, Fades
<1>6. ASSUME NEW k \in Keys, RemoveProc(k, proc),
             project' = project \/ (turn = Idle /\ \E p \in Projects : project' = [project EXCEPT ![k] = p])
      PROVE  Fades
  <2>1. \A j \in Keys : project'[j] = project[j] \/ (turn = Idle /\ j = k)
    BY <1>6 DEF SettingsType
  <2> QED BY <1>1, <1>2, <1>3, <1>4, <1>6, <2>1, RemoveFades DEF Fades
<1>7. CASE handleEffort
  BY <1>6, <1>7 DEF handleEffort
<1>8. CASE handleProject
  BY <1>6, <1>8 DEF handleProject, Command
<1>9. CASE Cleanup
  BY <1>6, <1>9 DEF Cleanup, settings
<1> QED BY <1>5, <1>7, <1>8, <1>9

LEMMA StopFades ==
  ASSUME IInv, stopActive
  PROVE  Fades
<1> USE DEF IInv, TypeInv
<1> DEFINE ps == [p \in Procs |-> IF proc[p].owner = turn.msg THEN Dying(proc[p]) ELSE proc[p]]
<1>1. ps \in [Procs -> ProcRecords] /\ \A p \in Procs : ps[p] = proc[p] \/ ps[p] = Dying(proc[p])
  BY DyingIs DEF ProcType
<1>2. turn.key \in Keys /\ RemoveProc(turn.key, ps)
  BY DEF stopActive, TurnType, TurnRecords
<1> HIDE DEF ps
<1>3. upsets' >= upsets
  BY Numbers DEF stopActive, bounds, CountersType
<1> QED BY <1>1, <1>2, <1>3, RemoveFades DEF Fades, stopActive, settings, bounds

LEMMA DeathsFade ==
  ASSUME IInv, NEW p \in Procs, Dies(p) \/ DoneClosed(p)
  PROVE  Fades
<1> USE DEF IInv, TypeInv
<1>1. proc \in [Procs -> ProcRecords] /\ turn \in TurnRecords /\ upsets \in Nat
  BY Numbers DEF ProcType, TurnType, CountersType
<1>2. \E c \in BOOLEAN : turn' = [turn EXCEPT !.cancelled = c] /\ (turn = Idle => turn' = turn)
  <2>1. turn' = turn
    BY DEF Dies, DoneClosed, procUnchanged
  <2>2. turn' = [turn EXCEPT !.cancelled = turn.cancelled] /\ turn.cancelled \in BOOLEAN
    BY <1>1, <2>1 DEF TurnRecords
  <2> QED BY <2>1, <2>2
<1>3. upsets' >= upsets
  BY <1>1 DEF Dies, DoneClosed, Upset
<1>4. \A q \in Procs : q # p => proc'[q] = proc[q]
  BY <1>1 DEF Dies, DoneClosed
<1>5. Ended(p) \/ Emptied(p)
  <2>1. CASE Dies(p)
    BY <1>1, <2>1, DyingIs DEF Dies, Ended
  <2>2. CASE DoneClosed(p) /\ turn.proc = p
    BY <1>1, <2>2 DEF DoneClosed, Ended
  <2>3. CASE DoneClosed(p) /\ turn.proc # p
    <3>1. proc'[p] = Gone(AnyKey)
      BY <1>1, <2>3 DEF DoneClosed
    <3> QED BY <2>3, <3>1, GoneIs, Numbers DEF Emptied, P
  <2> QED BY <2>1, <2>2, <2>3
<1> QED BY <1>2, <1>3, <1>4, <1>5 DEF Fades, Dies, DoneClosed, procUnchanged, settings

-----------------------------------------------------------------------------
(* The end of a turn. *)

\* The process that a turn leaves behind, ps, if it is kept: idle, for the project
\* of its user and with the plugins that its user's turns left.
LeftBehind(ps, removes) ==
  /\ \A p \in Procs : p # P => ps[p] = proc[p]
  /\ HasProc /\ ps[P].life = "up" =>
       turn.pc # "init" /\ proc[P].life = "up" /\ ps[P].key = turn.key /\ ps[P].inited
  /\ HasProc => (ps[P].inited \/ ps[P].stdout = <<>>)
  /\ HasProc /\ turn.pc # "init" /\ ~removes /\ ~turn.retry =>
       /\ ps[P].key = turn.key /\ ps[P].project = project[turn.key] /\ ~ps[P].retry
       /\ ps[P].plugins >= changed[turn.key].plugins
       /\ ps[P].stdin = <<>> /\ ps[P].stdout = <<>> /\ ~ps[P].initSent

Ends(ps, removes) ==
  /\ EndTurn(ps, removes) /\ LeftBehind(ps, removes) /\ turn.pc # "idle"
  /\ UNCHANGED <<plugins, msgs, upsets, changed>>

\* Every process that is still tracked or up is as ps has it; the user's own is not
\* tracked any more if it was to be removed.
LEMMA EndsShape ==
  ASSUME IInv, NEW ps \in [Procs -> ProcRecords], NEW removes \in BOOLEAN, Ends(ps, removes)
  PROVE  /\ turn' = Idle /\ turn'.pc = "idle" /\ turn'.proc = NoProc /\ project' = project
         /\ \A k \in Keys : tracked'[k] \in {tracked[k], NoProc}
         /\ \A k \in Keys : tracked'[k] # NoProc =>
              /\ tracked'[k] = tracked[k] /\ tracked[k] \in Procs
              /\ proc'[tracked[k]] = ps[tracked[k]]
              /\ k = turn.key => ~removes /\ ~turn.retry
         /\ \A p \in Procs : proc'[p].life = "up" =>
              /\ proc'[p] = ps[p] /\ \A k \in Keys : tracked[k] = p => tracked'[k] = p
         /\ \A p \in Procs : ps[p].inited \/ ps[p].stdout = <<>>
                              => proc'[p].inited \/ proc'[p].stdout = <<>>
<1> DEFINE removed == removes \/ turn.retry
           key == turn.key
           ts == Tidy(ps)
<1>1. turn' = Idle /\ project' = project /\ turn'.pc = "idle" /\ turn'.proc = NoProc
  BY IdleIs DEF Ends, EndTurn
<1>2. IF removed THEN RemoveProc(key, ts) ELSE Keep(ts)
  BY DEF Ends, EndTurn
<1>3. /\ ProcType /\ key \in Keys /\ ts \in [Procs -> ProcRecords]
      /\ \A p \in Procs : ps[p] \in ProcRecords
  BY TidyTyped DEF IInv, TypeInv, TurnType, TurnRecords
<1>4. \A p \in Procs :
        /\ (\E k \in Keys : tracked[k] = p) => ts[p] = ps[p]
        /\ ts[p].life = "up" => ts[p] = ps[p]
        /\ ts[p] = ps[p] \/ ts[p].stdout = <<>>
  <2>1. ASSUME NEW p \in Procs
        PROVE  ts[p] = ps[p] \/
               (/\ ts[p] = Killed(ps[p]) /\ ps[p].life # "up" /\ \A k \in Keys : tracked[k] # p)
    BY DEF Tidy
  <2> QED BY <1>3, <2>1, KilledIs
<1> HIDE DEF ts, removed, key
<1>5. CASE ~removed
  <2>1. proc' = ts /\ tracked' = tracked
    BY <1>2, <1>5 DEF Keep
  <2> QED BY <1>1, <1>3, <1>4, <1>5, <2>1 DEF removed, key, ProcType
<1>6. CASE removed
  <2>1. /\ tracked'[key] = NoProc /\ \A k \in Keys : k # key => tracked'[k] = tracked[k]
        /\ \A p \in Procs : p # tracked[key] => proc'[p] = ts[p]
        /\ tracked[key] # NoProc /\ tracked[key] = P => proc'[tracked[key]] = Dying(ts[tracked[key]])
        /\ tracked[key] # NoProc /\ tracked[key] # P => proc'[tracked[key]] = Killed(ts[tracked[key]])
    BY <1>2, <1>3, <1>6, RemoveShape
  <2>2. tracked[key] # NoProc => tracked[key] \in Procs /\ ts[tracked[key]] = ps[tracked[key]]
    BY <1>3, <1>4 DEF ProcType
  <2>3. tracked[key] # NoProc =>
          /\ proc'[tracked[key]].life # "up"
          /\ ps[tracked[key]].inited \/ ps[tracked[key]].stdout = <<>>
               => proc'[tracked[key]].inited \/ proc'[tracked[key]].stdout = <<>>
    <3>1. ASSUME NEW r \in ProcRecords
          PROVE  Dying(r).stdout = r.stdout /\ Dying(r).inited = r.inited
      BY DEF Dying, ProcRecords
    <3> QED BY <1>3, <2>1, <2>2, <3>1, DyingIs, KilledIs
  <2>4. \A k \in Keys : tracked'[k] # NoProc =>
          /\ k # key /\ tracked'[k] = tracked[k] /\ tracked[k] \in Procs /\ tracked[k] # tracked[key]
    BY <1>3, <2>1 DEF IInv, TrackedOnce, ProcType
  <2>5. \A p \in Procs : p # tracked[key] \/ tracked[key] # NoProc
    BY Numbers
  <2>6. \A p \in Procs : ps[p].inited \/ ps[p].stdout = <<>>
                        => proc'[p].inited \/ proc'[p].stdout = <<>>
    BY <1>4, <2>1, <2>3, <2>5
  <2>7. \A p \in Procs : proc'[p].life = "up" =>
          /\ proc'[p] = ps[p] /\ \A k \in Keys : tracked[k] = p => tracked'[k] = p
    BY <1>4, <2>1, <2>3, <2>5
  <2>8. \A k \in Keys : tracked'[k] # NoProc =>
          /\ tracked'[k] = tracked[k] /\ tracked[k] \in Procs
          /\ proc'[tracked[k]] = ps[tracked[k]] /\ k # turn.key
    BY <1>4, <2>1, <2>4 DEF key
  <2>9. \A k \in Keys : tracked'[k] \in {tracked[k], NoProc}
    BY <2>1
  <2> QED BY <1>1, <2>6, <2>7, <2>8, <2>9
<1> QED BY <1>5, <1>6

LEMMA EndsKeep ==
  ASSUME IInv, TypeInv', NEW ps \in [Procs -> ProcRecords], NEW removes \in BOOLEAN,
         Ends(ps, removes)
  PROVE  IInv'
<1> USE DEF IInv
<1>1. /\ turn' = Idle /\ turn'.pc = "idle" /\ turn'.proc = NoProc /\ project' = project
      /\ ~HasProc' /\ UNCHANGED <<plugins, msgs, upsets, changed>>
  BY EndsShape DEF HasProc, Ends
<1>2. /\ \A k \in Keys : tracked'[k] # NoProc =>
           /\ tracked'[k] = tracked[k] /\ tracked[k] \in Procs
           /\ proc'[tracked[k]] = ps[tracked[k]]
           /\ k = turn.key => ~removes /\ ~turn.retry
      /\ \A p \in Procs : proc'[p].life = "up" =>
           /\ proc'[p] = ps[p] /\ \A k \in Keys : tracked[k] = p => tracked'[k] = p
      /\ \A p \in Procs : ps[p].inited \/ ps[p].stdout = <<>>
                            => proc'[p].inited \/ proc'[p].stdout = <<>>
  BY EndsShape
<1>3. LeftBehind(ps, removes) /\ turn.pc # "idle" /\ turn.key \in Keys
  BY DEF Ends, TypeInv, TurnType, TurnRecords
<1>4. /\ turn.pc # "get" => HasProc /\ P \in Procs /\ proc[P].key = turn.key
      /\ turn.pc = "get" => P = NoProc
      /\ \A k \in Keys : HasProc /\ tracked[k] = P => k = turn.key
  BY <1>3 DEF TurnHasProc, HasProc, P, TypeInv, TurnType, TurnRecords
\* A process that is still tracked is idle and as its user has it now.
<1>5. ASSUME NEW k \in Keys, tracked'[k] # NoProc
      PROVE  LET p == tracked'[k] IN
               /\ proc'[p].stdin = <<>> /\ proc'[p].stdout = <<>> /\ ~proc'[p].initSent
               /\ proc'[p].life # "gone" =>
                    /\ proc'[p].key = k /\ proc'[p].project = project[k]
                    /\ ~proc'[p].retry /\ proc'[p].plugins >= changed[k].plugins
  <2>1. tracked'[k] = tracked[k] /\ tracked[k] \in Procs /\ proc'[tracked[k]] = ps[tracked[k]]
    BY <1>2, <1>5
  <2>2. CASE tracked[k] = P
    <3>1. HasProc /\ turn.pc # "init" /\ k = turn.key
      BY <1>4, <2>1, <2>2, Numbers DEF TrackedOnce, P
    <3> QED BY <1>2, <1>3, <1>5, <2>1, <2>2, <3>1 DEF LeftBehind
  <2>3. CASE tracked[k] # P
    <3>1. ps[tracked[k]] = proc[tracked[k]]
      BY <1>3, <2>1, <2>3 DEF LeftBehind
    <3>2. Quiet(tracked[k]) /\ ~proc[tracked[k]].initSent
      BY <1>5, <2>1, <2>3 DEF PipesOwned, P
    <3>3. proc[tracked[k]].life # "gone" =>
            /\ proc[tracked[k]].key = k /\ proc[tracked[k]].project = project[k]
            /\ ~proc[tracked[k]].retry /\ proc[tracked[k]].plugins >= changed[k].plugins
      BY <1>5, <2>1, <2>3 DEF TrackedOnce, ConfigCurrent, P
    <3> QED BY <2>1, <3>1, <3>2, <3>3 DEF Quiet
  <2> QED BY <2>2, <2>3
<1>6. TrackedOnce'
  <2>1. \A j, k \in Keys : tracked'[j] = tracked'[k] /\ tracked'[j] # NoProc => j = k
    BY <1>2 DEF TrackedOnce
  <2> QED BY <1>1, <1>5, <2>1 DEF TrackedOnce
<1>7. TurnHasProc'
  BY <1>1 DEF TurnHasProc
\* What is up was up, and is tracked.
<1>8. ASSUME NEW p \in Procs, proc'[p].life = "up"
      PROVE  proc'[p].inited /\ tracked'[proc'[p].key] = p
  <2>1. /\ proc'[p] = ps[p] /\ \A k \in Keys : tracked[k] = p => tracked'[k] = p
    BY <1>2, <1>8
  <2>2. /\ proc[p].life = "up" /\ ps[p].key = proc[p].key /\ ~(turn.pc = "init" /\ P = p)
        /\ ps[p].inited
    <3>1. CASE p = P
      BY <1>3, <1>4, <1>8, <2>1, <3>1, Numbers DEF LeftBehind
    <3>2. CASE p # P
      BY <1>3, <1>8, <2>1, <3>2 DEF LeftBehind, PipesOwned, P
    <3> QED BY <3>1, <3>2
  <2>3. tracked[proc[p].key] = p /\ proc[p].key \in Keys
    BY <2>2 DEF NoOrphans, TypeInv, ProcType, ProcRecords
  <2> QED BY <2>1, <2>2, <2>3
<1>9. NoOrphans'
  BY <1>8 DEF NoOrphans
<1>10. PipesOwned'
  <2>1. ASSUME NEW p \in Procs, ~proc'[p].inited PROVE proc'[p].stdout = <<>>
    <3>1. ps[p].inited \/ ps[p].stdout = <<>>
      <4>1. CASE p = P
        BY <1>3, <1>4, <4>1, Numbers DEF LeftBehind
      <4>2. CASE p # P
        BY <1>3, <4>2 DEF LeftBehind, PipesOwned
      <4> QED BY <4>1, <4>2
    <3> QED BY <1>2, <2>1, <3>1
  <2> QED BY <1>1, <1>5, <1>8, <2>1 DEF PipesOwned, Quiet
<1>11. ConfigCurrent'
  BY <1>1, <1>5 DEF ConfigCurrent
<1>12. ChangesKnown'
  BY <1>1 DEF ChangesKnown
<1> QED BY <1>6, <1>7, <1>9, <1>10, <1>11, <1>12

\* The result is the last thing in the pipes of the process that prints it.
LEMMA ResultIsLast ==
  ASSUME IInv, Reading({"result"})
  PROVE  proc[P].stdin = <<>> /\ Tail(proc[P].stdout) = <<>>
<1>1. HasProc /\ proc[P].stdout # <<>> /\ Head(proc[P].stdout).kind = "result"
  BY DEF Reading, HasProc
<1>2. proc[P].stdout \in Seq(Events) /\ Serves(P, turn.msg)
  BY <1>1, TurnProc DEF IInv, PipesOwned, ProcRecords
<1> DEFINE q == proc[P].stdout
<1>3. 1 \in DOMAIN q /\ q[1].kind = "result"
  BY <1>1, <1>2
<1>4. Len(q) = 1 /\ proc[P].stdin = <<>>
  BY <1>2, <1>3 DEF Serves
<1>5. ASSUME NEW r \in Seq(Events), Len(r) = 1 PROVE Tail(r) = <<>>
  <2>1. Tail(r) \in Seq(Events) /\ Len(Tail(r)) = 0
    BY <1>5, SMTT(30)
  <2> QED BY <2>1, EmptySeq
<1> QED BY <1>2, <1>4, <1>5

LEMMA EndingsEnd ==
  ASSUME IInv, SpawnFails \/ InitFails \/ SendFails \/ ReadResult
  PROVE  \E ps \in [Procs -> ProcRecords], removes \in BOOLEAN : Ends(ps, removes)
<1> USE DEF IInv, TypeInv
<1>1. proc \in [Procs -> ProcRecords] /\ reload \in BOOLEAN
  BY DEF ProcType, CountersType
<1>2. HasProc => /\ P \in Procs /\ proc[P] \in ProcRecords /\ proc[P].key = turn.key
                 /\ turn.key \in Keys /\ turn.msg \in Msgs
  BY TurnProc DEF TurnHasProc, P
<1>3. \A p \in Procs : proc[p].life = "up" /\ ~proc[p].inited => turn.pc = "init" /\ P = p
  BY DEF PipesOwned
<1>4. \A p \in Procs : ~proc[p].inited => proc[p].stdout = <<>>
  BY DEF PipesOwned
<1>5. CASE SpawnFails
  <2>1. turn.pc = "get" /\ EndTurn(proc, TRUE) /\ ~HasProc
    BY <1>5 DEF SpawnFails, HasProc
  <2> QED BY <1>1, <1>5, <2>1 DEF Ends, LeftBehind, SpawnFails, bounds
<1>6. CASE SendFails
  <2>1. turn.pc \in {"send", "reading"} /\ EndTurn(proc, TRUE)
    BY <1>6 DEF SendFails, SendBroken
  <2>2. LeftBehind(proc, TRUE)
    BY <1>2, <1>3, <1>4, <2>1 DEF LeftBehind, HasProc
  <2> QED BY <1>1, <1>6, <2>1, <2>2 DEF Ends, SendFails, bounds
<1>7. CASE InitFails
  <2> DEFINE ps == [proc EXCEPT ![P] = Killed(@)]
  <2>1. turn.pc = "init" /\ EndTurn(ps, FALSE) /\ HasProc
    BY <1>7 DEF InitFails, HasProc
  <2>2. ps \in [Procs -> ProcRecords] /\ ps[P] = Killed(proc[P])
    BY <1>1, <1>2, <2>1, KilledIs
  <2>3. LeftBehind(ps, FALSE)
    BY <1>1, <1>2, <2>1, <2>2, KilledIs DEF LeftBehind
  <2> QED BY <1>7, <2>1, <2>2, <2>3 DEF Ends, InitFails, bounds
<1>8. CASE ReadResult
  <2> DEFINE ps == [proc EXCEPT ![P].stdout = Tail(@)]
  <2>1. turn.pc = "reading" /\ EndTurn(ps, reload) /\ HasProc /\ Reading({"result"})
    BY <1>8 DEF ReadResult, Reading, HasProc
  <2>2. ps \in [Procs -> ProcRecords] /\ ps[P] = [proc[P] EXCEPT !.stdout = Tail(@)]
    BY <1>1, <1>2, <2>1, AfterRead DEF Reading
  <2>3. /\ ps[P].life = proc[P].life /\ ps[P].key = proc[P].key /\ ps[P].inited = proc[P].inited
        /\ ps[P].project = proc[P].project /\ ps[P].retry = proc[P].retry
        /\ ps[P].plugins = proc[P].plugins /\ ps[P].initSent = proc[P].initSent
        /\ ps[P].stdin = <<>> /\ ps[P].stdout = <<>>
    <3>1. Tail(proc[P].stdout) = <<>> /\ proc[P].stdin = <<>>
      BY <2>1, ResultIsLast
    <3> QED BY <1>2, <2>1, <2>2, <3>1 DEF ProcRecords
  \* A change of the plugins by this very turn has left the file.
  <2>4. ~reload => proc[P].plugins >= changed[turn.key].plugins
    <3>1. ASSUME ~reload PROVE changed[turn.key].msg < turn.msg
      <4>1. changed[turn.key].msg <= msgs /\ turn.msg = msgs /\ changed[turn.key].msg # turn.msg
        BY <1>2, <2>1, <3>1 DEF ChangesKnown, TurnHasProc
      <4>2. changed[turn.key].msg \in Nat /\ msgs \in Nat
        BY <1>2, <2>1, Numbers DEF CountersType
      <4> QED BY <4>1, <4>2
    <3> QED BY <2>1, <3>1 DEF ConfigCurrent
  <2>5. /\ proc[P].project = project[turn.key] /\ proc[P].retry = turn.retry
        /\ ~proc[P].initSent
    BY <2>1 DEF ConfigCurrent, PipesOwned
  <2>6. \A p \in Procs : p # P => ps[p] = proc[p]
    OBVIOUS
  <2> HIDE DEF ps
  <2>7. LeftBehind(ps, reload)
    BY <1>2, <1>3, <2>1, <2>3, <2>4, <2>5, <2>6 DEF LeftBehind
  <2> QED BY <1>1, <1>8, <2>1, <2>2, <2>7 DEF Ends, ReadResult, bounds
<1> QED BY <1>5, <1>6, <1>7, <1>8

-----------------------------------------------------------------------------
(* The beginning of a turn. *)

LEMMA BeginShape ==
  ASSUME IInv, NEW k \in Keys, NEW retry \in BOOLEAN, NEW restore \in Efforts,
         Begin(k, retry, restore)
  PROVE  /\ turn = Idle /\ turn'.pc = "get" /\ turn'.key = k /\ turn'.msg = msgs + 1
         /\ turn'.proc = NoProc /\ turn'.retry = retry /\ ~HasProc'
         /\ msgs' = msgs + 1 /\ ~reload' /\ UNCHANGED <<project, plugins, upsets, changed>>
         /\ \A j \in Keys : tracked'[j] # NoProc =>
              /\ tracked'[j] = tracked[j] /\ tracked[j] \in Procs
              /\ proc'[tracked[j]] = proc[tracked[j]]
         /\ retry => tracked'[k] = NoProc
         /\ \A p \in Procs :
              /\ proc'[p].life = "up" =>
                   proc'[p] = proc[p] /\ \A j \in Keys : tracked[j] = p => tracked'[j] = p
              /\ proc'[p] = proc[p] \/ proc'[p].stdout = <<>>
<1> USE DEF IInv, TypeInv
<1>1. /\ turn'.pc = "get" /\ turn'.key = k /\ turn'.msg = msgs + 1
      /\ turn'.proc = NoProc /\ turn'.retry = retry
  BY DEF Begin, Idle
<1>2. turn = Idle /\ P = NoProc /\ (reload \/ retry => RemoveProc(k, proc))
      /\ (~reload /\ ~retry => proc' = proc /\ tracked' = tracked)
  BY IdleIs DEF Begin, Keep, P
<1>3. CASE RemoveProc(k, proc)
  <2>1. /\ tracked'[k] = NoProc /\ \A j \in Keys : j # k => tracked'[j] = tracked[j]
        /\ \A p \in Procs : p # tracked[k] => proc'[p] = proc[p]
        /\ tracked[k] # NoProc /\ tracked[k] # P => proc'[tracked[k]] = Killed(proc[tracked[k]])
    BY <1>3, RemoveShape DEF ProcType
  <2>2. ASSUME tracked[k] # NoProc
        PROVE  proc'[tracked[k]].life # "up" /\ proc'[tracked[k]].stdout = <<>>
    BY <1>2, <2>1, <2>2, KilledIs DEF ProcType
  <2>3. \A j \in Keys : tracked'[j] # NoProc =>
          tracked'[j] = tracked[j] /\ tracked[j] \in Procs /\ tracked[j] # tracked[k]
    BY <2>1 DEF ProcType, TrackedOnce
  <2>4. \A p \in Procs : p # NoProc
    BY Numbers
  <2> QED BY <1>1, <1>2, <2>1, <2>2, <2>3, <2>4 DEF Begin, HasProc
<1>4. CASE ~reload /\ ~retry
  BY <1>1, <1>2, <1>4 DEF Begin, HasProc, ProcType
<1> QED BY <1>2, <1>3, <1>4

LEMMA BeginKeeps ==
  ASSUME IInv, TypeInv', NEW k \in Keys, NEW retry \in BOOLEAN, NEW restore \in Efforts,
         Begin(k, retry, restore)
  PROVE  IInv'
<1> USE DEF IInv
<1>1. /\ turn = Idle /\ turn'.pc = "get" /\ turn'.key = k /\ turn'.msg = msgs + 1
      /\ turn'.proc = NoProc /\ turn'.retry = retry /\ ~HasProc'
      /\ msgs' = msgs + 1 /\ ~reload' /\ UNCHANGED <<project, plugins, upsets, changed>>
      /\ turn.pc = "idle" /\ turn.proc = NoProc
  BY BeginShape, IdleIs
<1>2. /\ \A j \in Keys : tracked'[j] # NoProc =>
           /\ tracked'[j] = tracked[j] /\ tracked[j] \in Procs
           /\ proc'[tracked[j]] = proc[tracked[j]]
      /\ retry => tracked'[k] = NoProc
      /\ \A p \in Procs :
           /\ proc'[p].life = "up" =>
                proc'[p] = proc[p] /\ \A j \in Keys : tracked[j] = p => tracked'[j] = p
           /\ proc'[p] = proc[p] \/ proc'[p].stdout = <<>>
  BY BeginShape
<1>3. TrackedOnce'
  BY <1>1, <1>2 DEF TrackedOnce
<1>4. TurnHasProc'
  BY <1>1 DEF TurnHasProc
<1>5. NoOrphans'
  <2>1. \A p \in Procs : proc[p].key \in Keys
    BY DEF TypeInv, ProcType, ProcRecords
  <2> QED BY <1>1, <1>2, <2>1 DEF NoOrphans
<1>6. PipesOwned'
  <2>1. \A j \in Keys : tracked'[j] # NoProc =>
          /\ proc'[tracked'[j]].stdin = <<>> /\ proc'[tracked'[j]].stdout = <<>>
          /\ ~proc'[tracked'[j]].initSent
    BY <1>1, <1>2 DEF PipesOwned, Quiet
  <2>2. \A p \in Procs : proc'[p].life = "up" => proc'[p].inited
    BY <1>1, <1>2 DEF PipesOwned
  <2>3. \A p \in Procs : ~proc'[p].inited => proc'[p].stdout = <<>>
    BY <1>2 DEF PipesOwned
  <2> QED BY <1>1, <2>1, <2>2, <2>3 DEF PipesOwned, Quiet
<1>7. ConfigCurrent'
  BY <1>1, <1>2, Numbers DEF ConfigCurrent, TypeInv, ProcType
<1>8. ChangesKnown'
  <2>1. msgs \in Nat /\ \A j \in Keys : changed[j].msg \in Nat
    BY CountersAre
  <2>2. \A j \in Keys : changed[j].plugins <= plugins /\ changed[j].msg <= msgs + 1
                        /\ changed[j].msg # msgs + 1
    BY <2>1 DEF ChangesKnown
  <2> QED BY <1>1, <2>2 DEF ChangesKnown
<1> QED BY <1>3, <1>4, <1>5, <1>6, <1>7, <1>8

\* The turn finds the process of its user: it is idle, and all the turn needs.
LEMMA GetKeeps ==
  ASSUME IInv, TypeInv', GetExisting
  PROVE  IInv'
<1> USE DEF IInv
<1>0. PICK p \in Procs : p = tracked[turn.key] /\ p # NoProc /\ proc[p].life # "gone"
  BY DEF GetExisting, Alive, TypeInv, TurnType, TurnRecords, ProcType
<1>1. /\ turn.key \in Keys /\ p = tracked[turn.key] /\ p # NoProc /\ proc[p].life # "gone"
      /\ turn.pc = "get"
  BY <1>0 DEF GetExisting, Alive, TypeInv, TurnType, TurnRecords, ProcType
<1>2. /\ turn'.pc = "send" /\ turn'.proc = p /\ turn'.key = turn.key /\ turn'.msg = turn.msg
      /\ turn'.retry = turn.retry /\ turn # Idle /\ turn.proc = NoProc
      /\ UNCHANGED <<settings, plugins, reload, tracked, proc, bounds>>
  BY <1>1, IdleIs DEF GetExisting, TypeInv, TurnType, TurnRecords, TurnHasProc
<1>3. Quiet(p) /\ ~proc[p].initSent
  BY <1>1, <1>2 DEF PipesOwned
<1>4. p = tracked[turn.key]
  BY <1>1
<1>5. TrackedOnce'
  BY <1>2 DEF TrackedOnce
<1>6. TurnHasProc'
  BY <1>1, <1>2, <1>4 DEF TurnHasProc, TrackedOnce, HasProc, bounds
<1>7. NoOrphans'
  BY <1>1, <1>2 DEF NoOrphans
<1>8. PipesOwned'
  <2>1. Serves(p, turn.msg)'
    BY <1>2, <1>3 DEF Serves, Quiet
  <2>2. turn'.pc # "init" /\ P' = p
    BY <1>2 DEF P
  <2>3. \A k \in Keys : tracked'[k] # NoProc =>
          /\ proc'[tracked'[k]].stdin = <<>> /\ proc'[tracked'[k]].stdout = <<>>
          /\ ~proc'[tracked'[k]].initSent
    BY <1>2 DEF PipesOwned, Quiet
  <2>4. \A q \in Procs : (~proc'[q].inited => proc'[q].stdout = <<>>)
                      /\ (proc'[q].life = "up" => proc'[q].inited)
    BY <1>1, <1>2 DEF PipesOwned
  <2>5. Quiet(p)' /\ turn'.pc # "reading"
    BY <1>2, <1>3 DEF Quiet
  <2> QED BY <1>2, <2>1, <2>2, <2>3, <2>4, <2>5 DEF PipesOwned, Quiet, Serves
<1>9. ConfigCurrent'
  <2>1. ~turn.retry /\ ~proc[p].retry /\ proc[p].plugins >= changed[turn.key].plugins
        /\ proc[p].project = project[turn.key]
    BY <1>1, <1>2, <1>4 DEF ConfigCurrent
  <2>2. P' = p /\ turn.retry = proc[p].retry
    <3>1. turn.retry \in BOOLEAN /\ proc[p].retry \in BOOLEAN
      BY <1>1 DEF TypeInv, TurnType, TurnRecords, ProcType, ProcRecords
    <3> QED BY <1>2, <2>1, <3>1 DEF P
  <2> QED BY <1>1, <1>2, <2>1, <2>2 DEF ConfigCurrent, HasProc, settings, bounds
<1>10. ChangesKnown'
  BY <1>1, <1>2 DEF ChangesKnown, bounds
<1> QED BY <1>5, <1>6, <1>7, <1>8, <1>9, <1>10

\* A process starts for the turn: with the message in its pipe, and for its settings.
LEMMA SpawnKeeps ==
  ASSUME IInv, TypeInv', SpawnStarts
  PROVE  IInv'
<1> USE DEF IInv
<1>1. PICK p \in Procs :
        /\ Unused(p) /\ ~Alive(tracked[turn.key])
        /\ turn' = [turn EXCEPT !.pc = "init", !.proc = p]
        /\ proc' = [proc EXCEPT ![p] = Spawned(p)]
        /\ Spawned(p) \in ProcRecords
  BY SpawnShape
<1>2. /\ turn'.pc = "init" /\ turn'.proc = p /\ turn'.key = turn.key /\ turn'.msg = turn.msg
      /\ turn'.retry = turn.retry /\ turn.pc = "get" /\ turn.proc = NoProc
      /\ tracked' = [tracked EXCEPT ![turn.key] = NoProc]
      /\ UNCHANGED <<settings, plugins, reload, bounds>>
  BY <1>1 DEF SpawnStarts, TypeInv, TurnType, TurnRecords, TurnHasProc
<1>3. /\ proc'[p] = Spawned(p) /\ \A q \in Procs : q # p => proc'[q] = proc[q]
      /\ turn.key \in Keys /\ p # NoProc /\ \A k \in Keys : tracked[k] # p
      /\ \A k \in Keys : tracked'[k] = IF k = turn.key THEN NoProc ELSE tracked[k]
  BY <1>1, <1>2, Numbers DEF Unused, TypeInv, ProcType, TurnType, TurnRecords
<1>4. /\ Spawned(p).life = "up" /\ Spawned(p).key = turn.key /\ Spawned(p).owner = turn.msg
      /\ Spawned(p).retry = turn.retry /\ Spawned(p).effort = effort[turn.key]
      /\ Spawned(p).project = project[turn.key] /\ Spawned(p).plugins = plugins
      /\ Spawned(p).stdin = <<turn.msg>> /\ Spawned(p).stdout = <<>>
      /\ ~Spawned(p).initSent /\ ~Spawned(p).inited
  BY DEF Spawned, Gone
<1>5. \A k \in Keys : tracked'[k] # NoProc =>
        /\ k # turn.key /\ tracked'[k] = tracked[k] /\ tracked[k] \in Procs /\ tracked[k] # p
        /\ proc'[tracked[k]] = proc[tracked[k]]
  BY <1>3 DEF TypeInv, ProcType
<1>6. TrackedOnce'
  BY <1>2, <1>3, <1>5 DEF TrackedOnce
<1>7. TurnHasProc'
  BY <1>2, <1>3, <1>4, <1>5 DEF TurnHasProc, HasProc, bounds
<1>8. NoOrphans'
  <2> SUFFICES ASSUME NEW q \in Procs, q # p, proc'[q].life = "up" PROVE tracked'[proc'[q].key] = q
    BY <1>2 DEF NoOrphans, P
  <2>1. proc'[q] = proc[q] /\ proc[q].key \in Keys /\ q # NoProc
    BY <1>3, Numbers DEF TypeInv, ProcType, ProcRecords
  <2>2. tracked[proc[q].key] = q
    BY <1>2, <2>1 DEF NoOrphans
  <2>3. proc[q].key # turn.key
    BY <1>1, <2>1, <2>2 DEF Alive
  <2> QED BY <1>3, <2>1, <2>2, <2>3
<1>9. PipesOwned'
  <2>1. \A k \in Keys : tracked'[k] # NoProc =>
          /\ proc'[tracked'[k]].stdin = <<>> /\ proc'[tracked'[k]].stdout = <<>>
          /\ ~proc'[tracked'[k]].initSent
    BY <1>2, <1>5 DEF PipesOwned, Quiet
  <2>2. Serves(p, turn.msg)'
    BY <1>2, <1>3, <1>4 DEF Serves
  <2>3. \A q \in Procs : (~proc'[q].inited => proc'[q].stdout = <<>>)
                      /\ (proc'[q].life = "up" /\ ~proc'[q].inited => q = p)
    BY <1>2, <1>3, <1>4 DEF PipesOwned
  <2>4. P' = p
    BY <1>2 DEF P
  <2> QED BY <1>2, <1>3, <1>4, <2>1, <2>2, <2>3, <2>4 DEF PipesOwned, Quiet, Serves
<1>10. ChangesKnown'
  BY <1>2, <1>3 DEF ChangesKnown, bounds
<1>11. ConfigCurrent'
  <2>1. P' = p /\ UNCHANGED <<project, effort, changed, plugins>>
    BY <1>2 DEF P, settings, bounds
  <2>2. plugins >= changed[turn.key].plugins
    BY <1>3, CountersAre DEF ChangesKnown
  <2>3. \A k \in Keys : tracked'[k] # NoProc /\ proc'[tracked'[k]].life # "gone" =>
          /\ proc'[tracked'[k]].project = project[k]
          /\ ~proc'[tracked'[k]].retry /\ proc'[tracked'[k]].plugins >= changed[k].plugins
    BY <1>2, <1>5 DEF ConfigCurrent
  <2> QED BY <1>2, <1>3, <1>4, <2>1, <2>2, <2>3 DEF ConfigCurrent
<1> QED BY <1>6, <1>7, <1>8, <1>9, <1>10, <1>11

-----------------------------------------------------------------------------
(* The turn and its process talk. *)

\* A process with other things in its pipes.
WithPipes(r, in, out, sent, inited) ==
  [r EXCEPT !.stdin = in, !.stdout = out, !.initSent = sent, !.inited = inited]

LEMMA WithPipesIs ==
  ASSUME NEW r \in ProcRecords, NEW in \in Seq(Msgs), NEW out \in Seq(Events),
         NEW sent \in BOOLEAN, NEW inited \in BOOLEAN
  PROVE  LET q == WithPipes(r, in, out, sent, inited) IN
           /\ q \in ProcRecords /\ q.stdin = in /\ q.stdout = out
           /\ q.initSent = sent /\ q.inited = inited /\ q.life = r.life
BY DEF WithPipes, ProcRecords

\* The process of the turn becomes r, and the turn goes to place.
Talks(r, place) ==
  /\ HasProc /\ proc' = [proc EXCEPT ![P] = r] /\ turn' = [turn EXCEPT !.pc = place]
  /\ \/ place = turn.pc /\ tracked' = tracked
     \/ turn.pc = "init" /\ place = "send" /\ tracked' = [tracked EXCEPT ![turn.key] = P]
     \/ turn.pc = "send" /\ place = "reading" /\ tracked' = tracked
  /\ \E in \in Seq(Msgs), out \in Seq(Events), sent, inited \in BOOLEAN :
       r = WithPipes(proc[P], in, out, sent, inited)
  /\ UNCHANGED <<settings, plugins, reload, bounds>>

\* What its pipes then hold.
PipesServe(r, place) ==
  /\ r.stdin \in {<<>>, <<turn.msg>>}
  /\ \A i \in DOMAIN r.stdout :
       /\ r.stdout[i].msg = turn.msg
       /\ r.stdout[i].kind = "result" => i = Len(r.stdout) /\ r.stdin = <<>>
  /\ place = "send" /\ ~r.initSent => r.stdin = <<>> /\ r.stdout = <<>>
  /\ place = "reading" => ~r.initSent
  /\ ~r.inited => r.stdout = <<>> /\ (r.life = "up" => place = "init")

LEMMA TalksShape ==
  ASSUME IInv, NEW r \in ProcRecords, NEW place \in {"init", "send", "reading"}, Talks(r, place)
  PROVE  /\ turn'.pc = place /\ turn'.key = turn.key /\ turn'.msg = turn.msg /\ turn'.proc = P
         /\ turn'.retry = turn.retry /\ HasProc /\ HasProc' /\ P \in Procs /\ P # NoProc
         /\ turn.key \in Keys /\ proc[P].key = turn.key
         /\ proc'[P] = r /\ \A q \in Procs : q # P => proc'[q] = proc[q]
         /\ r.life = proc[P].life /\ r.key = proc[P].key /\ r.owner = proc[P].owner
         /\ r.effort = proc[P].effort /\ r.project = proc[P].project
         /\ r.plugins = proc[P].plugins /\ r.retry = proc[P].retry
         /\ \A k \in Keys : tracked'[k] = tracked[k] \/ (k = turn.key /\ tracked'[k] = P)
         /\ place = "init" => turn.pc = "init" /\ tracked' = tracked
         /\ turn.pc = "init" /\ place # "init" => tracked'[turn.key] = P
<1> USE DEF IInv
<1>1. HasProc /\ P \in Procs /\ P # NoProc /\ turn.key \in Keys /\ proc[P] \in ProcRecords
  BY TurnProc DEF Talks
<1>2. proc[P].key = turn.key
  BY <1>1 DEF TurnHasProc, P
<1>3. /\ turn'.pc = place /\ turn'.key = turn.key /\ turn'.msg = turn.msg /\ turn'.proc = P
      /\ turn'.retry = turn.retry /\ HasProc'
  BY DEF Talks, TypeInv, TurnType, TurnRecords, P, HasProc
<1>4. proc'[P] = r /\ \A q \in Procs : q # P => proc'[q] = proc[q]
  BY <1>1 DEF Talks, TypeInv, ProcType
<1>5. /\ r.life = proc[P].life /\ r.key = proc[P].key /\ r.owner = proc[P].owner
      /\ r.effort = proc[P].effort /\ r.project = proc[P].project
      /\ r.plugins = proc[P].plugins /\ r.retry = proc[P].retry
  BY <1>1 DEF Talks, ProcRecords, WithPipes
<1>6. /\ \A k \in Keys : tracked'[k] = tracked[k] \/ (k = turn.key /\ tracked'[k] = P)
      /\ place = "init" => turn.pc = "init" /\ tracked' = tracked
      /\ turn.pc = "init" /\ place # "init" => tracked'[turn.key] = P
  BY <1>1 DEF Talks, TypeInv, ProcType
<1> QED BY <1>1, <1>2, <1>3, <1>4, <1>5, <1>6

LEMMA TalksKeep ==
  ASSUME IInv, TypeInv', NEW r \in ProcRecords, NEW place \in {"init", "send", "reading"},
         Talks(r, place), PipesServe(r, place)
  PROVE  IInv'
<1> USE DEF IInv
<1>1. /\ turn'.pc = place /\ turn'.key = turn.key /\ turn'.msg = turn.msg /\ turn'.proc = P
      /\ turn'.retry = turn.retry /\ HasProc /\ HasProc' /\ P \in Procs /\ P # NoProc
      /\ turn.key \in Keys /\ proc[P].key = turn.key
      /\ proc'[P] = r /\ \A q \in Procs : q # P => proc'[q] = proc[q]
      /\ r.life = proc[P].life /\ r.key = proc[P].key /\ r.owner = proc[P].owner
      /\ r.effort = proc[P].effort /\ r.project = proc[P].project
      /\ r.plugins = proc[P].plugins /\ r.retry = proc[P].retry
      /\ \A k \in Keys : tracked'[k] = tracked[k] \/ (k = turn.key /\ tracked'[k] = P)
      /\ place = "init" => turn.pc = "init" /\ tracked' = tracked
      /\ turn.pc = "init" /\ place # "init" => tracked'[turn.key] = P
  BY TalksShape
<1>2. P' = P /\ UNCHANGED <<settings, plugins, reload, bounds>>
  BY <1>1 DEF P, Talks
<1>3. P = turn.proc /\ turn.pc # "idle" /\ turn.pc # "get"
  BY <1>1 DEF P, HasProc
\* Another tracked process is as it was.
<1>4. \A k \in Keys : tracked'[k] # NoProc /\ tracked'[k] # P =>
        /\ tracked'[k] = tracked[k] /\ tracked[k] \in Procs /\ proc'[tracked[k]] = proc[tracked[k]]
  BY <1>1 DEF TypeInv, ProcType
<1>5. \A k \in Keys : tracked'[k] = P => k = turn.key
  BY <1>1, <1>3 DEF TurnHasProc
<1>6. TrackedOnce'
  <2>1. \A j, k \in Keys : tracked'[j] = tracked'[k] /\ tracked'[j] # NoProc => j = k
    BY <1>4, <1>5 DEF TrackedOnce
  <2>2. \A k \in Keys : tracked'[k] # NoProc /\ proc'[tracked'[k]].life # "gone"
                          => proc'[tracked'[k]].key = k
    BY <1>1, <1>4, <1>5 DEF TrackedOnce
  <2> QED BY <1>1, <1>3, <2>1, <2>2 DEF TrackedOnce
<1>7. TurnHasProc'
  BY <1>1, <1>2, <1>3, <1>5 DEF TurnHasProc, bounds
<1>8. NoOrphans'
  <2>1. ASSUME NEW p \in Procs, proc'[p].life = "up", p # P PROVE tracked'[proc'[p].key] = p
    <3>1. proc'[p] = proc[p] /\ tracked[proc[p].key] = p /\ proc[p].key \in Keys
      BY <1>1, <2>1 DEF NoOrphans, TypeInv, ProcType, ProcRecords
    <3>2. tracked'[proc[p].key] # P \/ turn.pc = "init" \/ tracked' = tracked
      BY DEF Talks
    <3>3. tracked'[proc[p].key] # P
      <4>1. ASSUME tracked'[proc[p].key] = P, turn.pc = "init" PROVE FALSE
        <5>1. proc[p].key = turn.key /\ tracked[turn.key] = NoProc
          BY <1>5, <3>1, <4>1 DEF TrackedOnce
        <5> QED BY <3>1, <5>1, Numbers
      <4> QED BY <2>1, <3>1, <3>2, <4>1
    <3> QED BY <1>1, <3>1, <3>3
  <2>2. proc'[P].life = "up" => tracked'[proc'[P].key] = P \/ turn'.pc = "init"
    <3>1. CASE turn.pc = "init"
      BY <1>1, <3>1
    <3>2. CASE turn.pc # "init"
      <4>1. proc[P].life = "up" => tracked[turn.key] = P
        BY <1>1, <3>2 DEF NoOrphans
      <4> QED BY <1>1, <4>1
    <3> QED BY <3>1, <3>2
  <2> QED BY <1>1, <1>2, <2>1, <2>2 DEF NoOrphans
<1>9. PipesOwned'
  <2>1. \A k \in Keys : tracked'[k] # NoProc /\ tracked'[k] # P =>
          /\ proc'[tracked'[k]].stdin = <<>> /\ proc'[tracked'[k]].stdout = <<>>
          /\ ~proc'[tracked'[k]].initSent
    BY <1>3, <1>4 DEF PipesOwned, Quiet
  <2>2. Serves(P, turn.msg)'
    BY <1>1, <1>2 DEF Serves, PipesServe
  <2>3. \A q \in Procs : (~proc'[q].inited => proc'[q].stdout = <<>>)
                      /\ (proc'[q].life = "up" /\ ~proc'[q].inited => place = "init" /\ q = P)
    <3>1. ASSUME NEW q \in Procs, q # P, ~proc[q].inited
          PROVE proc[q].stdout = <<>> /\ proc[q].life # "up"
      BY <3>1 DEF PipesOwned
    <3> QED BY <1>1, <3>1 DEF PipesServe
  <2>4. place = "init" => r.owner = turn.msg
    BY <1>1 DEF PipesOwned
  <2> QED BY <1>1, <1>2, <2>1, <2>2, <2>3, <2>4 DEF PipesOwned, PipesServe, Quiet, Serves
<1>10. ConfigCurrent'
  <2>1. UNCHANGED <<project, effort, changed, plugins>>
    BY <1>2 DEF settings, bounds
  <2>2. \A k \in Keys : tracked'[k] # NoProc /\ proc'[tracked'[k]].life # "gone" =>
          proc'[tracked'[k]].project = project[k]
    BY <1>1, <1>4, <1>5 DEF ConfigCurrent
  <2>3. \A k \in Keys : tracked'[k] # NoProc /\ tracked'[k] # P /\ proc'[tracked'[k]].life # "gone" =>
          ~proc'[tracked'[k]].retry /\ proc'[tracked'[k]].plugins >= changed[k].plugins
    BY <1>3, <1>4 DEF ConfigCurrent
  <2>4. /\ r.project = project[turn.key]
        /\ changed[turn.key].msg < turn.msg => r.plugins >= changed[turn.key].plugins
        /\ r.retry = turn.retry
        /\ turn.retry => r.effort = effort[turn.key]
    BY <1>1 DEF ConfigCurrent
  <2> QED BY <1>1, <1>2, <2>1, <2>2, <2>3, <2>4 DEF ConfigCurrent
<1>11. ChangesKnown'
  BY <1>1, <1>2, <1>3 DEF ChangesKnown, bounds
<1> QED BY <1>6, <1>7, <1>8, <1>9, <1>10, <1>11

\* What the turn's process is, in the terms of those lemmas.
LEMMA TurnServes ==
  ASSUME IInv, HasProc
  PROVE  /\ P \in Procs /\ P # NoProc /\ proc[P] \in ProcRecords /\ turn.key \in Keys
         /\ turn.msg \in Msgs /\ turn \in TurnRecords
         /\ turn.pc \in {"init", "send", "reading"}
         /\ proc[P].stdin \in Seq(Msgs) /\ proc[P].stdout \in Seq(Events)
         /\ proc[P].initSent \in BOOLEAN /\ proc[P].inited \in BOOLEAN
         /\ PipesServe(proc[P], turn.pc)
<1> USE DEF IInv
<1>1. P \in Procs /\ P # NoProc /\ proc[P] \in ProcRecords /\ turn.key \in Keys /\ turn.msg \in Msgs
  BY TurnProc
<1>2. PipesServe(proc[P], turn.pc)
  BY <1>1 DEF PipesOwned, PipesServe, Serves, Quiet
<1> QED BY <1>1, <1>2 DEF ProcRecords, TypeInv, TurnType, HasProc

\* Only the process of the turn has anything to do.
LEMMA OnlyTurnsWorks ==
  ASSUME IInv, NEW p \in Procs, proc[p].life = "up", proc[p].stdin # <<>>
  PROVE  p = P /\ HasProc /\ proc[P].stdin = <<turn.msg>> /\ Head(proc[P].stdin) = turn.msg
<1> USE DEF IInv
<1>1. p # NoProc /\ proc[p].key \in Keys
  BY Numbers DEF TypeInv, ProcType, ProcRecords
<1>2. p = P
  BY <1>1 DEF NoOrphans, PipesOwned, Quiet, P
<1>3. HasProc
  BY <1>1, <1>2, IdleIs DEF TurnHasProc, HasProc, P, TypeInv, TurnType, TurnRecords
<1>4. proc[P].stdin = <<turn.msg>>
  BY <1>2, <1>3, TurnServes DEF PipesServe
<1> QED BY <1>2, <1>3, <1>4

\* What it reads away and what it prints stays an answer to the message.
LEMMA ReadServes ==
  ASSUME NEW q \in Seq(Events), q # <<>>, NEW m, NEW in,
         \A i \in DOMAIN q : q[i].msg = m /\ (q[i].kind = "result" => i = Len(q) /\ in = <<>>)
  PROVE  LET t == Tail(q) IN
           \A i \in DOMAIN t : t[i].msg = m /\ (t[i].kind = "result" => i = Len(t) /\ in = <<>>)
<1>1. /\ Tail(q) \in Seq(Events) /\ Len(q) = Len(Tail(q)) + 1 /\ Len(Tail(q)) \in Nat
      /\ \A i \in 1..Len(Tail(q)) : Tail(q)[i] = q[i + 1]
  OBVIOUS
<1> SUFFICES ASSUME NEW i \in DOMAIN Tail(q)
             PROVE  /\ Tail(q)[i].msg = m
                    /\ Tail(q)[i].kind = "result" => i = Len(Tail(q)) /\ in = <<>>
  OBVIOUS
<1>2. i \in Nat /\ i + 1 \in DOMAIN q /\ Tail(q)[i] = q[i + 1]
  BY <1>1
<1>3. PICK n \in Nat : n = Len(Tail(q)) /\ Len(q) = n + 1
  BY <1>1
<1>4. i + 1 = n + 1 => i = n
  BY <1>2
<1>5. Tail(q)[i].msg = m /\ (Tail(q)[i].kind = "result" => i + 1 = Len(q) /\ in = <<>>)
  BY <1>2
<1> QED BY <1>3, <1>4, <1>5

LEMMA PrintServes ==
  ASSUME NEW q \in Seq(Events), NEW e \in Events, NEW m, NEW in, NEW left, e.msg = m,
         \A i \in DOMAIN q : q[i].msg = m /\ (q[i].kind = "result" => i = Len(q) /\ in = <<>>),
         in # <<>>, e.kind = "result" => left = <<>>
  PROVE  LET a == Append(q, e) IN
           \A i \in DOMAIN a : a[i].msg = m /\ (a[i].kind = "result" => i = Len(a) /\ left = <<>>)
<1>1. /\ Append(q, e) \in Seq(Events) /\ Len(Append(q, e)) = Len(q) + 1 /\ Len(q) \in Nat
      /\ Append(q, e)[Len(q) + 1] = e
      /\ \A i \in 1..Len(q) : Append(q, e)[i] = q[i]
  OBVIOUS
<1> SUFFICES ASSUME NEW i \in DOMAIN Append(q, e)
             PROVE  /\ Append(q, e)[i].msg = m
                    /\ Append(q, e)[i].kind = "result" => i = Len(Append(q, e)) /\ left = <<>>
  OBVIOUS
<1>2. CASE i = Len(q) + 1
  BY <1>1, <1>2
<1>3. CASE i \in 1..Len(q)
  BY <1>1, <1>3
<1> QED BY <1>1, <1>2, <1>3

LEMMA StepsTalk ==
  ASSUME IInv, InitRead \/ SendWrites \/ ReadText
  PROVE  \E r \in ProcRecords, place \in {"init", "send", "reading"} : Talks(r, place) /\ PipesServe(r, place)
<1>1. HasProc
  BY DEF InitRead, InitEvent, SendWrites, Writable, ReadText, Reading, HasProc
<1>2. /\ P \in Procs /\ proc[P] \in ProcRecords /\ turn \in TurnRecords /\ turn.msg \in Msgs
      /\ turn.pc \in {"init", "send", "reading"}
      /\ proc[P].stdin \in Seq(Msgs) /\ proc[P].stdout \in Seq(Events)
      /\ proc[P].initSent \in BOOLEAN /\ proc[P].inited \in BOOLEAN
      /\ PipesServe(proc[P], turn.pc)
  BY <1>1, TurnServes
<1>3. proc \in [Procs -> ProcRecords] /\ turn = [turn EXCEPT !.pc = turn.pc]
  BY <1>2 DEF IInv, TypeInv, ProcType, TurnRecords
<1>5. CASE InitRead \/ ReadText
  <2> DEFINE out == Tail(proc[P].stdout)
             sent == IF InitRead THEN TRUE ELSE proc[P].initSent
             place == IF InitRead THEN "send" ELSE turn.pc
             r == WithPipes(proc[P], proc[P].stdin, out, sent, proc[P].inited)
  <2>1. proc[P].stdout # <<>> /\ out \in Seq(Events) /\ sent \in BOOLEAN
    <3>1. proc[P].stdout # <<>>
      BY <1>5 DEF InitRead, InitEvent, ReadText, Reading
    <3> QED BY <1>2, <3>1, TailTyped
  <2>2. /\ \A i \in DOMAIN out : out[i].msg = turn.msg /\
             (out[i].kind = "result" => i = Len(out) /\ proc[P].stdin = <<>>)
    <3>1. \A i \in DOMAIN proc[P].stdout :
             /\ proc[P].stdout[i].msg = turn.msg
             /\ proc[P].stdout[i].kind = "result" => i = Len(proc[P].stdout) /\ proc[P].stdin = <<>>
      BY <1>2 DEF PipesServe
    <3> QED BY <1>2, <2>1, <3>1, ReadServes
  <2>3. proc[P].inited
    BY <1>2, <2>1 DEF PipesServe
  <2>4. /\ r \in ProcRecords /\ r.stdin = proc[P].stdin /\ r.stdout = out /\ r.initSent = sent
        /\ r.inited = proc[P].inited /\ r.life = proc[P].life
    <3> HIDE DEF out, sent
    <3> QED BY <1>2, <2>1, WithPipesIs
  <2>10. \E in2 \in Seq(Msgs), out2 \in Seq(Events), sent2, inited2 \in BOOLEAN :
           r = WithPipes(proc[P], in2, out2, sent2, inited2)
    <3> HIDE DEF out, sent
    <3> QED BY <1>2, <2>1
  <2>5. turn.pc = "reading" /\ ~InitRead => ~sent
    BY <1>2 DEF PipesServe
  <2>6. PipesServe(r, place)
    <3>1. place = "send" => sent
      BY <1>5 DEF ReadText, Reading
    <3>2. place = "reading" => ~sent
      BY <2>5
    <3> HIDE DEF r, place, sent, out
    <3> QED BY <1>2, <2>2, <2>3, <2>4, <3>1, <3>2 DEF PipesServe
  <2>7. Talks(r, place)
    <3>1. CASE InitRead
      <4>1. proc' = [proc EXCEPT ![P] = [proc[P] EXCEPT !.stdout = out, !.initSent = TRUE]]
        BY <3>1 DEF InitRead
      <4>2. [proc[P] EXCEPT !.stdout = out, !.initSent = TRUE] = r
        BY <1>2, <3>1 DEF ProcRecords, WithPipes
      <4>3. turn.pc = "init" /\ place = "send" /\ turn' = [turn EXCEPT !.pc = "send"]
            /\ tracked' = [tracked EXCEPT ![turn.key] = P]
            /\ UNCHANGED <<settings, plugins, reload, bounds>>
        BY <3>1 DEF InitRead, InitEvent
      <4> HIDE DEF r, place, sent, out
      <4>4. proc' = [proc EXCEPT ![P] = r]
        BY <4>1, <4>2
      <4> QED BY <1>1, <2>10, <4>3, <4>4 DEF Talks
    <3>2. CASE ReadText /\ ~InitRead
      <4>1. proc' = [proc EXCEPT ![P] = [proc[P] EXCEPT !.stdout = out]]
        BY <3>2 DEF ReadText
      <4>2. [proc[P] EXCEPT !.stdout = out] = r
        BY <1>2, <3>2 DEF ProcRecords, WithPipes
      <4>3. turn.pc = place /\ turn' = turn /\ tracked' = tracked
            /\ UNCHANGED <<settings, plugins, reload, bounds>>
        BY <3>2 DEF ReadText
      <4> HIDE DEF r, place, sent, out
      <4>4. proc' = [proc EXCEPT ![P] = r]
        BY <4>1, <4>2
      <4> QED BY <1>1, <1>3, <2>10, <4>3, <4>4 DEF Talks
    <3> QED BY <1>5, <3>1, <3>2
  <2> QED BY <1>2, <2>4, <2>6, <2>7
<1>6. CASE SendWrites
  <2> DEFINE in == IF proc[P].initSent THEN proc[P].stdin ELSE Append(proc[P].stdin, turn.msg)
             unsent == FALSE
             r == WithPipes(proc[P], in, proc[P].stdout, unsent, proc[P].inited)
  <2>1. turn.pc = "send" /\ turn' = [turn EXCEPT !.pc = "reading"] /\ tracked' = tracked
        /\ UNCHANGED <<settings, plugins, reload, bounds>>
    BY <1>6 DEF SendWrites, Writable
  <2>2. in \in Seq(Msgs) /\ in \in {<<>>, <<turn.msg>>}
        /\ (~proc[P].initSent => proc[P].stdout = <<>>)
    <3>1. ~proc[P].initSent => proc[P].stdin = <<>> /\ proc[P].stdout = <<>>
      BY <1>2, <2>1 DEF PipesServe
    <3>2. proc[P].stdin \in {<<>>, <<turn.msg>>}
      BY <1>2 DEF PipesServe
    <3>3. Append(<<>>, turn.msg) = <<turn.msg>> /\ <<turn.msg>> \in Seq(Msgs)
      BY <1>2
    <3> QED BY <1>2, <3>1, <3>2, <3>3
  <2>3. proc' = [proc EXCEPT ![P] = [proc[P] EXCEPT !.initSent = FALSE, !.stdin = in]]
    BY <1>6 DEF SendWrites
  <2>4. [proc[P] EXCEPT !.initSent = FALSE, !.stdin = in] = r
    BY <1>2 DEF ProcRecords, WithPipes
  <2>5. /\ r \in ProcRecords /\ r.stdin = in /\ r.stdout = proc[P].stdout /\ r.initSent = FALSE
        /\ r.inited = proc[P].inited /\ r.life = proc[P].life
    <3>1. unsent \in BOOLEAN /\ unsent = FALSE
      OBVIOUS
    <3> HIDE DEF in, unsent
    <3> QED BY <1>2, <2>2, <3>1, WithPipesIs
  <2>10. \E in2 \in Seq(Msgs), out2 \in Seq(Events), sent2, inited2 \in BOOLEAN :
           r = WithPipes(proc[P], in2, out2, sent2, inited2)
    <3> HIDE DEF in
    <3> QED BY <1>2, <2>2
  <2>6. proc[P].stdout # <<>> => in = proc[P].stdin
    BY <2>2
  <2> HIDE DEF r, in
  <2>7. proc' = [proc EXCEPT ![P] = r]
    BY <2>3, <2>4
  <2>8. PipesServe(r, "reading")
    <3>1. \A i \in DOMAIN r.stdout :
             /\ r.stdout[i].msg = turn.msg
             /\ r.stdout[i].kind = "result" => i = Len(r.stdout) /\ proc[P].stdin = <<>>
      BY <1>2, <2>5 DEF PipesServe
    <3>2. DOMAIN r.stdout # {} => proc[P].stdout # <<>>
      BY <2>5
    <3>3. ~r.inited => r.stdout = <<>> /\ r.life # "up"
      BY <1>2, <2>1, <2>5 DEF PipesServe
    <3> QED BY <2>2, <2>5, <2>6, <3>1, <3>2, <3>3 DEF PipesServe
  <2>9. Talks(r, "reading")
    BY <1>1, <2>1, <2>7, <2>10 DEF Talks
  <2> QED BY <2>5, <2>8, <2>9
<1> QED BY <1>5, <1>6

LEMMA PrintsTalk ==
  ASSUME IInv, NEW p \in Procs, PrintsInit(p) \/ PrintsText(p) \/ PrintsResult(p)
  PROVE  \E r \in ProcRecords, place \in {"init", "send", "reading"} : Talks(r, place) /\ PipesServe(r, place)
<1>1. proc[p].life = "up" /\ proc[p].stdin # <<>>
  BY DEF PrintsInit, PrintsText, PrintsResult, Working
<1>2. p = P /\ HasProc /\ proc[P].stdin = <<turn.msg>> /\ Head(proc[P].stdin) = turn.msg
  BY <1>1, OnlyTurnsWorks
<1>3. /\ P \in Procs /\ proc[P] \in ProcRecords /\ turn \in TurnRecords /\ turn.msg \in Msgs
      /\ turn.pc \in {"init", "send", "reading"}
      /\ proc[P].stdin \in Seq(Msgs) /\ proc[P].stdout \in Seq(Events)
      /\ proc[P].initSent \in BOOLEAN /\ proc[P].inited \in BOOLEAN
      /\ PipesServe(proc[P], turn.pc)
  BY <1>2, TurnServes
<1>4. /\ turn' = [turn EXCEPT !.pc = turn.pc] /\ tracked' = tracked
      /\ UNCHANGED <<settings, plugins, reload, bounds>>
  BY <1>3 DEF PrintsInit, PrintsText, PrintsResult, procUnchanged, settings, bounds, TurnRecords
<1>5. \A i \in DOMAIN proc[P].stdout :
        /\ proc[P].stdout[i].msg = turn.msg
        /\ proc[P].stdout[i].kind = "result" => i = Len(proc[P].stdout) /\ proc[P].stdin = <<>>
  BY <1>3 DEF PipesServe
<1>6. turn.pc = "send" => proc[P].initSent
  BY <1>1, <1>2, <1>3 DEF PipesServe
\* The event it prints is of the turn's message; after the result it waits for another.
<1>7. ASSUME NEW kind \in {"init", "text", "result"}, NEW in \in Seq(Msgs),
             in \in {<<>>, <<turn.msg>>}, kind = "result" => in = <<>>,
             proc' = [proc EXCEPT ![P] =
               WithPipes(proc[P], in, Append(proc[P].stdout, Event(kind, turn.msg)),
                         proc[P].initSent, TRUE)]
      PROVE  \E r \in ProcRecords, place \in {"init", "send", "reading"} :
               Talks(r, place) /\ PipesServe(r, place)
  <2> DEFINE out == Append(proc[P].stdout, Event(kind, turn.msg))
             inited == TRUE
             sent == proc[P].initSent
             r == WithPipes(proc[P], in, out, sent, inited)
  <2>1. /\ Event(kind, turn.msg) \in Events /\ Event(kind, turn.msg).msg = turn.msg
        /\ Event(kind, turn.msg).kind = kind
    BY <1>3 DEF Event, Events
  <2>2. out \in Seq(Events) /\ inited \in BOOLEAN /\ inited = TRUE /\ sent \in BOOLEAN
    BY <1>3, <2>1
  <2>3. \A i \in DOMAIN out : out[i].msg = turn.msg /\
          (out[i].kind = "result" => i = Len(out) /\ in = <<>>)
    <3>1. PICK e \in Events : e = Event(kind, turn.msg) /\ e.msg = turn.msg /\ e.kind = kind
      BY <2>1
    <3>2. proc[P].stdin # <<>> /\ (e.kind = "result" => in = <<>>)
      BY <1>1, <1>2, <1>7, <3>1
    <3>3. LET a == Append(proc[P].stdout, e) IN
            \A i \in DOMAIN a : a[i].msg = turn.msg /\
              (a[i].kind = "result" => i = Len(a) /\ in = <<>>)
      BY <1>3, <1>5, <3>1, <3>2, PrintServes
    <3> QED BY <3>1, <3>3
  <2>4. proc' = [proc EXCEPT ![P] = r]
    BY <1>7
  <2> HIDE DEF out, inited, sent
  <2>5. /\ r \in ProcRecords /\ r.stdin = in /\ r.stdout = out
        /\ r.initSent = sent /\ r.inited = inited
    <3>1. /\ proc[P] \in ProcRecords /\ in \in Seq(Msgs) /\ out \in Seq(Events)
          /\ sent \in BOOLEAN /\ inited \in BOOLEAN
      BY <1>3, <2>2
    <3> QED BY ONLY <3>1, WithPipesIs
  <2>6. \E in2 \in Seq(Msgs), out2 \in Seq(Events), sent2, inited2 \in BOOLEAN :
          r = WithPipes(proc[P], in2, out2, sent2, inited2)
    BY <1>3, <1>7, <2>2
  <2> HIDE DEF r
  <2>7. Talks(r, turn.pc)
    BY <1>2, <1>4, <2>4, <2>6 DEF Talks
  <2>8. PipesServe(r, turn.pc)
    <3>1. turn.pc = "reading" => ~proc[P].initSent
      BY <1>3 DEF PipesServe
    <3> QED BY <1>6, <1>7, <2>2, <2>3, <2>5, <3>1 DEF PipesServe, sent
  <2> QED BY <1>3, <2>5, <2>7, <2>8
<1>8. CASE PrintsInit(p)
  <2>1. proc[P].owner = turn.msg
    <3>1. ~proc[P].inited
      BY <1>2, <1>8 DEF PrintsInit
    <3>2. turn.pc = "init"
      BY <1>1, <1>2, <1>3, <3>1 DEF PipesServe
    <3> QED BY <3>2 DEF IInv, PipesOwned
  <2>2. proc' = [proc EXCEPT ![P] =
          [proc[P] EXCEPT !.stdout = Append(@, Event("init", turn.msg)), !.inited = TRUE]]
    BY <1>2, <1>8, <2>1 DEF PrintsInit
  <2>3. [proc[P] EXCEPT !.stdout = Append(@, Event("init", turn.msg)), !.inited = TRUE]
          = WithPipes(proc[P], proc[P].stdin, Append(proc[P].stdout, Event("init", turn.msg)),
                      proc[P].initSent, TRUE)
    BY <1>3 DEF ProcRecords, WithPipes
  <2> QED BY <1>2, <1>3, <1>7, <2>2, <2>3
<1>9. CASE PrintsText(p)
  <2>1. proc[P].inited = TRUE
    BY <1>2, <1>3, <1>9 DEF PrintsText, Working
  <2>2. proc' = [proc EXCEPT ![P] =
          [proc[P] EXCEPT !.stdout = Append(@, Event("text", turn.msg))]]
    BY <1>2, <1>9 DEF PrintsText, Prints
  <2>3. [proc[P] EXCEPT !.stdout = Append(@, Event("text", turn.msg))]
          = WithPipes(proc[P], proc[P].stdin, Append(proc[P].stdout, Event("text", turn.msg)),
                      proc[P].initSent, TRUE)
    BY <1>3, <2>1 DEF ProcRecords, WithPipes
  <2> QED BY <1>2, <1>3, <1>7, <2>2, <2>3
<1>10. CASE PrintsResult(p)
  <2>1. proc[P].inited = TRUE
    BY <1>2, <1>3, <1>10 DEF PrintsResult, Working
  <2>2. Tail(proc[P].stdin) = <<>> /\ <<>> \in Seq(Msgs)
    BY <1>2
  <2>3. proc' = [proc EXCEPT ![P] =
          [proc[P] EXCEPT !.stdout = Append(@, Event("result", turn.msg)), !.stdin = <<>>]]
    BY <1>2, <1>10, <2>2 DEF PrintsResult
  <2>4. [proc[P] EXCEPT !.stdout = Append(@, Event("result", turn.msg)), !.stdin = <<>>]
          = WithPipes(proc[P], <<>>, Append(proc[P].stdout, Event("result", turn.msg)),
                      proc[P].initSent, TRUE)
    BY <1>3, <2>1 DEF ProcRecords, WithPipes
  <2> QED BY <1>7, <2>2, <2>3, <2>4
<1> QED BY <1>8, <1>9, <1>10

\* A plugin changes while the turn runs; the file is there before the result.
LEMMA ChangesKeep ==
  ASSUME IInv, TypeInv', NEW p \in Procs, ChangesPlugins(p)
  PROVE  IInv'
<1> USE DEF IInv
<1>1. p = P /\ HasProc /\ Head(proc[p].stdin) = turn.msg
  BY OnlyTurnsWorks DEF ChangesPlugins, Working
<1>2. /\ P \in Procs /\ turn.key \in Keys /\ turn.msg \in Msgs /\ proc[P].key = turn.key
      /\ turn.msg = msgs /\ \A k \in Keys : tracked[k] = turn.proc => k = turn.key
  BY <1>1, TurnServes DEF TurnHasProc, HasProc, P
<1>3. /\ changed'[turn.key] = [plugins |-> plugins + 1, msg |-> turn.msg]
      /\ \A k \in Keys : k # turn.key => changed'[k] = changed[k]
      /\ plugins' = plugins + 1 /\ reload' /\ upsets' = upsets + 1
      /\ UNCHANGED <<effort, project, tracked, turn, lastUserMsg, msgs, proc>>
  BY <1>1, <1>2 DEF ChangesPlugins, Upset, procUnchanged, settings, TypeInv, CountersType
<1>4. TrackedOnce' /\ TurnHasProc' /\ NoOrphans'
  BY <1>3 DEF TrackedOnce, TurnHasProc, NoOrphans, HasProc, P
<1>5. PipesOwned'
  BY <1>3 DEF PipesOwned, Quiet, Serves, HasProc, P
\* The user has no other process than the one that works.
<1>6. ConfigCurrent'
  <2>1. tracked[turn.key] = NoProc \/ tracked[turn.key] = turn.proc
    BY <1>1, <1>2 DEF NoOrphans, TrackedOnce, ChangesPlugins, Working, P
  <2>2. \A k \in Keys : tracked[k] # NoProc /\ tracked[k] # turn.proc => changed'[k] = changed[k]
    BY <1>3, <2>1
  <2>3. changed'[turn.key].msg = turn.msg /\ turn.msg \in Nat
    BY <1>2, <1>3, Numbers DEF Msgs
  <2> QED BY <1>3, <2>2, <2>3 DEF ConfigCurrent, HasProc, P
<1>7. ChangesKnown'
  BY <1>2, <1>3, CountersAre DEF ChangesKnown
<1> QED BY <1>4, <1>5, <1>6, <1>7

-----------------------------------------------------------------------------
(* The invariant holds, and what it says. *)

LEMMA InitInv == Init => IInv
<1> SUFFICES ASSUME Init PROVE IInv
  OBVIOUS
<1>1. /\ turn = Idle /\ turn.pc = "idle" /\ turn.proc = NoProc /\ ~HasProc
      /\ \A k \in Keys : tracked[k] = NoProc
      /\ \A p \in Procs : proc[p] = Gone(AnyKey)
  BY IdleIs DEF Init, HasProc
<1>2. \A p \in Procs : proc[p].life = "gone" /\ proc[p].stdout = <<>>
  BY <1>1, GoneIs, Numbers
<1>3. TypeInv
  <2>1. SettingsType /\ TurnType
    BY Numbers, IdleIs DEF Init, SettingsType, TurnType
  <2>2. ProcType
    BY Numbers, GoneIs DEF Init, ProcType
  <2>3. 0 \in 0..MaxUpsets /\ 0 \in 0..MaxMsgs /\ 0 \in Msgs
    BY Numbers
  <2>4. CountersType
    BY <2>3 DEF Init, CountersType
  <2> QED BY <2>1, <2>2, <2>4 DEF TypeInv
<1>4. TrackedOnce /\ TurnHasProc /\ NoOrphans /\ PipesOwned /\ ConfigCurrent
  BY <1>1, <1>2 DEF TrackedOnce, TurnHasProc, NoOrphans, PipesOwned, ConfigCurrent
<1>5. ChangesKnown
  BY <1>1 DEF Init, ChangesKnown
<1> QED BY <1>3, <1>4, <1>5 DEF IInv

LEMMA StutterKeeps ==
  ASSUME IInv, UNCHANGED vars
  PROVE  IInv'
<1> USE DEF vars, settings, bounds
<1>1. TypeInv'
  BY DEF IInv, TypeInv, SettingsType, ProcType, TurnType, CountersType
<1>2. TrackedOnce' /\ TurnHasProc' /\ NoOrphans'
  BY DEF IInv, TrackedOnce, TurnHasProc, NoOrphans, HasProc, P
<1>3. PipesOwned' /\ ConfigCurrent' /\ ChangesKnown'
  BY DEF IInv, PipesOwned, Quiet, Serves, ConfigCurrent, ChangesKnown, HasProc, P
<1> QED BY <1>1, <1>2, <1>3 DEF IInv

LEMMA NextKeeps ==
  ASSUME IInv, Next
  PROVE  IInv'
<1>1. TypeInv'
  BY NextTyped DEF IInv
<1>2. CASE handleEffort \/ handleEffortReset \/ handleProject \/ Cleanup
  BY <1>1, <1>2, CommandsFade, FadesKeep
<1>3. CASE handleMessage
  BY <1>1, <1>3, BeginKeeps, Numbers DEF handleMessage
<1>4. CASE handleRetry
  <2>1. PICK k \in lastUserMsg : Begin(k, TRUE, effort[k])
    BY <1>4 DEF handleRetry
  <2>2. k \in Keys /\ effort[k] \in Efforts
    BY DEF IInv, TypeInv, CountersType, SettingsType
  <2> QED BY <1>1, <2>1, <2>2, BeginKeeps
<1>5. CASE GetExisting
  BY <1>1, <1>5, GetKeeps
<1>6. CASE SpawnStarts
  BY <1>1, <1>6, SpawnKeeps
<1>7. CASE SpawnFails \/ InitFails \/ SendFails \/ ReadResult
  BY <1>1, <1>7, EndingsEnd, EndsKeep
<1>8. CASE InitRead \/ SendWrites \/ ReadText
  BY <1>1, <1>8, StepsTalk, TalksKeep
<1>9. CASE stopActive
  BY <1>1, <1>9, StopFades, FadesKeep
<1>10. ASSUME NEW p \in Procs, PrintsInit(p) \/ PrintsText(p) \/ PrintsResult(p) PROVE IInv'
  BY <1>1, <1>10, PrintsTalk, TalksKeep
<1>11. ASSUME NEW p \in Procs, ChangesPlugins(p) PROVE IInv'
  BY <1>1, <1>11, ChangesKeep
<1>12. ASSUME NEW p \in Procs, Dies(p) \/ DoneClosed(p) PROVE IInv'
  BY <1>1, <1>12, DeathsFade, FadesKeep
<1> QED BY <1>2, <1>3, <1>4, <1>5, <1>6, <1>7, <1>8, <1>9, <1>10, <1>11, <1>12 DEF Next, TurnStep

\* The pipes of the processes, what is tracked and what a process was started with
\* fit the turn in progress at every moment, and every idle process its user's settings.
THEOREM Invariance == Spec => []IInv
<1>1. IInv /\ [Next]_vars => IInv'
  BY NextKeeps, StutterKeeps
<1> QED BY <1>1, InitInv, PTL DEF Spec

\* The types of all the state, with at most one message in the pipe of a process that is up.
THEOREM TypeCorrect == Spec => []TypeOK
<1>1. ASSUME IInv PROVE TypeOK
  <2>1. ASSUME NEW p \in Procs, proc[p].life = "up" PROVE Len(proc[p].stdin) <= 1
    <3>1. CASE proc[p].stdin = <<>>
      BY <3>1
    <3>2. CASE proc[p].stdin # <<>>
      <4>1. proc[p].stdin = <<turn.msg>>
        BY <1>1, <2>1, <3>2, OnlyTurnsWorks
      <4> QED BY <4>1
    <3> QED BY <3>1, <3>2
  <2>2. \A p \in Procs : proc[p] \in ProcRecords
    BY <1>1 DEF IInv, TypeInv, ProcType
  <2> QED BY <1>1, <2>1, <2>2 DEF IInv, TypeInv, SettingsType, ProcType, TurnType, CountersType,
            TypeOK, ProcRecords, TurnRecords, Lives
<1> QED BY <1>1, Invariance, PTL

\* handleWithCLI reads from the pipe of a process only what that process says to the
\* message of this turn, however earlier turns with the process ended.
THEOREM AnswersOwnMessage == Spec => []OwnAnswer
<1>1. ASSUME IInv PROVE OwnAnswer
  <2> SUFFICES ASSUME turn.pc = "reading"
               PROVE  /\ proc[P].key = turn.key
                      /\ \A i \in DOMAIN proc[P].stdout : proc[P].stdout[i].msg = turn.msg
                      /\ proc[P].life = "up" =>
                           \A i \in DOMAIN proc[P].stdin : proc[P].stdin[i] = turn.msg
    BY DEF OwnAnswer
  <2>1. HasProc /\ Serves(P, turn.msg) /\ proc[P].key = turn.key
    BY <1>1 DEF HasProc, IInv, PipesOwned, TurnHasProc, P
  <2> QED BY <2>1 DEF Serves
<1> QED BY <1>1, Invariance, PTL

\* A process that is up is tracked for its user, so that RemoveProc, Cleanup or Shutdown
\* finds it, or is the one the turn in progress waits for.
THEOREM NothingIsOrphaned == Spec => []NoOrphans
<1>1. IInv => NoOrphans
  BY DEF IInv
<1> QED BY <1>1, Invariance, PTL

\* A turn reads from a process with the project, the plugins and, for /retry, the
\* effort level of the turn.
THEOREM SettingsReachProcess == Spec => []ConfigApplies
<1>1. ASSUME IInv PROVE ConfigApplies
  BY <1>1 DEF IInv, ConfigCurrent, ConfigApplies, HasProc
<1> QED BY <1>1, Invariance, PTL

-------------------------------------------------------------------------------
(* How the text of a turn reaches the user (StreamDelivery). *)

Kinds == {"text", "draft", "tool", "error", "other"}
Messages == [kind : Kinds, text : Seq(Nat), rid : Nat]
Active == {"streaming", "flush", "waiting", "flushed"}

\* The type invariant, in three parts.
TurnTyped ==
  /\ mode \in {"api", "cli"} /\ streams \in BOOLEAN /\ delivered \in BOOLEAN
  /\ pc \in Active \cup {"drain", "delete", "documents", "returned"}
  /\ after \in {"", "overflow", "tool", "final"}
  /\ round \in Nat /\ said \in Nat /\ roundStart \in Nat \ {0}
  /\ buf \in Seq(Nat) /\ rest \in Seq(Nat)
  /\ msgID \in {"none", "lost", "some"}
  /\ outcome \in {"", "answered", "error", "limit"}

ChannelTyped ==
  /\ inbox \in Seq(Messages)
  /\ flushes \in Nat /\ result \in {"none", "id", "zero"}
  /\ sending \in [text : Seq(Nat), rid : Nat, unread : BOOLEAN, refused : BOOLEAN]
  /\ shown \in Seq(Seq(Nat)) /\ noise \in Nat

HistoryTyped ==
  /\ dropped \in BOOLEAN /\ failed \in BOOLEAN /\ timedOut \in BOOLEAN /\ unreadable \in BOOLEAN

StreamType == TurnTyped /\ ChannelTyped /\ HistoryTyped

\* The files: those of the turn are in the table until it takes them all out.
FilesInv ==
  /\ files \in Nat /\ own \subseteq 1..files
  /\ 1..files \subseteq table \cup todo \cup gone
  /\ pc \in Active \cup {"drain"} => todo = {} /\ gone = {}
  /\ pc = "delete" => own \subseteq todo
  /\ pc = "documents" => own \subseteq todo \cup gone
  /\ pc = "returned" => unreadable \/ own \subseteq gone
  /\ pc # "returned" => ~unreadable

\* The texts on the screen, in the channel and in the inbox, in this order.
In(x, t) == \E k \in DOMAIN t : t[k] = x
Rising(t) == \A k, l \in DOMAIN t : k < l => t[k] < t[l]
Before(s, t) == \A k \in DOMAIN s, l \in DOMAIN t : s[k] < t[l]

\* Piece x is in one of the texts a (shown), s (being sent) or q (in the inbox).
Has(a, s, q, x) == (\E i \in DOMAIN a : In(x, a[i])) \/ In(x, s) \/ \E i \in DOMAIN q : In(x, q[i])

\* Every piece comes before those of the later texts.
Ordered(a, s, q) ==
  /\ \A i \in DOMAIN a : Rising(a[i]) /\ \A j \in DOMAIN a : i < j => Before(a[i], a[j])
  /\ \A i \in DOMAIN a : Before(a[i], s) /\ \A j \in DOMAIN q : Before(a[i], q[j])
  /\ Rising(s) /\ \A i \in DOMAIN q : Before(s, q[i])
  /\ \A i \in DOMAIN q : Rising(q[i]) /\ \A j \in DOMAIN q : i < j => Before(q[i], q[j])

\* What the stream accumulated: the pieces said last.
BufInv ==
  /\ mode = "api" => streams
  /\ ~streams => buf = <<>> /\ rest = <<>> /\ ~delivered
  /\ outcome = "" <=> pc \in Active
  /\ rest # <<>> <=> pc \in {"flush", "waiting", "flushed"} /\ after = "overflow"
  /\ streams /\ pc \in Active =>
       /\ Len(buf) + Len(rest) <= said
       /\ \A k \in DOMAIN buf : buf[k] = said - Len(rest) - Len(buf) + k
       /\ \A k \in DOMAIN rest : rest[k] = said - Len(rest) + k
  /\ pc \in {"flush", "waiting", "flushed"} /\ after = "tool" => mode = "cli"
  /\ mode = "api" /\ pc \in Active /\ said >= roundStart => buf # <<>>

\* A message id is missing for a reason.
IdInv ==
  /\ pc \in {"streaming", "flush", "waiting"} => msgID = "none"
  /\ msgID = "lost" => timedOut
  /\ result = "zero" \/ sending.refused => failed
  /\ pc = "flushed" /\ buf # <<>> /\ msgID = "none" => dropped \/ failed

\* A message that is no text fits in one.
Short == \A i \in DOMAIN inbox : inbox[i].kind # "text" => Len(inbox[i].text) <= Limit

\* What was given to the channel, when there is no trouble.
Given ==
  IF pc \in {"streaming", "flush"} THEN said - Len(rest) - Len(buf)
  ELSE IF pc \in {"waiting", "flushed"} THEN said - Len(rest)
  ELSE said
\* The texts are in order; and no text is missing.
Orderly == mode = "cli" \/ ~(dropped \/ failed \/ timedOut)
Fine == ~dropped /\ ~failed /\ (mode = "api" => ~timedOut)

Shows(x) == Has(shown, sending.text, Texts, x)

\* In order, and the pieces that were given to the channel: all of them if nothing
\* went wrong, none if a CLI turn has delivered none.
TextInv ==
  /\ Orderly => Ordered(shown, sending.text, Texts) /\ \A x \in Nat : Shows(x) => x \in 1..Given
  /\ Fine /\ ((streams /\ outcome = "") \/ outcome = "answered") => \A x \in 1..Given : Shows(x)
  /\ mode = "cli" /\ outcome = "" /\ ~delivered => \A x \in Nat : ~Shows(x)

DeliveryInv == StreamType /\ BufInv /\ IdInv /\ Short /\ TextInv
StreamInv == FilesInv /\ DeliveryInv

-------------------------------------------------------------------------------
(* Texts that are put in, taken out and cut. *)

\* Text t is c followed by r.
Cut(t, c, r) ==
  /\ c \in Seq(Nat) /\ r \in Seq(Nat) /\ Len(t) = Len(c) + Len(r)
  /\ \A k \in 1..Len(c) : c[k] = t[k]
  /\ \A k \in 1..Len(r) : r[k] = t[Len(c) + k]

\* Two adjacent parts.
LEMMA SubSeqsCut ==
  ASSUME NEW t \in Seq(Nat), NEW n \in 0..Len(t)
  PROVE  Cut(t, SubSeq(t, 1, n), SubSeq(t, n + 1, Len(t))) /\ Len(SubSeq(t, 1, n)) = n
<1> DEFINE c == SubSeq(t, 1, n)
<1> DEFINE r == SubSeq(t, n + 1, Len(t))
<1>1. c \in Seq(Nat) /\ Len(c) = n /\ \A k \in 1..n : c[k] = t[k]
  BY SubSeqProperties
<1>2. r \in Seq(Nat) /\ Len(r) = Len(t) - n /\ \A k \in 1..(Len(t) - n) : r[k] = t[n + k]
  BY SubSeqProperties
<1> HIDE DEF c, r
<1>3. Cut(t, c, r)
  BY <1>1, <1>2 DEF Cut
<1> QED BY <1>1, <1>3 DEF c, r

\* What a cut does to the pieces and to their order.
LEMMA CutGives ==
  ASSUME NEW t \in Seq(Nat), NEW c, NEW r, Cut(t, c, r)
  PROVE  /\ c \in Seq(Nat) /\ r \in Seq(Nat)
         /\ \A x \in Nat : In(x, t) <=> In(x, c) \/ In(x, r)
         /\ Rising(t) => Rising(c) /\ Rising(r) /\ Before(c, r)
         /\ \A s \in Seq(Nat) : /\ Before(s, t) => Before(s, c) /\ Before(s, r)
                                /\ Before(t, s) => Before(c, s) /\ Before(r, s)
<1> DEFINE n == Len(c)
<1>1. /\ c \in Seq(Nat) /\ n \in Nat /\ n <= Len(t) /\ \A k \in 1..n : c[k] = t[k]
      /\ r \in Seq(Nat) /\ Len(r) = Len(t) - n /\ \A k \in 1..(Len(t) - n) : r[k] = t[n + k]
  <2>1. c \in Seq(Nat) /\ r \in Seq(Nat) /\ Len(t) = n + Len(r)
    BY DEF Cut
  <2>2. n \in Nat /\ Len(r) \in Nat
    BY <2>1
  <2>3. n <= Len(t) /\ Len(r) = Len(t) - n
    BY <2>1, <2>2
  <2>4. (\A k \in 1..n : c[k] = t[k]) /\ \A k \in 1..Len(r) : r[k] = t[n + k]
    BY DEF Cut
  <2> QED BY <2>1, <2>2, <2>3, <2>4
<1>2. /\ DOMAIN t = 1..Len(t) /\ DOMAIN c = 1..n /\ DOMAIN r = 1..(Len(t) - n) /\ Len(t) \in Nat /\ n \in Nat
      /\ \A k \in DOMAIN t : t[k] \in Nat
      /\ \A k \in DOMAIN c : k \in DOMAIN t /\ c[k] = t[k]
      /\ \A k \in DOMAIN r : n + k \in DOMAIN t /\ r[k] = t[n + k]
  <2>1. DOMAIN t = 1..Len(t) /\ Len(t) \in Nat /\ \A k \in DOMAIN t : t[k] \in Nat
    OBVIOUS
  <2>2. DOMAIN c = 1..n /\ DOMAIN r = 1..(Len(t) - n)
    BY <1>1
  <2> HIDE DEF n
  <2>3. \A k \in 1..n : k \in 1..Len(t)
    BY <1>1, <2>1
  <2>4. \A k \in 1..(Len(t) - n) : n + k \in 1..Len(t)
    BY <1>1, <2>1
  <2> QED BY <1>1, <2>1, <2>2, <2>3, <2>4
<1> HIDE DEF n
<1>3. ASSUME NEW k \in DOMAIN t
      PROVE  (k \in DOMAIN c /\ c[k] = t[k]) \/ (k - n \in DOMAIN r /\ r[k - n] = t[k])
  <2>1. CASE k <= n
    <3>1. k \in 1..n
      BY <1>2, <1>3, <2>1
    <3> QED BY <1>1, <1>2, <3>1
  <2>2. CASE k > n
    <3>1. k - n \in 1..(Len(t) - n) /\ n + (k - n) = k
      BY <1>2, <1>3, <2>2
    <3> QED BY <1>1, <1>2, <3>1
  <2> QED BY <1>2, <1>3, <2>1, <2>2
<1>4. ASSUME NEW x \in Nat PROVE In(x, t) <=> In(x, c) \/ In(x, r)
  <2>1. In(x, t) => In(x, c) \/ In(x, r)
    BY <1>3 DEF In
  <2>2. In(x, c) \/ In(x, r) => In(x, t)
    BY <1>2 DEF In
  <2> QED BY <2>1, <2>2
<1>5. Rising(t) => Rising(c) /\ Rising(r) /\ Before(c, r)
  BY <1>2 DEF Rising, Before
<1>6. ASSUME NEW s \in Seq(Nat)
      PROVE  /\ Before(s, t) => Before(s, c) /\ Before(s, r)
             /\ Before(t, s) => Before(c, s) /\ Before(r, s)
  BY <1>2 DEF Before
<1> QED BY <1>1, <1>4, <1>5, <1>6

\* A text is put into the inbox.
LEMMA Enqueued ==
  ASSUME NEW a \in Seq(Seq(Nat)), NEW s \in Seq(Nat), NEW q \in Seq(Seq(Nat)), NEW t \in Seq(Nat)
  PROVE  /\ \A x \in Nat : Has(a, s, Append(q, t), x) <=> Has(a, s, q, x) \/ In(x, t)
         /\ Ordered(a, s, q) /\ Rising(t) /\ (\A x \in Nat : Has(a, s, q, x) => \A k \in DOMAIN t : x < t[k])
              => Ordered(a, s, Append(q, t))
<1> DEFINE p == Append(q, t)
<1> DEFINE m == Len(q)
<1>1. /\ p \in Seq(Seq(Nat)) /\ m \in Nat /\ DOMAIN q = 1..m /\ DOMAIN p = 1..(m + 1)
      /\ p[m + 1] = t /\ \A i \in 1..m : p[i] = q[i]
  OBVIOUS
<1>2. /\ \A i \in DOMAIN a : a[i] \in Seq(Nat)
      /\ \A i \in DOMAIN q : q[i] \in Seq(Nat)
      /\ \A u \in Seq(Nat) : \A k \in DOMAIN u : u[k] \in Nat
  OBVIOUS
<1> HIDE DEF p, m
<1>3. ASSUME NEW x \in Nat PROVE Has(a, s, p, x) <=> Has(a, s, q, x) \/ In(x, t)
  <2>1. ASSUME NEW i \in DOMAIN p PROVE (i \in DOMAIN q /\ p[i] = q[i]) \/ p[i] = t
    <3>1. i \in 1..m \/ i = m + 1
      BY <1>1, <2>1
    <3> QED BY <1>1, <3>1
  <2>2. \A i \in DOMAIN q : i \in DOMAIN p /\ p[i] = q[i]
    BY <1>1
  <2>3. m + 1 \in DOMAIN p
    BY <1>1
  <2> QED BY <1>1, <2>1, <2>2, <2>3 DEF Has
<1>4. ASSUME Ordered(a, s, q), Rising(t), \A x \in Nat : Has(a, s, q, x) => \A k \in DOMAIN t : x < t[k]
      PROVE  Ordered(a, s, p)
  <2>1. \A i \in DOMAIN a : Before(a[i], t)
    BY <1>2, <1>4 DEF Before, Has, In
  <2>2. Before(s, t)
    BY <1>2, <1>4 DEF Before, Has, In
  <2>3. \A i \in DOMAIN q : Before(q[i], t)
    BY <1>2, <1>4 DEF Before, Has, In
  <2>4. \A i \in DOMAIN p : i \in 1..m \/ i = m + 1
    BY <1>1
  <2>5. \A i \in DOMAIN p : Rising(p[i]) /\ Before(s, p[i])
    BY <1>1, <1>4, <2>2, <2>4 DEF Ordered
  <2>6. \A i \in DOMAIN a : Before(a[i], s) /\ \A j \in DOMAIN p : Before(a[i], p[j])
    BY <1>1, <1>4, <2>1, <2>4 DEF Ordered
  <2>7. ASSUME NEW i \in DOMAIN p, NEW j \in DOMAIN p, i < j PROVE Before(p[i], p[j])
    <3>1. i \in 1..m
      BY <1>1, <2>7
    <3> QED BY <1>1, <1>4, <2>3, <2>4, <2>7, <3>1 DEF Ordered
  <2> QED BY <1>4, <2>5, <2>6, <2>7 DEF Ordered
<1> QED BY <1>3, <1>4 DEF p

\* The channel takes the next message out of the inbox.
LEMMA Dequeued ==
  ASSUME NEW a \in Seq(Seq(Nat)), NEW q \in Seq(Seq(Nat)), q # <<>>
  PROVE  /\ \A x \in Nat : Has(a, Head(q), Tail(q), x) <=> Has(a, <<>>, q, x)
         /\ Ordered(a, <<>>, q) => Ordered(a, Head(q), Tail(q))
<1> DEFINE p == Tail(q)
<1> DEFINE m == Len(q)
<1> DEFINE h == Head(q)
<1>1. /\ m \in Nat /\ m > 0 /\ DOMAIN q = 1..m /\ DOMAIN p = 1..(m - 1) /\ h = q[1]
      /\ \A i \in 1..(m - 1) : p[i] = q[i + 1]
  OBVIOUS
<1>2. DOMAIN <<>> = {}
  OBVIOUS
<1> HIDE DEF p, m, h
<1>3. /\ \A i \in DOMAIN q : i = 1 \/ (i - 1 \in DOMAIN p /\ p[i - 1] = q[i])
      /\ \A i \in DOMAIN p : i + 1 \in DOMAIN q /\ p[i] = q[i + 1] /\ i + 1 > 1 /\ i \in Nat
      /\ 1 \in DOMAIN q
  <2>1. ASSUME NEW i \in 1..m, i # 1 PROVE i - 1 \in 1..(m - 1) /\ p[i - 1] = q[i]
    <3>1. i - 1 \in 1..(m - 1) /\ (i - 1) + 1 = i
      BY <1>1, <2>1
    <3> QED BY <1>1, <3>1
  <2>2. ASSUME NEW i \in 1..(m - 1) PROVE i + 1 \in 1..m /\ p[i] = q[i + 1] /\ i + 1 > 1 /\ i \in Nat
    BY <1>1, <2>2
  <2>3. 1 \in 1..m
    BY <1>1
  <2> QED BY <1>1, <2>1, <2>2, <2>3
<1>4. \A x \in Nat : Has(a, h, p, x) <=> Has(a, <<>>, q, x)
  <2>1. \A x \in Nat : In(x, <<>>) <=> FALSE
    BY <1>2 DEF In
  <2>2. \A x \in Nat : (\E i \in DOMAIN q : In(x, q[i])) <=> In(x, h) \/ \E i \in DOMAIN p : In(x, p[i])
    BY <1>1, <1>3
  <2> QED BY <2>1, <2>2 DEF Has
<1>5. ASSUME Ordered(a, <<>>, q) PROVE Ordered(a, h, p)
  <2>1. \A i \in DOMAIN a : Before(a[i], h) /\ \A j \in DOMAIN p : Before(a[i], p[j])
    BY <1>1, <1>3, <1>5 DEF Ordered
  <2>2. Rising(h) /\ \A i \in DOMAIN p : Before(h, p[i])
    BY <1>1, <1>3, <1>5 DEF Ordered
  <2>3. ASSUME NEW i \in DOMAIN p PROVE Rising(p[i]) /\ \A j \in DOMAIN p : i < j => Before(p[i], p[j])
    <3>1. \A j \in DOMAIN p : i < j => i + 1 < j + 1
      BY <1>3
    <3> QED BY <1>3, <1>5, <3>1 DEF Ordered
  <2> QED BY <1>5, <2>1, <2>2, <2>3 DEF Ordered
<1> QED BY <1>4, <1>5 DEF p, h

\* A chunk of the message in the channel is shown.
LEMMA ChunkShown ==
  ASSUME NEW a \in Seq(Seq(Nat)), NEW t \in Seq(Nat), NEW q \in Seq(Seq(Nat)),
         NEW c, NEW r, Cut(t, c, r)
  PROVE  /\ Append(a, c) \in Seq(Seq(Nat)) /\ r \in Seq(Nat)
         /\ \A x \in Nat : Has(Append(a, c), r, q, x) <=> Has(a, t, q, x)
         /\ Ordered(a, t, q) => Ordered(Append(a, c), r, q)
<1> DEFINE p == Append(a, c)
<1> DEFINE m == Len(a)
<1>1. /\ c \in Seq(Nat) /\ r \in Seq(Nat)
      /\ \A x \in Nat : In(x, t) <=> In(x, c) \/ In(x, r)
      /\ Rising(t) => Rising(c) /\ Rising(r) /\ Before(c, r)
      /\ \A s \in Seq(Nat) : /\ Before(s, t) => Before(s, c) /\ Before(s, r)
                             /\ Before(t, s) => Before(c, s) /\ Before(r, s)
  BY CutGives
<1>2. /\ p \in Seq(Seq(Nat)) /\ m \in Nat /\ DOMAIN a = 1..m /\ DOMAIN p = 1..(m + 1)
      /\ p[m + 1] = c /\ \A i \in 1..m : p[i] = a[i]
  BY <1>1
<1>3. /\ \A i \in DOMAIN a : a[i] \in Seq(Nat)
      /\ \A i \in DOMAIN q : q[i] \in Seq(Nat)
  OBVIOUS
<1> HIDE DEF p, m
<1>4. ASSUME NEW i \in DOMAIN p PROVE (i \in DOMAIN a /\ p[i] = a[i]) \/ (i = m + 1 /\ p[i] = c)
  <2>1. i \in 1..m \/ i = m + 1
    BY <1>2, <1>4
  <2> QED BY <1>2, <2>1
<1>5. \A i \in DOMAIN a : i \in DOMAIN p /\ p[i] = a[i] /\ i < m + 1
  BY <1>2
<1>6. \A x \in Nat : Has(p, r, q, x) <=> Has(a, t, q, x)
  <2>1. m + 1 \in DOMAIN p
    BY <1>2
  <2>2. ASSUME NEW x \in Nat
        PROVE  (\E i \in DOMAIN p : In(x, p[i])) <=> In(x, c) \/ \E i \in DOMAIN a : In(x, a[i])
    BY <1>2, <1>4, <1>5, <2>1
  <2> QED BY <1>1, <2>2 DEF Has
<1>7. ASSUME Ordered(a, t, q) PROVE Ordered(p, r, q)
  <2>1. \A i \in DOMAIN a : Before(a[i], c) /\ Before(a[i], r)
    BY <1>1, <1>3, <1>7 DEF Ordered
  <2>2. \A j \in DOMAIN q : Before(c, q[j]) /\ Before(r, q[j])
    BY <1>1, <1>3, <1>7 DEF Ordered
  <2>3. Rising(c) /\ Rising(r) /\ Before(c, r)
    BY <1>1, <1>7 DEF Ordered
  <2>4. ASSUME NEW i \in DOMAIN p
        PROVE  /\ Rising(p[i]) /\ Before(p[i], r)
               /\ \A j \in DOMAIN q : Before(p[i], q[j])
    BY <1>4, <1>7, <2>1, <2>2, <2>3, <2>4 DEF Ordered
  <2>5. ASSUME NEW i \in DOMAIN p, NEW j \in DOMAIN p, i < j PROVE Before(p[i], p[j])
    <3>1. i \in DOMAIN a /\ p[i] = a[i]
      BY <1>2, <2>5
    <3>2. CASE j \in DOMAIN a /\ p[j] = a[j]
      BY <1>7, <2>5, <3>1, <3>2 DEF Ordered
    <3>3. CASE p[j] = c
      BY <2>1, <3>1, <3>3
    <3> QED BY <1>4, <3>2, <3>3
  <2> QED BY <1>7, <2>2, <2>3, <2>4, <2>5 DEF Ordered
<1> QED BY <1>1, <1>2, <1>6, <1>7 DEF p

\* The rest of the message in the channel is given up.
LEMMA RestDropped ==
  ASSUME NEW a, NEW s, NEW q
  PROVE  /\ \A x \in Nat : Has(a, <<>>, q, x) => Has(a, s, q, x)
         /\ Ordered(a, s, q) => Ordered(a, <<>>, q)
<1>1. DOMAIN <<>> = {}
  OBVIOUS
<1>2. \A x \in Nat : ~In(x, <<>>)
  BY <1>1 DEF In
<1>3. Rising(<<>>) /\ \A t : Before(t, <<>>) /\ Before(<<>>, t)
  BY <1>1 DEF Rising, Before
<1> QED BY <1>2, <1>3 DEF Has, Ordered

-------------------------------------------------------------------------------
(* The inbox and its texts. *)

\* What the user will read of message m.
TextOf(m) == IF m.kind = "text" THEN m.text ELSE <<>>
TextsOf(b) == [i \in DOMAIN b |-> TextOf(b[i])]

LEMMA TextsAre == Texts = TextsOf(inbox) /\ Texts' = TextsOf(inbox')
BY DEF Texts, TextsOf, TextOf

LEMMA TextsTyped ==
  ASSUME NEW b \in Seq(Messages)
  PROVE  /\ TextsOf(b) \in Seq(Seq(Nat)) /\ Len(TextsOf(b)) = Len(b)
         /\ \A i \in 1..Len(b) : TextsOf(b)[i] = TextOf(b[i])
         /\ \A m \in Messages : TextOf(m) \in Seq(Nat)
<1>1. \A m \in Messages : TextOf(m) \in Seq(Nat)
  BY DEF Messages, TextOf
<1>2. DOMAIN b = 1..Len(b) /\ Len(b) \in Nat /\ \A i \in 1..Len(b) : b[i] \in Messages
  OBVIOUS
<1>3. TextsOf(b) = [i \in 1..Len(b) |-> TextOf(b[i])]
  BY <1>2 DEF TextsOf
<1>4. \A i \in 1..Len(b) : TextOf(b[i]) \in Seq(Nat)
  BY <1>1, <1>2
<1>5. TextsOf(b) \in Seq(Seq(Nat)) /\ Len(TextsOf(b)) = Len(b)
  BY <1>2, <1>3, <1>4
<1> QED BY <1>1, <1>3, <1>5

LEMMA TextsAdded ==
  ASSUME NEW b \in Seq(Messages), NEW m \in Messages
  PROVE  Append(b, m) \in Seq(Messages) /\ TextsOf(Append(b, m)) = Append(TextsOf(b), TextOf(m))
<1> DEFINE c == Append(b, m)
<1>1. /\ c \in Seq(Messages) /\ Len(c) = Len(b) + 1 /\ Len(b) \in Nat
      /\ c[Len(b) + 1] = m /\ \A i \in 1..Len(b) : c[i] = b[i]
  OBVIOUS
<1> HIDE DEF c
<1>2. /\ TextsOf(b) \in Seq(Seq(Nat)) /\ Len(TextsOf(b)) = Len(b) /\ TextOf(m) \in Seq(Nat)
      /\ \A i \in 1..Len(b) : TextsOf(b)[i] = TextOf(b[i])
  BY TextsTyped
<1>3. /\ TextsOf(c) \in Seq(Seq(Nat)) /\ Len(TextsOf(c)) = Len(c)
      /\ \A i \in 1..Len(c) : TextsOf(c)[i] = TextOf(c[i])
  BY <1>1, TextsTyped
<1>4. /\ Append(TextsOf(b), TextOf(m)) \in Seq(Seq(Nat))
      /\ Len(Append(TextsOf(b), TextOf(m))) = Len(b) + 1
      /\ Append(TextsOf(b), TextOf(m))[Len(b) + 1] = TextOf(m)
      /\ \A i \in 1..Len(b) : Append(TextsOf(b), TextOf(m))[i] = TextsOf(b)[i]
  BY <1>2
<1>5. ASSUME NEW i \in 1..Len(c) PROVE TextsOf(c)[i] = Append(TextsOf(b), TextOf(m))[i]
  <2>1. i \in 1..Len(b) \/ i = Len(b) + 1
    BY <1>1, <1>5
  <2> QED BY <1>1, <1>2, <1>3, <1>4, <2>1
<1>6. TextsOf(c) = Append(TextsOf(b), TextOf(m))
  BY <1>1, <1>3, <1>4, <1>5, SeqEqual
<1> QED BY <1>1, <1>6 DEF c

LEMMA TextsTaken ==
  ASSUME NEW b \in Seq(Messages), b # <<>>
  PROVE  /\ Tail(b) \in Seq(Messages) /\ Head(b) \in Messages
         /\ TextsOf(b) \in Seq(Seq(Nat)) /\ TextsOf(b) # <<>>
         /\ Head(TextsOf(b)) = TextOf(Head(b)) /\ TextsOf(Tail(b)) = Tail(TextsOf(b))
<1> DEFINE c == Tail(b)
<1>1. /\ c \in Seq(Messages) /\ Len(c) = Len(b) - 1 /\ Len(b) \in Nat /\ Len(b) > 0
      /\ Head(b) = b[1] /\ b[1] \in Messages /\ \A i \in 1..Len(c) : c[i] = b[i + 1]
  BY HeadTailProperties
<1> HIDE DEF c
<1>2. /\ TextsOf(b) \in Seq(Seq(Nat)) /\ Len(TextsOf(b)) = Len(b)
      /\ \A i \in 1..Len(b) : TextsOf(b)[i] = TextOf(b[i])
  BY TextsTyped
<1>3. /\ TextsOf(c) \in Seq(Seq(Nat)) /\ Len(TextsOf(c)) = Len(c)
      /\ \A i \in 1..Len(c) : TextsOf(c)[i] = TextOf(c[i])
  BY <1>1, TextsTyped
<1>4. TextsOf(b) # <<>> /\ Head(TextsOf(b)) = TextOf(Head(b))
  BY <1>1, <1>2
<1>5. /\ Tail(TextsOf(b)) \in Seq(Seq(Nat)) /\ Len(Tail(TextsOf(b))) = Len(b) - 1
      /\ \A i \in 1..Len(c) : Tail(TextsOf(b))[i] = TextsOf(b)[i + 1]
  BY <1>1, <1>2, <1>4, HeadTailProperties
<1>6. \A i \in 1..Len(c) : i + 1 \in 1..Len(b)
  BY <1>1
<1>7. TextsOf(c) = Tail(TextsOf(b))
  <2>1. ASSUME NEW i \in 1..Len(c) PROVE TextsOf(c)[i] = Tail(TextsOf(b))[i]
    <3>1. TextsOf(c)[i] = TextOf(b[i + 1])
      BY <1>1, <1>3
    <3>2. Tail(TextsOf(b))[i] = TextOf(b[i + 1])
      BY <1>2, <1>5, <1>6
    <3> QED BY <3>1, <3>2
  <2> QED BY <1>1, <1>3, <1>5, <2>1, SeqEqual
<1> QED BY <1>1, <1>2, <1>4, <1>7 DEF c

\* Pieces of text.
LEMMA PiecesAre ==
  ASSUME NEW a \in Nat \ {0}, NEW b \in Nat
  PROVE  /\ Pieces(a, b) \in Seq(Nat)
         /\ Len(Pieces(a, b)) = IF b >= a THEN b + 1 - a ELSE 0
         /\ \A k \in DOMAIN Pieces(a, b) : Pieces(a, b)[k] = a + k - 1
         /\ DOMAIN Pieces(a, b) = 1..(b + 1 - a)
<1> DEFINE n == IF b >= a THEN b + 1 - a ELSE 0
<1>1. n \in Nat /\ 1..(b + 1 - a) = 1..n
  OBVIOUS
<1> HIDE DEF n
<1>2. Pieces(a, b) = [i \in 1..n |-> a + i - 1]
  BY <1>1 DEF Pieces
<1>3. \A i \in 1..n : a + i - 1 \in Nat
  BY <1>1
<1>4. Pieces(a, b) \in Seq(Nat) /\ Len(Pieces(a, b)) = n /\ DOMAIN Pieces(a, b) = 1..n
  BY <1>1, <1>2, <1>3
<1> QED BY <1>1, <1>2, <1>4 DEF n

\* The property in terms of the three places.
LEMMA PartsOrdered ==
  ASSUME shown \in Seq(Seq(Nat)), sending.text \in Seq(Nat), inbox \in Seq(Messages)
  PROVE  /\ Ordered(shown, sending.text, Texts) => InOrder
         /\ \A x : x \in Seen <=> Shows(x)
<1> DEFINE m == Len(shown)
<1> DEFINE n == Len(Texts)
<1>1. Texts \in Seq(Seq(Nat)) /\ m \in Nat /\ n \in Nat /\ DOMAIN shown = 1..m /\ DOMAIN Texts = 1..n
  BY TextsAre, TextsTyped
<1>2. <<sending.text>> \in Seq(Seq(Nat)) /\ Len(<<sending.text>>) = 1 /\ <<sending.text>>[1] = sending.text
  OBVIOUS
<1>3. /\ shown \o <<sending.text>> \in Seq(Seq(Nat)) /\ Len(shown \o <<sending.text>>) = m + 1
      /\ \A i \in 1..(m + 1) : (shown \o <<sending.text>>)[i] = IF i <= m THEN shown[i] ELSE sending.text
  <2>1. \A i \in 1..(m + 1) : ~(i <= m) => i - m = 1
    BY <1>1
  <2>2. /\ shown \o <<sending.text>> \in Seq(Seq(Nat)) /\ Len(shown \o <<sending.text>>) = m + 1
        /\ \A i \in 1..(m + 1) : (shown \o <<sending.text>>)[i] =
                                  IF i <= m THEN shown[i] ELSE <<sending.text>>[i - m]
    BY <1>1, <1>2, ConcatProperties
  <2> QED BY <1>2, <2>1, <2>2
<1>4. /\ Parts \in Seq(Seq(Nat)) /\ Len(Parts) = m + 1 + n
      /\ \A i \in 1..(m + 1 + n) : Parts[i] = IF i <= m + 1 THEN (shown \o <<sending.text>>)[i]
                                              ELSE Texts[i - (m + 1)]
  BY <1>1, <1>3, ConcatProperties DEF Parts
<1>5. DOMAIN Parts = 1..(m + 1 + n)
  BY <1>1, <1>4
<1> HIDE DEF m, n
<1>6. ASSUME NEW i \in DOMAIN Parts
      PROVE  \/ i \in DOMAIN shown /\ Parts[i] = shown[i] /\ i <= m
             \/ i = m + 1 /\ Parts[i] = sending.text
             \/ i > m + 1 /\ i - (m + 1) \in DOMAIN Texts /\ Parts[i] = Texts[i - (m + 1)]
  <2>1. CASE i <= m
    BY <1>1, <1>3, <1>4, <1>5, <1>6, <2>1
  <2>2. CASE i = m + 1
    <3>1. i \in 1..(m + 1) /\ i \in 1..(m + 1 + n) /\ i <= m + 1 /\ ~(i <= m)
      BY <1>1, <2>2
    <3> QED BY <1>3, <1>4, <2>2, <3>1
  <2>3. CASE i > m + 1
    <3>1. i - (m + 1) \in 1..n
      BY <1>1, <1>5, <1>6, <2>3
    <3> QED BY <1>1, <1>4, <1>5, <1>6, <2>3, <3>1
  <2> QED BY <1>1, <1>5, <1>6, <2>1, <2>2, <2>3
<1>7. /\ \A i \in DOMAIN shown : i \in DOMAIN Parts /\ Parts[i] = shown[i]
      /\ m + 1 \in DOMAIN Parts /\ Parts[m + 1] = sending.text
      /\ \A i \in DOMAIN Texts : m + 1 + i \in DOMAIN Parts /\ Parts[m + 1 + i] = Texts[i]
  <2>1. ASSUME NEW i \in 1..m PROVE i \in DOMAIN Parts /\ Parts[i] = shown[i]
    BY <1>1, <1>3, <1>4, <1>5, <2>1
  <2>2. m + 1 \in DOMAIN Parts /\ Parts[m + 1] = sending.text
    BY <1>1, <1>3, <1>4, <1>5
  <2>3. ASSUME NEW i \in 1..n PROVE m + 1 + i \in DOMAIN Parts /\ Parts[m + 1 + i] = Texts[i]
    <3>1. PICK j : j = m + 1 + i
      OBVIOUS
    <3>2. j \in 1..(m + 1 + n) /\ ~(j <= m + 1) /\ j - (m + 1) = i
      BY <1>1, <2>3, <3>1
    <3> QED BY <1>4, <1>5, <3>1, <3>2
  <2> QED BY <1>1, <2>1, <2>2, <2>3
<1>8. ASSUME NEW x PROVE x \in Seen <=> Shows(x)
  <2>1. x \in Seen <=> \E i \in DOMAIN Parts : In(x, Parts[i])
    BY DEF Seen, Range, In
  <2>2. (\E i \in DOMAIN Parts : In(x, Parts[i])) => Shows(x)
    BY <1>6 DEF Shows, Has
  <2>3. Shows(x) => \E i \in DOMAIN Parts : In(x, Parts[i])
    BY <1>7 DEF Shows, Has
  <2> QED BY <2>1, <2>2, <2>3
<1>9. ASSUME Ordered(shown, sending.text, Texts) PROVE InOrder
  <2>1. ASSUME NEW i \in DOMAIN Parts PROVE Rising(Parts[i])
    BY <1>6, <1>9, <2>1 DEF Ordered
  <2>2. ASSUME NEW i \in DOMAIN Parts, NEW j \in DOMAIN Parts, i < j PROVE Before(Parts[i], Parts[j])
    <3>1. i \in Int /\ j \in Int /\ m \in Nat
      BY <1>1, <1>5, <2>2
    <3>2. CASE i \in DOMAIN shown /\ Parts[i] = shown[i]
      BY <1>6, <1>9, <2>2, <3>2 DEF Ordered
    <3>3. CASE i = m + 1 /\ Parts[i] = sending.text
      <4>1. j - (m + 1) \in DOMAIN Texts /\ Parts[j] = Texts[j - (m + 1)]
        BY <1>6, <2>2, <3>1, <3>3
      <4> QED BY <1>9, <3>3, <4>1 DEF Ordered
    <3>4. CASE i > m + 1 /\ i - (m + 1) \in DOMAIN Texts /\ Parts[i] = Texts[i - (m + 1)]
      <4>1. j - (m + 1) \in DOMAIN Texts /\ Parts[j] = Texts[j - (m + 1)]
        <5>1. ~(j <= m) /\ j # m + 1
          BY <2>2, <3>1, <3>4
        <5> QED BY <1>6, <5>1
      <4>2. i - (m + 1) < j - (m + 1)
        BY <2>2, <3>1
      <4> QED BY <1>9, <3>4, <4>1, <4>2 DEF Ordered
    <3> QED BY <1>6, <2>2, <3>2, <3>3, <3>4
  <2> QED BY <2>1, <2>2 DEF InOrder, Rising, Before
<1> QED BY <1>8, <1>9

-------------------------------------------------------------------------------
(* What a step does to the texts, and to the rest. *)

LEMMA TextsUntouched ==
  ASSUME StreamType, shown' = shown, sending'.text = sending.text, inbox' = inbox
  PROVE  /\ \A x \in Nat : Shows(x)' <=> Shows(x)
         /\ Ordered(shown, sending.text, Texts)' <=> Ordered(shown, sending.text, Texts)
         /\ Short => Short'
<1>1. Texts' = Texts
  BY TextsAre
<1> QED BY <1>1 DEF Shows, Has, Ordered, Short

\* A message enters the inbox.
LEMMA MessageSent ==
  ASSUME StreamType, NEW m \in Messages, inbox' = Append(inbox, m), shown' = shown, sending' = sending
  PROVE  /\ inbox' \in Seq(Messages)
         /\ \A x \in Nat : Shows(x)' <=> Shows(x) \/ In(x, TextOf(m))
         /\ Ordered(shown, sending.text, Texts) /\ Rising(TextOf(m))
              /\ (\A x \in Nat : Shows(x) => \A k \in DOMAIN TextOf(m) : x < TextOf(m)[k])
              => Ordered(shown, sending.text, Texts)'
         /\ Short /\ (m.kind # "text" => Len(m.text) <= Limit) => Short'
<1>1. inbox \in Seq(Messages) /\ shown \in Seq(Seq(Nat)) /\ sending.text \in Seq(Nat)
  BY DEF StreamType, TurnTyped, ChannelTyped, HistoryTyped, Messages
<1>2. /\ inbox' \in Seq(Messages) /\ Texts' = Append(Texts, TextOf(m))
      /\ Texts \in Seq(Seq(Nat)) /\ TextOf(m) \in Seq(Nat)
  BY <1>1, TextsAre, TextsAdded, TextsTyped
<1>3. \A x \in Nat : Shows(x)' <=> Shows(x) \/ In(x, TextOf(m))
  BY <1>1, <1>2, Enqueued DEF Shows
<1>4. Ordered(shown, sending.text, Texts) /\ Rising(TextOf(m))
        /\ (\A x \in Nat : Shows(x) => \A k \in DOMAIN TextOf(m) : x < TextOf(m)[k])
        => Ordered(shown, sending.text, Texts)'
  BY <1>1, <1>2, Enqueued DEF Shows
<1>5. ASSUME Short, m.kind # "text" => Len(m.text) <= Limit PROVE Short'
  <2>1. /\ Len(inbox) \in Nat /\ DOMAIN inbox = 1..Len(inbox) /\ DOMAIN inbox' = 1..(Len(inbox) + 1)
        /\ inbox'[Len(inbox) + 1] = m /\ \A i \in 1..Len(inbox) : inbox'[i] = inbox[i]
    BY <1>1
  <2>2. ASSUME NEW i \in 1..(Len(inbox) + 1) PROVE i \in 1..Len(inbox) \/ i = Len(inbox) + 1
    BY <2>1, <2>2
  <2> QED BY <1>5, <2>1, <2>2 DEF Short
<1> QED BY <1>2, <1>3, <1>4, <1>5

\* A message without text, or a draft, enters the inbox.
LEMMA OtherSent ==
  ASSUME StreamType, NEW m \in Messages, m.kind # "text", Len(m.text) <= Limit,
         inbox' = Append(inbox, m), shown' = shown, sending' = sending
  PROVE  /\ inbox' \in Seq(Messages)
         /\ \A x \in Nat : Shows(x)' <=> Shows(x)
         /\ Ordered(shown, sending.text, Texts) => Ordered(shown, sending.text, Texts)'
         /\ Short => Short'
<1>1. TextOf(m) = <<>> /\ DOMAIN <<>> = {}
  BY DEF TextOf
<1>2. Rising(TextOf(m)) /\ \A x : ~In(x, TextOf(m))
  BY <1>1 DEF Rising, In
<1> QED BY <1>1, <1>2, MessageSent

\* An error or a [tool] line is tried.
LEMMA ErrorTried ==
  ASSUME StreamType, NEW k \in Kinds \ {"text"}, trySend(k, <<>>), shown' = shown, sending' = sending
  PROVE  /\ inbox' \in Seq(Messages) /\ dropped' \in BOOLEAN /\ (dropped => dropped')
         /\ \A x \in Nat : Shows(x)' <=> Shows(x)
         /\ Ordered(shown, sending.text, Texts) => Ordered(shown, sending.text, Texts)'
         /\ Short => Short'
<1>1. dropped' \in BOOLEAN /\ (dropped => dropped')
  BY DEF trySend, StreamType, TurnTyped, ChannelTyped, HistoryTyped
<1>2. CASE inbox' = inbox
  BY <1>1, <1>2, TextsUntouched DEF StreamType, TurnTyped, ChannelTyped, HistoryTyped, Messages
<1>3. CASE inbox' = Append(inbox, Message(k, <<>>, 0))
  <2>1. /\ Message(k, <<>>, 0) \in Messages /\ Message(k, <<>>, 0).kind # "text"
        /\ Len(Message(k, <<>>, 0).text) <= Limit
    BY StreamAssumption DEF Message, Messages, Kinds
  <2> QED BY <1>1, <1>3, <2>1, OtherSent
<1> QED BY <1>2, <1>3 DEF trySend

\* The whole answer is tried.
LEMMA TextTried ==
  ASSUME StreamType, NEW t \in Seq(Nat), trySend("text", t), shown' = shown, sending' = sending
  PROVE  /\ inbox' \in Seq(Messages) /\ dropped' \in BOOLEAN /\ (dropped => dropped') /\ (Short => Short')
         /\ \A x \in Nat : Shows(x)' => Shows(x) \/ In(x, t)
         /\ ~dropped' => \A x \in Nat : Shows(x)' <=> Shows(x) \/ In(x, t)
         /\ Ordered(shown, sending.text, Texts) /\ Rising(t) /\ (\A x \in Nat : ~Shows(x))
              => Ordered(shown, sending.text, Texts)'
<1>1. dropped' \in BOOLEAN /\ (dropped => dropped')
  BY DEF trySend, StreamType, TurnTyped, ChannelTyped, HistoryTyped
<1>2. CASE ~Room
  <2>1. inbox' = inbox /\ dropped'
    BY <1>2 DEF trySend
  <2> QED BY <1>1, <2>1, TextsUntouched DEF StreamType, TurnTyped, ChannelTyped, HistoryTyped, Messages
<1>3. CASE Room
  <2>1. inbox' = Append(inbox, Message("text", t, 0))
    BY <1>3 DEF trySend
  <2>2. Message("text", t, 0) \in Messages /\ TextOf(Message("text", t, 0)) = t
        /\ Message("text", t, 0).kind = "text"
    BY DEF Message, Messages, Kinds, TextOf
  <2> QED BY <1>1, <2>1, <2>2, MessageSent
<1> QED BY <1>2, <1>3

\* What is given to the channel, and that it is a number.
LEMMA GivenIs == StreamType /\ BufInv => Given \in Nat
<1> SUFFICES ASSUME StreamType, BufInv PROVE Given \in Nat
  OBVIOUS
<1>1. Len(buf) \in Nat /\ Len(rest) \in Nat /\ said \in Nat
  <2>1. buf \in Seq(Nat) /\ rest \in Seq(Nat) /\ said \in Nat
    BY DEF StreamType, TurnTyped, ChannelTyped, HistoryTyped
  <2> QED BY <2>1, LenProperties
<1>2. pc \in Active => Len(buf) + Len(rest) <= said
  <2>1. CASE streams
    BY <2>1 DEF BufInv
  <2>2. CASE ~streams
    <3>1. Len(buf) = 0 /\ Len(rest) = 0
      BY <2>2 DEF BufInv
    <3> QED BY <1>1, <3>1
  <2> QED BY <2>1, <2>2
<1> QED BY <1>1, <1>2 DEF Given, Active

LEMMA GivenIsNext == StreamType' /\ BufInv' => Given' \in Nat
<1> SUFFICES ASSUME StreamType', BufInv' PROVE Given' \in Nat
  OBVIOUS
<1>1. Len(buf') \in Nat /\ Len(rest') \in Nat /\ said' \in Nat
  <2>1. buf' \in Seq(Nat) /\ rest' \in Seq(Nat) /\ said' \in Nat
    BY DEF StreamType, TurnTyped, ChannelTyped, HistoryTyped
  <2> QED BY <2>1, LenProperties
<1>2. pc' \in Active => Len(buf') + Len(rest') <= said'
  <2>1. CASE streams'
    BY <2>1 DEF BufInv
  <2>2. CASE ~streams'
    <3>1. Len(buf') = 0 /\ Len(rest') = 0
      BY <2>2 DEF BufInv
    <3> QED BY <1>1, <3>1
  <2> QED BY <2>1, <2>2
<1> QED BY <1>1, <1>2 DEF Given, Active

LEMMA UpTo == \A m, n \in Nat : \A x \in 1..m : x \in Nat /\ (m <= n => x \in 1..n)
OBVIOUS

\* No text is added.
LEMMA TextKept ==
  ASSUME TextInv, Given \in Nat, Given' \in Nat, Given <= Given',
         \A x \in Nat : Shows(x)' <=> Shows(x),
         Ordered(shown, sending.text, Texts) => Ordered(shown, sending.text, Texts)',
         UNCHANGED <<mode, streams>>, dropped => dropped', failed => failed', timedOut => timedOut',
         Fine' /\ ((streams /\ outcome' = "") \/ outcome' = "answered") =>
           Given' = Given /\ ((streams /\ outcome = "") \/ outcome = "answered"),
         mode = "cli" /\ outcome' = "" /\ ~delivered' => outcome = "" /\ ~delivered
  PROVE  TextInv'
<1>1. (Orderly' => Orderly) /\ (Fine' => Fine)
  BY DEF Orderly, Fine
<1>2. Orderly' => Ordered(shown, sending.text, Texts)' /\ \A x \in Nat : Shows(x)' => x \in 1..Given'
  <2> SUFFICES ASSUME Orderly'
               PROVE  Ordered(shown, sending.text, Texts)' /\ \A x \in Nat : Shows(x)' => x \in 1..Given'
    OBVIOUS
  <2>1. Ordered(shown, sending.text, Texts) /\ \A x \in Nat : Shows(x) => x \in 1..Given
    BY <1>1 DEF TextInv
  <2>2. \A x \in 1..Given : x \in 1..Given'
    BY UpTo
  <2> QED BY <2>1, <2>2
<1>3. Fine' /\ ((streams' /\ outcome' = "") \/ outcome' = "answered") => \A x \in 1..Given' : Shows(x)'
  <2> SUFFICES ASSUME Fine', (streams /\ outcome' = "") \/ outcome' = "answered"
               PROVE  \A x \in 1..Given' : Shows(x)'
    OBVIOUS
  <2>1. (Given' = Given) /\ \A x \in 1..Given : Shows(x)
    BY <1>1 DEF TextInv
  <2>2. \A x \in 1..Given : x \in Nat
    BY UpTo
  <2> QED BY <2>1, <2>2
<1>4. mode' = "cli" /\ outcome' = "" /\ ~delivered' => \A x \in Nat : ~Shows(x)'
  BY DEF TextInv
<1> QED BY <1>2, <1>3, <1>4 DEF TextInv

\* The turn goes on with its files untouched.
LEMMA FilesKept ==
  ASSUME FilesInv, UNCHANGED fileVars, pc \in Active, pc' \in Active \cup {"drain"}
  PROVE  FilesInv'
BY DEF FilesInv, fileVars, Active

-------------------------------------------------------------------------------
(* What a step of the turn does if it adds no text. *)

\* Lengths, and what is still to be given to the channel.
LEMMA Sizes ==
  ASSUME StreamType, BufInv
  PROVE  /\ Len(buf) \in Nat /\ Len(rest) \in Nat /\ said \in Nat /\ Given \in Nat /\ Given <= said
         /\ DOMAIN buf = 1..Len(buf) /\ DOMAIN rest = 1..Len(rest)
         /\ pc \in Active => Len(buf) + Len(rest) <= said
         /\ pc \in {"waiting", "flushed"} /\ rest = <<>> => Given = said
         /\ pc \notin Active => Given = said
<1>1. buf \in Seq(Nat) /\ rest \in Seq(Nat) /\ said \in Nat
  BY DEF StreamType, TurnTyped
<1>2. Len(buf) \in Nat /\ Len(rest) \in Nat /\ DOMAIN buf = 1..Len(buf) /\ DOMAIN rest = 1..Len(rest)
  BY <1>1
<1>3. pc \in Active => Len(buf) + Len(rest) <= said
  <2>1. CASE streams
    BY <2>1 DEF BufInv
  <2>2. CASE ~streams
    <3>1. Len(buf) = 0 /\ Len(rest) = 0
      BY <2>2 DEF BufInv
    <3> QED BY <1>1, <3>1
  <2> QED BY <2>1, <2>2
<1>4. Given \in Nat
  BY GivenIs
<1>5. Given <= said
  BY <1>1, <1>2 DEF Given
<1>6. pc \in {"waiting", "flushed"} /\ rest = <<>> => Given = said
  <2> SUFFICES ASSUME pc \in {"waiting", "flushed"}, rest = <<>> PROVE Given = said
    OBVIOUS
  <2>1. Given = said - Len(rest) /\ Len(<<>>) = 0
    BY DEF Given
  <2> QED BY <1>1, <2>1
<1>7. pc \notin Active => Given = said
  BY DEF Given, Active
<1> QED BY <1>1, <1>2, <1>3, <1>4, <1>5, <1>6, <1>7

\* The messages stay, but for one without text.
Silently ==
  /\ shown' = shown
  /\ \/ inbox' = inbox /\ dropped' \in {dropped, TRUE} /\ sending'.text = sending.text
     \/ (\E k \in {"tool", "error"} : trySend(k, <<>>)) /\ sending' = sending
     \/ /\ \E t \in Seq(Nat) : Len(t) <= Limit /\ inbox' = Append(inbox, Message("draft", t, 0))
        /\ dropped' = dropped /\ sending' = sending

LEMMA TextsStay ==
  ASSUME StreamType, Silently
  PROVE  /\ inbox' \in Seq(Messages) /\ dropped' \in BOOLEAN /\ (dropped => dropped')
         /\ \A x \in Nat : Shows(x)' <=> Shows(x)
         /\ Ordered(shown, sending.text, Texts) => Ordered(shown, sending.text, Texts)'
         /\ Short => Short'
<1>1. CASE inbox' = inbox /\ dropped' \in {dropped, TRUE} /\ sending'.text = sending.text
  <2>1. inbox' \in Seq(Messages) /\ dropped' \in BOOLEAN
    BY <1>1 DEF StreamType, ChannelTyped, HistoryTyped
  <2>2. shown' = shown /\ (dropped => dropped')
    BY <1>1 DEF StreamType, HistoryTyped, Silently
  <2> QED BY <1>1, <2>1, <2>2, TextsUntouched
<1>2. CASE (\E k \in {"tool", "error"} : trySend(k, <<>>)) /\ sending' = sending
  <2>1. PICK k \in {"tool", "error"} : trySend(k, <<>>)
    BY <1>2
  <2>2. k \in Kinds \ {"text"} /\ shown' = shown /\ sending' = sending
    BY <1>2, <2>1 DEF Kinds, Silently
  <2> QED BY <2>1, <2>2, ErrorTried
<1>3. CASE /\ \E t \in Seq(Nat) : Len(t) <= Limit /\ inbox' = Append(inbox, Message("draft", t, 0))
           /\ dropped' = dropped /\ sending' = sending
  <2>1. PICK t \in Seq(Nat) : Len(t) <= Limit /\ inbox' = Append(inbox, Message("draft", t, 0))
    BY <1>3
  <2>2. PICK m : m = Message("draft", t, 0)
    OBVIOUS
  <2>3. m \in Messages /\ m.kind # "text" /\ Len(m.text) <= Limit
    BY <2>1, <2>2 DEF Message, Messages, Kinds
  <2>4. inbox' = Append(inbox, m) /\ shown' = shown /\ sending' = sending
    BY <1>3, <2>1, <2>2 DEF Silently
  <2>5. dropped' \in BOOLEAN /\ (dropped => dropped')
    BY <1>3 DEF StreamType, HistoryTyped
  <2> QED BY <2>3, <2>4, <2>5, OtherSent
<1> QED BY <1>1, <1>2, <1>3 DEF Silently

\* Such a step keeps the invariant, if it is right about what has been said.
LEMMA SilentStep ==
  ASSUME DeliveryInv, Silently, TurnTyped', BufInv', IdInv',
         UNCHANGED <<flushes, result, noise, failed, mode, streams>>,
         sending' \in [text : Seq(Nat), rid : Nat, unread : BOOLEAN, refused : BOOLEAN],
         timedOut' \in BOOLEAN, unreadable' \in BOOLEAN, timedOut => timedOut',
         Given <= Given',
         Fine' /\ ((streams /\ outcome' = "") \/ outcome' = "answered") =>
           Given' = Given /\ ((streams /\ outcome = "") \/ outcome = "answered"),
         mode = "cli" /\ outcome' = "" /\ ~delivered' => outcome = "" /\ ~delivered
  PROVE  DeliveryInv'
<1>1. /\ inbox' \in Seq(Messages) /\ dropped' \in BOOLEAN /\ (dropped => dropped')
      /\ \A x \in Nat : Shows(x)' <=> Shows(x)
      /\ Ordered(shown, sending.text, Texts) => Ordered(shown, sending.text, Texts)'
      /\ Short => Short'
  BY TextsStay DEF DeliveryInv
<1>2. ChannelTyped'
  <2>1. flushes' \in Nat /\ result' \in {"none", "id", "zero"} /\ shown' \in Seq(Seq(Nat)) /\ noise' \in Nat
    BY DEF DeliveryInv, StreamType, ChannelTyped, Silently
  <2> QED BY <1>1, <2>1 DEF ChannelTyped
<1>3. HistoryTyped'
  <2>1. failed' \in BOOLEAN
    BY DEF DeliveryInv, StreamType, HistoryTyped
  <2> QED BY <1>1, <2>1 DEF HistoryTyped
<1>4. StreamType'
  BY <1>2, <1>3 DEF StreamType
<1>5. Given \in Nat /\ Given' \in Nat
  BY <1>4, GivenIs, GivenIsNext DEF DeliveryInv
<1>6. TextInv'
  BY <1>1, <1>5, TextKept DEF DeliveryInv
<1> QED BY <1>1, <1>4, <1>6 DEF DeliveryInv

-------------------------------------------------------------------------------
(* The stream. *)

\* The next pieces, after those that were accumulated.
LEMMA Accumulated ==
  ASSUME DeliveryInv, pc = "streaming", streams, NEW n \in Nat \ {0}
  PROVE  /\ buf \o Pieces(said + 1, said + n) \in Seq(Nat)
         /\ Len(buf \o Pieces(said + 1, said + n)) = Len(buf) + n
         /\ rest = <<>> /\ Len(rest) = 0 /\ Len(buf) \in Nat /\ Len(buf) <= said /\ said \in Nat
         /\ \A k \in 1..(Len(buf) + n) : (buf \o Pieces(said + 1, said + n))[k] = said - Len(buf) + k
<1>1. buf \in Seq(Nat) /\ said \in Nat /\ rest = <<>>
  BY DEF DeliveryInv, StreamType, TurnTyped, ChannelTyped, HistoryTyped, BufInv
<1>2. Len(rest) = 0 /\ Len(buf) \in Nat /\ DOMAIN buf = 1..Len(buf)
  BY <1>1
<1>3. Len(buf) <= said /\ \A k \in 1..Len(buf) : buf[k] = said - Len(buf) + k
  <2>1. /\ Len(buf) + Len(rest) <= said
        /\ \A k \in DOMAIN buf : buf[k] = said - Len(rest) - Len(buf) + k
    BY DEF DeliveryInv, BufInv, Active
  <2> QED BY <1>1, <1>2, <2>1
<1> DEFINE p == Pieces(said + 1, said + n)
<1>4. p \in Seq(Nat) /\ Len(p) = n /\ \A k \in 1..n : p[k] = said + k
  <2>1. said + 1 \in Nat \ {0} /\ said + n \in Nat /\ said + n >= said + 1 /\ said + n + 1 - (said + 1) = n
    BY <1>1
  <2>2. p \in Seq(Nat) /\ Len(p) = n /\ DOMAIN p = 1..n
    BY <2>1, PiecesAre
  <2>3. \A k \in DOMAIN p : p[k] = said + 1 + k - 1
    BY <2>1, PiecesAre
  <2> QED BY <1>1, <2>2, <2>3
<1> HIDE DEF p
<1>5. /\ buf \o p \in Seq(Nat) /\ Len(buf \o p) = Len(buf) + n
      /\ \A k \in 1..(Len(buf) + n) : (buf \o p)[k] = IF k <= Len(buf) THEN buf[k] ELSE p[k - Len(buf)]
  BY <1>1, <1>4, ConcatProperties
<1>6. ASSUME NEW k \in 1..(Len(buf) + n) PROVE (buf \o p)[k] = said - Len(buf) + k
  <2>1. CASE k <= Len(buf)
    BY <1>2, <1>3, <1>5, <1>6, <2>1
  <2>2. CASE ~(k <= Len(buf))
    <3>1. k - Len(buf) \in 1..n
      BY <1>2, <1>6, <2>2
    <3> QED BY <1>1, <1>2, <1>4, <1>5, <2>2, <3>1
  <2> QED BY <2>1, <2>2
<1> QED BY <1>1, <1>2, <1>3, <1>5, <1>6 DEF p

LEMMA DeltaKeeps == DeliveryInv /\ DeltaAccumulated => DeliveryInv'
<1> SUFFICES ASSUME DeliveryInv, DeltaAccumulated PROVE DeliveryInv'
  OBVIOUS
<1>1. PICK n \in Nat \ {0} :
        /\ said' = said + n /\ buf' = IF streams THEN buf \o Pieces(said + 1, said + n) ELSE buf
  BY StreamAssumption DEF DeltaAccumulated, Deltas
<1>2. UNCHANGED inbox \/ inbox' = Append(inbox, Message("draft", buf', 0))
  BY DEF DeltaAccumulated
<1>3. /\ pc = "streaming" /\ Len(buf') <= Limit
      /\ UNCHANGED <<mode, streams, pc, after, round, roundStart, rest, msgID, delivered, outcome,
                     flushes, result, sending, shown, noise, table, todo, own, files, gone, unreadable,
                     dropped, failed, timedOut>>
  BY DEF DeltaAccumulated, others, history, fileVars
<1>4. StreamType /\ BufInv /\ IdInv /\ Short /\ TextInv
  BY DEF DeliveryInv
<1>5. said \in Nat /\ buf \in Seq(Nat)
  BY <1>4 DEF StreamType, TurnTyped, ChannelTyped, HistoryTyped
<1>6. outcome = "" /\ rest = <<>>
  BY <1>3, <1>4 DEF BufInv, Active
<1>7. Len(rest) = 0 /\ Len(rest') = 0 /\ DOMAIN rest' = {}
  <2>1. rest' = <<>>
    BY <1>3, <1>6
  <2>2. Len(<<>>) = 0 /\ DOMAIN <<>> = {}
    OBVIOUS
  <2> QED BY <1>6, <2>1, <2>2
<1>8. said' = said + n /\ n \in Nat /\ n > 0
  BY <1>1
<1>9. streams => /\ buf' \in Seq(Nat) /\ Len(buf') = Len(buf) + n
                 /\ Len(buf) \in Nat /\ Len(buf) <= said
                 /\ \A k \in 1..(Len(buf) + n) : buf'[k] = said - Len(buf) + k
  BY <1>1, <1>3, Accumulated
<1>10. ~streams => buf = <<>> /\ buf' = <<>>
  BY <1>1, <1>4 DEF BufInv
<1>11. buf' \in Seq(Nat)
  BY <1>1, <1>9, <1>5
<1>12. Silently
  BY <1>2, <1>3, <1>11 DEF Silently
<1>13. TurnTyped'
  <2>1. said' \in Nat
    BY <1>5, <1>8
  <2> QED BY <1>3, <1>4, <1>11, <2>1 DEF StreamType, TurnTyped
<1>14. BufInv'
  <2>1. CASE streams
    <3>1. /\ Len(buf') + Len(rest') <= said'
          /\ \A k \in DOMAIN buf' : buf'[k] = said' - Len(rest') - Len(buf') + k
          /\ \A k \in DOMAIN rest' : rest'[k] = said' - Len(rest') + k
      <4>1. DOMAIN buf' = 1..Len(buf')
        BY <1>11
      <4>2. /\ Len(buf') = Len(buf) + n /\ Len(buf) \in Nat /\ Len(buf) <= said
            /\ \A k \in 1..(Len(buf) + n) : buf'[k] = said - Len(buf) + k
        BY <1>9, <2>1
      <4>3. \A k \in 1..Len(buf') : buf'[k] = said' - Len(rest') - Len(buf') + k
        BY <1>5, <1>7, <1>8, <4>2
      <4> QED BY <1>5, <1>7, <1>8, <4>1, <4>2, <4>3
    <3>2. buf' # <<>>
      BY <1>9, <2>1
    <3>3. rest' = <<>> /\ outcome' = ""
      BY <1>3, <1>6
    <3> QED BY <1>3, <1>4, <2>1, <3>1, <3>2, <3>3 DEF BufInv, Active
  <2>2. CASE ~streams
    BY <1>3, <1>4, <1>10, <1>6, <2>2 DEF BufInv, Active
  <2> QED BY <2>1, <2>2
<1>15. Given <= Given' /\ (streams => Given' = Given)
  <2>1. Given = said - Len(buf) /\ Given' = said' - Len(buf')
    <3>1. Given = said - Len(rest) - Len(buf) /\ Given' = said' - Len(rest') - Len(buf')
      BY <1>3 DEF Given
    <3>2. Len(buf) \in Nat /\ Len(buf') \in Nat /\ said' \in Nat
      BY <1>11, <1>5, <1>8
    <3> QED BY <1>5, <1>7, <1>8, <3>1, <3>2
  <2>2. streams => Len(buf') = Len(buf) + n /\ Len(buf) \in Nat
    BY <1>9
  <2>3. ~streams => Len(buf) = 0 /\ Len(buf') = 0
    BY <1>10
  <2> QED BY <1>5, <1>8, <2>1, <2>2, <2>3
<1>16. IdInv'
  BY <1>3, <1>4 DEF IdInv
<1>17. /\ sending' \in [text : Seq(Nat), rid : Nat, unread : BOOLEAN, refused : BOOLEAN]
       /\ timedOut' \in BOOLEAN /\ unreadable' \in BOOLEAN
  BY <1>3, <1>4 DEF StreamType, ChannelTyped, HistoryTyped
<1>18. /\ UNCHANGED <<flushes, result, noise, failed, timedOut, mode, streams>>
       /\ outcome = "" /\ outcome' = "" /\ delivered' = delivered
  BY <1>3, <1>6
<1> QED BY <1>12, <1>13, <1>14, <1>15, <1>16, <1>17, <1>18, SilentStep

-------------------------------------------------------------------------------
(* The files, step by step. *)

LEMMA FilesStep == FilesInv /\ [StreamNext]_streamVars => FilesInv'
<1> SUFFICES ASSUME FilesInv, [StreamNext]_streamVars PROVE FilesInv'
  OBVIOUS
<1>1. CASE DeltaAccumulated
  <2>1. UNCHANGED fileVars /\ pc \in Active /\ pc' \in Active \cup {"drain"}
    BY <1>1 DEF DeltaAccumulated, others, fileVars, Active
  <2> QED BY <2>1, FilesKept
<1>2. CASE DeltaOverflows
  <2>1. UNCHANGED fileVars /\ pc \in Active /\ pc' \in Active \cup {"drain"}
    BY <1>2 DEF DeltaOverflows, others, fileVars, Active
  <2> QED BY <2>1, FilesKept
<1>3. CASE ToolUse
  <2>1. UNCHANGED fileVars /\ pc \in Active /\ pc' \in Active \cup {"drain"}
    BY <1>3 DEF ToolUse, others, fileVars, Active
  <2> QED BY <2>1, FilesKept
<1>4. CASE StreamEnds
  <2>1. UNCHANGED fileVars /\ pc \in Active /\ pc' \in Active \cup {"drain"}
    BY <1>4 DEF StreamEnds, others, fileVars, Active
  <2> QED BY <2>1, FilesKept
<1>5. CASE StreamFails
  <2>1. UNCHANGED fileVars /\ pc \in Active /\ pc' \in Active \cup {"drain"}
    BY <1>5 DEF StreamFails, others, fileVars, Active
  <2> QED BY <2>1, FilesKept
<1>6. CASE FlushNothing
  <2>1. UNCHANGED fileVars /\ pc \in Active /\ pc' \in Active \cup {"drain"}
    BY <1>6 DEF FlushNothing, others, fileVars, Active
  <2> QED BY <2>1, FilesKept
<1>7. CASE FlushDropped
  <2>1. UNCHANGED fileVars /\ pc \in Active /\ pc' \in Active \cup {"drain"}
    BY <1>7 DEF FlushDropped, others, fileVars, Active
  <2> QED BY <2>1, FilesKept
<1>8. CASE FlushEnqueued
  <2>1. UNCHANGED fileVars /\ pc \in Active /\ pc' \in Active \cup {"drain"}
    BY <1>8 DEF FlushEnqueued, others, fileVars, Active
  <2> QED BY <2>1, FilesKept
<1>9. CASE FlushAnswered
  <2>1. UNCHANGED fileVars /\ pc \in Active /\ pc' \in Active \cup {"drain"}
    BY <1>9 DEF FlushAnswered, others, fileVars, Active
  <2> QED BY <2>1, FilesKept
<1>10. CASE FlushTimesOut
  <2>1. UNCHANGED fileVars /\ pc \in Active /\ pc' \in Active \cup {"drain"}
    BY <1>10 DEF FlushTimesOut, others, fileVars, Active
  <2> QED BY <2>1, FilesKept
<1>11. CASE AfterOverflow
  <2>1. UNCHANGED fileVars /\ pc \in Active /\ pc' \in Active \cup {"drain"}
    BY <1>11 DEF AfterOverflow, others, fileVars, Active
  <2> QED BY <2>1, FilesKept
<1>12. CASE AfterTool
  <2>1. UNCHANGED fileVars /\ pc \in Active /\ pc' \in Active \cup {"drain"}
    BY <1>12 DEF AfterTool, others, fileVars, Active
  <2> QED BY <2>1, FilesKept
<1>13. CASE ApiToolRound
  <2>1. UNCHANGED fileVars /\ pc \in Active /\ pc' \in Active \cup {"drain"}
    BY <1>13 DEF ApiToolRound, others, fileVars, Active
  <2> QED BY <2>1, FilesKept
<1>14. CASE ApiAnswer
  <2>1. UNCHANGED fileVars /\ pc \in Active /\ pc' \in Active \cup {"drain"}
    BY <1>14 DEF ApiAnswer, others, fileVars, Active
  <2> QED BY <2>1, FilesKept
<1>15. CASE CliAnswer
  <2>1. UNCHANGED fileVars /\ pc \in Active /\ pc' \in Active \cup {"drain"}
    BY <1>15 DEF CliAnswer, others, fileVars, Active
  <2> QED BY <2>1, FilesKept
<1>16. CASE ChannelSends
  <2>1. UNCHANGED fileVars /\ pc' = pc
    BY <1>16 DEF ChannelSends, turnAndFiles, fileVars
  <2> QED BY <2>1 DEF FilesInv, fileVars
<1>17. CASE ChannelFails
  <2>1. UNCHANGED fileVars /\ pc' = pc
    BY <1>17 DEF ChannelFails, turnAndFiles, fileVars
  <2> QED BY <2>1 DEF FilesInv, fileVars
<1>18. CASE NextChunk
  <2>1. UNCHANGED fileVars /\ pc' = pc
    BY <1>18 DEF NextChunk, turnAndFiles, fileVars
  <2> QED BY <2>1 DEF FilesInv, fileVars
<1>19. CASE ChunkFails
  <2>1. UNCHANGED fileVars /\ pc' = pc
    BY <1>19 DEF ChunkFails, turnAndFiles, fileVars
  <2> QED BY <2>1 DEF FilesInv, fileVars
<1>20. CASE SecondAnswerTaken
  <2>1. UNCHANGED fileVars /\ pc' = pc
    BY <1>20 DEF SecondAnswerTaken, turnAndFiles, fileVars
  <2> QED BY <2>1 DEF FilesInv, fileVars
<1>21. CASE OtherSends
  <2>1. UNCHANGED fileVars /\ pc' = pc
    BY <1>21 DEF OtherSends, fileVars
  <2> QED BY <2>1 DEF FilesInv, fileVars
<1>22. CASE ChannelSendsDocument
  <2>1. /\ pc = "documents" /\ UNCHANGED <<pc, table, own, files, unreadable>>
        /\ todo \cup gone \subseteq todo' \cup gone'
    BY <1>22 DEF ChannelSendsDocument, turnAndFiles
  <2> QED BY <2>1 DEF FilesInv, Active
<1>23. CASE QueueFile
  <2>1. /\ files' = files + 1 /\ table' = table \cup {files + 1} /\ UNCHANGED <<pc, todo, gone, unreadable>>
        /\ own' = own \/ (pc = "streaming" /\ own' = own \cup {files + 1})
    BY <1>23 DEF QueueFile
  <2>2. files \in Nat /\ 1..(files + 1) = (1..files) \cup {files + 1}
    BY DEF FilesInv
  <2>3. files' \in Nat /\ own' \subseteq 1..files' /\ 1..files' \subseteq table' \cup todo' \cup gone'
    <3>1. 1..files' = (1..files) \cup {files'} /\ files' \in Nat
      BY <2>1, <2>2
    <3>2. own \subseteq 1..files /\ 1..files \subseteq table \cup todo \cup gone
      BY DEF FilesInv
    <3> QED BY <2>1, <3>1, <3>2
  <2> QED BY <2>1, <2>3 DEF FilesInv, Active
<1>24. CASE DrainPendingFiles
  BY <1>24 DEF DrainPendingFiles, beforeDrain, FilesInv, Active
<1>25. CASE DeleteDrained
  BY <1>25 DEF DeleteDrained, beforeDrain, FilesInv, Active
<1>26. CASE DocumentsSent
  BY <1>26 DEF DocumentsSent, beforeDrain, FilesInv, Active
<1>27. CASE UNCHANGED streamVars
  BY <1>27 DEF streamVars, fileVars, FilesInv
<1> QED BY <1>1, <1>2, <1>3, <1>4, <1>5, <1>6, <1>7, <1>8, <1>9, <1>10, <1>11, <1>12, <1>13, <1>14, <1>15, <1>16, <1>17, <1>18, <1>19, <1>20, <1>21, <1>22, <1>23, <1>24, <1>25, <1>26, <1>27 DEF StreamNext, Turn, Stream, Flush, Drain, Run

-------------------------------------------------------------------------------
(* Steps of the turn that say nothing. *)

LEMMA ToolUseKeeps == DeliveryInv /\ ToolUse => DeliveryInv'
<1> SUFFICES ASSUME DeliveryInv, ToolUse PROVE DeliveryInv'
  OBVIOUS
<1>1. TurnTyped /\ ChannelTyped /\ HistoryTyped /\ StreamType /\ BufInv /\ IdInv
  BY DEF DeliveryInv, StreamType
<1>2. /\ pc = "streaming" /\ mode = "cli" /\ pc' = "flush" /\ after' = "tool" /\ round' = round + 1
      /\ UNCHANGED <<mode, streams, said, roundStart, buf, rest, msgID, delivered, outcome, flushes, result, sending, noise, failed, timedOut, unreadable>>
  BY DEF ToolUse, turnVars, others, fileVars, history, turnAndFiles, beforeDrain
<1>3. Silently
  BY DEF ToolUse, Silently, others, history, fileVars, beforeDrain, turnVars
<1>4. TurnTyped'
  <2>1. round' \in Nat
    <3>1. round \in Nat
      BY <1>1 DEF TurnTyped
    <3>2. round' = round + 1
      BY <1>2
    <3> QED BY <3>1, <3>2
  <2> QED BY <1>1, <1>2, <2>1 DEF TurnTyped, Active
<1>5. BufInv'
  BY <1>1, <1>2 DEF BufInv, Active
<1>6. IdInv'
  BY <1>1, <1>2 DEF IdInv
<1>7. Given <= Given' /\ (Fine' /\ ((streams /\ outcome' = "") \/ outcome' = "answered") =>
        Given' = Given /\ ((streams /\ outcome = "") \/ outcome = "answered"))
  <2>1. Given' = Given
    BY <1>2 DEF Given
  <2>2. outcome' = outcome /\ Given \in Nat
    BY <1>1, <1>2, Sizes
  <2>3. outcome = ""
    BY <1>1, <1>2 DEF BufInv, Active
  <2>4. Given <= Given'
    BY <2>1, <2>2
  <2> QED BY <2>1, <2>2, <2>3, <2>4
<1>8. /\ sending' \in [text : Seq(Nat), rid : Nat, unread : BOOLEAN, refused : BOOLEAN]
      /\ timedOut' \in BOOLEAN /\ unreadable' \in BOOLEAN /\ (timedOut => timedOut')
  BY <1>1, <1>2 DEF ChannelTyped, HistoryTyped
<1>9. mode = "cli" /\ outcome' = "" /\ ~delivered' => outcome = "" /\ ~delivered
  BY <1>1, <1>2 DEF BufInv, Active
<1> QED BY <1>2, <1>3, <1>4, <1>5, <1>6, <1>7, <1>8, <1>9, SilentStep

LEMMA StreamEndsKeeps == DeliveryInv /\ StreamEnds => DeliveryInv'
<1> SUFFICES ASSUME DeliveryInv, StreamEnds PROVE DeliveryInv'
  OBVIOUS
<1>1. TurnTyped /\ ChannelTyped /\ HistoryTyped /\ StreamType /\ BufInv /\ IdInv
  BY DEF DeliveryInv, StreamType
<1>2. /\ pc = "streaming" /\ pc' = "flush" /\ after' = "final"
      /\ UNCHANGED <<mode, streams, round, said, roundStart, buf, rest, msgID, delivered, outcome, flushes, result, sending, noise, failed, timedOut, unreadable>>
  BY DEF StreamEnds, turnVars, others, fileVars, history, turnAndFiles, beforeDrain
<1>3. Silently
  BY DEF StreamEnds, Silently, others, history, fileVars, beforeDrain, turnVars
<1>4. TurnTyped'
  BY <1>1, <1>2 DEF TurnTyped, Active
<1>5. BufInv'
  BY <1>1, <1>2 DEF BufInv, Active
<1>6. IdInv'
  BY <1>1, <1>2 DEF IdInv
<1>7. Given <= Given' /\ (Fine' /\ ((streams /\ outcome' = "") \/ outcome' = "answered") =>
        Given' = Given /\ ((streams /\ outcome = "") \/ outcome = "answered"))
  <2>1. Given' = Given
    BY <1>2 DEF Given
  <2>2. outcome' = outcome /\ Given \in Nat
    BY <1>1, <1>2, Sizes
  <2>3. outcome = ""
    BY <1>1, <1>2 DEF BufInv, Active
  <2>4. Given <= Given'
    BY <2>1, <2>2
  <2> QED BY <2>1, <2>2, <2>3, <2>4
<1>8. /\ sending' \in [text : Seq(Nat), rid : Nat, unread : BOOLEAN, refused : BOOLEAN]
      /\ timedOut' \in BOOLEAN /\ unreadable' \in BOOLEAN /\ (timedOut => timedOut')
  BY <1>1, <1>2 DEF ChannelTyped, HistoryTyped
<1>9. mode = "cli" /\ outcome' = "" /\ ~delivered' => outcome = "" /\ ~delivered
  BY <1>1, <1>2 DEF BufInv, Active
<1> QED BY <1>2, <1>3, <1>4, <1>5, <1>6, <1>7, <1>8, <1>9, SilentStep

LEMMA StreamFailsKeeps == DeliveryInv /\ StreamFails => DeliveryInv'
<1> SUFFICES ASSUME DeliveryInv, StreamFails PROVE DeliveryInv'
  OBVIOUS
<1>1. TurnTyped /\ ChannelTyped /\ HistoryTyped /\ StreamType /\ BufInv /\ IdInv
  BY DEF DeliveryInv, StreamType
<1>2. /\ pc = "streaming" /\ pc' = "drain" /\ outcome' = "error"
      /\ UNCHANGED <<mode, streams, after, round, said, roundStart, buf, rest, msgID, delivered, flushes, result, sending, noise, failed, timedOut, unreadable>>
  BY DEF StreamFails, turnVars, others, fileVars, history, turnAndFiles, beforeDrain
<1>3. Silently
  BY DEF StreamFails, Silently, others, history, fileVars, beforeDrain, turnVars
<1>4. TurnTyped'
  BY <1>1, <1>2 DEF TurnTyped, Active
<1>5. BufInv'
  BY <1>1, <1>2 DEF BufInv, Active
<1>6. IdInv'
  BY <1>1, <1>2 DEF IdInv
<1>7. Given <= Given' /\ (Fine' /\ ((streams /\ outcome' = "") \/ outcome' = "answered") =>
        Given' = Given /\ ((streams /\ outcome = "") \/ outcome = "answered"))
  <2>1. Given' = said
    BY <1>2 DEF Given
  <2> QED BY <1>1, <1>2, <2>1, Sizes
<1>8. /\ sending' \in [text : Seq(Nat), rid : Nat, unread : BOOLEAN, refused : BOOLEAN]
      /\ timedOut' \in BOOLEAN /\ unreadable' \in BOOLEAN /\ (timedOut => timedOut')
  BY <1>1, <1>2 DEF ChannelTyped, HistoryTyped
<1>9. mode = "cli" /\ outcome' = "" /\ ~delivered' => outcome = "" /\ ~delivered
  BY <1>1, <1>2 DEF BufInv, Active
<1> QED BY <1>2, <1>3, <1>4, <1>5, <1>6, <1>7, <1>8, <1>9, SilentStep

LEMMA FlushNothingKeeps == DeliveryInv /\ FlushNothing => DeliveryInv'
<1> SUFFICES ASSUME DeliveryInv, FlushNothing PROVE DeliveryInv'
  OBVIOUS
<1>1. TurnTyped /\ ChannelTyped /\ HistoryTyped /\ StreamType /\ BufInv /\ IdInv
  BY DEF DeliveryInv, StreamType
<1>2. /\ pc = "flush" /\ pc' = "flushed" /\ buf = <<>>
      /\ UNCHANGED <<mode, streams, after, round, said, roundStart, buf, rest, msgID, delivered, outcome, flushes, result, sending, noise, failed, timedOut, unreadable>>
  BY DEF FlushNothing, turnVars, others, fileVars, history, turnAndFiles, beforeDrain
<1>3. Silently
  BY DEF FlushNothing, Silently, others, history, fileVars, beforeDrain, turnVars
<1>4. TurnTyped'
  BY <1>1, <1>2 DEF TurnTyped, Active
<1>5. BufInv'
  BY <1>1, <1>2 DEF BufInv, Active
<1>6. IdInv'
  BY <1>1, <1>2 DEF IdInv
<1>7. Given <= Given' /\ (Fine' /\ ((streams /\ outcome' = "") \/ outcome' = "answered") =>
        Given' = Given /\ ((streams /\ outcome = "") \/ outcome = "answered"))
  <2>1. Given = said - Len(rest) - Len(buf) /\ Given' = said - Len(rest)
    BY <1>2 DEF Given
  <2>2. Len(buf) = 0 /\ Len(rest) \in Nat /\ said \in Nat
    BY <1>1, <1>2, Sizes
  <2>3. outcome' = outcome /\ outcome = ""
    BY <1>1, <1>2 DEF BufInv, Active
  <2>4. Given <= Given' /\ Given = Given'
    BY <2>1, <2>2
  <2> QED BY <2>3, <2>4
<1>8. /\ sending' \in [text : Seq(Nat), rid : Nat, unread : BOOLEAN, refused : BOOLEAN]
      /\ timedOut' \in BOOLEAN /\ unreadable' \in BOOLEAN /\ (timedOut => timedOut')
  BY <1>1, <1>2 DEF ChannelTyped, HistoryTyped
<1>9. mode = "cli" /\ outcome' = "" /\ ~delivered' => outcome = "" /\ ~delivered
  BY <1>1, <1>2 DEF BufInv, Active
<1> QED BY <1>2, <1>3, <1>4, <1>5, <1>6, <1>7, <1>8, <1>9, SilentStep

LEMMA FlushDroppedKeeps == DeliveryInv /\ FlushDropped => DeliveryInv'
<1> SUFFICES ASSUME DeliveryInv, FlushDropped PROVE DeliveryInv'
  OBVIOUS
<1>1. TurnTyped /\ ChannelTyped /\ HistoryTyped /\ StreamType /\ BufInv /\ IdInv
  BY DEF DeliveryInv, StreamType
<1>2. /\ pc = "flush" /\ pc' = "flushed" /\ buf # <<>> /\ dropped'
      /\ UNCHANGED <<mode, streams, after, round, said, roundStart, buf, rest, msgID, delivered, outcome, flushes, result, sending, noise, failed, timedOut, unreadable>>
  BY DEF FlushDropped, turnVars, others, fileVars, history, turnAndFiles, beforeDrain
<1>3. Silently
  BY DEF FlushDropped, Silently, others, history, fileVars, beforeDrain, turnVars
<1>4. TurnTyped'
  BY <1>1, <1>2 DEF TurnTyped, Active
<1>5. BufInv'
  BY <1>1, <1>2 DEF BufInv, Active
<1>6. IdInv'
  BY <1>1, <1>2 DEF IdInv
<1>7. Given <= Given' /\ (Fine' /\ ((streams /\ outcome' = "") \/ outcome' = "answered") =>
        Given' = Given /\ ((streams /\ outcome = "") \/ outcome = "answered"))
  <2>1. Given = said - Len(rest) - Len(buf) /\ Given' = said - Len(rest)
    BY <1>2 DEF Given
  <2>2. Len(buf) \in Nat /\ Len(rest) \in Nat /\ said \in Nat
    BY <1>1, Sizes
  <2>3. Given <= Given'
    BY <2>1, <2>2
  <2>4. ~Fine'
    BY <1>2 DEF Fine
  <2> QED BY <2>3, <2>4
<1>8. /\ sending' \in [text : Seq(Nat), rid : Nat, unread : BOOLEAN, refused : BOOLEAN]
      /\ timedOut' \in BOOLEAN /\ unreadable' \in BOOLEAN /\ (timedOut => timedOut')
  BY <1>1, <1>2 DEF ChannelTyped, HistoryTyped
<1>9. mode = "cli" /\ outcome' = "" /\ ~delivered' => outcome = "" /\ ~delivered
  BY <1>1, <1>2 DEF BufInv, Active
<1> QED BY <1>2, <1>3, <1>4, <1>5, <1>6, <1>7, <1>8, <1>9, SilentStep

LEMMA FlushTimesOutKeeps == DeliveryInv /\ FlushTimesOut => DeliveryInv'
<1> SUFFICES ASSUME DeliveryInv, FlushTimesOut PROVE DeliveryInv'
  OBVIOUS
<1>1. TurnTyped /\ ChannelTyped /\ HistoryTyped /\ StreamType /\ BufInv /\ IdInv
  BY DEF DeliveryInv, StreamType
<1>2. /\ pc = "waiting" /\ pc' = "flushed" /\ msgID' = "lost" /\ timedOut' = TRUE
      /\ UNCHANGED <<mode, streams, after, round, said, roundStart, buf, rest, delivered, outcome, flushes, result, sending, noise, failed, unreadable>>
  BY DEF FlushTimesOut, turnVars, others, fileVars, history, turnAndFiles, beforeDrain
<1>3. Silently
  BY DEF FlushTimesOut, Silently, others, history, fileVars, beforeDrain, turnVars
<1>4. TurnTyped'
  BY <1>1, <1>2 DEF TurnTyped, Active
<1>5. BufInv'
  BY <1>1, <1>2 DEF BufInv, Active
<1>6. IdInv'
  BY <1>1, <1>2 DEF IdInv
<1>7. Given <= Given' /\ (Fine' /\ ((streams /\ outcome' = "") \/ outcome' = "answered") =>
        Given' = Given /\ ((streams /\ outcome = "") \/ outcome = "answered"))
  <2>1. Given' = said - Len(rest) /\ Given = said - Len(rest)
    BY <1>2 DEF Given
  <2>2. Len(rest) \in Nat /\ said \in Nat
    BY <1>1, Sizes
  <2>3. Given <= Given' /\ Given = Given'
    BY <2>1, <2>2
  <2>4. outcome' = outcome /\ outcome = ""
    BY <1>1, <1>2 DEF BufInv, Active
  <2> QED BY <2>3, <2>4
<1>8. /\ sending' \in [text : Seq(Nat), rid : Nat, unread : BOOLEAN, refused : BOOLEAN]
      /\ timedOut' \in BOOLEAN /\ unreadable' \in BOOLEAN /\ (timedOut => timedOut')
  BY <1>1, <1>2 DEF ChannelTyped, HistoryTyped
<1>9. mode = "cli" /\ outcome' = "" /\ ~delivered' => outcome = "" /\ ~delivered
  BY <1>1, <1>2 DEF BufInv, Active
<1> QED BY <1>2, <1>3, <1>4, <1>5, <1>6, <1>7, <1>8, <1>9, SilentStep

LEMMA FlushAnsweredKeeps == DeliveryInv /\ FlushAnswered => DeliveryInv'
<1> SUFFICES ASSUME DeliveryInv, FlushAnswered PROVE DeliveryInv'
  OBVIOUS
<1>1. TurnTyped /\ ChannelTyped /\ HistoryTyped /\ StreamType /\ BufInv /\ IdInv
  BY DEF DeliveryInv, StreamType
<1>2. /\ pc = "waiting" /\ pc' = "flushed" /\ result # "none" /\ msgID' = (IF result = "id" THEN "some" ELSE "none")
      /\ sending' = [sending EXCEPT !.unread = @ /\ sending.rid # flushes]
      /\ UNCHANGED <<mode, streams, after, round, said, roundStart, buf, rest, delivered, outcome, flushes, result, noise, failed, timedOut, unreadable>>
  BY DEF FlushAnswered, turnVars, others, fileVars, history, turnAndFiles, beforeDrain
<1>3. Silently
  BY DEF FlushAnswered, Silently, others, history, fileVars, beforeDrain, turnVars
<1>4. TurnTyped'
  BY <1>1, <1>2 DEF TurnTyped, Active
<1>5. BufInv'
  BY <1>1, <1>2 DEF BufInv, Active
<1>6. IdInv'
  <2>1. result \in {"id", "zero"} /\ (result = "zero" => failed) /\ (sending.refused => failed)
    BY <1>1, <1>2 DEF ChannelTyped, IdInv
  <2>2. sending'.refused = sending.refused
    BY <1>1, <1>2 DEF ChannelTyped
  <2>3. msgID' # "lost" /\ (msgID' = "none" => failed')
    BY <1>2, <2>1
  <2> QED BY <1>2, <2>1, <2>2, <2>3 DEF IdInv
<1>7. Given <= Given' /\ (Fine' /\ ((streams /\ outcome' = "") \/ outcome' = "answered") =>
        Given' = Given /\ ((streams /\ outcome = "") \/ outcome = "answered"))
  <2>1. Given' = said - Len(rest) /\ Given = said - Len(rest)
    BY <1>2 DEF Given
  <2>2. Len(rest) \in Nat /\ said \in Nat
    BY <1>1, Sizes
  <2>3. Given <= Given' /\ Given = Given'
    BY <2>1, <2>2
  <2>4. outcome' = outcome /\ outcome = ""
    BY <1>1, <1>2 DEF BufInv, Active
  <2> QED BY <2>3, <2>4
<1>8. /\ sending' \in [text : Seq(Nat), rid : Nat, unread : BOOLEAN, refused : BOOLEAN]
      /\ timedOut' \in BOOLEAN /\ unreadable' \in BOOLEAN /\ (timedOut => timedOut')
  BY <1>1, <1>2 DEF ChannelTyped, HistoryTyped
<1>9. mode = "cli" /\ outcome' = "" /\ ~delivered' => outcome = "" /\ ~delivered
  BY <1>1, <1>2 DEF BufInv, Active
<1> QED BY <1>2, <1>3, <1>4, <1>5, <1>6, <1>7, <1>8, <1>9, SilentStep

LEMMA DrainPendingFilesKeeps == DeliveryInv /\ DrainPendingFiles => DeliveryInv'
<1> SUFFICES ASSUME DeliveryInv, DrainPendingFiles PROVE DeliveryInv'
  OBVIOUS
<1>1. TurnTyped /\ ChannelTyped /\ HistoryTyped /\ StreamType /\ BufInv /\ IdInv
  BY DEF DeliveryInv, StreamType
<1>2. /\ pc = "drain" /\ pc' \in {"delete", "returned"} /\ unreadable' \in {unreadable, TRUE}
      /\ UNCHANGED <<mode, streams, after, round, said, roundStart, buf, rest, msgID, delivered, outcome, flushes, result, sending, noise, failed, timedOut>>
  BY DEF DrainPendingFiles, turnVars, others, fileVars, history, turnAndFiles, beforeDrain
<1>3. Silently
  BY DEF DrainPendingFiles, Silently, others, history, fileVars, beforeDrain, turnVars
<1>4. TurnTyped'
  BY <1>1, <1>2 DEF TurnTyped, Active
<1>5. BufInv'
  BY <1>1, <1>2 DEF BufInv, Active
<1>6. IdInv'
  BY <1>1, <1>2 DEF IdInv
<1>7. Given <= Given' /\ (Fine' /\ ((streams /\ outcome' = "") \/ outcome' = "answered") =>
        Given' = Given /\ ((streams /\ outcome = "") \/ outcome = "answered"))
  <2>1. Given' = said /\ Given = said /\ said \in Nat
    <3>1. Given' = said /\ Given = said
      BY <1>2 DEF Given
    <3> QED BY <1>1, <3>1, Sizes
  <2>2. outcome' = outcome /\ outcome # ""
    BY <1>1, <1>2 DEF BufInv, Active
  <2>3. Given <= Given' /\ Given' = Given
    BY <2>1
  <2> QED BY <2>2, <2>3
<1>8. /\ sending' \in [text : Seq(Nat), rid : Nat, unread : BOOLEAN, refused : BOOLEAN]
      /\ timedOut' \in BOOLEAN /\ unreadable' \in BOOLEAN /\ (timedOut => timedOut')
  BY <1>1, <1>2 DEF ChannelTyped, HistoryTyped
<1>9. mode = "cli" /\ outcome' = "" /\ ~delivered' => outcome = "" /\ ~delivered
  BY <1>1, <1>2 DEF BufInv, Active
<1> QED BY <1>2, <1>3, <1>4, <1>5, <1>6, <1>7, <1>8, <1>9, SilentStep

LEMMA DeleteDrainedKeeps == DeliveryInv /\ DeleteDrained => DeliveryInv'
<1> SUFFICES ASSUME DeliveryInv, DeleteDrained PROVE DeliveryInv'
  OBVIOUS
<1>1. TurnTyped /\ ChannelTyped /\ HistoryTyped /\ StreamType /\ BufInv /\ IdInv
  BY DEF DeliveryInv, StreamType
<1>2. /\ pc = "delete" /\ pc' = "documents"
      /\ UNCHANGED <<mode, streams, after, round, said, roundStart, buf, rest, msgID, delivered, outcome, flushes, result, sending, noise, failed, timedOut, unreadable>>
  BY DEF DeleteDrained, turnVars, others, fileVars, history, turnAndFiles, beforeDrain
<1>3. Silently
  BY DEF DeleteDrained, Silently, others, history, fileVars, beforeDrain, turnVars
<1>4. TurnTyped'
  BY <1>1, <1>2 DEF TurnTyped, Active
<1>5. BufInv'
  BY <1>1, <1>2 DEF BufInv, Active
<1>6. IdInv'
  BY <1>1, <1>2 DEF IdInv
<1>7. Given <= Given' /\ (Fine' /\ ((streams /\ outcome' = "") \/ outcome' = "answered") =>
        Given' = Given /\ ((streams /\ outcome = "") \/ outcome = "answered"))
  <2>1. Given' = said /\ Given = said /\ said \in Nat
    <3>1. Given' = said /\ Given = said
      BY <1>2 DEF Given
    <3> QED BY <1>1, <3>1, Sizes
  <2>2. outcome' = outcome /\ outcome # ""
    BY <1>1, <1>2 DEF BufInv, Active
  <2>3. Given <= Given' /\ Given' = Given
    BY <2>1
  <2> QED BY <2>2, <2>3
<1>8. /\ sending' \in [text : Seq(Nat), rid : Nat, unread : BOOLEAN, refused : BOOLEAN]
      /\ timedOut' \in BOOLEAN /\ unreadable' \in BOOLEAN /\ (timedOut => timedOut')
  BY <1>1, <1>2 DEF ChannelTyped, HistoryTyped
<1>9. mode = "cli" /\ outcome' = "" /\ ~delivered' => outcome = "" /\ ~delivered
  BY <1>1, <1>2 DEF BufInv, Active
<1> QED BY <1>2, <1>3, <1>4, <1>5, <1>6, <1>7, <1>8, <1>9, SilentStep

LEMMA DocumentsSentKeeps == DeliveryInv /\ DocumentsSent => DeliveryInv'
<1> SUFFICES ASSUME DeliveryInv, DocumentsSent PROVE DeliveryInv'
  OBVIOUS
<1>1. TurnTyped /\ ChannelTyped /\ HistoryTyped /\ StreamType /\ BufInv /\ IdInv
  BY DEF DeliveryInv, StreamType
<1>2. /\ pc = "documents" /\ pc' = "returned"
      /\ UNCHANGED <<mode, streams, after, round, said, roundStart, buf, rest, msgID, delivered, outcome, flushes, result, sending, noise, failed, timedOut, unreadable>>
  BY DEF DocumentsSent, turnVars, others, fileVars, history, turnAndFiles, beforeDrain
<1>3. Silently
  BY DEF DocumentsSent, Silently, others, history, fileVars, beforeDrain, turnVars
<1>4. TurnTyped'
  BY <1>1, <1>2 DEF TurnTyped, Active
<1>5. BufInv'
  BY <1>1, <1>2 DEF BufInv, Active
<1>6. IdInv'
  BY <1>1, <1>2 DEF IdInv
<1>7. Given <= Given' /\ (Fine' /\ ((streams /\ outcome' = "") \/ outcome' = "answered") =>
        Given' = Given /\ ((streams /\ outcome = "") \/ outcome = "answered"))
  <2>1. Given' = said /\ Given = said /\ said \in Nat
    <3>1. Given' = said /\ Given = said
      BY <1>2 DEF Given
    <3> QED BY <1>1, <3>1, Sizes
  <2>2. outcome' = outcome /\ outcome # ""
    BY <1>1, <1>2 DEF BufInv, Active
  <2>3. Given <= Given' /\ Given' = Given
    BY <2>1
  <2> QED BY <2>2, <2>3
<1>8. /\ sending' \in [text : Seq(Nat), rid : Nat, unread : BOOLEAN, refused : BOOLEAN]
      /\ timedOut' \in BOOLEAN /\ unreadable' \in BOOLEAN /\ (timedOut => timedOut')
  BY <1>1, <1>2 DEF ChannelTyped, HistoryTyped
<1>9. mode = "cli" /\ outcome' = "" /\ ~delivered' => outcome = "" /\ ~delivered
  BY <1>1, <1>2 DEF BufInv, Active
<1> QED BY <1>2, <1>3, <1>4, <1>5, <1>6, <1>7, <1>8, <1>9, SilentStep

LEMMA AfterToolKeeps == DeliveryInv /\ AfterTool => DeliveryInv'
<1> SUFFICES ASSUME DeliveryInv, AfterTool PROVE DeliveryInv'
  OBVIOUS
<1>1. TurnTyped /\ ChannelTyped /\ HistoryTyped /\ StreamType /\ BufInv /\ IdInv
  BY DEF DeliveryInv, StreamType
<1>2. /\ pc = "flushed" /\ pc' = "streaming" /\ after = "tool" /\ msgID' = "none" /\ buf' = <<>>
      /\ UNCHANGED <<mode, streams, after, round, said, roundStart, rest, delivered, outcome, flushes, result, sending, noise, failed, timedOut, unreadable>>
  BY DEF AfterTool, turnVars, others, fileVars, history, turnAndFiles, beforeDrain
<1>3. Silently
  BY DEF AfterTool, Silently, others, history, fileVars, beforeDrain, turnVars
<1>4. TurnTyped'
  <2>1. buf' \in Seq(Nat)
    BY <1>2
  <2> QED BY <1>1, <1>2, <2>1 DEF TurnTyped, Active
<1>5. BufInv'
  <2>1. rest = <<>> /\ rest' = <<>> /\ mode = "cli" /\ outcome = ""
    BY <1>1, <1>2 DEF BufInv, Active
  <2>2. Len(buf') = 0 /\ Len(rest') = 0 /\ DOMAIN buf' = {} /\ DOMAIN rest' = {}
    <3>1. Len(<<>>) = 0 /\ DOMAIN <<>> = {}
      OBVIOUS
    <3> QED BY <1>2, <2>1, <3>1
  <2>3. Len(buf') + Len(rest') <= said'
    <3>1. said' \in Nat
      BY <1>4 DEF TurnTyped
    <3> QED BY <2>2, <3>1
  <2> QED BY <1>1, <1>2, <2>1, <2>2, <2>3 DEF BufInv, Active
<1>6. IdInv'
  BY <1>1, <1>2 DEF IdInv
<1>7. Given <= Given' /\ (Fine' /\ ((streams /\ outcome' = "") \/ outcome' = "answered") =>
        Given' = Given /\ ((streams /\ outcome = "") \/ outcome = "answered"))
  <2>1. rest = <<>> /\ outcome = ""
    BY <1>1, <1>2 DEF BufInv, Active
  <2>2. Given = said /\ said \in Nat
    BY <1>1, <1>2, <2>1, Sizes
  <2>3. Given' = said - Len(<<>>) - Len(<<>>)
    BY <1>2, <2>1 DEF Given
  <2>4. Given <= Given' /\ Given' = Given
    BY <2>2, <2>3
  <2> QED BY <1>2, <2>1, <2>4
<1>8. /\ sending' \in [text : Seq(Nat), rid : Nat, unread : BOOLEAN, refused : BOOLEAN]
      /\ timedOut' \in BOOLEAN /\ unreadable' \in BOOLEAN /\ (timedOut => timedOut')
  BY <1>1, <1>2 DEF ChannelTyped, HistoryTyped
<1>9. mode = "cli" /\ outcome' = "" /\ ~delivered' => outcome = "" /\ ~delivered
  BY <1>1, <1>2 DEF BufInv, Active
<1> QED BY <1>2, <1>3, <1>4, <1>5, <1>6, <1>7, <1>8, <1>9, SilentStep

LEMMA AfterOverflowKeeps == DeliveryInv /\ AfterOverflow => DeliveryInv'
<1> SUFFICES ASSUME DeliveryInv, AfterOverflow PROVE DeliveryInv'
  OBVIOUS
<1>1. TurnTyped /\ ChannelTyped /\ HistoryTyped /\ StreamType /\ BufInv /\ IdInv
  BY DEF DeliveryInv, StreamType
<1>2. /\ pc = "flushed" /\ pc' = "streaming" /\ after = "overflow" /\ msgID' = "none"
      /\ buf' = rest /\ rest' = <<>>
      /\ UNCHANGED <<mode, streams, after, round, said, roundStart, delivered, outcome, flushes, result, sending, noise, failed, timedOut, unreadable>>
  BY DEF AfterOverflow, turnVars, others, fileVars, history, turnAndFiles, beforeDrain
<1>3. Silently
  BY DEF AfterOverflow, Silently, others, history, fileVars, beforeDrain, turnVars
<1>4. TurnTyped'
  <2>1. buf' \in Seq(Nat) /\ rest' \in Seq(Nat)
    <3>1. rest \in Seq(Nat)
      BY <1>1 DEF TurnTyped
    <3> QED BY <1>2, <3>1
  <2> QED BY <1>1, <1>2, <2>1 DEF TurnTyped, Active
<1>5. BufInv'
  <2>1. rest # <<>> /\ outcome = "" /\ streams
    BY <1>1, <1>2 DEF BufInv, Active
  <2>2. /\ Len(buf) \in Nat /\ Len(rest) \in Nat /\ said \in Nat /\ Len(buf) + Len(rest) <= said
        /\ \A k \in DOMAIN rest : rest[k] = said - Len(rest) + k
        /\ DOMAIN rest = 1..Len(rest)
    <3>1. \A k \in DOMAIN rest : rest[k] = said - Len(rest) + k
      BY <1>1, <1>2, <2>1 DEF BufInv, Active
    <3> QED BY <1>1, <1>2, <3>1, Sizes DEF Active
  <2>3. Len(rest') = 0 /\ DOMAIN rest' = {} /\ Len(buf') = Len(rest) /\ DOMAIN buf' = DOMAIN rest
    <3>1. Len(<<>>) = 0 /\ DOMAIN <<>> = {}
      OBVIOUS
    <3> QED BY <1>2, <3>1
  <2>4. /\ Len(buf') + Len(rest') <= said'
        /\ \A k \in DOMAIN buf' : buf'[k] = said' - Len(rest') - Len(buf') + k
    BY <1>2, <2>2, <2>3
  <2> QED BY <1>1, <1>2, <2>1, <2>3, <2>4 DEF BufInv, Active
<1>6. IdInv'
  BY <1>1, <1>2 DEF IdInv
<1>7. Given <= Given' /\ (Fine' /\ ((streams /\ outcome' = "") \/ outcome' = "answered") =>
        Given' = Given /\ ((streams /\ outcome = "") \/ outcome = "answered"))
  <2>1. outcome = "" /\ outcome' = ""
    BY <1>1, <1>2 DEF BufInv, Active
  <2>2. Len(rest) \in Nat /\ said \in Nat
    BY <1>1, Sizes
  <2>3. Given' = said - Len(<<>>) - Len(rest) /\ Given = said - Len(rest)
    BY <1>2 DEF Given
  <2>4. Given <= Given' /\ Given' = Given
    BY <2>2, <2>3
  <2> QED BY <1>2, <2>1, <2>4
<1>8. /\ sending' \in [text : Seq(Nat), rid : Nat, unread : BOOLEAN, refused : BOOLEAN]
      /\ timedOut' \in BOOLEAN /\ unreadable' \in BOOLEAN /\ (timedOut => timedOut')
  BY <1>1, <1>2 DEF ChannelTyped, HistoryTyped
<1>9. mode = "cli" /\ outcome' = "" /\ ~delivered' => outcome = "" /\ ~delivered
  BY <1>1, <1>2 DEF BufInv, Active
<1> QED BY <1>2, <1>3, <1>4, <1>5, <1>6, <1>7, <1>8, <1>9, SilentStep

LEMMA ApiRoundKeeps == DeliveryInv /\ ApiToolRound /\ round < MaxRounds => DeliveryInv'
<1> SUFFICES ASSUME DeliveryInv, ApiToolRound /\ round < MaxRounds PROVE DeliveryInv'
  OBVIOUS
<1>1. TurnTyped /\ ChannelTyped /\ HistoryTyped /\ StreamType /\ BufInv /\ IdInv
  BY DEF DeliveryInv, StreamType
<1>2. /\ pc = "flushed" /\ after = "final" /\ mode = "api" /\ pc' = "streaming" /\ msgID' = "none" /\ buf' = <<>>
      /\ round' = round + 1 /\ roundStart' = said + 1
      /\ UNCHANGED <<mode, streams, after, said, rest, delivered, outcome, flushes, result, sending, noise, failed, timedOut, unreadable>>
  BY DEF ApiToolRound, turnVars, others, fileVars, history, turnAndFiles, beforeDrain
<1>3. Silently
  BY DEF ApiToolRound, Silently, others, history, fileVars, beforeDrain, turnVars
<1>4. TurnTyped'
  <2>1. round' \in Nat /\ roundStart' \in Nat \ {0} /\ buf' \in Seq(Nat)
    <3>1. round \in Nat /\ said \in Nat
      BY <1>1 DEF TurnTyped
    <3>2. round' = round + 1 /\ roundStart' = said + 1 /\ buf' = <<>>
      BY <1>2
    <3> QED BY <3>1, <3>2
  <2> QED BY <1>1, <1>2, <2>1 DEF TurnTyped, Active
<1>5. BufInv'
  <2>1. rest = <<>> /\ rest' = <<>> /\ outcome = ""
    BY <1>1, <1>2 DEF BufInv, Active
  <2>2. Len(buf') = 0 /\ Len(rest') = 0 /\ DOMAIN buf' = {} /\ DOMAIN rest' = {}
    <3>1. Len(<<>>) = 0 /\ DOMAIN <<>> = {}
      OBVIOUS
    <3> QED BY <1>2, <2>1, <3>1
  <2>3. Len(buf') + Len(rest') <= said' /\ ~(said' >= roundStart')
    <3>1. said \in Nat /\ said' = said /\ roundStart' = said + 1
      BY <1>1, <1>2 DEF TurnTyped
    <3> QED BY <2>2, <3>1
  <2> QED BY <1>1, <1>2, <2>1, <2>2, <2>3 DEF BufInv, Active
<1>6. IdInv'
  BY <1>1, <1>2 DEF IdInv
<1>7. Given <= Given' /\ (Fine' /\ ((streams /\ outcome' = "") \/ outcome' = "answered") =>
        Given' = Given /\ ((streams /\ outcome = "") \/ outcome = "answered"))
  <2>1. rest = <<>> /\ outcome = ""
    BY <1>1, <1>2 DEF BufInv, Active
  <2>2. Given = said /\ said \in Nat
    BY <1>1, <1>2, <2>1, Sizes
  <2>3. Given' = said - Len(<<>>) - Len(<<>>)
    BY <1>2, <2>1 DEF Given
  <2>4. Given <= Given' /\ Given' = Given
    BY <2>2, <2>3
  <2> QED BY <1>2, <2>1, <2>4
<1>8. /\ sending' \in [text : Seq(Nat), rid : Nat, unread : BOOLEAN, refused : BOOLEAN]
      /\ timedOut' \in BOOLEAN /\ unreadable' \in BOOLEAN /\ (timedOut => timedOut')
  BY <1>1, <1>2 DEF ChannelTyped, HistoryTyped
<1>9. mode = "cli" /\ outcome' = "" /\ ~delivered' => outcome = "" /\ ~delivered
  BY <1>1, <1>2 DEF BufInv, Active
<1> QED BY <1>2, <1>3, <1>4, <1>5, <1>6, <1>7, <1>8, <1>9, SilentStep

LEMMA ApiLimitKeeps == DeliveryInv /\ ApiToolRound /\ ~(round < MaxRounds) => DeliveryInv'
<1> SUFFICES ASSUME DeliveryInv, ApiToolRound /\ ~(round < MaxRounds) PROVE DeliveryInv'
  OBVIOUS
<1>1. TurnTyped /\ ChannelTyped /\ HistoryTyped /\ StreamType /\ BufInv /\ IdInv
  BY DEF DeliveryInv, StreamType
<1>2. /\ pc = "flushed" /\ after = "final" /\ mode = "api" /\ pc' = "drain" /\ outcome' = "limit"
      /\ UNCHANGED <<mode, streams, after, round, said, roundStart, buf, rest, msgID, delivered, flushes, result, sending, noise, failed, timedOut, unreadable>>
  BY DEF ApiToolRound, turnVars, others, fileVars, history, turnAndFiles, beforeDrain
<1>3. Silently
  BY DEF ApiToolRound, Silently, others, history, fileVars, beforeDrain, turnVars
<1>4. TurnTyped'
  BY <1>1, <1>2 DEF TurnTyped, Active
<1>5. BufInv'
  BY <1>1, <1>2 DEF BufInv, Active
<1>6. IdInv'
  BY <1>1, <1>2 DEF IdInv
<1>7. Given <= Given' /\ (Fine' /\ ((streams /\ outcome' = "") \/ outcome' = "answered") =>
        Given' = Given /\ ((streams /\ outcome = "") \/ outcome = "answered"))
  <2>1. Given' = said
    BY <1>2 DEF Given
  <2> QED BY <1>1, <1>2, <2>1, Sizes
<1>8. /\ sending' \in [text : Seq(Nat), rid : Nat, unread : BOOLEAN, refused : BOOLEAN]
      /\ timedOut' \in BOOLEAN /\ unreadable' \in BOOLEAN /\ (timedOut => timedOut')
  BY <1>1, <1>2 DEF ChannelTyped, HistoryTyped
<1>9. mode = "cli" /\ outcome' = "" /\ ~delivered' => outcome = "" /\ ~delivered
  BY <1>1, <1>2 DEF BufInv, Active
<1> QED BY <1>2, <1>3, <1>4, <1>5, <1>6, <1>7, <1>8, <1>9, SilentStep

\* Both ways to end a round of tool calls.
LEMMA ApiToolRoundKeeps == DeliveryInv /\ ApiToolRound => DeliveryInv'
BY ApiRoundKeeps, ApiLimitKeeps

-------------------------------------------------------------------------------
(* Steps of the turn that say something. *)

\* The answer as a text.
LEMMA AnswersAre ==
  ASSUME DeliveryInv
  PROVE  /\ Answer \in Seq(Nat) /\ Rising(Answer) /\ (mode = "api" /\ Answer # <<>> => said >= roundStart)
         /\ mode = "cli" => \A x \in Nat : In(x, Answer) <=> x \in 1..said
<1>1. said \in Nat /\ roundStart \in Nat \ {0} /\ mode \in {"api", "cli"}
  BY DEF DeliveryInv, StreamType, TurnTyped
<1>2. PICK a \in Nat \ {0} : /\ a = IF mode = "api" THEN roundStart ELSE 1
                             /\ Answer = Pieces(a, said)
  BY <1>1 DEF Answer
<1>3. /\ Answer \in Seq(Nat)
      /\ Len(Answer) = IF said >= a THEN said + 1 - a ELSE 0
      /\ \A k \in DOMAIN Answer : Answer[k] = a + k - 1
      /\ DOMAIN Answer = 1..(said + 1 - a)
  BY <1>1, <1>2, PiecesAre
<1>4. Rising(Answer)
  <2>1. \A k, l \in DOMAIN Answer : k < l => a + k - 1 < a + l - 1
    BY <1>1, <1>2, <1>3
  <2> QED BY <1>3, <2>1 DEF Rising
<1>5. Answer # <<>> => said >= a
  <2>1. Len(Answer) = 0 => Answer = <<>>
    BY <1>3, EmptySeq
  <2> QED BY <1>1, <1>3, <2>1
<1>6. ASSUME mode = "cli", NEW x \in Nat PROVE In(x, Answer) <=> x \in 1..said
  <2>1. a = 1
    BY <1>2, <1>6
  <2>2. DOMAIN Answer = 1..said /\ \A k \in 1..said : Answer[k] = k
    BY <1>1, <1>3, <2>1
  <2> QED BY <2>2 DEF In
<1> QED BY <1>2, <1>3, <1>4, <1>5, <1>6

\* The turn is over, with or without an answer.
LEMMA TurnIsOver ==
  ASSUME DeliveryInv, pc = "flushed", after = "final", pc' = "drain", outcome' = "answered",
         UNCHANGED <<mode, streams, after, round, said, roundStart, buf, rest, msgID, delivered, flushes,
                     result, sending, shown, noise, failed, timedOut, unreadable>>
  PROVE  /\ TurnTyped' /\ BufInv' /\ IdInv' /\ Given = said /\ Given' = said /\ said \in Nat
         /\ outcome = "" /\ rest = <<>>
<1>1. TurnTyped /\ StreamType /\ BufInv /\ IdInv
  BY DEF DeliveryInv, StreamType
<1>2. TurnTyped'
  BY <1>1 DEF TurnTyped
<1>3. rest = <<>> /\ outcome = ""
  BY <1>1 DEF BufInv, Active
<1>4. BufInv'
  BY <1>1 DEF BufInv, Active
<1>5. IdInv'
  BY <1>1 DEF IdInv
<1>6. Given = said /\ said \in Nat
  BY <1>1, <1>3, Sizes
<1>7. Given' = said
  BY DEF Given
<1> QED BY <1>2, <1>3, <1>4, <1>5, <1>6, <1>7

LEMMA AnswerTyped ==
  ASSUME DeliveryInv, TurnTyped', inbox' \in Seq(Messages), dropped' \in BOOLEAN,
         UNCHANGED <<flushes, result, sending, shown, noise, failed, timedOut, unreadable>>
  PROVE  StreamType'
<1>1. ChannelTyped'
  BY DEF DeliveryInv, StreamType, ChannelTyped
<1>2. HistoryTyped'
  BY DEF DeliveryInv, StreamType, HistoryTyped
<1> QED BY <1>1, <1>2 DEF StreamType

LEMMA ApiAnswerKeeps == DeliveryInv /\ ApiAnswer => DeliveryInv'
<1> SUFFICES ASSUME DeliveryInv, ApiAnswer PROVE DeliveryInv'
  OBVIOUS
<1>1. /\ pc = "flushed" /\ after = "final" /\ pc' = "drain" /\ outcome' = "answered" /\ mode = "api"
      /\ UNCHANGED <<mode, streams, after, round, said, roundStart, buf, rest, msgID, delivered, flushes,
                     result, sending, shown, noise, failed, timedOut, unreadable>>
  BY DEF ApiAnswer, others, fileVars
<1>2. /\ TurnTyped' /\ BufInv' /\ IdInv' /\ Given = said /\ Given' = said /\ said \in Nat
      /\ outcome = "" /\ rest = <<>>
  BY <1>1, TurnIsOver
<1>3. Given = said /\ Given' = said /\ said \in Nat
  BY <1>2
<1>4. StreamType /\ BufInv /\ IdInv /\ Short
  BY DEF DeliveryInv
<1>5. CASE msgID # "some" /\ Answer # <<>>
  <2>1. trySend("text", Answer)
    BY <1>5 DEF ApiAnswer
  <2>2. Answer \in Seq(Nat) /\ said >= roundStart
    BY <1>1, <1>5, AnswersAre
  <2>3. inbox' \in Seq(Messages) /\ dropped' \in BOOLEAN /\ (dropped => dropped') /\ Short'
    BY <1>1, <1>4, <2>1, <2>2, TextTried
  <2>4. StreamType'
    BY <1>1, <1>2, <2>3, AnswerTyped
  <2>5. buf # <<>>
    BY <1>1, <1>4, <2>2 DEF BufInv, Active
  <2>6. msgID \in {"none", "lost"}
    BY <1>4, <1>5 DEF StreamType, TurnTyped
  <2>7. dropped \/ failed \/ timedOut
    BY <1>1, <1>4, <2>5, <2>6 DEF IdInv
  <2>8. ~Orderly' /\ ~Fine' /\ mode' # "cli"
    BY <1>1, <2>3, <2>7 DEF Orderly, Fine
  <2>9. TextInv'
    BY <2>8 DEF TextInv
  <2> QED BY <1>2, <2>3, <2>4, <2>9 DEF DeliveryInv
<1>6. CASE ~(msgID # "some" /\ Answer # <<>>)
  <2>1. inbox' = inbox /\ dropped' = dropped
    BY <1>6 DEF ApiAnswer
  <2>2. Silently
    BY <1>1, <2>1 DEF Silently
  <2>3. streams
    BY <1>1, <1>4 DEF BufInv
  <2>4. Given <= Given' /\ Given' = Given
    BY <1>3
  <2>5. /\ sending' \in [text : Seq(Nat), rid : Nat, unread : BOOLEAN, refused : BOOLEAN]
        /\ timedOut' \in BOOLEAN /\ unreadable' \in BOOLEAN /\ (timedOut => timedOut')
    BY <1>1, <1>4 DEF StreamType, ChannelTyped, HistoryTyped
  <2> QED BY <1>1, <1>2, <2>2, <2>3, <2>4, <2>5, SilentStep
<1> QED BY <1>5, <1>6

LEMMA CliAnswerKeeps == DeliveryInv /\ CliAnswer => DeliveryInv'
<1> SUFFICES ASSUME DeliveryInv, CliAnswer PROVE DeliveryInv'
  OBVIOUS
<1>1. /\ pc = "flushed" /\ after = "final" /\ pc' = "drain" /\ outcome' = "answered" /\ mode = "cli"
      /\ UNCHANGED <<mode, streams, after, round, said, roundStart, buf, rest, msgID, delivered, flushes,
                     result, sending, shown, noise, failed, timedOut, unreadable>>
  BY DEF CliAnswer, others, fileVars
<1>2. /\ TurnTyped' /\ BufInv' /\ IdInv' /\ Given = said /\ Given' = said /\ said \in Nat
      /\ outcome = "" /\ rest = <<>>
  BY <1>1, TurnIsOver
<1>3. Given = said /\ Given' = said /\ said \in Nat
  BY <1>2
<1>4. StreamType /\ BufInv /\ IdInv /\ Short /\ TextInv
  BY DEF DeliveryInv
<1>5. Answer \in Seq(Nat) /\ Rising(Answer) /\ \A x \in Nat : In(x, Answer) <=> x \in 1..said
  BY <1>1, AnswersAre
<1>6. /\ sending' \in [text : Seq(Nat), rid : Nat, unread : BOOLEAN, refused : BOOLEAN]
      /\ timedOut' \in BOOLEAN /\ unreadable' \in BOOLEAN /\ (timedOut => timedOut')
  BY <1>1, <1>4 DEF StreamType, ChannelTyped, HistoryTyped
<1>7. CASE Answer # <<>> /\ ~delivered /\ trySend("text", Answer)
  <2>1. \A x \in Nat : ~Shows(x)
    BY <1>1, <1>2, <1>4, <1>7 DEF TextInv
  <2>2. Ordered(shown, sending.text, Texts)
    BY <1>1, <1>4 DEF TextInv, Orderly
  <2>3. /\ inbox' \in Seq(Messages) /\ dropped' \in BOOLEAN /\ Short'
        /\ \A x \in Nat : Shows(x)' => x \in 1..said
        /\ ~dropped' => \A x \in Nat : Shows(x)' <=> x \in 1..said
        /\ Ordered(shown, sending.text, Texts)'
    BY <1>1, <1>4, <1>5, <1>7, <2>1, <2>2, TextTried
  <2>4. StreamType'
    BY <1>1, <1>2, <2>3, AnswerTyped
  <2>5. \A x \in 1..Given' : x \in Nat
    BY <1>3
  <2>6. Fine' => ~dropped'
    BY DEF Fine
  <2>7. TextInv'
    BY <1>1, <1>2, <2>3, <2>5, <2>6 DEF TextInv
  <2> QED BY <1>2, <2>3, <2>4, <2>7 DEF DeliveryInv
<1>8. CASE Answer # <<>> /\ delivered /\ UNCHANGED <<inbox, dropped>>
  <2>1. Silently
    BY <1>1, <1>8 DEF Silently
  <2>2. streams
    BY <1>4, <1>8 DEF BufInv
  <2>3. Given <= Given' /\ Given' = Given
    BY <1>3
  <2> QED BY <1>1, <1>2, <1>6, <2>1, <2>2, <2>3, SilentStep
<1>9. CASE Answer = <<>> /\ (UNCHANGED <<inbox, dropped>> \/ trySend("error", <<>>))
  <2>1. Silently
    BY <1>1, <1>9 DEF Silently
  <2>2. /\ inbox' \in Seq(Messages) /\ dropped' \in BOOLEAN /\ Short'
        /\ \A x \in Nat : Shows(x)' <=> Shows(x)
        /\ Ordered(shown, sending.text, Texts) => Ordered(shown, sending.text, Texts)'
    BY <1>4, <2>1, TextsStay
  <2>3. StreamType'
    BY <1>1, <1>2, <2>2, AnswerTyped
  <2>4. Orderly
    BY <1>1 DEF Orderly
  <2>5. 1..Given' = {} /\ Given = Given'
    <3>1. \A x \in Nat : ~In(x, Answer)
      <4>1. DOMAIN <<>> = {}
        OBVIOUS
      <4> QED BY <1>9, <4>1 DEF In
    <3>2. ~(1 \in 1..said)
      BY <1>5, <3>1
    <3> QED BY <1>3, <3>2
  <2>6. TextInv'
    BY <1>1, <1>4, <2>2, <2>4, <2>5 DEF TextInv
  <2> QED BY <1>2, <2>2, <2>3, <2>6 DEF DeliveryInv
<1> QED BY <1>7, <1>8, <1>9 DEF CliAnswer

LEMMA FlushEnqueuedKeeps == DeliveryInv /\ FlushEnqueued => DeliveryInv'
<1> SUFFICES ASSUME DeliveryInv, FlushEnqueued PROVE DeliveryInv'
  OBVIOUS
<1>1. /\ pc = "flush" /\ buf # <<>> /\ pc' = "waiting" /\ delivered' = TRUE /\ flushes' = flushes + 1
      /\ result' = "none" /\ inbox' = Append(inbox, Message("text", buf, flushes + 1))
      /\ UNCHANGED <<mode, streams, after, round, said, roundStart, buf, rest, msgID, outcome,
                     sending, shown, noise, dropped, failed, timedOut, unreadable>>
  BY DEF FlushEnqueued, others, fileVars, history
<1>2. StreamType /\ TurnTyped /\ ChannelTyped /\ HistoryTyped /\ BufInv /\ IdInv /\ Short /\ TextInv
  BY DEF DeliveryInv, StreamType
<1>3. outcome = "" /\ streams
  BY <1>1, <1>2 DEF BufInv, Active
<1>4. buf \in Seq(Nat) /\ flushes \in Nat
  BY <1>2 DEF TurnTyped, ChannelTyped
<1>5. Len(buf) \in Nat /\ Len(rest) \in Nat /\ said \in Nat /\ Len(buf) + Len(rest) <= said /\ DOMAIN buf = 1..Len(buf)
  BY <1>1, <1>2, Sizes DEF Active
<1>6. Given = said - Len(rest) - Len(buf) /\ Given' = said - Len(rest)
  BY <1>1 DEF Given
<1>7. /\ Given \in Nat /\ Given' = Given + Len(buf)
      /\ \A k \in DOMAIN buf : buf[k] = Given + k
  <2>1. \A k \in DOMAIN buf : buf[k] = said - Len(rest) - Len(buf) + k
    BY <1>1, <1>2, <1>3 DEF BufInv, Active
  <2> QED BY <1>5, <1>6, <2>1
<1>8. /\ Rising(buf)
      /\ \A x \in Nat : In(x, buf) <=> x \in (Given + 1)..Given'
      /\ \A x \in 1..Given : \A k \in DOMAIN buf : x < buf[k]
  <2>1. Rising(buf)
    <3>1. \A k, l \in DOMAIN buf : k < l => Given + k < Given + l
      BY <1>5, <1>7
    <3> QED BY <1>7, <3>1 DEF Rising
  <2>2. ASSUME NEW x \in Nat PROVE In(x, buf) <=> x \in (Given + 1)..Given'
    <3>1. ASSUME In(x, buf) PROVE x \in (Given + 1)..Given'
      <4>1. PICK k \in DOMAIN buf : buf[k] = x
        BY <3>1 DEF In
      <4> QED BY <1>5, <1>7, <4>1
    <3>2. ASSUME x \in (Given + 1)..Given' PROVE In(x, buf)
      <4>1. x - Given \in DOMAIN buf /\ Given + (x - Given) = x
        BY <1>5, <1>7, <3>2
      <4> QED BY <1>7, <4>1 DEF In
    <3> QED BY <3>1, <3>2
  <2>3. \A x \in 1..Given : \A k \in DOMAIN buf : x < buf[k]
    BY <1>5, <1>7
  <2> QED BY <2>1, <2>2, <2>3
<1>9. /\ inbox' \in Seq(Messages) /\ Short'
      /\ \A x \in Nat : Shows(x)' <=> Shows(x) \/ In(x, buf)
      /\ Ordered(shown, sending.text, Texts) /\ (\A x \in Nat : Shows(x) => \A k \in DOMAIN buf : x < buf[k])
           => Ordered(shown, sending.text, Texts)'
  <2>1. PICK m : m = Message("text", buf, flushes + 1)
    OBVIOUS
  <2>2. m \in Messages /\ m.kind = "text" /\ TextOf(m) = buf
    BY <1>4, <2>1 DEF Message, Messages, Kinds, TextOf
  <2> QED BY <1>1, <1>2, <1>8, <2>1, <2>2, MessageSent
<1>10. StreamType'
  <2>1. TurnTyped'
    BY <1>1, <1>2 DEF TurnTyped, Active
  <2>2. ChannelTyped'
    <3>1. flushes' \in Nat
      BY <1>1, <1>4
    <3> QED BY <1>1, <1>2, <1>9, <3>1 DEF ChannelTyped
  <2>3. HistoryTyped'
    BY <1>1, <1>2 DEF HistoryTyped
  <2> QED BY <2>1, <2>2, <2>3 DEF StreamType
<1>11. BufInv'
  BY <1>1, <1>2, <1>3 DEF BufInv, Active
<1>12. IdInv'
  BY <1>1, <1>2 DEF IdInv
<1>13. TextInv'
  <2>1. (Orderly' <=> Orderly) /\ (Fine' <=> Fine)
    BY <1>1 DEF Orderly, Fine
  <2>2. Orderly' => Ordered(shown, sending.text, Texts)' /\ \A x \in Nat : Shows(x)' => x \in 1..Given'
    <3> SUFFICES ASSUME Orderly' PROVE Ordered(shown, sending.text, Texts)' /\ \A x \in Nat : Shows(x)' => x \in 1..Given'
      OBVIOUS
    <3>1. Ordered(shown, sending.text, Texts) /\ \A x \in Nat : Shows(x) => x \in 1..Given
      BY <1>2, <2>1 DEF TextInv
    <3>2. Ordered(shown, sending.text, Texts)'
      BY <1>8, <1>9, <3>1
    <3>3. (\A x \in 1..Given : x \in 1..Given') /\ \A x \in (Given + 1)..Given' : x \in 1..Given'
      BY <1>5, <1>7
    <3> QED BY <1>8, <1>9, <3>1, <3>2, <3>3
  <2>3. Fine' => \A x \in 1..Given' : Shows(x)'
    <3> SUFFICES ASSUME Fine' PROVE \A x \in 1..Given' : Shows(x)'
      OBVIOUS
    <3>1. \A x \in 1..Given : Shows(x)
      BY <1>2, <1>3, <2>1 DEF TextInv
    <3>2. \A x \in 1..Given' : x \in Nat /\ (x \in 1..Given \/ x \in (Given + 1)..Given')
      BY <1>5, <1>7
    <3> QED BY <1>8, <1>9, <3>1, <3>2
  <2> QED BY <1>1, <2>2, <2>3 DEF TextInv
<1> QED BY <1>9, <1>10, <1>11, <1>12, <1>13 DEF DeliveryInv

\* The pieces that were accumulated are cut in two.
LEMMA DeltaOverflowsKeeps == DeliveryInv /\ DeltaOverflows => DeliveryInv'
<1> SUFFICES ASSUME DeliveryInv, DeltaOverflows PROVE DeliveryInv'
  OBVIOUS
<1>1. PICK n \in Deltas : /\ Len(buf) + n > Limit /\ said' = said + n
                          /\ \E s \in Splits(buf \o Pieces(said + 1, said + n)) : buf' = s[1] /\ rest' = s[2]
  BY DEF DeltaOverflows
<1>2. n \in Nat \ {0}
  BY StreamAssumption DEF Deltas
<1>3. /\ pc = "streaming" /\ streams /\ pc' = "flush" /\ after' = "overflow"
      /\ UNCHANGED <<mode, streams, round, roundStart, msgID, delivered, outcome, inbox, flushes, result,
                     sending, shown, noise, dropped, failed, timedOut, unreadable>>
  BY DEF DeltaOverflows, others, fileVars, history
<1>4. StreamType /\ TurnTyped /\ ChannelTyped /\ HistoryTyped /\ BufInv /\ IdInv
  BY DEF DeliveryInv, StreamType
<1> DEFINE t == buf \o Pieces(said + 1, said + n)
<1>5. /\ t \in Seq(Nat) /\ Len(t) = Len(buf) + n
      /\ rest = <<>> /\ Len(rest) = 0 /\ Len(buf) \in Nat /\ Len(buf) <= said /\ said \in Nat
      /\ \A k \in 1..(Len(buf) + n) : t[k] = said - Len(buf) + k
  BY <1>2, <1>3, Accumulated
<1>6. \E s \in Splits(t) : buf' = s[1] /\ rest' = s[2]
  BY <1>1
<1> HIDE DEF t
<1>7. PICK c \in 1..Limit : buf' = SubSeq(t, 1, c) /\ rest' = SubSeq(t, c + 1, Len(t))
  BY <1>6 DEF Splits
<1>8. c \in Nat /\ c > 0 /\ c < Len(t)
  BY <1>1, <1>2, <1>5, <1>7, StreamAssumption
<1>9. Cut(t, buf', rest') /\ Len(buf') = c
  <2>1. c \in 0..Len(t)
    BY <1>5, <1>8
  <2> QED BY <1>5, <1>7, <2>1, SubSeqsCut
<1>10. /\ buf' \in Seq(Nat) /\ rest' \in Seq(Nat) /\ Len(buf') = c /\ Len(rest') = Len(t) - c
       /\ \A k \in 1..Len(buf') : buf'[k] = t[k]
       /\ \A k \in 1..Len(rest') : rest'[k] = t[c + k]
  <2>1. /\ buf' \in Seq(Nat) /\ rest' \in Seq(Nat) /\ Len(t) = Len(buf') + Len(rest')
        /\ \A k \in 1..Len(buf') : buf'[k] = t[k]
        /\ \A k \in 1..Len(rest') : rest'[k] = t[Len(buf') + k]
    BY <1>9 DEF Cut
  <2>2. Len(rest') \in Nat
    BY <2>1
  <2>3. Len(rest') = Len(t) - c
    BY <1>8, <1>9, <2>1, <2>2
  <2> QED BY <1>9, <2>1, <2>3
<1>11. /\ Len(buf') + Len(rest') <= said'
       /\ \A k \in DOMAIN buf' : buf'[k] = said' - Len(rest') - Len(buf') + k
       /\ \A k \in DOMAIN rest' : rest'[k] = said' - Len(rest') + k
  <2>1. DOMAIN buf' = 1..c /\ DOMAIN rest' = 1..(Len(buf) + n - c) /\ Len(rest') = Len(buf) + n - c
    <3>1. Len(rest') = Len(buf) + n - c
      BY <1>2, <1>5, <1>8, <1>10
    <3>2. buf' \in Seq(Nat) /\ rest' \in Seq(Nat) /\ Len(buf') = c
      BY <1>10
    <3> QED BY <3>1, <3>2
  <2>2. said' = said + n /\ said' \in Nat
    BY <1>1, <1>2, <1>5
  <2>3. \A k \in 1..c : buf'[k] = said - Len(buf) + k
    <3>1. \A k \in 1..c : k \in 1..(Len(buf) + n)
      BY <1>2, <1>5, <1>8
    <3> QED BY <1>5, <1>10, <3>1
  <2>4. \A k \in 1..(Len(buf) + n - c) : rest'[k] = said - Len(buf) + c + k
    <3>1. \A k \in 1..(Len(buf) + n - c) : c + k \in 1..(Len(buf) + n)
      BY <1>2, <1>5, <1>8
    <3>2. \A k \in 1..(Len(buf) + n - c) : rest'[k] = said - Len(buf) + (c + k)
      BY <1>5, <1>10, <2>1, <3>1
    <3> QED BY <1>2, <1>5, <1>8, <3>2
  <2>5. Len(buf') + Len(rest') <= said'
    BY <1>2, <1>5, <1>8, <1>10, <2>2
  <2>6. \A k \in 1..c : buf'[k] = said' - Len(rest') - Len(buf') + k
    BY <1>2, <1>5, <1>8, <1>10, <2>1, <2>2, <2>3
  <2>7. \A k \in 1..(Len(buf) + n - c) : rest'[k] = said' - Len(rest') + k
    BY <1>2, <1>5, <1>8, <1>10, <2>1, <2>2, <2>4
  <2> QED BY <2>1, <2>5, <2>6, <2>7
<1>12. buf' # <<>> /\ rest' # <<>>
  <2>1. Len(<<>>) = 0
    OBVIOUS
  <2>2. Len(rest') > 0 /\ Len(buf') > 0
    BY <1>5, <1>8, <1>10
  <2> QED BY <2>1, <2>2
<1>13. BufInv'
  <2>1. outcome = ""
    BY <1>3, <1>4 DEF BufInv, Active
  <2> QED BY <1>3, <1>4, <1>11, <1>12, <2>1 DEF BufInv, Active
<1>14. TurnTyped'
  <2>1. said' \in Nat
    BY <1>1, <1>2, <1>5
  <2> QED BY <1>3, <1>4, <1>10, <2>1 DEF TurnTyped, Active
<1>15. Given' = Given
  <2>1. Given = said - Len(rest) - Len(buf) /\ Given' = said' - Len(rest') - Len(buf')
    BY <1>3 DEF Given
  <2>2. said' = said + n
    BY <1>1
  <2> QED BY <1>2, <1>5, <1>8, <1>10, <2>1, <2>2
<1>16. IdInv'
  BY <1>3, <1>4 DEF IdInv
<1>17. Silently
  BY <1>3 DEF Silently
<1>18. outcome = "" /\ outcome' = ""
  BY <1>3, <1>4 DEF BufInv, Active
<1>19. Given <= Given'
  BY <1>4, <1>15, GivenIs
<1>20. /\ sending' \in [text : Seq(Nat), rid : Nat, unread : BOOLEAN, refused : BOOLEAN]
       /\ timedOut' \in BOOLEAN /\ unreadable' \in BOOLEAN /\ (timedOut => timedOut')
  BY <1>3, <1>4 DEF ChannelTyped, HistoryTyped
<1> QED BY <1>3, <1>13, <1>14, <1>15, <1>16, <1>17, <1>18, <1>19, <1>20, SilentStep

-------------------------------------------------------------------------------
(* Steps of the channel and of the other actors. *)

\* The turn does nothing.
TurnRests == UNCHANGED <<mode, streams, pc, after, round, said, roundStart, buf, rest, msgID, delivered, outcome>>

LEMMA Rests ==
  ASSUME DeliveryInv, TurnRests
  PROVE  TurnTyped' /\ BufInv' /\ Given' = Given /\ Given \in Nat
<1>1. TurnTyped /\ StreamType /\ BufInv
  BY DEF DeliveryInv, StreamType
<1>2. TurnTyped'
  BY <1>1 DEF TurnTyped, TurnRests
<1>3. BufInv'
  BY <1>1 DEF BufInv, TurnRests
<1>4. Given' = Given
  BY DEF Given, TurnRests
<1> QED BY <1>1, <1>2, <1>3, <1>4, GivenIs

\* The texts go on to the next place.
LEMMA TextsMove ==
  ASSUME DeliveryInv, TurnRests, ChannelTyped', IdInv', Short', HistoryTyped',
         UNCHANGED <<dropped, failed, timedOut>>,
         \A x \in Nat : Shows(x)' <=> Shows(x),
         Ordered(shown, sending.text, Texts) => Ordered(shown, sending.text, Texts)'
  PROVE  DeliveryInv'
<1>1. TurnTyped' /\ BufInv' /\ Given' = Given /\ Given \in Nat
  BY Rests
<1>2. StreamType'
  BY <1>1 DEF StreamType
<1>3. TextInv
  BY DEF DeliveryInv
<1>4. Given <= Given' /\ Given' \in Nat
  BY <1>1
<1>5. TextInv'
  BY <1>1, <1>3, <1>4, TextKept DEF TurnRests
<1> QED BY <1>1, <1>2, <1>5 DEF DeliveryInv

\* Telegram refuses a text.
LEMMA TextsLost ==
  ASSUME DeliveryInv, TurnRests, ChannelTyped', IdInv', Short', HistoryTyped',
         UNCHANGED <<dropped, timedOut>>, failed',
         \A x \in Nat : Shows(x)' => Shows(x),
         Ordered(shown, sending.text, Texts) => Ordered(shown, sending.text, Texts)'
  PROVE  DeliveryInv'
<1>1. TurnTyped' /\ BufInv' /\ Given' = Given /\ Given \in Nat
  BY Rests
<1>2. StreamType'
  BY <1>1 DEF StreamType
<1>3. TextInv
  BY DEF DeliveryInv
<1>4. ~Fine' /\ (Orderly' => Orderly)
  BY DEF Fine, Orderly, TurnRests
<1>5. mode' = mode /\ outcome' = outcome /\ delivered' = delivered
  BY DEF TurnRests
<1>6. TextInv'
  <2>1. Orderly' => Ordered(shown, sending.text, Texts)' /\ \A x \in Nat : Shows(x)' => x \in 1..Given'
    <3> SUFFICES ASSUME Orderly' PROVE Ordered(shown, sending.text, Texts)' /\ \A x \in Nat : Shows(x)' => x \in 1..Given'
      OBVIOUS
    <3>1. Ordered(shown, sending.text, Texts) /\ \A x \in Nat : Shows(x) => x \in 1..Given
      BY <1>3, <1>4 DEF TextInv
    <3> QED BY <1>1, <3>1
  <2>2. mode' = "cli" /\ outcome' = "" /\ ~delivered' => \A x \in Nat : ~Shows(x)'
    BY <1>3, <1>5 DEF TextInv
  <2> QED BY <1>4, <2>1, <2>2 DEF TextInv
<1> QED BY <1>1, <1>2, <1>6 DEF DeliveryInv

\* A message leaves the inbox.
LEMMA MessageTaken ==
  ASSUME DeliveryInv, sending = NoMessage, inbox # <<>>, inbox' = Tail(inbox)
  PROVE  /\ inbox' \in Seq(Messages) /\ Head(inbox) \in Messages /\ Short'
         /\ (Head(inbox).kind # "text" => Len(Head(inbox).text) <= Limit)
         /\ Texts \in Seq(Seq(Nat)) /\ Texts' \in Seq(Seq(Nat)) /\ TextOf(Head(inbox)) \in Seq(Nat)
         /\ \A x \in Nat : Has(shown, TextOf(Head(inbox)), Texts', x) <=> Shows(x)
         /\ Ordered(shown, sending.text, Texts) => Ordered(shown, TextOf(Head(inbox)), Texts')
<1>1. inbox \in Seq(Messages) /\ shown \in Seq(Seq(Nat)) /\ Short
  BY DEF DeliveryInv, StreamType, ChannelTyped
<1>2. sending.text = <<>>
  BY DEF NoMessage
<1>3. /\ Tail(inbox) \in Seq(Messages) /\ Head(inbox) \in Messages
      /\ Texts \in Seq(Seq(Nat)) /\ Texts # <<>>
      /\ Head(Texts) = TextOf(Head(inbox)) /\ Texts' = Tail(Texts)
  BY <1>1, TextsTaken, TextsAre
<1>4. Texts' \in Seq(Seq(Nat)) /\ TextOf(Head(inbox)) \in Seq(Nat)
  BY <1>3, TextsTyped, TextsAre
<1>5. /\ \A x \in Nat : Has(shown, Head(Texts), Tail(Texts), x) <=> Has(shown, <<>>, Texts, x)
      /\ Ordered(shown, <<>>, Texts) => Ordered(shown, Head(Texts), Tail(Texts))
  BY <1>1, <1>3, Dequeued
<1>6. Short' /\ (Head(inbox).kind # "text" => Len(Head(inbox).text) <= Limit)
  <2>1. /\ Len(inbox) \in Nat /\ Len(inbox) > 0 /\ DOMAIN inbox = 1..Len(inbox) /\ Head(inbox) = inbox[1]
        /\ DOMAIN inbox' = 1..(Len(inbox) - 1) /\ \A i \in 1..(Len(inbox) - 1) : inbox'[i] = inbox[i + 1]
    BY <1>1
  <2>2. 1 \in 1..Len(inbox) /\ \A i \in 1..(Len(inbox) - 1) : i + 1 \in 1..Len(inbox)
    BY <2>1
  <2> QED BY <1>1, <2>1, <2>2 DEF Short
<1> QED BY <1>2, <1>3, <1>4, <1>5, <1>6 DEF Shows

LEMMA ChannelSendsKeeps == DeliveryInv /\ ChannelSends => DeliveryInv'
<1> SUFFICES ASSUME DeliveryInv, ChannelSends PROVE DeliveryInv'
  OBVIOUS
<1>1. PICK m, n : /\ m = Head(inbox) /\ n \in FirstChunks(m.text)
                  /\ shown' = IF m.kind = "text" THEN Append(shown, SubSeq(m.text, 1, n)) ELSE shown
                  /\ sending' = IF n = Len(m.text) THEN NoMessage
                                ELSE [text |-> SubSeq(m.text, n + 1, Len(m.text)), rid |-> m.rid,
                                      unread |-> m.rid # 0, refused |-> FALSE]
                  /\ result' = IF m.rid = flushes /\ m.rid # 0 THEN "id" ELSE result
  BY DEF ChannelSends, Answered
<1>2. /\ sending = NoMessage /\ inbox # <<>> /\ inbox' = Tail(inbox) /\ TurnRests
      /\ UNCHANGED <<flushes, noise, unreadable, dropped, failed, timedOut>>
  BY DEF ChannelSends, TurnRests, turnAndFiles, turnVars, history
<1>3. ChannelTyped /\ HistoryTyped /\ IdInv /\ Short
  BY DEF DeliveryInv, StreamType
<1>4. /\ inbox' \in Seq(Messages) /\ m \in Messages /\ Short' /\ (m.kind # "text" => Len(m.text) <= Limit)
      /\ Texts' \in Seq(Seq(Nat)) /\ TextOf(m) \in Seq(Nat)
      /\ \A x \in Nat : Has(shown, TextOf(m), Texts', x) <=> Shows(x)
      /\ Ordered(shown, sending.text, Texts) => Ordered(shown, TextOf(m), Texts')
  BY <1>1, <1>2, MessageTaken
<1>5. m.text \in Seq(Nat) /\ m.rid \in Nat /\ Len(m.text) \in Nat
  <2>1. m.text \in Seq(Nat) /\ m.rid \in Nat
    BY <1>4 DEF Messages
  <2> QED BY <2>1
<1>6. n \in 0..Len(m.text)
  <2>1. CASE Len(m.text) <= Limit
    BY <1>1, <1>5, <2>1 DEF FirstChunks
  <2>2. CASE ~(Len(m.text) <= Limit)
    BY <1>1, <1>5, <2>2, StreamAssumption DEF FirstChunks
  <2> QED BY <2>1, <2>2
<1> DEFINE c == SubSeq(m.text, 1, n)
<1> DEFINE r == SubSeq(m.text, n + 1, Len(m.text))
<1>7. Cut(m.text, c, r) /\ Len(c) = n
  BY <1>5, <1>6, SubSeqsCut
<1>8. c \in Seq(Nat) /\ r \in Seq(Nat) /\ Len(m.text) = Len(c) + Len(r)
  BY <1>7 DEF Cut
<1>9. /\ shown' = IF m.kind = "text" THEN Append(shown, c) ELSE shown
      /\ sending' = IF n = Len(m.text) THEN NoMessage
                    ELSE [text |-> r, rid |-> m.rid, unread |-> m.rid # 0, refused |-> FALSE]
  BY <1>1
<1> HIDE DEF c, r
<1>10. n = Len(m.text) => r = <<>>
  <2>1. n = Len(m.text) => Len(r) = 0
    BY <1>5, <1>7, <1>8
  <2> QED BY <1>8, <2>1, EmptySeq
<1>11. sending'.text = r /\ ~sending'.refused
  BY <1>9, <1>10 DEF NoMessage
<1>12. ChannelTyped'
  <2>1. sending' \in [text : Seq(Nat), rid : Nat, unread : BOOLEAN, refused : BOOLEAN]
    BY <1>5, <1>8, <1>9 DEF NoMessage
  <2>2. shown' \in Seq(Seq(Nat))
    <3>1. shown \in Seq(Seq(Nat))
      BY <1>3 DEF ChannelTyped
    <3> QED BY <1>8, <1>9, <3>1
  <2>3. flushes' \in Nat /\ noise' \in Nat /\ result' \in {"none", "id", "zero"}
    BY <1>1, <1>2, <1>3 DEF ChannelTyped
  <2> QED BY <1>4, <2>1, <2>2, <2>3 DEF ChannelTyped
<1>13. HistoryTyped'
  BY <1>2, <1>3 DEF HistoryTyped
<1>14. IdInv'
  <2>1. result' = "zero" => result = "zero"
    BY <1>1
  <2> QED BY <1>2, <1>3, <1>11, <2>1 DEF IdInv, TurnRests
<1>15. /\ \A x \in Nat : Shows(x)' <=> Shows(x)
       /\ Ordered(shown, sending.text, Texts) => Ordered(shown, sending.text, Texts)'
  <2>1. shown \in Seq(Seq(Nat))
    BY <1>3 DEF ChannelTyped
  <2>2. CASE m.kind = "text"
    <3>1. TextOf(m) = m.text /\ shown' = Append(shown, c)
      BY <1>9, <2>2 DEF TextOf
    <3>2. /\ \A x \in Nat : Has(Append(shown, c), r, Texts', x) <=> Has(shown, m.text, Texts', x)
          /\ Ordered(shown, m.text, Texts') => Ordered(Append(shown, c), r, Texts')
      BY <1>4, <1>5, <1>7, <2>1, ChunkShown
    <3> QED BY <1>4, <1>11, <3>1, <3>2 DEF Shows
  <2>3. CASE m.kind # "text"
    <3>1. n = Len(m.text)
      BY <1>1, <1>4, <2>3 DEF FirstChunks
    <3>2. TextOf(m) = <<>> /\ sending'.text = <<>> /\ shown' = shown
      BY <1>9, <1>10, <1>11, <2>3, <3>1 DEF TextOf
    <3> QED BY <1>4, <3>2 DEF Shows
  <2> QED BY <2>2, <2>3
<1>16. UNCHANGED <<dropped, failed, timedOut>>
  BY <1>2
<1>17. TurnRests /\ Short'
  BY <1>2, <1>4
<1> QED BY <1>12, <1>13, <1>14, <1>15, <1>16, <1>17, TextsMove

LEMMA ChannelFailsKeeps == DeliveryInv /\ ChannelFails => DeliveryInv'
<1> SUFFICES ASSUME DeliveryInv, ChannelFails PROVE DeliveryInv'
  OBVIOUS
<1>1. /\ sending = NoMessage /\ inbox # <<>> /\ Head(inbox).kind = "text" /\ inbox' = Tail(inbox)
      /\ TurnRests /\ failed' = TRUE
      /\ result' = IF Head(inbox).rid = flushes /\ Head(inbox).rid # 0 THEN "zero" ELSE result
      /\ UNCHANGED <<flushes, noise, unreadable, dropped, timedOut, sending, shown>>
  BY DEF ChannelFails, Answered, TurnRests, turnAndFiles, turnVars
<1>2. ChannelTyped /\ HistoryTyped /\ IdInv
  BY DEF DeliveryInv, StreamType
<1>3. /\ inbox' \in Seq(Messages) /\ Short'
      /\ \A x \in Nat : Has(shown, TextOf(Head(inbox)), Texts', x) <=> Shows(x)
      /\ Ordered(shown, sending.text, Texts) => Ordered(shown, TextOf(Head(inbox)), Texts')
  BY <1>1, MessageTaken
<1>4. /\ \A x \in Nat : Has(shown, <<>>, Texts', x) => Has(shown, TextOf(Head(inbox)), Texts', x)
      /\ Ordered(shown, TextOf(Head(inbox)), Texts') => Ordered(shown, <<>>, Texts')
  BY RestDropped
<1>5. sending'.text = <<>> /\ shown' = shown
  BY <1>1 DEF NoMessage
<1>6. /\ \A x \in Nat : Shows(x)' => Shows(x)
      /\ Ordered(shown, sending.text, Texts) => Ordered(shown, sending.text, Texts)'
  BY <1>3, <1>4, <1>5 DEF Shows
<1>7. ChannelTyped'
  BY <1>1, <1>2, <1>3 DEF ChannelTyped
<1>8. HistoryTyped'
  BY <1>1, <1>2 DEF HistoryTyped
<1>9. IdInv'
  BY <1>1, <1>2 DEF IdInv, TurnRests
<1>10. UNCHANGED <<dropped, timedOut>> /\ failed' /\ TurnRests
  BY <1>1
<1> QED BY <1>3, <1>6, <1>7, <1>8, <1>9, <1>10, TextsLost

LEMMA NextChunkKeeps == DeliveryInv /\ NextChunk => DeliveryInv'
<1> SUFFICES ASSUME DeliveryInv, NextChunk PROVE DeliveryInv'
  OBVIOUS
<1>1. PICK n : /\ n \in Chunks(sending.text)
               /\ shown' = Append(shown, SubSeq(sending.text, 1, n))
               /\ sending' = IF n = Len(sending.text) THEN NoMessage
                     ELSE [sending EXCEPT !.text = SubSeq(sending.text, n + 1, Len(sending.text))]
  BY DEF NextChunk
<1>2. /\ ~sending.refused /\ TurnRests
      /\ UNCHANGED <<inbox, result, flushes, noise, unreadable, dropped, failed, timedOut>>
  BY DEF NextChunk, TurnRests, turnAndFiles, turnVars, history
<1>3. ChannelTyped /\ HistoryTyped /\ IdInv /\ Short
  BY DEF DeliveryInv, StreamType
<1>4. /\ shown \in Seq(Seq(Nat)) /\ inbox \in Seq(Messages)
      /\ sending \in [text : Seq(Nat), rid : Nat, unread : BOOLEAN, refused : BOOLEAN]
  BY <1>3 DEF ChannelTyped
<1>5. sending.text \in Seq(Nat) /\ Len(sending.text) \in Nat
  <2>1. sending.text \in Seq(Nat)
    BY <1>4
  <2> QED BY <2>1
<1>6. n \in 0..Len(sending.text)
  BY <1>1, <1>5, StreamAssumption DEF Chunks
<1>7. Texts \in Seq(Seq(Nat)) /\ Texts' = Texts
  BY <1>2, <1>4, TextsTyped, TextsAre
<1> DEFINE c == SubSeq(sending.text, 1, n)
<1> DEFINE r == SubSeq(sending.text, n + 1, Len(sending.text))
<1>8. Cut(sending.text, c, r) /\ Len(c) = n
  BY <1>5, <1>6, SubSeqsCut
<1>9. c \in Seq(Nat) /\ r \in Seq(Nat) /\ Len(sending.text) = Len(c) + Len(r)
  BY <1>8 DEF Cut
<1>10. /\ shown' = Append(shown, c)
      /\ sending' = IF n = Len(sending.text) THEN NoMessage ELSE [sending EXCEPT !.text = r]
  BY <1>1
<1> HIDE DEF c, r
<1>11. n = Len(sending.text) => r = <<>>
  <2>1. n = Len(sending.text) => Len(r) = 0
    BY <1>5, <1>8, <1>9
  <2> QED BY <1>9, <2>1, EmptySeq
<1>12. sending'.text = r /\ ~sending'.refused
  BY <1>2, <1>4, <1>10, <1>11 DEF NoMessage
<1>13. ChannelTyped'
  <2>1. sending' \in [text : Seq(Nat), rid : Nat, unread : BOOLEAN, refused : BOOLEAN]
    <3>1. CASE n = Len(sending.text)
      <4>1. sending' = NoMessage
        BY <1>10, <3>1
      <4> QED BY <4>1 DEF NoMessage
    <3>2. CASE n # Len(sending.text)
      <4>1. sending' = [sending EXCEPT !.text = r]
        BY <1>10, <3>2
      <4> QED BY <1>4, <1>9, <4>1
    <3> QED BY <3>1, <3>2
  <2>2. shown' \in Seq(Seq(Nat))
    BY <1>4, <1>9, <1>10
  <2> QED BY <1>2, <1>3, <2>1, <2>2 DEF ChannelTyped
<1>14. HistoryTyped'
  BY <1>2, <1>3 DEF HistoryTyped
<1>15. IdInv' /\ Short'
  BY <1>2, <1>3, <1>12 DEF IdInv, TurnRests, Short
<1>16. /\ \A x \in Nat : Shows(x)' <=> Shows(x)
       /\ Ordered(shown, sending.text, Texts) => Ordered(shown, sending.text, Texts)'
  <2>1. /\ \A x \in Nat : Has(Append(shown, c), r, Texts, x) <=> Has(shown, sending.text, Texts, x)
        /\ Ordered(shown, sending.text, Texts) => Ordered(Append(shown, c), r, Texts)
    BY <1>4, <1>5, <1>8, <1>7, ChunkShown
  <2> QED BY <1>10, <1>12, <1>7, <2>1 DEF Shows
<1>17. UNCHANGED <<dropped, failed, timedOut>>
  BY <1>2
<1>18. TurnRests
  BY <1>2
<1> QED BY <1>13, <1>14, <1>15, <1>16, <1>17, <1>18, TextsMove

LEMMA ChunkFailsKeeps == DeliveryInv /\ ChunkFails => DeliveryInv'
<1> SUFFICES ASSUME DeliveryInv, ChunkFails PROVE DeliveryInv'
  OBVIOUS
<1>1. /\ TurnRests /\ failed' = TRUE
      /\ sending' = IF sending.unread THEN [sending EXCEPT !.refused = TRUE] ELSE NoMessage
      /\ UNCHANGED <<inbox, result, shown, flushes, noise, unreadable, dropped, timedOut>>
  BY DEF ChunkFails, TurnRests, turnAndFiles, turnVars
<1>2. ChannelTyped /\ HistoryTyped /\ IdInv /\ Short
  BY DEF DeliveryInv, StreamType
<1>3. sending \in [text : Seq(Nat), rid : Nat, unread : BOOLEAN, refused : BOOLEAN]
  BY <1>2 DEF ChannelTyped
<1>4. sending' \in [text : Seq(Nat), rid : Nat, unread : BOOLEAN, refused : BOOLEAN]
  <2>1. NoMessage \in [text : Seq(Nat), rid : Nat, unread : BOOLEAN, refused : BOOLEAN]
    BY DEF NoMessage
  <2>2. [sending EXCEPT !.refused = TRUE] \in [text : Seq(Nat), rid : Nat, unread : BOOLEAN, refused : BOOLEAN]
    BY <1>3
  <2> QED BY <1>1, <2>1, <2>2
<1>5. sending'.text = sending.text \/ sending'.text = <<>>
  BY <1>1, <1>3 DEF NoMessage
<1>6. Texts' = Texts /\ shown' = shown
  BY <1>1, TextsAre
<1>7. /\ \A x \in Nat : Has(shown, <<>>, Texts, x) => Has(shown, sending.text, Texts, x)
      /\ Ordered(shown, sending.text, Texts) => Ordered(shown, <<>>, Texts)
  BY RestDropped
<1>8. /\ \A x \in Nat : Shows(x)' => Shows(x)
      /\ Ordered(shown, sending.text, Texts) => Ordered(shown, sending.text, Texts)'
  BY <1>5, <1>6, <1>7 DEF Shows
<1>9. ChannelTyped'
  BY <1>1, <1>2, <1>4 DEF ChannelTyped
<1>10. HistoryTyped'
  BY <1>1, <1>2 DEF HistoryTyped
<1>11. IdInv' /\ Short'
  BY <1>1, <1>2 DEF IdInv, TurnRests, Short
<1>12. UNCHANGED <<dropped, timedOut>> /\ failed' /\ TurnRests
  BY <1>1
<1> QED BY <1>8, <1>9, <1>10, <1>11, <1>12, TextsLost

LEMMA SecondAnswerTakenKeeps == DeliveryInv /\ SecondAnswerTaken => DeliveryInv'
<1> SUFFICES ASSUME DeliveryInv, SecondAnswerTaken PROVE DeliveryInv'
  OBVIOUS
<1>1. /\ TurnRests /\ sending.refused /\ sending' = NoMessage
      /\ UNCHANGED <<inbox, result, shown, flushes, noise, unreadable, dropped, failed, timedOut>>
  BY DEF SecondAnswerTaken, TurnRests, turnAndFiles, turnVars, history
<1>2. ChannelTyped /\ HistoryTyped /\ IdInv /\ Short
  BY DEF DeliveryInv, StreamType
<1>3. sending' \in [text : Seq(Nat), rid : Nat, unread : BOOLEAN, refused : BOOLEAN] /\ sending'.text = <<>>
  BY <1>1 DEF NoMessage
<1>4. Texts' = Texts /\ shown' = shown
  BY <1>1, TextsAre
<1>5. /\ \A x \in Nat : Has(shown, <<>>, Texts, x) => Has(shown, sending.text, Texts, x)
      /\ Ordered(shown, sending.text, Texts) => Ordered(shown, <<>>, Texts)
  BY RestDropped
<1>6. /\ \A x \in Nat : Shows(x)' => Shows(x)
      /\ Ordered(shown, sending.text, Texts) => Ordered(shown, sending.text, Texts)'
  BY <1>3, <1>4, <1>5 DEF Shows
<1>7. ChannelTyped'
  BY <1>1, <1>2, <1>3 DEF ChannelTyped
<1>8. HistoryTyped'
  BY <1>1, <1>2 DEF HistoryTyped
<1>9. failed
  BY <1>1, <1>2 DEF IdInv
<1>10. IdInv' /\ Short'
  BY <1>1, <1>2, <1>9 DEF IdInv, TurnRests, Short
<1>11. UNCHANGED <<dropped, timedOut>> /\ failed' /\ TurnRests
  BY <1>1, <1>9
<1> QED BY <1>6, <1>7, <1>8, <1>10, <1>11, TextsLost

\* Steps that leave the texts where they are.
LEMMA OthersKeep ==
  ASSUME DeliveryInv, TurnRests, noise' \in Nat,
         \/ inbox' = inbox
         \/ inbox' = Append(inbox, Message("other", <<>>, 0)),
         UNCHANGED <<flushes, result, sending, shown, dropped, failed, timedOut, unreadable>>
  PROVE  DeliveryInv'
<1>1. StreamType /\ ChannelTyped /\ HistoryTyped /\ IdInv /\ Short
  BY DEF DeliveryInv, StreamType
<1>2. /\ inbox' \in Seq(Messages) /\ Short'
      /\ \A x \in Nat : Shows(x)' <=> Shows(x)
      /\ Ordered(shown, sending.text, Texts) => Ordered(shown, sending.text, Texts)'
  <2>1. CASE inbox' = inbox
    <3>1. inbox' \in Seq(Messages)
      BY <1>1, <2>1 DEF ChannelTyped
    <3> QED BY <1>1, <2>1, <3>1, TextsUntouched
  <2>2. CASE inbox' = Append(inbox, Message("other", <<>>, 0))
    <3>1. PICK m : m = Message("other", <<>>, 0)
      OBVIOUS
    <3>2. m \in Messages /\ m.kind # "text" /\ Len(m.text) <= Limit
      BY <3>1, StreamAssumption DEF Message, Messages, Kinds
    <3> QED BY <1>1, <2>2, <3>1, <3>2, OtherSent
  <2> QED BY <2>1, <2>2
<1>3. ChannelTyped'
  BY <1>1, <1>2 DEF ChannelTyped
<1>4. HistoryTyped'
  BY <1>1 DEF HistoryTyped
<1>5. IdInv'
  BY <1>1 DEF IdInv, TurnRests
<1> QED BY <1>2, <1>3, <1>4, <1>5, TextsMove

LEMMA NoiseTyped == DeliveryInv => noise \in Nat
BY DEF DeliveryInv, StreamType, ChannelTyped

LEMMA DeliveryStep == DeliveryInv /\ [StreamNext]_streamVars => DeliveryInv'
<1> SUFFICES ASSUME DeliveryInv, [StreamNext]_streamVars PROVE DeliveryInv'
  OBVIOUS
<1>1. noise \in Nat
  BY NoiseTyped
<1>2. CASE ChannelSendsDocument
  <2>1. TurnRests /\ UNCHANGED <<noise, inbox, flushes, result, sending, shown, dropped, failed, timedOut, unreadable>>
    BY <1>2 DEF ChannelSendsDocument, TurnRests, turnAndFiles, turnVars, history
  <2> QED BY <1>1, <2>1, OthersKeep
<1>3. CASE OtherSends
  <2>1. /\ TurnRests /\ inbox' = Append(inbox, Message("other", <<>>, 0)) /\ noise' = noise + 1
        /\ UNCHANGED <<flushes, result, sending, shown, dropped, failed, timedOut, unreadable>>
    BY <1>3 DEF OtherSends, TurnRests, turnVars, history, fileVars
  <2>2. noise' \in Nat
    BY <1>1, <2>1
  <2> QED BY <2>1, <2>2, OthersKeep
<1>4. CASE QueueFile
  <2>1. TurnRests /\ UNCHANGED <<noise, inbox, flushes, result, sending, shown, dropped, failed, timedOut, unreadable>>
    BY <1>4 DEF QueueFile, TurnRests, turnVars, history
  <2> QED BY <1>1, <2>1, OthersKeep
<1>5. CASE UNCHANGED streamVars
  <2>1. TurnRests /\ UNCHANGED <<noise, inbox, flushes, result, sending, shown, dropped, failed, timedOut, unreadable>>
    BY <1>5 DEF streamVars, TurnRests, turnVars, history, fileVars
  <2> QED BY <1>1, <2>1, OthersKeep
<1>6. CASE Stream
  BY <1>6, DeltaKeeps, DeltaOverflowsKeeps, ToolUseKeeps, StreamEndsKeeps, StreamFailsKeeps DEF Stream
<1>7. CASE Flush
  BY <1>7, FlushNothingKeeps, FlushDroppedKeeps, FlushEnqueuedKeeps, FlushAnsweredKeeps, FlushTimesOutKeeps DEF Flush
<1>8. CASE Drain
  BY <1>8, DrainPendingFilesKeeps, DeleteDrainedKeeps, DocumentsSentKeeps DEF Drain
<1>9. CASE AfterOverflow \/ AfterTool \/ ApiToolRound \/ ApiAnswer \/ CliAnswer
  BY <1>9, AfterOverflowKeeps, AfterToolKeeps, ApiToolRoundKeeps, ApiAnswerKeeps, CliAnswerKeeps
<1>10. CASE ChannelSends \/ ChannelFails \/ NextChunk \/ ChunkFails \/ SecondAnswerTaken
  BY <1>10, ChannelSendsKeeps, ChannelFailsKeeps, NextChunkKeeps, ChunkFailsKeeps, SecondAnswerTakenKeeps
<1> QED BY <1>2, <1>3, <1>4, <1>5, <1>6, <1>7, <1>8, <1>9, <1>10 DEF StreamNext, Turn, Run

LEMMA StreamStarts == StreamInit => StreamInv
<1> SUFFICES ASSUME StreamInit PROVE StreamInv
  OBVIOUS
<1>1. said = 0 /\ roundStart = 1 /\ round = 1 /\ files = 0 /\ flushes = 0 /\ noise = 0
  BY DEF StreamInit
<1>2. table = {} /\ todo = {} /\ own = {} /\ gone = {} /\ pc = "streaming" /\ unreadable = FALSE
  BY DEF StreamInit
<1>3. FilesInv
  <2>1. files \in Nat /\ 1..files = {}
    BY <1>1
  <2> QED BY <1>2, <2>1 DEF FilesInv
<1>4. /\ buf = <<>> /\ rest = <<>> /\ inbox = <<>> /\ shown = <<>>
      /\ sending = NoMessage /\ pc = "streaming" /\ outcome = "" /\ msgID = "none" /\ delivered = FALSE
  BY DEF StreamInit
<1>5. TurnTyped
  <2>1. streams \in BOOLEAN /\ mode \in {"api", "cli"} /\ after = ""
    BY DEF StreamInit
  <2>2. round \in Nat /\ said \in Nat /\ roundStart \in Nat \ {0}
    BY <1>1
  <2>3. buf \in Seq(Nat) /\ rest \in Seq(Nat)
    <3>1. <<>> \in Seq(Nat)
      OBVIOUS
    <3> QED BY <1>4, <3>1, Zenon
  <2> QED BY <1>4, <2>1, <2>2, <2>3 DEF TurnTyped, Active
<1>6. ChannelTyped /\ HistoryTyped
  <2>1. flushes \in Nat /\ noise \in Nat
    BY <1>1
  <2>2. result = "none"
    BY DEF StreamInit
  <2>3. sending \in [text : Seq(Nat), rid : Nat, unread : BOOLEAN, refused : BOOLEAN]
    <3>1. NoMessage \in [text : Seq(Nat), rid : Nat, unread : BOOLEAN, refused : BOOLEAN]
      BY DEF NoMessage
    <3> QED BY <1>4, <3>1
  <2>4. HistoryTyped
    BY DEF StreamInit, HistoryTyped
  <2>5. inbox \in Seq(Messages) /\ shown \in Seq(Seq(Nat))
    <3>1. <<>> \in Seq(Messages)
      OBVIOUS
    <3>2. <<>> \in Seq(Seq(Nat))
      OBVIOUS
    <3> QED BY <1>4, <3>1, <3>2, Zenon
  <2> QED BY <2>1, <2>2, <2>3, <2>4, <2>5 DEF ChannelTyped
<1>7. Len(<<>>) = 0 /\ DOMAIN <<>> = {}
  OBVIOUS
<1>8. BufInv
  <2>1. mode = "api" => streams
    BY DEF StreamInit
  <2>2. Len(buf) + Len(rest) <= said /\ ~(said >= roundStart)
    <3>1. Len(buf) = 0 /\ Len(rest) = 0
      BY <1>4, <1>7
    <3> QED BY <1>1, <3>1
  <2> QED BY <1>4, <1>7, <2>1, <2>2 DEF BufInv, Active
<1>9. IdInv
  <2>1. result = "none" /\ ~sending.refused
    BY DEF StreamInit, NoMessage
  <2> QED BY <1>4, <2>1 DEF IdInv
<1>10. Short
  BY <1>4, <1>7 DEF Short
<1>11. sending.text = <<>> /\ DOMAIN Texts = {}
  BY <1>4, <1>7 DEF NoMessage, Texts
<1>12. Ordered(shown, sending.text, Texts) /\ \A x : ~Shows(x)
  <2>1. Ordered(<<>>, <<>>, Texts) /\ \A x : ~Has(<<>>, <<>>, Texts, x)
    BY <1>7, <1>11 DEF Ordered, Rising, Before, Has, In
  <2> QED BY <1>4, <1>11, <2>1 DEF Shows
<1>13. 1..Given = {}
  <2>1. Given = said - Len(rest) - Len(buf)
    BY <1>4 DEF Given
  <2>2. Len(buf) = 0 /\ Len(rest) = 0
    BY <1>4, <1>7
  <2>3. Given = 0
    BY <1>1, <2>1, <2>2
  <2> QED BY <2>3
<1>14. TextInv
  BY <1>12, <1>13 DEF TextInv
<1> QED BY <1>3, <1>5, <1>6, <1>8, <1>9, <1>10, <1>14 DEF StreamInv, DeliveryInv, StreamType

LEMMA StreamInvariance == StreamSpec => []StreamInv
<1>1. StreamInv /\ [StreamNext]_streamVars => StreamInv'
  BY FilesStep, DeliveryStep DEF StreamInv
<1> QED BY <1>1, StreamStarts, PTL DEF StreamSpec

LEMMA AnsweredOnceInOrderHolds == StreamInv => AnsweredOnceInOrder
<1> SUFFICES ASSUME StreamInv PROVE AnsweredOnceInOrder
  OBVIOUS
<1>1. TurnTyped /\ ChannelTyped /\ StreamType /\ BufInv /\ IdInv /\ TextInv
  BY DEF StreamInv, DeliveryInv, StreamType
<1>2. pc \in {"streaming", "flush"} => msgID = "none"
  BY <1>1 DEF IdInv
<1>3. shown \in Seq(Seq(Nat)) /\ sending.text \in Seq(Nat) /\ inbox \in Seq(Messages)
  BY <1>1 DEF ChannelTyped
<1>4. /\ Ordered(shown, sending.text, Texts) => InOrder
      /\ \A x : x \in Seen <=> Shows(x)
  BY <1>3, PartsOrdered
<1>5. mode = "cli" => InOrder
  BY <1>1, <1>4 DEF TextInv, Orderly
<1>6. ASSUME outcome = "answered", ~dropped, ~failed, mode = "api" => ~timedOut
      PROVE  InOrder /\ Seen = 1..said
  <2>1. Orderly /\ Fine
    BY <1>1, <1>6 DEF Orderly, Fine, TurnTyped
  <2>2. Given = said
    <3>1. pc \notin Active
      BY <1>1, <1>6 DEF BufInv
    <3> QED BY <1>1, <3>1, Sizes
  <2>3. (\A x \in Nat : Shows(x) => x \in 1..said) /\ \A x \in 1..said : Shows(x)
    BY <1>1, <1>6, <2>1, <2>2 DEF TextInv
  <2>4. \A x : Shows(x) => x \in Nat
    <3>1. Texts \in Seq(Seq(Nat))
      BY <1>3, TextsTyped, TextsAre
    <3>2. ASSUME NEW s \in Seq(Nat), NEW x, In(x, s) PROVE x \in Nat
      BY <3>2 DEF In
    <3>3. \A i \in DOMAIN shown : shown[i] \in Seq(Nat)
      BY <1>3
    <3>4. \A i \in DOMAIN Texts : Texts[i] \in Seq(Nat)
      BY <3>1
    <3> QED BY <1>3, <3>2, <3>3, <3>4 DEF Shows, Has
  <2>5. Seen = 1..said
    BY <1>4, <2>3, <2>4
  <2> QED BY <1>1, <1>4, <2>1, <2>5 DEF TextInv
<1> QED BY <1>2, <1>5, <1>6 DEF AnsweredOnceInOrder

\* When a turn returns, also after an error, Telegram has been given every file its
\* tools queued, unless the table could not be read; and a file that is queued while
\* others are drained is neither sent nor forgotten with them.
THEOREM FilesAreDelivered == StreamSpec => []FilesArrive
<1>1. StreamInv => FilesArrive
  BY DEF StreamInv, FilesInv, FilesArrive
<1> QED BY <1>1, StreamInvariance, PTL

\* An answered turn shows every piece Claude said exactly once and in order, however
\* the stream was cut, unless the inbox was full, Telegram refused a message or (API
\* mode) an id came too late; a CLI turn never shows a piece twice or too late.
THEOREM TurnsAnswerOnceInOrder == StreamSpec => []AnsweredOnceInOrder
BY AnsweredOnceInOrderHolds, StreamInvariance, PTL
===============================================================================
