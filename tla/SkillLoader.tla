------------------------------ MODULE SkillLoader ------------------------------
(***************************************************************************)
(* External skill collections (internal/skillloader/loader.go): the skills *)
(* of one collection are loaded at start-up and reloaded when fsnotify     *)
(* tells that a skill.toml changed or that a directory appeared, while the *)
(* user goes on editing the files.                                         *)
(*                                                                         *)
(* A skill.toml is the name it gives its skill, whether the loader accepts *)
(* it and a number for its contents.  The registry and the collection's    *)
(* map always change together and are one function.                        *)
(***************************************************************************)
EXTENDS Naturals, Sequences

CONSTANTS
  Dirs,         \* directories of the collection, named by strings
  Names,        \* names of skills; a directory's name is one, too
  MaxEdits      \* bound: changes to the files

VARIABLES
  dirs,         \* the directories that exist
  toml,         \* their skill.toml
  executable,   \* directories that hold the command of their skill
  watched,      \* the directories fsnotify watches
  events,       \* Watcher.Events
  step,         \* where the goroutine of WatchForChanges is
  skills,       \* the skills that are registered: directory and contents
  phase,        \* of the start-up
  pending,      \* directories that the start-up has still to visit
  edits,
  unseen,       \* history: directories changed in a way that no event tells, or with two skills
  clash         \* history: two directories had to do with one name

loaderVars == <<dirs, toml, executable, watched, events, step, skills, phase, pending, edits,
                unseen, clash>>

NoToml == [name |-> "none", ok |-> FALSE, contents |-> 0]
NoSkill == [dir |-> "none", contents |-> 0]
Idle == [pc |-> "idle", dir |-> "none"]
Ok(d) == toml[d].ok /\ d \in executable
From(d) == {n \in Names : skills[n].dir = d}

LoaderInit ==
  /\ dirs \in SUBSET Dirs
  /\ toml \in [Dirs -> {NoToml} \cup [name : Names, ok : {TRUE}, contents : {0}]]
  /\ \A d \in Dirs : toml[d] # NoToml => d \in dirs /\ toml[d].name \notin Dirs \ {d}
  /\ \A d, e \in Dirs : toml[d].name = toml[e].name /\ toml[d] # NoToml => d = e
  /\ executable = dirs
  /\ watched = {} /\ events = <<>> /\ step = Idle
  /\ skills = [n \in Names |-> NoSkill]
  /\ phase = "loading" /\ pending = dirs
  /\ edits = 0 /\ unseen = {} /\ clash = FALSE

-----------------------------------------------------------------------------
(* The user's changes.  fsnotify tells of a file only while its directory   *)
(* is watched.                                                              *)

Edit == edits < MaxEdits /\ edits' = edits + 1
Tell(d, op) ==
  events' = IF d \in watched THEN Append(events, [op |-> op, dir |-> d]) ELSE events

\* Not told, and nothing is going to look at the directory anew.
Missed(d) ==
  /\ d \notin watched
  /\ \/ phase = "loading" /\ d \notin pending
     \/ phase = "adding"
     \/ From(d) # {}

\* A name that another directory uses, or bears itself.
Clashes(d, n) ==
  \E e \in Dirs \ {d} : n \in {e, toml[e].name} \/ skills[n].dir = e

WriteToml(d) ==
  /\ Edit /\ d \in dirs
  /\ \E n \in Names, ok \in BOOLEAN :
       /\ toml' = [toml EXCEPT ![d] = [name |-> n, ok |-> ok, contents |-> edits']]
       /\ clash' = (clash \/ Clashes(d, n))
  /\ Tell(d, "write")
  /\ unseen' = IF Missed(d) THEN unseen \cup {d}
               ELSE IF d \in watched /\ \A m, n \in From(d) : m = n THEN unseen \ {d} ELSE unseen
  /\ UNCHANGED <<dirs, executable, watched, step, skills, phase, pending>>

RemoveToml(d) ==
  /\ Edit /\ toml[d] # NoToml /\ toml' = [toml EXCEPT ![d] = NoToml]
  /\ Tell(d, "remove")
  /\ unseen' = IF Missed(d) THEN unseen \cup {d} ELSE unseen
  /\ UNCHANGED <<dirs, executable, watched, step, skills, phase, pending, clash>>

\* handleFSEvent pays no attention to fsnotify.Rename.
MoveToml(d) ==
  /\ Edit /\ toml[d] # NoToml /\ toml' = [toml EXCEPT ![d] = NoToml]
  /\ unseen' = unseen \cup {d}
  /\ UNCHANGED <<dirs, executable, watched, events, step, skills, phase, pending, clash>>

\* The event of another file than skill.toml loads nothing.
PutCommand(d) ==
  /\ Edit /\ d \in dirs \ executable /\ executable' = executable \cup {d}
  /\ unseen' = IF toml[d] # NoToml THEN unseen \cup {d} ELSE unseen
  /\ UNCHANGED <<dirs, toml, watched, events, step, skills, phase, pending, clash>>

\* A directory is made empty, or moved in with all its files.
MakeDir(d) ==
  /\ Edit /\ d \notin dirs /\ dirs' = dirs \cup {d}
  /\ \/ UNCHANGED <<toml, executable, clash>>
     \/ \E n \in Names :
          /\ toml' = [toml EXCEPT ![d] = [name |-> n, ok |-> TRUE, contents |-> edits']]
          /\ executable' = executable \cup {d}
          /\ clash' = (clash \/ Clashes(d, n))
  /\ events' = IF phase = "watching" THEN Append(events, [op |-> "create", dir |-> d]) ELSE events
  /\ unseen' = IF phase = "watching" THEN unseen ELSE unseen \cup {d}
  /\ UNCHANGED <<watched, step, skills, phase, pending>>

RemoveDir(d) ==
  /\ Edit /\ d \in dirs /\ toml[d] = NoToml
  /\ dirs' = dirs \ {d} /\ executable' = executable \ {d} /\ watched' = watched \ {d}
  /\ UNCHANGED <<toml, events, step, skills, phase, pending, unseen, clash>>

-----------------------------------------------------------------------------
(* The loader.                                                              *)

\* loadSkill: nothing changes when the file is not there or not acceptable.
loadSkill(d) ==
  skills' = IF Ok(d) THEN [skills EXCEPT ![toml[d].name] = [dir |-> d, contents |-> toml[d].contents]]
            ELSE skills

\* findSkillContext: without a skill loaded from the directory, its own name.
NameIn(d) == IF From(d) = {} THEN {d} ELSE From(d)

unregisterSkill(d) == \E n \in NameIn(d) : skills' = [skills EXCEPT ![n] = NoSkill]

\* LoadAll visits what ReadDir returned at its start; then WatchForChanges does.
LoadAll ==
  /\ phase = "loading"
  /\ \/ \E d \in pending : loadSkill(d) /\ pending' = pending \ {d} /\ UNCHANGED phase
     \/ pending = {} /\ phase' = "adding" /\ pending' = dirs /\ UNCHANGED skills
  /\ UNCHANGED <<dirs, toml, executable, watched, events, step, edits, unseen, clash>>

WatchForChanges ==
  /\ phase = "adding"
  /\ \/ \E d \in pending : /\ watched' = watched \cup ({d} \cap dirs)
                           /\ pending' = pending \ {d} /\ UNCHANGED phase
     \/ pending = {} /\ phase' = "watching" /\ UNCHANGED <<watched, pending>>
  /\ UNCHANGED <<dirs, toml, executable, events, step, skills, edits, unseen, clash>>

At(pc) == step.pc = pc
Took(op) == phase = "watching" /\ At("idle") /\ events # <<>> /\ Head(events).op = op
Subject == Head(events).dir

Changed ==
  /\ Took("write") /\ events' = Tail(events)
  /\ unregisterSkill(Subject) /\ step' = [pc |-> "load", dir |-> Subject]
  /\ UNCHANGED <<dirs, toml, executable, watched, phase, pending, edits, unseen, clash>>

Removed ==
  /\ Took("remove") /\ events' = Tail(events)
  /\ unregisterSkill(Subject)
  /\ UNCHANGED <<dirs, toml, executable, watched, step, phase, pending, edits, unseen, clash>>

\* A new directory is watched before it is looked into, so that nothing that is
\* written to it goes unnoticed.
LoadThenAdd == [created |-> "load", load |-> "add", add |-> "idle"]
Then == [created |-> "add", add |-> "load", load |-> "idle"]
Goto(pc) == step' = IF pc = "idle" THEN Idle ELSE [step EXCEPT !.pc = pc]

Created ==
  /\ Took("create") /\ events' = Tail(events)
  /\ step' = IF Subject \in dirs THEN [pc |-> Then.created, dir |-> Subject] ELSE Idle
  /\ UNCHANGED <<dirs, toml, executable, watched, skills, phase, pending, edits, unseen, clash>>

Add ==
  /\ At("add") /\ Goto(Then.add)
  /\ watched' = watched \cup ({step.dir} \cap dirs)
  /\ UNCHANGED <<dirs, toml, executable, events, skills, phase, pending, edits, unseen, clash>>

\* A directory that was made anew may still have a skill of its former self: nothing
\* removes that if the new one has another name.
Load ==
  /\ At("load") /\ Goto(Then.load)
  /\ loadSkill(step.dir)
  /\ unseen' = IF Ok(step.dir) /\ From(step.dir) \ {toml[step.dir].name} # {}
               THEN unseen \cup {step.dir} ELSE unseen
  /\ UNCHANGED <<dirs, toml, executable, watched, events, phase, pending, edits, clash>>

\* The goroutine of WatchForChanges may be in the middle of an event.
Shutdown ==
  /\ phase = "watching" /\ phase' = "stopped"
  /\ skills' = [n \in Names |-> NoSkill]
  /\ UNCHANGED <<dirs, toml, executable, watched, events, step, pending, edits, unseen, clash>>

LoaderNext ==
  \/ \E d \in Dirs : \/ WriteToml(d) \/ RemoveToml(d) \/ MoveToml(d) \/ PutCommand(d)
                     \/ MakeDir(d) \/ RemoveDir(d)
  \/ LoadAll \/ WatchForChanges \/ Changed \/ Removed \/ Created \/ Add \/ Load \/ Shutdown

-----------------------------------------------------------------------------
\* When the events have been worked off, the skills that can be called are those
\* of the files: each with its present contents and under its present name, and
\* none of a file that is gone or no longer accepted.  Excepted are changes that
\* no event tells (before the directory is watched at start-up, a renamed file, a
\* command that comes after its skill.toml), a directory made anew before its former
\* skill is removed, and names used twice.
SettledIsLoaded ==
  phase = "watching" /\ events = <<>> /\ At("idle") /\ ~clash =>
    \A d \in Dirs \ unseen : \A n \in Names :
      IF Ok(d) /\ toml[d].name = n
      THEN skills[n] = [dir |-> d, contents |-> toml[d].contents]
      ELSE skills[n].dir # d
=============================================================================
