-------------------------------- MODULE MCSkills --------------------------------
(***************************************************************************)
(* What fills the skill registry at run time, for TLC: the extensions      *)
(* (Extensions) and the skill collections on disk (SkillLoader).  The      *)
(* names they register differ in their prefix, and neither reads what the  *)
(* other keeps: while one half moves, the other stays at a start of its    *)
(* own, without collections or without extensions.                         *)
(***************************************************************************)
EXTENDS MCExtensions

CONSTANTS Dirs, SkillNames, MaxEdits
VARIABLES half, dirs, toml, executable, watched, events, step, collection, phase, pending, edits, unseen,
          clash

collectionVars == <<dirs, toml, executable, watched, events, step, collection, phase, pending, edits,
                    unseen, clash>>

ASSUME SkillsAssumption == "none" \notin Dirs \cup SkillNames

Collections == INSTANCE SkillLoader WITH Names <- SkillNames, skills <- collection

\* The skills of the files are those that can be called: see SkillLoader.
SettledIsLoaded == Collections!SettledIsLoaded

NoCollections == Collections!LoaderInit /\ dirs = {}
NoExtensions == Init /\ mode = "api" /\ reg = [x \in Names |-> None]

SkillsInit ==
  \/ half = "extensions" /\ Init /\ NoCollections
  \/ half = "collections" /\ NoExtensions /\ Collections!LoaderInit
ExtensionHalf == half = "extensions" /\ Next /\ UNCHANGED <<half, collectionVars>>
CollectionHalf == half = "collections" /\ Collections!LoaderNext /\ UNCHANGED <<half, vars>>
SkillsSpec == SkillsInit /\ [][ExtensionHalf \/ CollectionHalf]_<<half, vars, collectionVars>>
=============================================================================
