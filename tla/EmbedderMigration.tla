-------------------------- MODULE EmbedderMigration --------------------------
(***************************************************************************)
(* Changing the embedder of the vector index: internal/memory/migration.go *)
(* builds collections of a new version beside those that serve, lets live  *)
(* indexing write to both, and then points the aliases the rest of the     *)
(* program uses at the new ones.  What it has done is kept in one row,     *)
(* embedder_state (internal/memory/store.go); cmd/curlycatclaw/main.go     *)
(* takes it up again after a restart, and cmd/curlycatclaw/migrate.go is   *)
(* the same as a command, run while the program is down.                   *)
(*                                                                         *)
(* A row of a source (messages, notes, summaries) is its number, a         *)
(* collection the embedder its vectors are of and the rows it holds.       *)
(* Version 0 of a source's collection is the raw one, which has the name   *)
(* the aliases take later.  Two embedders never have the same dimension.   *)
(***************************************************************************)
EXTENDS Naturals, Sequences

CONSTANTS
  Order,        \* the sources in the order of the three collections
  Embedders,
  Rebuildable,  \* embedders reconstructEmbedder can make again
  FirstRows,    \* rows each source has to begin with
  MaxRows,      \* bound: rows of each source
  Textless,     \* rows of each source that extractText finds nothing in
  BatchSize,    \* migrationBatchSize (32)
  FlushEvery,   \* batches between two writes of the cursor (10)
  CatchUpRounds,\* rounds of catchUp at most (10)
  MaxVersion,   \* bound: versions of the collections
  MaxFaults,    \* bound: calls that fail
  MaxStops,     \* bound: crashes and shutdowns
  MaxTools      \* bound: runs of --migrate-embedder

Sources == {Order[n] : n \in DOMAIN Order}
Last == Len(Order)

ASSUME MigrationAssumption ==
  /\ Order \in Seq(Sources) /\ Order # <<>>
  /\ Rebuildable \subseteq Embedders /\ Embedders # {} /\ "none" \notin Embedders
  /\ {BatchSize, FlushEvery, CatchUpRounds, MaxVersion} \subseteq Nat \ {0}
  /\ {MaxFaults, MaxStops, MaxTools} \subseteq Nat
  /\ {FirstRows, MaxRows} \subseteq [Sources -> Nat] /\ Textless \in [Sources -> SUBSET Nat]
  /\ \A s \in Sources : FirstRows[s] <= MaxRows[s]

VARIABLES
  rows,     \* how many rows each source has
  db,       \* embedder_state
  coll,     \* the collections of each source, by version
  alias,    \* the version each alias points at, 0: there is no such alias
  cfg,      \* the embedder of the configuration
  proc,     \* the process: is it up, told to stop, and its VectorStore
  mgr,      \* the migration goroutine
  op,       \* a call of Index or IndexSummary
  tool,     \* a run of --migrate-embedder
  budgets,  \* faults, stops and runs of the command so far
  known,    \* history: rows there were when the present index was begun
  misread,  \* history: after a failed read of it the recorded embedder was taken for another
  damaged,  \* history: a run of the command has ended in an error
  calm      \* history: no call has failed since the process started

qdrant == <<coll, alias>>
vars == <<rows, db, coll, alias, cfg, proc, mgr, op, tool, budgets, known, misread,
          damaged, calm>>

\* The rows: MessageTextsAfter, NoteTextsAfter and SummaryTextsAfter

\* Mutant: a resumed batch begins one row late
BatchLate(s, after) == {n \in (after + 2)..rows[s] : n <= after + BatchSize}
Batch(s, after) == {n \in (after + 1)..rows[s] : n <= after + BatchSize}
Texts(s, after) == Batch(s, after) \ Textless[s]
Through(s, after) == IF rows[s] < after + BatchSize THEN rows[s] ELSE after + BatchSize
AllTexts(s) == (1..rows[s]) \ Textless[s]

Absent == [emb |-> "none", rows |-> {}]
Empty(e) == [emb |-> e, rows |-> {}]
Settled == "" \* migration_status when there is no migration
AtStart == [s \in Sources |-> 0]
Nothing == [s \in Sources |-> {}]
NoState == [emb |-> "none", ver |-> 0, mig |-> 0, status |-> Settled, cursor |-> AtStart]
NoDual == [emb |-> "none", ver |-> 0]
Down == [up |-> FALSE, stopping |-> FALSE, vs |-> "none", active |-> "none", dw |-> NoDual,
         resume |-> FALSE]
MgrOff == [pc |-> "off", emb |-> "none", from |-> 0, to |-> 0, i |-> 1, last |-> AtStart,
           since |-> 0, round |-> 0, found |-> FALSE]
OpOff == [pc |-> "off", src |-> Order[1], row |-> 0, emb |-> "none"]
ToolOff == [pc |-> "off", i |-> 1, texts |-> Nothing, aliased |-> FALSE, hit |-> FALSE]

Init ==
  /\ rows = FirstRows
  /\ \/ db = NoState /\ coll = [s \in Sources |-> [v \in 0..MaxVersion |-> Absent]]
     \/ \E e \in Embedders : \* it has run with e, and indexed what there is
          /\ db = [NoState EXCEPT !.emb = e]
          /\ coll = [s \in Sources |-> [v \in 0..MaxVersion |->
                       IF v = 0 THEN [emb |-> e, rows |-> AllTexts(s)] ELSE Absent]]
  /\ alias = AtStart
  /\ cfg \in Embedders
  /\ proc = Down /\ mgr = MgrOff /\ op = OpOff /\ tool = ToolOff
  /\ budgets = [faults |-> 0, stops |-> 0, tools |-> 0]
  /\ known = Nothing /\ misread = FALSE /\ damaged = FALSE /\ calm = TRUE

Spend(b) == budgets' = [budgets EXCEPT ![b] = @ + 1]
Fault == budgets.faults < MaxFaults /\ Spend("faults") /\ calm' = FALSE
NoFault == UNCHANGED <<budgets, calm>>

-------------------------------------------------------------------------------
\* Qdrant, as the program uses it.  A name is resolved through the aliases; an
\* alias and a collection cannot have one name; deleting an alias's name does
\* nothing; deleting a collection deletes the aliases that point at it.

Exists(s, v) == coll[s][v] # Absent
Serving(s) == alias[s]
Accepts(s, v, e) == Exists(s, v) /\ coll[s][v].emb = e
Put(s, v, ns) == coll' = [coll EXCEPT ![s][v].rows = @ \cup ns]

Drop(S, v) ==
  /\ coll' = [s \in Sources |-> IF s \in S THEN [coll[s] EXCEPT ![v] = Absent] ELSE coll[s]]
  /\ alias' = [s \in Sources |-> IF s \in S /\ v > 0 /\ alias[s] = v THEN 0 ELSE alias[s]]

CanAlias(v) == \A s \in Sources : Exists(s, v) /\ ~Exists(s, 0)
PointAt(v) == alias' = [s \in Sources |-> v]

-------------------------------------------------------------------------------
\* Start-up: what is to be done about embedder_state, then NewVectorStore

ToolIdle == tool.pc \in {"off", "error"}

StartMigration ==
  db' = [db EXCEPT !.mig = db.ver + 1, !.status = "running", !.cursor = AtStart]

Up(active, resume) ==
  /\ proc' = [Down EXCEPT !.up = TRUE, !.vs = "opening", !.active = active, !.resume = resume]
  /\ known' = IF resume /\ db.status # "completing"
              THEN [s \in Sources |-> AllTexts(s)] ELSE known

\* A state that cannot be read is taken for that of a first boot: the embedder of
\* the configuration serves at once, and is recorded unless a migration is pending
\* or the write fails too.
BootUnread ==
  /\ Fault /\ Up(cfg, FALSE)
  /\ UNCHANGED db \/ (db.status = Settled /\ db' = [db EXCEPT !.emb = cfg])
  /\ misread' = (misread \/ (db # NoState /\ db.status = Settled /\ db.emb # cfg))

\* main.go: first boot, nothing changed, a changed embedder, a migration pending or failed.
\* An embedder that cannot be made again is replaced by the new one, without a migration.
Boot ==
  /\ ~proc.up /\ ToolIdle
  /\ LET old == db.emb \in Rebuildable
         serving == IF old THEN db.emb ELSE cfg
         changed == db.status = Settled /\ db.emb # cfg
     IN \/ /\ db = NoState /\ db' = [NoState EXCEPT !.emb = cfg]
           /\ Up(cfg, FALSE) /\ calm' = TRUE /\ UNCHANGED <<budgets, misread>>
        \/ /\ db # NoState /\ ~changed /\ UNCHANGED <<db, budgets, misread>> /\ calm' = TRUE
           /\ Up(IF db.status = Settled THEN cfg ELSE serving,
                 old /\ db.status \in {"running", "completing"})
        \/ /\ db # NoState /\ changed /\ UNCHANGED <<budgets, misread>> /\ calm' = TRUE
           /\ Up(serving, old)
           /\ IF old THEN StartMigration ELSE UNCHANGED db
        \/ /\ db # NoState /\ changed /\ old \* the start cannot be written
           /\ Up(serving, FALSE) /\ Fault /\ UNCHANGED <<db, misread>>
        \/ BootUnread
  /\ UNCHANGED <<rows, coll, alias, cfg, mgr, op, tool, damaged>>

HasAliases == \E s \in Sources : alias[s] # 0
\* ensureCollection: created if it is missing, made anew if it has another dimension
Ensured(S) ==
  [s \in Sources |-> IF s \in S /\ coll[s][0].emb # proc.active
                     THEN [coll[s] EXCEPT ![0] = Empty(proc.active)] ELSE coll[s]]

\* Mutant: a resumed migration is taken for one that only lacks the swap
NewManagerSwaps ==
  [MgrOff EXCEPT !.pc = IF db.cursor # AtStart THEN "swap" ELSE "create",
                 !.emb = cfg, !.from = db.ver, !.to = db.mig, !.last = db.cursor]
\* Mutant: one marked completing is not taken up
NewManagerIdle == [NewManagerSwaps EXCEPT !.pc = IF db.status = "running" THEN "create" ELSE "off"]
NewManager ==
  [MgrOff EXCEPT !.pc = IF db.status = "completing" THEN "swap" ELSE "create",
                 !.emb = cfg, !.from = db.ver, !.to = db.mig, !.last = db.cursor]

OpenVectors ==
  /\ proc.up /\ proc.vs = "opening"
  /\ \/ /\ coll' = IF HasAliases THEN coll ELSE Ensured(Sources)
        /\ proc' = [proc EXCEPT !.vs = "open"]
        /\ mgr' = IF proc.resume THEN NewManager ELSE mgr
        /\ NoFault
     \/ \E k \in 0..(Last - 1) :
        /\ coll' = IF HasAliases THEN coll ELSE Ensured({Order[n] : n \in 1..k})
        /\ proc' = [proc EXCEPT !.vs = "none"]
        /\ Fault /\ UNCHANGED mgr
  /\ UNCHANGED <<rows, db, alias, cfg, op, tool, known, misread, damaged>>

-------------------------------------------------------------------------------
\* The migration goroutine.  Once the process is told to stop its calls of
\* Qdrant and of the embedder fail; its writes of embedder_state do not.

At(pc) == proc.up /\ mgr.pc = pc
Src == Order[mgr.i]
Steps(m) == mgr' = m
ManagerOnly == UNCHANGED <<rows, cfg, op, tool, known, misread, damaged>>

\* fail(): the status is written, unless that fails too
Failed ==
  /\ mgr' = MgrOff /\ proc' = [proc EXCEPT !.dw = NoDual]
  /\ db' = [db EXCEPT !.status = "failed"]
FailedByFault ==
  /\ Fault
  /\ Failed \/ (mgr' = MgrOff /\ proc' = [proc EXCEPT !.dw = NoDual] /\ UNCHANGED db)
Cancelled == mgr' = MgrOff /\ UNCHANGED <<proc, db>>

CreateTarget ==
  /\ At("create")
  /\ \/ /\ ~proc.stopping /\ mgr.i <= Last /\ NoFault
        /\ coll' = IF Exists(Src, mgr.to) THEN coll
                   ELSE [coll EXCEPT ![Src][mgr.to] = Empty(mgr.emb)]
        /\ Steps([mgr EXCEPT !.i = @ + 1]) /\ UNCHANGED <<proc, db>>
     \/ /\ mgr.i > Last /\ NoFault \* EnableDualWrite
        /\ proc' = [proc EXCEPT !.dw = [emb |-> mgr.emb, ver |-> mgr.to]]
        /\ Steps([mgr EXCEPT !.pc = "fill", !.i = 1]) /\ UNCHANGED <<coll, db>>
     \/ proc.stopping /\ mgr.i <= Last /\ Failed /\ NoFault /\ UNCHANGED coll
     \/ ~proc.stopping /\ mgr.i <= Last /\ FailedByFault /\ UNCHANGED coll
  /\ ManagerOnly /\ UNCHANGED alias

\* UpdateMigrationCursor, whose error nobody looks at
Flush(last) ==
  \/ db' = [db EXCEPT !.cursor = last] /\ NoFault
  \/ UNCHANGED db /\ Fault

\* backfill: one batch after another, a batch without any text taken for the end of
\* its source, the cursor written now and then; catchUp goes on from what was written
Backfill ==
  /\ At("fill") /\ ~proc.stopping /\ mgr.i <= Last
  /\ LET texts == Texts(Src, mgr.last[Src])
         last == [mgr.last EXCEPT ![Src] = Through(Src, @)]
         flush == mgr.since + 1 >= FlushEvery
     IN \/ /\ texts = {} /\ mgr.i < Last /\ NoFault
           /\ Steps([mgr EXCEPT !.i = @ + 1]) /\ UNCHANGED <<coll, db, proc>>
        \/ /\ texts = {} /\ mgr.i = Last /\ Flush(mgr.last)
           /\ Steps([mgr EXCEPT !.pc = "catch", !.i = 1, !.last = db'.cursor, !.round = 1,
                                !.found = FALSE])
           /\ UNCHANGED <<coll, proc>>
        \/ /\ texts # {} /\ Accepts(Src, mgr.to, mgr.emb)
           /\ Put(Src, mgr.to, texts)
           /\ Steps([mgr EXCEPT !.last = last, !.since = IF flush THEN 0 ELSE @ + 1])
           /\ IF flush THEN Flush(last) ELSE UNCHANGED db /\ NoFault
           /\ UNCHANGED proc
        \/ /\ texts # {} /\ ~Accepts(Src, mgr.to, mgr.emb)
           /\ Failed /\ NoFault /\ UNCHANGED coll
        \/ FailedByFault /\ UNCHANGED coll
  /\ ManagerOnly /\ UNCHANGED alias

\* catchUp: a batch of every source in each round, until a round finds nothing
CatchUp ==
  /\ At("catch") /\ ~proc.stopping
  /\ \/ /\ mgr.i <= Last
        /\ LET texts == Texts(Src, mgr.last[Src]) IN
           \/ /\ texts = {} /\ NoFault /\ UNCHANGED <<coll, proc, db>>
              /\ Steps([mgr EXCEPT !.i = @ + 1])
           \/ /\ texts # {} /\ Accepts(Src, mgr.to, mgr.emb) /\ NoFault /\ UNCHANGED <<proc, db>>
              /\ Put(Src, mgr.to, texts)
              /\ Steps([mgr EXCEPT !.i = @ + 1, !.found = TRUE,
                                   !.last[Src] = Through(Src, @)])
           \/ /\ texts # {} /\ ~Accepts(Src, mgr.to, mgr.emb)
              /\ Failed /\ NoFault /\ UNCHANGED coll
           \/ FailedByFault /\ UNCHANGED coll
     \/ /\ mgr.i > Last /\ Flush(mgr.last)
        /\ Steps(IF mgr.found /\ mgr.round < CatchUpRounds
                 THEN [mgr EXCEPT !.i = 1, !.round = @ + 1, !.found = FALSE]
                 ELSE [mgr EXCEPT !.pc = "mark", !.i = 1])
        /\ UNCHANGED <<coll, proc>>
  /\ ManagerOnly /\ UNCHANGED alias

MarkCompleting ==
  /\ At("mark")
  /\ \/ /\ db' = [db EXCEPT !.status = "completing"] /\ NoFault
        /\ Steps([mgr EXCEPT !.pc = "swap"]) /\ UNCHANGED proc
     \/ FailedByFault
  /\ ManagerOnly /\ UNCHANGED qdrant

Adopt == Steps([mgr EXCEPT !.pc = "adopt"]) /\ UNCHANGED <<proc, db>>

\* swapAliases for the first version: BootstrapAliases deletes the raw collections first
DropRaw ==
  /\ At("swap") /\ ~proc.stopping /\ mgr.from = 0 /\ mgr.i <= Last
  /\ \/ /\ Drop({Src}, 0) /\ NoFault
        /\ Steps([mgr EXCEPT !.i = @ + 1]) /\ UNCHANGED <<proc, db>>
     \/ FailedByFault /\ UNCHANGED qdrant
  /\ ManagerOnly

\* ... and the aliases are created, or moved, at once; the answer may be lost
SwapAliases ==
  /\ At("swap") /\ ~proc.stopping /\ (mgr.from = 0 => mgr.i > Last)
  /\ \/ /\ CanAlias(mgr.to) /\ PointAt(mgr.to) /\ Adopt /\ NoFault
     \/ ~CanAlias(mgr.to) /\ Failed /\ NoFault /\ UNCHANGED alias
     \/ /\ UNCHANGED alias \/ (CanAlias(mgr.to) /\ PointAt(mgr.to))
        /\ FailedByFault
  /\ ManagerOnly /\ UNCHANGED coll

SwapEmbedder ==
  /\ At("adopt")
  /\ proc' = [proc EXCEPT !.active = mgr.emb]
  /\ Steps([mgr EXCEPT !.pc = "single"])
  /\ NoFault /\ ManagerOnly /\ UNCHANGED <<qdrant, db>>

DisableDualWrite ==
  /\ At("single")
  /\ proc' = [proc EXCEPT !.dw = NoDual]
  /\ Steps([mgr EXCEPT !.pc = "clean"])
  /\ NoFault /\ ManagerOnly /\ UNCHANGED <<qdrant, db>>

\* The old version goes, as far as that works
DropOld ==
  /\ At("clean")
  /\ Steps([mgr EXCEPT !.pc = "complete"])
  /\ \/ mgr.from = 0 /\ UNCHANGED qdrant /\ NoFault
     \/ mgr.from > 0 /\ ~proc.stopping /\ Drop(Sources, mgr.from) /\ NoFault
     \/ mgr.from > 0 /\ proc.stopping /\ UNCHANGED qdrant /\ NoFault
     \/ \E S \in SUBSET Sources : mgr.from > 0 /\ S # Sources /\ Drop(S, mgr.from) /\ Fault
  /\ ManagerOnly /\ UNCHANGED <<proc, db>>

CompleteMigration(e, v) ==
  /\ db' = [emb |-> e, ver |-> v, mig |-> 0, status |-> Settled, cursor |-> AtStart]
  /\ misread' = FALSE

Complete ==
  /\ At("complete") /\ mgr' = MgrOff
  /\ \/ CompleteMigration(mgr.emb, mgr.to) /\ NoFault
     \/ Fault /\ UNCHANGED <<db, misread>>
  /\ UNCHANGED <<rows, cfg, op, tool, known, damaged, qdrant, proc>>

\* A loop or a call finds the context cancelled: nothing is recorded
Cancel ==
  /\ proc.up /\ proc.stopping /\ mgr.pc \in {"fill", "catch", "swap"}
  /\ Cancelled /\ NoFault /\ ManagerOnly /\ UNCHANGED qdrant

-------------------------------------------------------------------------------
\* Live indexing: Index and IndexSummary

SaveRow(s) ==
  /\ proc.up /\ ~proc.stopping /\ proc.vs # "opening" /\ op.pc = "off"
  /\ rows[s] < MaxRows[s]
  /\ rows' = [rows EXCEPT ![s] = @ + 1]
  /\ op' = IF proc.vs = "open" /\ rows[s] + 1 \notin Textless[s]
           THEN [OpOff EXCEPT !.pc = "embed", !.src = s, !.row = rows[s] + 1] ELSE op
  /\ UNCHANGED <<db, qdrant, cfg, proc, mgr, tool, budgets, known, misread, damaged, calm>>

IndexEmbed ==
  /\ proc.up /\ op.pc = "embed"
  /\ \/ op' = [op EXCEPT !.pc = "upsert", !.emb = proc.active] /\ NoFault
     \/ op' = OpOff /\ Fault
  /\ UNCHANGED <<rows, db, qdrant, cfg, proc, mgr, tool, known, misread, damaged>>

IndexUpsert ==
  /\ proc.up /\ op.pc = "upsert"
  /\ LET v == Serving(op.src) IN
     \/ /\ Accepts(op.src, v, op.emb) /\ Put(op.src, v, {op.row}) /\ NoFault
     \/ ~Accepts(op.src, v, op.emb) /\ NoFault /\ UNCHANGED coll
     \/ Fault /\ UNCHANGED coll
  /\ op' = [op EXCEPT !.pc = "dual"]
  /\ UNCHANGED <<rows, db, alias, cfg, proc, mgr, tool, known, misread, damaged>>

IndexDual ==
  /\ proc.up /\ op.pc = "dual"
  /\ IF proc.dw # NoDual /\ Accepts(op.src, proc.dw.ver, proc.dw.emb)
     THEN (Put(op.src, proc.dw.ver, {op.row}) /\ NoFault) \/ (Fault /\ UNCHANGED coll)
     ELSE NoFault /\ UNCHANGED coll
  /\ op' = OpOff
  /\ UNCHANGED <<rows, db, alias, cfg, proc, mgr, tool, known, misread, damaged>>

-------------------------------------------------------------------------------
\* Stopping and changing the configuration: the operator does the latter only
\* between two migrations

Shutdown ==
  /\ proc.up /\ ~proc.stopping /\ proc.vs # "opening"
  /\ budgets.stops < MaxStops /\ Spend("stops")
  /\ proc' = [proc EXCEPT !.stopping = TRUE]
  /\ UNCHANGED <<rows, db, qdrant, cfg, mgr, op, tool, known, misread, damaged, calm>>

\* main waits for the migration; what is being indexed is cancelled
Exit ==
  /\ proc.up /\ proc.stopping /\ mgr.pc = "off"
  /\ proc' = Down /\ op' = OpOff
  /\ UNCHANGED <<rows, db, qdrant, cfg, mgr, tool, budgets, known, misread, damaged, calm>>

Crash ==
  /\ proc.up /\ budgets.stops < MaxStops /\ Spend("stops")
  /\ proc' = Down /\ mgr' = MgrOff /\ op' = OpOff
  /\ UNCHANGED <<rows, db, qdrant, cfg, tool, known, misread, damaged, calm>>

Reconfigure ==
  /\ ~proc.up /\ ToolIdle /\ db.status = Settled /\ db.ver < MaxVersion
  /\ cfg' \in Embedders \ {cfg}
  /\ UNCHANGED <<rows, db, qdrant, proc, mgr, op, tool, budgets, known, misread, damaged, calm>>

-------------------------------------------------------------------------------
\* runMigrateEmbedder

ToolOnly == UNCHANGED <<rows, cfg, proc, mgr, op, calm>>
ToolNext(pc) == tool' = [tool EXCEPT !.pc = pc, !.i = 1]
ToolStep == tool' = [tool EXCEPT !.i = @ + 1]
ToolSrc == Order[tool.i]
ToolFault == budgets.faults < MaxFaults /\ Spend("faults")

\* An error returned: the command ends where it is
ToolError(hit) == tool' = [ToolOff EXCEPT !.pc = "error", !.hit = hit] /\ damaged' = TRUE

\* With no texts at all there is nothing to do.  That it can read embedder_state and
\* the aliases is assumed: it goes on without them (migrate.go:99, 108).
ToolStart ==
  /\ ~proc.up /\ ToolIdle /\ budgets.tools < MaxTools /\ Spend("tools") /\ db.ver < MaxVersion
  /\ \E s \in Sources : AllTexts(s) # {}
  /\ tool' = [ToolOff EXCEPT !.pc = "delete", !.texts = [s \in Sources |-> AllTexts(s)],
                             !.aliased = HasAliases]
  /\ ToolOnly /\ UNCHANGED <<db, qdrant, known, misread, damaged>>

\* Destructive first: the collections that serve are deleted, one after another
ToolDelete ==
  /\ tool.pc = "delete"
  /\ \/ /\ tool.i <= Last /\ Drop({ToolSrc}, IF tool.aliased THEN db.ver ELSE 0)
        /\ ToolStep /\ UNCHANGED <<budgets, damaged>>
     \/ tool.i > Last /\ ToolNext("create") /\ UNCHANGED <<qdrant, budgets, damaged>>
     \/ ToolError(TRUE) /\ ToolFault /\ UNCHANGED qdrant
  /\ ToolOnly /\ UNCHANGED <<db, known, misread>>

\* CreateCollection refuses a collection that is there
ToolCreate ==
  /\ tool.pc = "create"
  /\ \/ /\ tool.i <= Last /\ ~Exists(ToolSrc, db.ver + 1)
        /\ coll' = [coll EXCEPT ![ToolSrc][db.ver + 1] = Empty(cfg)]
        /\ ToolStep /\ UNCHANGED <<budgets, damaged>>
     \/ /\ tool.i <= Last /\ Exists(ToolSrc, db.ver + 1)
        /\ ToolError(FALSE) /\ UNCHANGED <<coll, budgets>>
     \/ tool.i > Last /\ ToolNext("fill") /\ UNCHANGED <<coll, budgets, damaged>>
     \/ ToolError(TRUE) /\ ToolFault /\ UNCHANGED coll
  /\ ToolOnly /\ UNCHANGED <<db, alias, known, misread>>

ToolFill ==
  /\ tool.pc = "fill"
  /\ \/ /\ tool.i <= Last /\ Put(ToolSrc, db.ver + 1, tool.texts[ToolSrc])
        /\ ToolStep /\ UNCHANGED <<budgets, damaged>>
     \/ tool.i > Last /\ ToolNext("alias") /\ UNCHANGED <<coll, budgets, damaged>>
     \/ ToolError(TRUE) /\ ToolFault /\ UNCHANGED coll
  /\ ToolOnly /\ UNCHANGED <<db, alias, known, misread>>

\* SwapAliases, or BootstrapAliases, which deletes the raw collections once more
ToolAlias ==
  /\ tool.pc = "alias"
  /\ LET raw == \E s \in Sources : Exists(s, 0) IN
     \/ tool.aliased /\ raw /\ ToolError(FALSE) /\ UNCHANGED <<qdrant, budgets>>
     \/ /\ (tool.aliased => ~raw) /\ PointAt(db.ver + 1) /\ ToolNext("state")
        /\ coll' = [s \in Sources |-> [coll[s] EXCEPT ![0] = Absent]]
        /\ UNCHANGED <<budgets, damaged>>
     \/ ToolError(TRUE) /\ ToolFault /\ UNCHANGED qdrant
  /\ ToolOnly /\ UNCHANGED <<db, known, misread>>

\* That embedder_state cannot be written is only logged
ToolState ==
  /\ tool.pc = "state"
  /\ \/ /\ CompleteMigration(cfg, db.ver + 1) /\ known' = tool.texts
        /\ tool' = ToolOff /\ UNCHANGED <<budgets, damaged>>
     \/ ToolError(TRUE) /\ ToolFault /\ UNCHANGED <<db, known, misread>>
  /\ ToolOnly /\ UNCHANGED qdrant

ToolKilled ==
  /\ ~ToolIdle /\ budgets.stops < MaxStops /\ Spend("stops")
  /\ ToolError(TRUE)
  /\ ToolOnly /\ UNCHANGED <<db, qdrant, known, misread>>

Tool == ToolStart \/ ToolDelete \/ ToolCreate \/ ToolFill \/ ToolAlias \/ ToolState \/ ToolKilled
Manager == \/ CreateTarget \/ Backfill \/ CatchUp \/ MarkCompleting \/ DropRaw \/ SwapAliases
           \/ SwapEmbedder \/ DisableDualWrite \/ DropOld \/ Complete \/ Cancel
Index == IndexEmbed \/ IndexUpsert \/ IndexDual
Next == \/ Boot \/ OpenVectors \/ Manager \/ (\E s \in Sources : SaveRow(s)) \/ Index
        \/ Shutdown \/ Exit \/ Crash \/ Reconfigure \/ Tool

\* The goroutine and the start-up run on; nobody has to restart the program,
\* to say anything to it or to run the command.
Spec == Init /\ [][Next]_vars /\ WF_vars(Manager) /\ WF_vars(OpenVectors)

-------------------------------------------------------------------------------
Holds(s, v, e, ns) == Accepts(s, v, e) /\ ns \subseteq coll[s][v].rows

\* When a migration is marked completing, everything there was when the process
\* began or resumed its backfill is in the new collections, whatever crashed,
\* failed or was saved since: a resumed migration skips the backfill and the old
\* collections are deleted on the strength of it (migration.go:87).  Excepted are
\* rows with a batch's worth of rows without text somewhere before them, which may
\* end the backfill of their source (migration.go:188).  A command that broke off
\* can leave a collection of another embedder where a source without any text is to
\* go: nothing is put there, and nothing notices.
BehindGap(s, n) ==
  \E a \in 0..n : a + BatchSize < n /\ (a + 1)..(a + BatchSize) \subseteq Textless[s]
Reached(s) == {n \in known[s] : ~BehindGap(s, n)}
Carried(s) ==
  Reached(s) # {} \/ ~damaged => Holds(s, db.mig, cfg, Reached(s))

TargetComplete ==
  db.status = "completing" => \A s \in Sources : Carried(s)

\* Once a version is recorded as active, the aliases point at its collections,
\* these are of the recorded embedder, hold what the migration was to carry
\* over, and are searched and written with that embedder (migration.go:150),
\* unless it is one that cannot be made again.  Excepted is what follows a start
\* that failed to read the record (main.go:420-431): it serves with the embedder of
\* the configuration and records it, and the collections are of the former one
\* until the next migration.
LiveIndexWhole ==
  db.status = Settled /\ db.ver > 0 /\ ToolIdle /\ ~damaged /\ ~misread =>
    /\ \A s \in Sources : alias[s] = db.ver /\ Holds(s, db.ver, db.emb, Reached(s))
    /\ proc.up /\ (db.emb = cfg \/ db.emb \in Rebuildable) => proc.active = db.emb

\* A migration the process took up comes to an end, completed or failed, unless
\* a call failed or the process was stopped: catch-up cannot go on for ever,
\* and each state it may be resumed in leads on (migration.go:71, main.go:453).
MigrationResolves ==
  proc.up /\ proc.vs = "open" /\ db.status \in {"running", "completing"}
    ~> db.status \in {Settled, "failed"} \/ ~calm \/ proc.stopping \/ ~proc.up

\* main.go:465 tells the operator of a failed migration to retry it with
\* --migrate-embedder: unless a call fails or it is killed, that succeeds.
RetryRebuilds == db.status = "failed" /\ tool.pc = "error" => tool.hit

\* migration.go:97 says of the backfill that it is of all existing content: once
\* it is over, the new collections have every text there was when it began.
BackfillsAll ==
  mgr.pc \in {"catch", "mark"} => \A s \in Sources : known[s] \subseteq coll[s][mgr.to].rows
===============================================================================
