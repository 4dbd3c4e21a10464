----------------------- MODULE EmbedderMigrationProofs -----------------------
(***************************************************************************)
(* Theorems about EmbedderMigration, for any sources, embedders, batches   *)
(* and bounds.                                                             *)
(*                                                                         *)
(* What a migration may be judged by is spread over the row embedder_state *)
(* (which outlives the process), the goroutine's own cursors, the          *)
(* collections and the aliases.  The invariant says what each of them      *)
(* vouches for: a cursor for the rows before it, the sources passed over   *)
(* for what was known of them, the status for the goroutine's place, and   *)
(* a version above the active one for nobody but the migration under way.  *)
(***************************************************************************)
EXTENDS EmbedderMigration, TLAPS

Statuses == {Settled, "running", "completing", "failed"}
Known == Embedders \cup {"none"}
Collections == [emb : Known, rows : SUBSET Nat]
DbStates == [emb : Known, ver : 0..MaxVersion, mig : 0..MaxVersion, status : Statuses,
             cursor : [Sources -> Nat]]
Procs == [up : BOOLEAN, stopping : BOOLEAN, vs : {"none", "opening", "open"}, active : Known,
          dw : [emb : Known, ver : 0..MaxVersion], resume : BOOLEAN]
Filling == {"create", "fill", "catch", "mark"}
Moving == {"swap", "adopt", "single", "clean", "complete"}
Places == {"off"} \cup Filling \cup Moving
Managers == [pc : Places, emb : Known, from : 0..MaxVersion,
             to : 0..MaxVersion, i : Nat \ {0}, last : [Sources -> Nat], since : Nat,
             round : Nat, found : BOOLEAN]
Ops == [pc : {"off", "embed", "upsert", "dual"}, src : Sources, row : Nat, emb : Known]
Tools == [pc : {"off", "error", "delete", "create", "fill", "alias", "state"}, i : Nat \ {0},
          texts : [Sources -> SUBSET Nat], aliased : BOOLEAN, hit : BOOLEAN]

TypeInv ==
  /\ rows \in [Sources -> Nat]
  /\ db \in DbStates
  /\ coll \in [Sources -> [0..MaxVersion -> Collections]]
  /\ alias \in [Sources -> 0..MaxVersion]
  /\ cfg \in Embedders
  /\ proc \in Procs
  /\ mgr \in Managers
  /\ op \in Ops
  /\ tool \in Tools
  /\ known \in [Sources -> SUBSET Nat]
  /\ misread \in BOOLEAN /\ damaged \in BOOLEAN

\* What has been recorded of a migration names the version after the active
\* one, and there is room for it whenever there can be a migration.
Versions ==
  /\ db.status # Settled => db.mig = db.ver + 1 /\ db.emb # "none"
  /\ db.emb # cfg => db.ver < MaxVersion
  /\ db.emb = "none" => db = NoState
  /\ ~ToolIdle => db.ver < MaxVersion /\ ~proc.up

\* The goroutine, and the process that is about to start it, work at what
\* embedder_state says.
ManagerAgrees ==
  /\ mgr.pc # "off" =>
       /\ proc.up /\ proc.vs = "open"
       /\ mgr.emb = cfg /\ mgr.from = db.ver /\ mgr.to = db.mig
       /\ db.status = IF mgr.pc \in Filling THEN "running" ELSE "completing"
  /\ proc.up /\ proc.vs = "opening" =>
       /\ mgr.pc = "off"
       /\ proc.resume => db.status \in {"running", "completing"}

\* What was known was there: rows are never taken away.
KnownWasThere == \A s \in Sources : known[s] \subseteq AllTexts(s) /\ tool.texts[s] \subseteq AllTexts(s)

\* The texts among the first k rows of a source
Upto(s, k) == {n \in 1..k : n \notin Textless[s]}

\* A cursor, written or not, vouches for the rows before it.
Vouches(cursor) ==
  \A s \in Sources : cursor[s] # 0 => Holds(s, db.mig, cfg, Upto(s, cursor[s]))
CursorsVouch ==
  /\ db.status = "running" => Vouches(db.cursor)
  /\ mgr.pc \in Filling => Vouches(mgr.last)

\* Above the version a migration builds there is nothing; but for what a
\* command left that broke off, there is nothing above the active one either
\* before a migration, and nothing but the migration's own during it.
NothingAbove ==
  /\ \A s \in Sources, v \in 0..MaxVersion : v > db.ver + 1 => coll[s][v] = Absent
  /\ ~damaged /\ ToolIdle /\ db.status = Settled =>
       \A s \in Sources, v \in 0..MaxVersion : v > db.ver => coll[s][v] = Absent
  /\ ~damaged /\ db.status = "running" =>
       \A s \in Sources : Exists(s, db.mig) => coll[s][db.mig].emb = cfg

\* The sources the goroutine has passed: their collections are made, then they
\* hold what was known.
Passed(s) == \E n \in DOMAIN Order : n < mgr.i /\ s = Order[n]
TargetMade ==
  ~damaged =>
    /\ mgr.pc = "create" => \A s \in Sources : Passed(s) => Accepts(s, db.mig, cfg)
    /\ mgr.pc \in Filling \ {"create"} => \A s \in Sources : Accepts(s, db.mig, cfg)
TargetFilled ==
  /\ mgr.pc = "fill" => \A s \in Sources : Passed(s) => Carried(s)
  /\ mgr.pc \in {"catch", "mark"} => \A s \in Sources : Carried(s)

\* After the swap
Swapped ==
  /\ mgr.pc \in Moving \ {"swap"} => \A s \in Sources : alias[s] = db.mig
  /\ mgr.pc \in {"single", "clean", "complete"} => proc.active = cfg

\* What the command has made by the time it gets to a step
Made(s) == \E n \in DOMAIN Order : n < tool.i /\ s = Order[n]
ToolBuilds ==
  /\ tool.pc = "create" => \A s \in Sources : Made(s) => Accepts(s, db.ver + 1, cfg)
  /\ tool.pc = "fill" => \A s \in Sources :
       /\ Accepts(s, db.ver + 1, cfg)
       /\ Made(s) => tool.texts[s] \subseteq coll[s][db.ver + 1].rows
  /\ tool.pc \in {"alias", "state"} => \A s \in Sources : Holds(s, db.ver + 1, cfg, tool.texts[s])
  /\ tool.pc = "state" => \A s \in Sources : alias[s] = db.ver + 1

IInv ==
  /\ TypeInv /\ Versions /\ ManagerAgrees /\ KnownWasThere /\ CursorsVouch
  /\ NothingAbove /\ TargetMade /\ TargetFilled /\ TargetComplete /\ Swapped /\ ToolBuilds
  /\ LiveIndexWhole

-------------------------------------------------------------------------------
\* Steps that leave what there is, and add to it at most

LEMMA OrderIs == /\ Last \in Nat \ {0} /\ DOMAIN Order = 1..Last
                 /\ \A n \in 1..Last : Order[n] \in Sources
  BY MigrationAssumption DEF Last, Sources

LEMMA Bounds ==
  /\ BatchSize \in Nat \ {0} /\ MaxVersion \in Nat \ {0} /\ "none" \notin Embedders
  /\ Textless \in [Sources -> SUBSET Nat] /\ FirstRows \in [Sources -> Nat]
  /\ Rebuildable \subseteq Embedders
  BY MigrationAssumption

\* A collection is as it was, or holds more.
Kept(s, v) ==
  /\ coll'[s][v].emb = coll[s][v].emb
  /\ coll[s][v].rows \subseteq coll'[s][v].rows
  /\ coll'[s][v] = Absent <=> coll[s][v] = Absent

LEMMA PutKeeps ==
  ASSUME TypeInv, NEW s \in Sources, NEW v \in 0..MaxVersion, NEW ns \in SUBSET Nat,
         Put(s, v, ns), Exists(s, v)
  PROVE  /\ coll' \in [Sources -> [0..MaxVersion -> Collections]]
         /\ \A t \in Sources, w \in 0..MaxVersion : Kept(t, w)
         /\ ns \subseteq coll'[s][v].rows
<1> DEFINE c == [coll[s][v] EXCEPT !.rows = @ \cup ns]
           f == [coll[s] EXCEPT ![v] = c]
<1>1. coll[s][v] \in Collections /\ coll[s] \in [0..MaxVersion -> Collections]
  BY DEF TypeInv
<1>2. /\ c \in Collections /\ c.emb = coll[s][v].emb /\ c.rows = coll[s][v].rows \cup ns
  BY <1>1 DEF Collections
<1>3. coll' = [coll EXCEPT ![s] = f]
  BY DEF Put, TypeInv
<1>4. c # Absent
  BY <1>1, <1>2 DEF Exists, Absent, Collections
<1> HIDE DEF c
<1>5. f \in [0..MaxVersion -> Collections] /\ f[v] = c /\ \A w \in 0..MaxVersion : w # v => f[w] = coll[s][w]
  BY <1>1, <1>2
<1> HIDE DEF f
<1>6. /\ coll' \in [Sources -> [0..MaxVersion -> Collections]] /\ coll'[s] = f
      /\ \A t \in Sources : t # s => coll'[t] = coll[t]
  BY <1>3, <1>5 DEF TypeInv
<1> QED BY <1>2, <1>4, <1>5, <1>6 DEF Kept, Exists

\* Nothing but indexing happens: rows and vectors are added, the process may
\* be told to stop.
Adds ==
  /\ UNCHANGED <<db, alias, cfg, mgr, tool, known, misread, damaged>>
  /\ \A s \in Sources : rows'[s] >= rows[s]
  /\ \A s \in Sources, v \in 0..MaxVersion : Kept(s, v)
  /\ proc'.up = proc.up /\ proc'.vs = proc.vs /\ proc'.active = proc.active
  /\ proc'.resume = proc.resume

LEMMA AddingKeeps ==
  ASSUME IInv, TypeInv', Adds
  PROVE  IInv'
<1> USE DEF IInv
<1>1. Versions' BY DEF Adds, Versions, ToolIdle
<1>2. ManagerAgrees' BY DEF Adds, ManagerAgrees
<1>3. KnownWasThere'
  <2>1. \A s \in Sources : AllTexts(s) \subseteq AllTexts(s)'
    BY DEF Adds, AllTexts, TypeInv
  <2> QED BY <2>1 DEF Adds, KnownWasThere
<1> DEFINE mig == db.mig
<1>m. mig \in 0..MaxVersion /\ db.ver \in 0..MaxVersion
  BY DEF TypeInv, DbStates
<1>a. \A s \in Sources : Accepts(s, mig, cfg) => Accepts(s, mig, cfg)'
  BY <1>m DEF Adds, Accepts, Exists, Kept
<1>v. \A s \in Sources, ns \in SUBSET Nat, v \in 0..MaxVersion, e \in Known :
        Holds(s, v, e, ns) => Holds(s, v, e, ns)'
  BY DEF Adds, Holds, Accepts, Exists, Kept
<1>b. \A s \in Sources : Carried(s) => Carried(s)'
  <2>1. /\ \A s \in Sources : Reached(s) \in SUBSET Nat /\ Reached(s)' = Reached(s)
        /\ cfg \in Known
    BY DEF TypeInv, Known, Reached, Adds
  <2> QED BY <1>m, <1>v, <2>1 DEF Adds, Carried
<1>4. CursorsVouch'
  <2>1. cfg \in Known /\ \A s \in Sources, k \in Nat : Upto(s, k) \in SUBSET Nat
    BY DEF TypeInv, Known, Upto
  <2>2. /\ \A s \in Sources : db.cursor[s] \in Nat
        /\ \A s \in Sources : mgr.last[s] \in Nat
    BY DEF TypeInv, DbStates, Managers
  <2> QED BY <1>m, <1>v, <2>1, <2>2 DEF Adds, CursorsVouch, Vouches
<1>5. NothingAbove'
  <2>1. \A s \in Sources : Exists(s, mig)' => Exists(s, mig) /\ coll'[s][mig].emb = coll[s][mig].emb
    BY <1>m DEF Adds, Exists, Kept
  <2>2. \A s \in Sources, v \in 0..MaxVersion : coll[s][v] = Absent => coll'[s][v] = Absent
    BY DEF Adds, Kept
  <2> QED BY <2>1, <2>2 DEF Adds, NothingAbove, ToolIdle
<1>6. TargetMade' BY <1>a DEF Adds, TargetMade, Passed
<1>7. TargetFilled' BY <1>b DEF Adds, TargetFilled, Passed
<1>8. TargetComplete' BY <1>b DEF Adds, TargetComplete
<1>9. Swapped' BY DEF Adds, Swapped
<1>10. ToolBuilds'
  <2>1. ~ToolIdle => db.ver + 1 \in 0..MaxVersion
    BY <1>m, Bounds DEF Versions
  <2>2. ~ToolIdle => \A s \in Sources :
          /\ Accepts(s, db.ver + 1, cfg) => Accepts(s, db.ver + 1, cfg)'
          /\ coll[s][db.ver + 1].rows \subseteq coll'[s][db.ver + 1].rows
    BY <2>1 DEF Adds, Accepts, Exists, Kept
  <2>3. tool.pc \in {"create", "fill", "alias", "state"} => ~ToolIdle
    BY DEF ToolIdle
  <2> QED BY <2>2, <2>3 DEF Adds, ToolBuilds, Made, Holds
<1>11. LiveIndexWhole'
  <2>1. /\ db.emb \in Known
        /\ \A s \in Sources : Reached(s) \in SUBSET Nat /\ Reached(s)' = Reached(s)
    BY DEF TypeInv, DbStates, Reached, Adds
  <2> QED BY <1>m, <1>v, <2>1 DEF Adds, LiveIndexWhole, ToolIdle
<1> QED BY <1>1, <1>2, <1>3, <1>4, <1>5, <1>6, <1>7, <1>8, <1>9, <1>10, <1>11

LEMMA SettledIsNoOther == Settled \notin {"running", "completing", "failed"}
  BY Zenon DEF Settled

LEMMA EmptiesAreTyped ==
  /\ AtStart \in [Sources -> Nat]
  /\ NoState \in DbStates /\ Absent \in Collections /\ Down \in Procs /\ MgrOff \in Managers
  /\ OpOff \in Ops /\ ToolOff \in Tools /\ NoDual \in [emb : Known, ver : 0..MaxVersion]
  /\ \A e \in Embedders : Empty(e) \in Collections /\ Empty(e) # Absent
<1>0. "none" \in Known /\ 0 \in 0..MaxVersion /\ Settled \in Statuses /\ Order[1] \in Sources
  BY Bounds, OrderIs DEF Known, Statuses
<1>1. AtStart \in [Sources -> Nat] BY DEF AtStart
<1>2. NoDual \in [emb : Known, ver : 0..MaxVersion] BY <1>0 DEF NoDual
<1>3. NoState \in DbStates BY <1>0, <1>1 DEF NoState, DbStates
<1>4. Absent \in Collections BY <1>0 DEF Absent, Collections
<1>5. Down \in Procs BY <1>0, <1>2 DEF Down, Procs
<1>6. MgrOff \in Managers BY <1>0, <1>1 DEF MgrOff, Managers, Places
<1>7. OpOff \in Ops BY <1>0 DEF OpOff, Ops
<1>8. ToolOff \in Tools BY DEF ToolOff, Nothing, Tools
<1>9. \A e \in Embedders : Empty(e) \in Collections /\ Empty(e) # Absent
  BY Bounds DEF Empty, Collections, Absent, Known
<1> QED BY <1>1, <1>2, <1>3, <1>4, <1>5, <1>6, <1>7, <1>8, <1>9

LEMMA InitInv == Init => IInv
<1> SUFFICES ASSUME Init PROVE IInv
  OBVIOUS
<1>0. proc = Down /\ mgr = MgrOff /\ op = OpOff /\ tool = ToolOff /\ damaged = FALSE
      /\ misread = FALSE
      /\ rows = FirstRows /\ cfg \in Embedders /\ alias = AtStart
      /\ known = [s \in Sources |-> {}]
  BY DEF Init, Nothing
<1>a. ManagerAgrees /\ KnownWasThere /\ Swapped /\ ToolBuilds /\ TargetMade /\ TargetFilled
  BY <1>0 DEF ManagerAgrees, KnownWasThere, Swapped, ToolBuilds, TargetMade, TargetFilled,
     Down, MgrOff, ToolOff, Nothing, Filling, Moving
<1>b. ASSUME db.status = Settled, db.ver = 0 PROVE CursorsVouch /\ TargetComplete /\ LiveIndexWhole
  BY <1>0, <1>b, SettledIsNoOther DEF CursorsVouch, TargetComplete, LiveIndexWhole, MgrOff, Filling
<1>c. rows \in [Sources -> Nat] /\ alias \in [Sources -> 0..MaxVersion]
      /\ known \in [Sources -> SUBSET Nat]
  BY <1>0, Bounds DEF AtStart
<1>d. ASSUME db \in DbStates, coll \in [Sources -> [0..MaxVersion -> Collections]] PROVE TypeInv
  BY <1>0, <1>c, <1>d, EmptiesAreTyped DEF TypeInv
<1>1. CASE db = NoState /\ coll = [s \in Sources |-> [v \in 0..MaxVersion |-> Absent]]
  <2>0. db.status = Settled /\ db.ver = 0 /\ db.emb = "none"
    BY <1>1 DEF NoState
  <2>1. TypeInv BY <1>1, <1>d, EmptiesAreTyped
  <2>2. Versions BY <1>0, <1>1, <2>0, Bounds DEF Versions, ToolOff, ToolIdle
  <2>3. NothingAbove BY <1>1, <2>0, SettledIsNoOther DEF NothingAbove
  <2> QED BY <1>a, <1>b, <2>0, <2>1, <2>2, <2>3 DEF IInv
<1>2. CASE \E e \in Embedders :
         /\ db = [NoState EXCEPT !.emb = e]
         /\ coll = [s \in Sources |-> [v \in 0..MaxVersion |->
                      IF v = 0 THEN [emb |-> e, rows |-> AllTexts(s)] ELSE Absent]]
  <2> PICK e \in Embedders :
         /\ db = [NoState EXCEPT !.emb = e]
         /\ coll = [s \in Sources |-> [v \in 0..MaxVersion |->
                      IF v = 0 THEN [emb |-> e, rows |-> AllTexts(s)] ELSE Absent]]
    BY <1>2
  <2>0. db.emb = e /\ db.ver = 0 /\ db.status = Settled
    BY DEF NoState
  <2>1. db \in DbStates
    BY EmptiesAreTyped DEF DbStates, Known
  <2>2. \A s \in Sources : [emb |-> e, rows |-> AllTexts(s)] \in Collections
    BY <1>c DEF AllTexts, Collections, Known
  <2>3. \A s \in Sources : coll[s] = [v \in 0..MaxVersion |->
                      IF v = 0 THEN [emb |-> e, rows |-> AllTexts(s)] ELSE Absent]
    OBVIOUS
  <2>4. coll \in [Sources -> [0..MaxVersion -> Collections]]
    BY <2>2, EmptiesAreTyped
  <2>5. TypeInv BY <2>1, <2>4, <1>d
  <2>6. Versions BY <1>0, <2>0, Bounds DEF Versions, ToolOff, ToolIdle
  <2>7. \A s \in Sources, v \in 0..MaxVersion : v > 0 => coll[s][v] = Absent
    BY <2>3
  <2>8. NothingAbove BY <2>0, <2>7, SettledIsNoOther DEF NothingAbove
  <2> QED BY <1>a, <1>b, <2>0, <2>5, <2>6, <2>8 DEF IInv
<1> QED BY <1>1, <1>2 DEF Init

-------------------------------------------------------------------------------
\* Every step keeps the types.

LEMMA TypeIndex ==
  ASSUME TypeInv, Index \/ (\E s \in Sources : SaveRow(s)) \/ Shutdown \/ UNCHANGED vars
  PROVE  TypeInv' /\ Adds
<1>0. ASSUME coll' = coll PROVE \A s \in Sources, v \in 0..MaxVersion : Kept(s, v)
  BY <1>0 DEF Kept
<1>1. ASSUME rows' = rows PROVE \A s \in Sources : rows'[s] >= rows[s]
  BY <1>1 DEF TypeInv
<1>2. ASSUME NEW s \in Sources, SaveRow(s) PROVE TypeInv' /\ Adds
  <2>1. rows' \in [Sources -> Nat] /\ \A t \in Sources : rows'[t] >= rows[t]
    <3>1. rows \in [Sources -> Nat] /\ rows' = [rows EXCEPT ![s] = @ + 1]
      BY <1>2 DEF SaveRow, TypeInv
    <3> QED BY <3>1
  <2>2. op' \in Ops
    <3>1. rows[s] + 1 \in Nat BY DEF TypeInv
    <3> QED BY <1>2, <3>1, EmptiesAreTyped DEF SaveRow, TypeInv, Ops
  <2>3. TypeInv' BY <1>2, <2>1, <2>2 DEF SaveRow, TypeInv, qdrant
  <2> QED BY <1>0, <1>2, <2>1, <2>3 DEF SaveRow, Adds, qdrant
<1>3. CASE IndexEmbed
  <2>1. op' \in Ops
    BY <1>3, EmptiesAreTyped DEF IndexEmbed, TypeInv, OpOff, Ops, Procs
  <2>2. TypeInv' BY <1>3, <2>1 DEF IndexEmbed, TypeInv, qdrant
  <2> QED BY <1>0, <1>1, <1>3, <2>2 DEF IndexEmbed, Adds, qdrant
<1>4. CASE IndexUpsert
  <2>1. op' \in Ops /\ op.src \in Sources /\ op.row \in Nat
    BY <1>4 DEF IndexUpsert, TypeInv, Ops
  <2>2. alias[op.src] \in 0..MaxVersion
    BY <2>1 DEF TypeInv
  <2>3. CASE coll' = coll
    <3>1. TypeInv' BY <1>4, <2>1, <2>3 DEF IndexUpsert, TypeInv
    <3> QED BY <1>0, <1>1, <1>4, <2>3, <3>1 DEF IndexUpsert, Adds
  <2>4. CASE Put(op.src, alias[op.src], {op.row}) /\ Exists(op.src, alias[op.src])
    <3>1. /\ coll' \in [Sources -> [0..MaxVersion -> Collections]]
          /\ \A t \in Sources, w \in 0..MaxVersion : Kept(t, w)
      BY <2>1, <2>2, <2>4, PutKeeps
    <3>2. TypeInv' BY <1>4, <2>1, <3>1 DEF IndexUpsert, TypeInv
    <3> QED BY <1>1, <1>4, <3>1, <3>2 DEF IndexUpsert, Adds
  <2> QED BY <1>4, <2>3, <2>4 DEF IndexUpsert, Serving, Accepts
<1>5. CASE IndexDual
  <2>1. op' \in Ops /\ op.src \in Sources /\ op.row \in Nat /\ proc.dw.ver \in 0..MaxVersion
    BY <1>5, EmptiesAreTyped DEF IndexDual, TypeInv, Ops, Procs
  <2>3. CASE coll' = coll
    <3>1. TypeInv' BY <1>5, <2>1, <2>3 DEF IndexDual, TypeInv
    <3> QED BY <1>0, <1>1, <1>5, <2>3, <3>1 DEF IndexDual, Adds
  <2>4. CASE Put(op.src, proc.dw.ver, {op.row}) /\ Exists(op.src, proc.dw.ver)
    <3>1. /\ coll' \in [Sources -> [0..MaxVersion -> Collections]]
          /\ \A t \in Sources, w \in 0..MaxVersion : Kept(t, w)
      BY <2>1, <2>4, PutKeeps
    <3>2. TypeInv' BY <1>5, <2>1, <3>1 DEF IndexDual, TypeInv
    <3> QED BY <1>1, <1>5, <3>1, <3>2 DEF IndexDual, Adds
  <2> QED BY <1>5, <2>3, <2>4 DEF IndexDual, Accepts
<1>6. CASE Shutdown
  <2>1. proc' \in Procs BY <1>6 DEF Shutdown, TypeInv, Procs
  <2>2. TypeInv' BY <2>1, <1>6 DEF Shutdown, TypeInv, qdrant
  <2> QED BY <1>0, <1>1, <1>6, <2>2 DEF Shutdown, Adds, qdrant, TypeInv, Procs
<1>7. CASE UNCHANGED vars
  <2>1. TypeInv' BY <1>7 DEF vars, TypeInv
  <2> QED BY <1>0, <1>1, <1>7, <2>1 DEF vars, Adds
<1> QED BY <1>2, <1>3, <1>4, <1>5, <1>6, <1>7 DEF Index

-------------------------------------------------------------------------------
\* The goroutine's steps

\* What there was is still there: other collections may have been made.
Grown == \A s \in Sources, v \in 0..MaxVersion : Exists(s, v) =>
  /\ coll'[s][v] # Absent /\ coll'[s][v].emb = coll[s][v].emb
  /\ coll[s][v].rows \subseteq coll'[s][v].rows

LEMMA GrownHolds ==
  ASSUME TypeInv, Grown, UNCHANGED <<cfg, known, misread, damaged>>, db'.mig = db.mig
  PROVE  \A s \in Sources :
           /\ Accepts(s, db.mig, cfg) => Accepts(s, db.mig, cfg)'
           /\ Carried(s) => Carried(s)'
           /\ \A k \in Nat : Holds(s, db.mig, cfg, Upto(s, k)) => Holds(s, db.mig, cfg, Upto(s, k))'
<1>1. db.mig \in 0..MaxVersion
  BY DEF TypeInv, DbStates
<1> QED BY <1>1 DEF Grown, Accepts, Exists, Carried, Reached, Holds, Upto

LEMMA KeptIsGrown == (\A s \in Sources, v \in 0..MaxVersion : Kept(s, v)) => Grown
  BY DEF Kept, Grown, Exists

\* One collection is set to c.
LEMMA SetOne ==
  ASSUME TypeInv, NEW s \in Sources, NEW v \in 0..MaxVersion, NEW c \in Collections,
         coll' = [coll EXCEPT ![s][v] = c]
  PROVE  /\ coll' \in [Sources -> [0..MaxVersion -> Collections]]
         /\ coll'[s][v] = c
         /\ \A t \in Sources, w \in 0..MaxVersion : t # s \/ w # v => coll'[t][w] = coll[t][w]
<1> DEFINE f == [coll[s] EXCEPT ![v] = c]
<1>1. coll[s] \in [0..MaxVersion -> Collections] /\ coll \in [Sources -> [0..MaxVersion -> Collections]]
  BY DEF TypeInv
<1>2. f \in [0..MaxVersion -> Collections] /\ f[v] = c /\ \A w \in 0..MaxVersion : w # v => f[w] = coll[s][w]
  BY <1>1
<1>3. coll' = [coll EXCEPT ![s] = f]
  OBVIOUS
<1> HIDE DEF f
<1>4. /\ coll' \in [Sources -> [0..MaxVersion -> Collections]] /\ coll'[s] = f
      /\ \A t \in Sources : t # s => coll'[t] = coll[t]
  BY <1>1, <1>2, <1>3
<1> QED BY <1>2, <1>4

\* What no step of the goroutine but the last can touch
MgrStep ==
  /\ ManagerOnly
  /\ db'.ver = db.ver /\ db'.emb = db.emb /\ db'.mig = db.mig
  /\ db'.status \in {"running", "completing", "failed"}
  /\ proc'.up = proc.up /\ proc'.vs = proc.vs

LEMMA MgrStepKeeps ==
  ASSUME IInv, TypeInv', mgr.pc # "off", MgrStep
  PROVE  /\ Versions' /\ KnownWasThere' /\ ToolBuilds' /\ LiveIndexWhole'
         /\ db.mig = db.ver + 1 /\ db.mig \in 1..MaxVersion
         /\ mgr.emb = cfg /\ mgr.from = db.ver /\ mgr.to = db.mig /\ proc.up /\ ToolIdle
<1>1. db.status \in {"running", "completing"} /\ proc.up /\ proc.vs = "open"
      /\ mgr.emb = cfg /\ mgr.from = db.ver /\ mgr.to = db.mig
  BY DEF IInv, ManagerAgrees
<1>2. ToolIdle /\ db.mig = db.ver + 1 /\ db.emb # "none"
  BY <1>1, SettledIsNoOther DEF IInv, Versions
<1>3. db.mig \in 1..MaxVersion
  BY <1>2, Bounds DEF IInv, TypeInv, DbStates
<1>4. Versions'
  BY <1>1, <1>2 DEF IInv, Versions, MgrStep, ManagerOnly, ToolIdle
<1>5. KnownWasThere'
  BY DEF IInv, KnownWasThere, MgrStep, ManagerOnly, AllTexts
<1>6. ToolBuilds'
  BY <1>2 DEF ToolBuilds, ToolIdle, MgrStep, ManagerOnly
<1>7. LiveIndexWhole'
  BY SettledIsNoOther DEF MgrStep, LiveIndexWhole
<1> QED BY <1>1, <1>2, <1>3, <1>4, <1>5, <1>6, <1>7

\* It ends before it is done: what it recorded stands, or the migration has failed.
LEMMA EndingKeeps ==
  ASSUME IInv, TypeInv', mgr.pc # "off", mgr' = MgrOff, ManagerOnly, UNCHANGED coll,
         db' = db \/ db' = [db EXCEPT !.status = "failed"],
         proc'.up = proc.up, proc'.vs = proc.vs
  PROVE  IInv'
<1>0. db \in DbStates /\ mgr'.pc = "off"
  BY DEF IInv, TypeInv, MgrOff
<1>1. db'.ver = db.ver /\ db'.emb = db.emb /\ db'.mig = db.mig /\ db'.cursor = db.cursor
      /\ (db'.status = db.status \/ db'.status = "failed")
  BY <1>0 DEF DbStates
<1>2. db.status \in {"running", "completing"} /\ proc.vs = "open"
  BY DEF IInv, ManagerAgrees
<1>3. MgrStep
  BY <1>1, <1>2 DEF MgrStep
<1>4. Versions' /\ KnownWasThere' /\ ToolBuilds' /\ LiveIndexWhole'
  BY <1>3, MgrStepKeeps
<1>5. ManagerAgrees'
  BY <1>0, <1>2 DEF ManagerAgrees
<1>6. CursorsVouch'
  BY <1>0, <1>1 DEF IInv, CursorsVouch, Vouches, Holds, Accepts, Exists, ManagerOnly, Upto, Filling
<1>7. NothingAbove'
  BY <1>1, <1>2, SettledIsNoOther DEF IInv, NothingAbove, Exists, ManagerOnly
<1>8. TargetMade' /\ TargetFilled' /\ Swapped'
  BY <1>0 DEF TargetMade, TargetFilled, Swapped, Filling, Moving
<1>9. TargetComplete'
  BY <1>1 DEF IInv, TargetComplete, Carried, Reached, Holds, Accepts, Exists, ManagerOnly
<1> QED BY <1>4, <1>5, <1>6, <1>7, <1>8, <1>9 DEF IInv

LEMMA EndedKeeps ==
  ASSUME IInv, mgr.pc # "off", Failed \/ FailedByFault \/ Cancelled, ManagerOnly,
         UNCHANGED coll, alias' \in [Sources -> 0..MaxVersion]
  PROVE  IInv'
<1>0. db \in DbStates /\ proc \in Procs
  BY DEF IInv, TypeInv
<1>1. mgr' = MgrOff /\ (db' = db \/ db' = [db EXCEPT !.status = "failed"])
      /\ (proc' = proc \/ proc' = [proc EXCEPT !.dw = NoDual])
  BY DEF Failed, FailedByFault, Cancelled
<1>2. db' \in DbStates
  BY <1>0, <1>1 DEF DbStates, Statuses
<1>3. proc' \in Procs /\ proc'.up = proc.up /\ proc'.vs = proc.vs
  BY <1>0, <1>1, EmptiesAreTyped DEF Procs
<1>4. TypeInv'
  BY <1>1, <1>2, <1>3, EmptiesAreTyped DEF IInv, TypeInv, ManagerOnly
<1> QED BY <1>1, <1>3, <1>4, EndingKeeps

\* The fields of the goroutine
LEMMA MgrFields ==
  ASSUME TypeInv
  PROVE  /\ mgr.i \in Nat \ {0} /\ mgr.last \in [Sources -> Nat] /\ mgr.to \in 0..MaxVersion
         /\ mgr.from \in 0..MaxVersion /\ mgr.emb \in Known
         /\ mgr.i <= Last => Src \in Sources
  BY OrderIs DEF TypeInv, Managers, Src

LEMMA PassedNext ==
  ASSUME TypeInv, mgr.i <= Last, mgr'.i = mgr.i + 1, NEW s \in Sources, Passed(s)'
  PROVE  Passed(s) \/ s = Src
<1>1. PICK n \in DOMAIN Order : n < mgr.i + 1 /\ s = Order[n]
  BY DEF Passed
<1> QED BY <1>1, MgrFields, OrderIs DEF Passed, Src

\* All have been passed.
LEMMA PassedAll ==
  ASSUME TypeInv, mgr.i > Last, NEW s \in Sources
  PROVE  Passed(s)
<1>1. PICK n \in DOMAIN Order : s = Order[n]
  BY DEF Sources
<1> QED BY <1>1, MgrFields, OrderIs DEF Passed

LEMMA MgrMoves ==
  ASSUME NEW m \in Managers, NEW p \in Places, NEW i \in Nat \ {0}
  PROVE  [m EXCEPT !.pc = p, !.i = i] \in Managers
  BY DEF Managers

LEMMA MgrBegins ==
  ASSUME NEW m \in Managers, NEW p \in Places, NEW i \in Nat \ {0}, NEW r \in Nat, NEW b \in BOOLEAN,
         NEW l \in [Sources -> Nat]
  PROVE  [m EXCEPT !.pc = p, !.i = i, !.last = l, !.round = r, !.found = b] \in Managers
  BY DEF Managers

LEMMA MgrRepeats ==
  ASSUME NEW m \in Managers, NEW i \in Nat \ {0}, NEW r \in Nat, NEW b \in BOOLEAN
  PROVE  [m EXCEPT !.i = i, !.round = r, !.found = b] \in Managers
  BY DEF Managers

LEMMA CreateTargetKeeps ==
  ASSUME IInv, CreateTarget
  PROVE  IInv'
<1> USE DEF IInv
<1>0. mgr.pc = "create" /\ ManagerOnly /\ UNCHANGED alias /\ proc.up
  BY DEF CreateTarget, At
<1>a. db.status = "running" /\ mgr \in Managers /\ db \in DbStates /\ proc \in Procs
  BY <1>0 DEF ManagerAgrees, Filling, TypeInv
<1>1. ASSUME Failed \/ FailedByFault, UNCHANGED coll
      PROVE  IInv'
  <2>1. alias' \in [Sources -> 0..MaxVersion]
    BY <1>0 DEF TypeInv
  <2> QED BY <1>0, <1>1, <2>1, EndedKeeps
<1>2. ASSUME mgr.i <= Last, UNCHANGED <<proc, db>>, mgr' = [mgr EXCEPT !.i = @ + 1],
             coll' = IF Exists(Src, mgr.to) THEN coll
                     ELSE [coll EXCEPT ![Src][mgr.to] = Empty(mgr.emb)]
      PROVE  IInv'
  <2>1. mgr' \in Managers /\ mgr'.pc = "create" /\ mgr'.i = mgr.i + 1 /\ mgr'.last = mgr.last
        /\ mgr'.emb = mgr.emb /\ mgr'.from = mgr.from /\ mgr'.to = mgr.to
    BY <1>0, <1>2, <1>a DEF Managers
  <2>2. Src \in Sources /\ mgr.to \in 0..MaxVersion /\ mgr.emb = cfg /\ mgr.to = db.mig
        /\ cfg \in Embedders
    BY <1>0, <1>2, MgrFields DEF ManagerAgrees, TypeInv
  <2>3. /\ coll' \in [Sources -> [0..MaxVersion -> Collections]]
        /\ \A t \in Sources, w \in 0..MaxVersion : t # Src \/ w # mgr.to => coll'[t][w] = coll[t][w]
        /\ coll'[Src][mgr.to] = IF Exists(Src, mgr.to) THEN coll[Src][mgr.to] ELSE Empty(cfg)
    <3>1. CASE Exists(Src, mgr.to)
      BY <1>2, <3>1 DEF TypeInv
    <3>2. CASE ~Exists(Src, mgr.to)
      <4>1. coll' = [coll EXCEPT ![Src][mgr.to] = Empty(cfg)] /\ Empty(cfg) \in Collections
        BY <1>2, <2>2, <3>2, EmptiesAreTyped
      <4>2. TypeInv /\ Src \in Sources /\ mgr.to \in 0..MaxVersion
        BY <2>2
      <4>3. /\ coll' \in [Sources -> [0..MaxVersion -> Collections]]
            /\ \A t \in Sources, w \in 0..MaxVersion : t # Src \/ w # mgr.to => coll'[t][w] = coll[t][w]
            /\ coll'[Src][mgr.to] = Empty(cfg)
        <5> DEFINE s == Src
                   v == mgr.to
                   c == Empty(cfg)
        <5>1. coll' = [coll EXCEPT ![s][v] = c] /\ c \in Collections
          BY <4>1
        <5>2. TypeInv /\ s \in Sources /\ v \in 0..MaxVersion
          BY <4>2
        <5> HIDE DEF s, v, c
        <5>3. /\ coll' \in [Sources -> [0..MaxVersion -> Collections]]
              /\ \A t \in Sources, w \in 0..MaxVersion : t # s \/ w # v => coll'[t][w] = coll[t][w]
              /\ coll'[s][v] = c
          BY <5>1, <5>2, SetOne, ZenonT(40)
        <5> QED BY <5>3 DEF s, v, c
      <4> QED BY <3>2, <4>3
    <3> QED BY <3>1, <3>2
  <2>4. TypeInv'
    BY <1>0, <1>2, <2>1, <2>3 DEF TypeInv, ManagerOnly
  <2>5. Grown
    BY <2>2, <2>3 DEF Grown, Exists
  <2>6. MgrStep
    BY <1>0, <1>2, <1>a DEF MgrStep
  <2>7. Versions' /\ KnownWasThere' /\ ToolBuilds' /\ LiveIndexWhole'
        /\ db.mig = db.ver + 1 /\ db.mig \in 1..MaxVersion
    BY <1>0, <2>4, <2>6, MgrStepKeeps
  <2>8. UNCHANGED <<cfg, known, misread, damaged>> /\ db'.mig = db.mig
    BY <1>0, <1>2 DEF ManagerOnly
  <2>9. ManagerAgrees'
    BY <1>0, <1>2, <2>1, <2>8 DEF ManagerAgrees, Filling
  <2>10. CursorsVouch'
    BY <1>0, <1>2, <1>a, <2>1, <2>5, <2>8, GrownHolds DEF CursorsVouch, Vouches, Filling, DbStates, Managers
  <2>11. Empty(cfg).emb = cfg /\ Empty(cfg) # Absent
    BY <2>2, EmptiesAreTyped DEF Empty
  <2>12. NothingAbove'
    <3>1. \A s \in Sources, v \in 0..MaxVersion : v > db.ver + 1 => coll'[s][v] = Absent
      BY <2>2, <2>3, <2>7 DEF NothingAbove
    <3>2. ~damaged => \A s \in Sources : Exists(s, db.mig)' => coll'[s][db.mig].emb = cfg
      BY <1>a, <1>2, <2>2, <2>3, <2>11 DEF NothingAbove, Exists
    <3> QED BY <1>2, <1>a, <2>8, <3>1, <3>2, SettledIsNoOther DEF NothingAbove, Exists
  <2>13. TargetMade'
    <3>1. ASSUME ~damaged, NEW s \in Sources, Passed(s)'
          PROVE  Accepts(s, db.mig, cfg)'
      <4>1. CASE Passed(s)
        BY <1>0, <3>1, <4>1, <2>5, <2>8, GrownHolds DEF TargetMade
      <4>2. CASE s = Src
        BY <1>a, <1>2, <2>2, <2>3, <2>8, <2>11, <3>1, <4>2 DEF Accepts, Exists, NothingAbove
      <4> QED BY <1>2, <2>1, <3>1, <4>1, <4>2, PassedNext
    <3> QED BY <2>1, <2>8, <3>1 DEF TargetMade
  <2>14. TargetFilled' /\ TargetComplete' /\ Swapped'
    BY <1>2, <1>a, <2>1 DEF TargetFilled, TargetComplete, Swapped, Moving
  <2> QED BY <2>4, <2>7, <2>9, <2>10, <2>12, <2>13, <2>14
<1>3. ASSUME mgr.i > Last, UNCHANGED <<coll, db>>,
             proc' = [proc EXCEPT !.dw = [emb |-> mgr.emb, ver |-> mgr.to]],
             mgr' = [mgr EXCEPT !.pc = "fill", !.i = 1]
      PROVE  IInv'
  <2>1. mgr' \in Managers /\ mgr'.pc = "fill" /\ mgr'.i = 1 /\ mgr'.last = mgr.last
        /\ mgr'.emb = mgr.emb /\ mgr'.from = mgr.from /\ mgr'.to = mgr.to
    <3>1. "fill" \in Places BY DEF Places, Filling
    <3>2. mgr'.pc = "fill" /\ mgr'.i = 1 /\ mgr'.last = mgr.last
          /\ mgr'.emb = mgr.emb /\ mgr'.from = mgr.from /\ mgr'.to = mgr.to
      BY <1>3, <1>a DEF Managers
    <3>3. mgr' \in Managers
      <4>1. mgr \in Managers BY <1>a
      <4>2. 1 \in Nat \ {0} OBVIOUS
      <4>3. [mgr EXCEPT !.pc = "fill", !.i = 1] \in Managers
        BY <3>1, <4>1, <4>2, MgrMoves
      <4> QED BY <4>3, <1>3
    <3> QED BY <3>2, <3>3
  <2>2. [emb |-> mgr.emb, ver |-> mgr.to] \in [emb : Known, ver : 0..MaxVersion]
    BY MgrFields
  <2>3. proc' \in Procs /\ proc'.up = proc.up /\ proc'.vs = proc.vs
    BY <1>3, <1>a, <2>2 DEF Procs
  <2>4. TypeInv'
    BY <1>0, <1>3, <2>1, <2>3 DEF TypeInv, ManagerOnly
  <2>6. MgrStep
    BY <1>0, <1>3, <1>a, <2>3 DEF MgrStep
  <2>7. Versions' /\ KnownWasThere' /\ ToolBuilds' /\ LiveIndexWhole'
    BY <1>0, <2>4, <2>6, MgrStepKeeps
  <2>9. ManagerAgrees'
    BY <1>0, <1>3, <2>1, <2>3 DEF ManagerAgrees, Filling, ManagerOnly
  <2>10. CursorsVouch'
    BY <1>0, <1>3, <2>1 DEF CursorsVouch, Vouches, Filling, Holds, Accepts, Exists, Upto, ManagerOnly
  <2>12. NothingAbove'
    BY <1>0, <1>3 DEF NothingAbove, Exists, ToolIdle, ManagerOnly
  <2>13. TargetMade'
    BY <1>0, <1>3, <2>1, PassedAll DEF TargetMade, Accepts, Exists, ManagerOnly, Filling
  <2>14. TargetFilled'
    BY <2>1, OrderIs DEF TargetFilled, Passed
  <2>15. TargetComplete' /\ Swapped'
    BY <1>3, <1>a, <2>1 DEF TargetComplete, Swapped, Moving
  <2> QED BY <2>4, <2>7, <2>9, <2>10, <2>12, <2>13, <2>14, <2>15
<1> QED BY <1>1, <1>2, <1>3 DEF CreateTarget, Steps

\* After the step the target of s holds the texts of its first k rows.
WillHold(s, k) ==
  /\ coll'[s][db.mig] # Absent /\ coll'[s][db.mig].emb = cfg
  /\ Upto(s, k) \subseteq coll'[s][db.mig].rows

\* While it fills: what is left to show is that the new cursor vouches and that
\* the sources passed are carried.
LEMMA FillingKeeps ==
  ASSUME IInv, mgr.pc \in {"fill", "catch"}, mgr' \in Managers,
         mgr'.pc \in {"fill", "catch", "mark"},
         mgr'.emb = mgr.emb, mgr'.from = mgr.from, mgr'.to = mgr.to,
         ManagerOnly, UNCHANGED <<alias, proc>>,
         coll' \in [Sources -> [0..MaxVersion -> Collections]],
         \A s \in Sources, v \in 0..MaxVersion : Kept(s, v),
         db' = db \/ db' = [db EXCEPT !.cursor = mgr'.last],
         \A s \in Sources : mgr'.last[s] # 0 => WillHold(s, mgr'.last[s]),
         mgr'.pc = "fill" => \A s \in Sources : Passed(s)' => Carried(s)',
         mgr'.pc # "fill" => \A s \in Sources : Carried(s)'
  PROVE  IInv'
<1>0. db \in DbStates /\ db.status = "running" /\ mgr.pc # "off" /\ proc.vs = "open"
      /\ mgr'.last \in [Sources -> Nat] /\ db.cursor \in [Sources -> Nat]
  BY DEF IInv, TypeInv, ManagerAgrees, Filling, DbStates, Managers
<1>1. db' \in DbStates /\ db'.ver = db.ver /\ db'.emb = db.emb /\ db'.mig = db.mig
      /\ db'.status = "running" /\ (db'.cursor = db.cursor \/ db'.cursor = mgr'.last)
  BY <1>0 DEF DbStates
<1>2. TypeInv'
  BY <1>1 DEF IInv, TypeInv, ManagerOnly
<1>3. MgrStep
  BY <1>0, <1>1 DEF MgrStep
<1>4. Versions' /\ KnownWasThere' /\ ToolBuilds' /\ LiveIndexWhole'
      /\ db.mig = db.ver + 1 /\ db.mig \in 1..MaxVersion
  BY <1>0, <1>2, <1>3, MgrStepKeeps
<1>5. Grown /\ UNCHANGED <<cfg, known, misread, damaged>> /\ TypeInv
  BY KeptIsGrown DEF ManagerOnly, IInv
<1>6. ManagerAgrees'
  BY <1>0, <1>1, <1>5 DEF IInv, ManagerAgrees, Filling
<1>7. CursorsVouch'
  <2>1. \A s \in Sources : db.cursor[s] # 0 => WillHold(s, db.cursor[s])
    <3>1. ASSUME NEW s \in Sources, db.cursor[s] # 0 PROVE WillHold(s, db.cursor[s])
      <4>1. Holds(s, db.mig, cfg, Upto(s, db.cursor[s]))
        BY <1>0, <3>1 DEF IInv, CursorsVouch, Vouches
      <4>2. db.mig \in 0..MaxVersion
        BY <1>0 DEF DbStates
      <4>3. Kept(s, db.mig)
        BY <4>2
      <4> QED BY <4>1, <4>3 DEF Kept, Holds, Accepts, Exists, WillHold
    <3> QED BY <3>1
  <2>2. \A s \in Sources : db'.cursor[s] # 0 => WillHold(s, db'.cursor[s])
    BY <1>1, <2>1
  <2>3. \A s \in Sources : mgr'.last[s] # 0 => WillHold(s, mgr'.last[s])
    OBVIOUS
  <2> QED BY <1>1, <1>5, <2>2, <2>3 DEF CursorsVouch, Vouches, Holds, Accepts, Exists, WillHold, Upto
<1>8. NothingAbove'
  <2>1. \A s \in Sources, v \in 0..MaxVersion : v > db.ver + 1 => coll'[s][v] = Absent
    BY DEF IInv, NothingAbove, Kept
  <2>2. ~damaged => \A s \in Sources : coll'[s][db.mig] # Absent => coll'[s][db.mig].emb = cfg
    <3>1. db.mig \in 0..MaxVersion
      BY <1>0 DEF DbStates
    <3>2. \A s \in Sources : Kept(s, db.mig)
      BY <3>1
    <3> QED BY <1>0, <3>2 DEF IInv, NothingAbove, Kept, Exists
  <2> QED BY <1>1, <1>5, <2>1, <2>2, SettledIsNoOther DEF NothingAbove, Exists
<1>9. TargetMade'
  BY <1>1, <1>5, GrownHolds DEF IInv, TargetMade, Filling
<1>10. TargetFilled'
  BY DEF TargetFilled
<1>11. TargetComplete' /\ Swapped'
  BY <1>1 DEF TargetComplete, Swapped, Moving
<1> QED BY <1>2, <1>4, <1>6, <1>7, <1>8, <1>9, <1>10, <1>11 DEF IInv

\* A source whose next batch has no text: what is left of it is behind that batch.
LEMMA NothingLeft ==
  ASSUME IInv, mgr.pc = "fill", NEW s \in Sources,
         Texts(s, mgr.last[s]) = {}
  PROVE  Carried(s)
<1> DEFINE a == mgr.last[s]
<1>0. a \in Nat /\ rows[s] \in Nat /\ known[s] \subseteq AllTexts(s) /\ BatchSize \in Nat \ {0}
  BY Bounds DEF IInv, TypeInv, Managers, KnownWasThere
<1>1. ASSUME NEW n \in Reached(s) PROVE n \in Upto(s, a)
  <2>1. n \in 1..rows[s] /\ n \notin Textless[s] /\ ~BehindGap(s, n)
    BY <1>0 DEF AllTexts, Reached
  <2>2. CASE n > a
    <3>1. n > a + BatchSize
      BY <1>0, <2>1, <2>2 DEF Texts, Batch
    <3>2. (a + 1)..(a + BatchSize) \subseteq Textless[s]
      BY <1>0, <2>1, <3>1 DEF Texts, Batch
    <3>3. a \in 0..n
      BY <1>0, <2>1, <2>2
    <3> QED BY <2>1, <3>1, <3>2, <3>3 DEF BehindGap
  <2> QED BY <1>0, <2>1, <2>2 DEF Upto
<1>2. CASE a # 0
  <2>1. Holds(s, db.mig, cfg, Upto(s, a))
    BY <1>2 DEF IInv, CursorsVouch, Vouches, Filling
  <2> QED BY <1>1, <2>1 DEF Carried, Holds
<1>3. CASE a = 0
  <2>1. Reached(s) = {}
    BY <1>1, <1>3 DEF Upto
  <2> QED BY <2>1 DEF IInv, TargetMade, Filling, Carried, Holds
<1> QED BY <1>2, <1>3

\* A batch is put where it belongs: the cursor past it vouches for it too.
LEMMA BatchVouched ==
  ASSUME IInv, mgr.pc \in Filling, mgr.i <= Last, UNCHANGED cfg,
         Accepts(Src, mgr.to, mgr.emb), Put(Src, mgr.to, Texts(Src, mgr.last[Src])),
         NEW last, last = [mgr.last EXCEPT ![Src] = Through(Src, @)]
  PROVE  /\ coll' \in [Sources -> [0..MaxVersion -> Collections]]
         /\ \A s \in Sources, v \in 0..MaxVersion : Kept(s, v)
         /\ last \in [Sources -> Nat]
         /\ \A s \in Sources : last[s] # 0 => WillHold(s, last[s])
<1> DEFINE a == mgr.last[Src]
           ns == Texts(Src, a)
<1>0. Src \in Sources /\ mgr.to \in 0..MaxVersion /\ mgr.to = db.mig /\ mgr.emb = cfg
      /\ mgr.last \in [Sources -> Nat] /\ TypeInv
  BY MgrFields DEF IInv, ManagerAgrees, Filling
<1>1. a \in Nat /\ rows[Src] \in Nat /\ BatchSize \in Nat \ {0}
  BY <1>0, Bounds DEF TypeInv
<1>2. ns \in SUBSET Nat
  BY <1>1 DEF Texts, Batch
<1>3. Exists(Src, mgr.to)
  BY DEF Accepts
<1>4. /\ coll' \in [Sources -> [0..MaxVersion -> Collections]]
      /\ \A s \in Sources, v \in 0..MaxVersion : Kept(s, v)
      /\ ns \subseteq coll'[Src][mgr.to].rows
  BY <1>0, <1>2, <1>3, PutKeeps
<1>5. Through(Src, a) \in Nat
  BY <1>1 DEF Through
<1>6. last \in [Sources -> Nat] /\ last[Src] = Through(Src, a)
      /\ \A s \in Sources : s # Src => last[s] = mgr.last[s]
  BY <1>0, <1>5
<1>7. Upto(Src, Through(Src, a)) \subseteq Upto(Src, a) \cup ns
  BY <1>1 DEF Upto, Through, Texts, Batch
<1>8. ASSUME NEW s \in Sources, mgr.last[s] # 0
      PROVE  WillHold(s, mgr.last[s])
  BY <1>0, <1>4, <1>8 DEF WillHold, IInv, CursorsVouch, Vouches, Holds, Accepts, Exists, Kept
<1>9. coll'[Src][db.mig] # Absent /\ coll'[Src][db.mig].emb = cfg
  BY <1>0, <1>4 DEF Accepts, Exists, Kept
<1>10. Upto(Src, a) \subseteq coll'[Src][db.mig].rows
  <2>1. CASE a # 0 BY <1>0, <1>8, <2>1 DEF WillHold
  <2>2. CASE a = 0 BY <2>2 DEF Upto
  <2> QED BY <2>1, <2>2
<1>11. Upto(Src, last[Src]) \subseteq coll'[Src][db.mig].rows
  BY <1>0, <1>4, <1>6, <1>7, <1>10
<1>12. ASSUME NEW s \in Sources, last[s] # 0
       PROVE  WillHold(s, last[s])
  <2>1. CASE s = Src BY <1>9, <1>11, <2>1 DEF WillHold
  <2>2. CASE s # Src BY <1>6, <1>8, <1>12, <2>2
  <2> QED BY <2>1, <2>2
<1> QED BY <1>4, <1>6, <1>12

LEMMA BackfillKeeps ==
  ASSUME IInv, Backfill
  PROVE  IInv'
<1>0. mgr.pc = "fill" /\ ManagerOnly /\ UNCHANGED alias /\ mgr.i <= Last /\ mgr \in Managers
      /\ mgr.pc # "off" /\ mgr.pc \in Filling /\ TypeInv
  BY DEF Backfill, At, IInv, TypeInv, Filling
<1> DEFINE texts == Texts(Src, mgr.last[Src])
           last == [mgr.last EXCEPT ![Src] = Through(Src, @)]
           flush == mgr.since + 1 >= FlushEvery
<1>a. Src \in Sources /\ mgr.last \in [Sources -> Nat] /\ mgr.i \in Nat \ {0}
  BY <1>0, MgrFields
<1>b. ASSUME UNCHANGED coll
      PROVE  /\ coll' \in [Sources -> [0..MaxVersion -> Collections]]
             /\ \A s \in Sources, v \in 0..MaxVersion : Kept(s, v)
             /\ \A s \in Sources : mgr.last[s] # 0 => WillHold(s, mgr.last[s])
             /\ \A s \in Sources : db.cursor[s] # 0 => WillHold(s, db.cursor[s])
  <2>1. Vouches(mgr.last) /\ Vouches(db.cursor)
    BY <1>0 DEF IInv, CursorsVouch, ManagerAgrees
  <2> QED BY <1>0, <1>b, <2>1 DEF TypeInv, Kept, IInv, ManagerOnly, Vouches, WillHold, Holds, Accepts,
          Exists
<1>c. ASSUME UNCHANGED <<coll, db>>, NEW s \in Sources, Carried(s)
      PROVE  Carried(s)'
  BY <1>0, <1>c DEF ManagerOnly, Carried, Reached, Holds, Accepts, Exists
<1>1. ASSUME Failed \/ FailedByFault, UNCHANGED coll
      PROVE  IInv'
  <2>1. alias' \in [Sources -> 0..MaxVersion]
    BY <1>0 DEF TypeInv
  <2> QED BY <1>0, <1>1, <2>1, EndedKeeps
<1>2. ASSUME texts = {}, mgr.i < Last, mgr' = [mgr EXCEPT !.i = @ + 1], UNCHANGED <<coll, db, proc>>
      PROVE  IInv'
  <2>1. mgr' \in Managers /\ mgr'.pc = "fill" /\ mgr'.i = mgr.i + 1 /\ mgr'.last = mgr.last
        /\ mgr'.emb = mgr.emb /\ mgr'.from = mgr.from /\ mgr'.to = mgr.to
    BY <1>0, <1>2, <1>a DEF Managers
  <2>2. ASSUME NEW s \in Sources, Passed(s)' PROVE Carried(s)'
    <3>1. Carried(Src)
      BY <1>0, <1>a, <1>2, NothingLeft
    <3>2. Passed(s) \/ s = Src
      BY <1>0, <2>1, <2>2, PassedNext
    <3>3. Carried(s)
      BY <1>0, <3>1, <3>2 DEF IInv, TargetFilled
    <3> QED BY <1>2, <1>c, <3>3
  <2> QED BY <1>0, <1>2, <1>b, <2>1, <2>2, FillingKeeps
<1>3. ASSUME texts = {}, mgr.i = Last, Flush(mgr.last), UNCHANGED <<coll, proc>>,
             mgr' = [mgr EXCEPT !.pc = "catch", !.i = 1, !.last = db'.cursor, !.round = 1,
                                !.found = FALSE]
      PROVE  IInv'
  <2>0. /\ db' = db \/ db' = [db EXCEPT !.cursor = mgr.last]
        /\ db'.mig = db.mig /\ (db'.cursor = db.cursor \/ db'.cursor = mgr.last)
        /\ db'.cursor \in [Sources -> Nat]
    BY <1>0, <1>3, <1>a DEF Flush, TypeInv, DbStates
  <2>1. mgr' \in Managers
    <3>1. "catch" \in Places BY DEF Places, Filling
    <3>2. 1 \in Nat \ {0} /\ 1 \in Nat /\ FALSE \in BOOLEAN OBVIOUS
    <3> DEFINE cursor == db'.cursor
    <3>3. mgr' = [mgr EXCEPT !.pc = "catch", !.i = 1, !.last = cursor, !.round = 1, !.found = FALSE]
          /\ cursor \in [Sources -> Nat]
      BY <1>3, <2>0
    <3> HIDE DEF cursor
    <3>4. [mgr EXCEPT !.pc = "catch", !.i = 1, !.last = cursor, !.round = 1, !.found = FALSE] \in Managers
      BY <1>0, <3>1, <3>2, <3>3, MgrBegins
    <3> QED BY <3>3, <3>4
  <2>2. mgr'.pc = "catch" /\ mgr'.last = db'.cursor
        /\ mgr'.emb = mgr.emb /\ mgr'.from = mgr.from /\ mgr'.to = mgr.to
    BY <1>0, <1>3 DEF Managers
  <2>4. ASSUME NEW s \in Sources PROVE Carried(s)'
    <3>1. Carried(Src)
      BY <1>0, <1>a, <1>3, NothingLeft
    <3>2. Passed(s) \/ s = Src
      <4>1. PICK n \in DOMAIN Order : s = Order[n]
        BY DEF Sources
      <4> QED BY <4>1, <1>3, OrderIs DEF Passed, Src
    <3>3. Carried(s)
      BY <1>0, <3>1, <3>2 DEF IInv, TargetFilled
    <3> QED BY <1>0, <1>3, <2>0, <3>3 DEF ManagerOnly, Carried, Reached, Holds, Accepts, Exists
  <2>5. /\ db' = db \/ db' = [db EXCEPT !.cursor = mgr'.last]
        /\ \A s \in Sources : mgr'.last[s] # 0 => WillHold(s, mgr'.last[s])
    <3>1. mgr'.last = db.cursor \/ mgr'.last = mgr.last
      BY <2>0, <2>2
    <3>2. db' = db \/ db' = [db EXCEPT !.cursor = mgr'.last]
      <4>1. CASE db' = db BY <4>1
      <4>2. CASE db' = [db EXCEPT !.cursor = mgr.last]
        <5>1. db'.cursor = mgr.last BY <1>0, <4>2 DEF TypeInv, DbStates
        <5> QED BY <2>2, <4>2, <5>1
      <4> QED BY <2>0, <4>1, <4>2
    <3> QED BY <1>3, <1>b, <3>1, <3>2
  <2> QED BY <1>0, <1>3, <1>b, <2>1, <2>2, <2>4, <2>5, FillingKeeps
<1>4. ASSUME Accepts(Src, mgr.to, mgr.emb), Put(Src, mgr.to, texts), UNCHANGED proc,
             mgr' = [mgr EXCEPT !.last = last, !.since = IF flush THEN 0 ELSE @ + 1],
             IF flush THEN Flush(last) ELSE UNCHANGED db
      PROVE  IInv'
  <2>0. UNCHANGED <<cfg, known, misread, damaged>>
    BY <1>0 DEF ManagerOnly
  <2>1. /\ coll' \in [Sources -> [0..MaxVersion -> Collections]]
        /\ \A s \in Sources, v \in 0..MaxVersion : Kept(s, v)
        /\ last \in [Sources -> Nat]
        /\ \A s \in Sources : last[s] # 0 => WillHold(s, last[s])
    BY <1>0, <1>4, <2>0, BatchVouched
  <2> HIDE DEF last
  <2>2. mgr' \in Managers /\ mgr'.pc = "fill" /\ mgr'.i = mgr.i /\ mgr'.last = last
        /\ mgr'.emb = mgr.emb /\ mgr'.from = mgr.from /\ mgr'.to = mgr.to
    <3>1. (IF flush THEN 0 ELSE mgr.since + 1) \in Nat
      BY <1>0 DEF Managers
    <3> HIDE DEF flush
    <3> QED BY <1>0, <1>4, <2>1, <3>1 DEF Managers
  <2>3. db' = db \/ db' = [db EXCEPT !.cursor = mgr'.last]
    BY <1>4, <2>2 DEF Flush
  <2>4. db'.mig = db.mig
    BY <2>3, <1>0 DEF TypeInv, DbStates
  <2>5. ASSUME NEW s \in Sources, Passed(s)' PROVE Carried(s)'
    <3>1. Passed(s)
      BY <2>2, <2>5 DEF Passed
    <3>2. Carried(s)
      BY <1>0, <3>1 DEF IInv, TargetFilled
    <3> QED BY <1>0, <2>0, <2>1, <2>4, <3>2, GrownHolds, KeptIsGrown
  <2> QED BY <1>0, <1>4, <2>1, <2>2, <2>3, <2>5, FillingKeeps
<1> QED BY <1>1, <1>2, <1>3, <1>4 DEF Backfill, Steps

LEMMA CatchUpKeeps ==
  ASSUME IInv, CatchUp
  PROVE  IInv'
<1>0. mgr.pc = "catch" /\ ManagerOnly /\ UNCHANGED alias /\ mgr \in Managers
      /\ mgr.pc # "off" /\ mgr.pc \in Filling /\ TypeInv
  BY DEF CatchUp, At, IInv, TypeInv, Filling
<1> DEFINE texts == Texts(Src, mgr.last[Src])
           last == [mgr.last EXCEPT ![Src] = Through(Src, @)]
<1>a. mgr.last \in [Sources -> Nat] /\ mgr.i \in Nat \ {0}
  BY <1>0, MgrFields
<1>b. ASSUME UNCHANGED coll
      PROVE  /\ coll' \in [Sources -> [0..MaxVersion -> Collections]]
             /\ \A s \in Sources, v \in 0..MaxVersion : Kept(s, v)
             /\ \A s \in Sources : mgr.last[s] # 0 => WillHold(s, mgr.last[s])
  BY <1>0, <1>b DEF TypeInv, Kept, IInv, CursorsVouch, Vouches, WillHold, Holds, Accepts, Exists
<1>c. ASSUME UNCHANGED coll, db'.mig = db.mig
      PROVE  \A s \in Sources : Carried(s)'
  BY <1>0, <1>c DEF IInv, TargetFilled, ManagerOnly, Carried, Reached, Holds, Accepts, Exists
<1>1. ASSUME Failed \/ FailedByFault, UNCHANGED coll
      PROVE  IInv'
  <2>1. alias' \in [Sources -> 0..MaxVersion]
    BY <1>0 DEF TypeInv
  <2> QED BY <1>0, <1>1, <2>1, EndedKeeps
<1>2. ASSUME mgr' = [mgr EXCEPT !.i = @ + 1], UNCHANGED <<coll, db, proc>>
      PROVE  IInv'
  <2>1. mgr' \in Managers /\ mgr'.pc = "catch" /\ mgr'.last = mgr.last
        /\ mgr'.emb = mgr.emb /\ mgr'.from = mgr.from /\ mgr'.to = mgr.to
    BY <1>0, <1>2, <1>a DEF Managers
  <2> QED BY <1>0, <1>2, <1>b, <1>c, <2>1, FillingKeeps
<1>3. ASSUME mgr.i <= Last, Accepts(Src, mgr.to, mgr.emb), Put(Src, mgr.to, texts),
             UNCHANGED <<proc, db>>,
             mgr' = [mgr EXCEPT !.i = @ + 1, !.found = TRUE, !.last[Src] = Through(Src, @)]
      PROVE  IInv'
  <2>0. UNCHANGED <<cfg, known, misread, damaged>>
    BY <1>0 DEF ManagerOnly
  <2>1. /\ coll' \in [Sources -> [0..MaxVersion -> Collections]]
        /\ \A s \in Sources, v \in 0..MaxVersion : Kept(s, v)
        /\ last \in [Sources -> Nat]
        /\ \A s \in Sources : last[s] # 0 => WillHold(s, last[s])
    BY <1>0, <1>3, <2>0, BatchVouched
  <2>2. mgr' = [mgr EXCEPT !.i = @ + 1, !.found = TRUE, !.last = last]
    BY <1>0, <1>3 DEF Managers
  <2> HIDE DEF last
  <2>3. mgr' \in Managers /\ mgr'.pc = "catch" /\ mgr'.last = last
        /\ mgr'.emb = mgr.emb /\ mgr'.from = mgr.from /\ mgr'.to = mgr.to
    <3>1. mgr.i + 1 \in Nat \ {0} BY <1>a
    <3> QED BY <1>0, <2>1, <2>2, <3>1 DEF Managers
  <2>4. \A s \in Sources : Carried(s)'
    BY <1>0, <1>3, <2>0, <2>1, GrownHolds, KeptIsGrown DEF IInv, TargetFilled
  <2> QED BY <1>0, <1>3, <2>1, <2>3, <2>4, FillingKeeps
<1>4. ASSUME mgr.i > Last, Flush(mgr.last), UNCHANGED <<coll, proc>>,
             mgr' = IF mgr.found /\ mgr.round < CatchUpRounds
                    THEN [mgr EXCEPT !.i = 1, !.round = @ + 1, !.found = FALSE]
                    ELSE [mgr EXCEPT !.pc = "mark", !.i = 1]
      PROVE  IInv'
  <2>0. "mark" \in Places /\ 1 \in Nat \ {0} /\ FALSE \in BOOLEAN
    BY DEF Places, Filling
  <2>1. mgr' \in Managers
    <3>1. [mgr EXCEPT !.pc = "mark", !.i = 1] \in Managers
      BY <1>0, <2>0, MgrMoves
    <3>2. [mgr EXCEPT !.i = 1, !.round = @ + 1, !.found = FALSE] \in Managers
      <4>1. mgr.round + 1 \in Nat BY <1>0 DEF Managers
      <4>2. [mgr EXCEPT !.i = 1, !.round = mgr.round + 1, !.found = FALSE] \in Managers
        BY <1>0, <2>0, <4>1, MgrRepeats
      <4> QED BY <4>2
    <3> QED BY <1>4, <3>1, <3>2
  <2>2. mgr'.pc \in {"catch", "mark"} /\ mgr'.last = mgr.last
        /\ mgr'.emb = mgr.emb /\ mgr'.from = mgr.from /\ mgr'.to = mgr.to
    BY <1>0, <1>4 DEF Managers
  <2>3. (db' = db \/ db' = [db EXCEPT !.cursor = mgr'.last]) /\ db'.mig = db.mig
    BY <1>0, <1>4, <2>2 DEF Flush, TypeInv, DbStates
  <2> QED BY <1>0, <1>4, <1>b, <1>c, <2>1, <2>2, <2>3, FillingKeeps
<1> QED BY <1>1, <1>2, <1>3, <1>4 DEF CatchUp, Steps

LEMMA MarkCompletingKeeps ==
  ASSUME IInv, MarkCompleting
  PROVE  IInv'
<1>0. mgr.pc = "mark" /\ ManagerOnly /\ UNCHANGED <<coll, alias>> /\ mgr \in Managers
      /\ mgr.pc # "off" /\ db \in DbStates
  BY DEF MarkCompleting, At, IInv, TypeInv, qdrant
<1>1. CASE FailedByFault
  <2>1. alias' \in [Sources -> 0..MaxVersion]
    BY <1>0 DEF IInv, TypeInv
  <2> QED BY <1>0, <1>1, <2>1, EndedKeeps
<1>2. CASE db' = [db EXCEPT !.status = "completing"] /\ mgr' = [mgr EXCEPT !.pc = "swap"] /\ UNCHANGED proc
  <2>1. mgr' \in Managers /\ mgr'.pc = "swap" /\ mgr'.emb = mgr.emb /\ mgr'.from = mgr.from
        /\ mgr'.to = mgr.to
    <3>1. "swap" \in Places BY DEF Places, Moving
    <3> QED BY <1>0, <1>2, <3>1 DEF Managers
  <2>2. db' \in DbStates /\ db'.status = "completing" /\ db'.mig = db.mig /\ db'.ver = db.ver
        /\ db'.emb = db.emb
    BY <1>0, <1>2 DEF DbStates, Statuses
  <2>3. TypeInv'
    BY <1>0, <1>2, <2>1, <2>2 DEF IInv, TypeInv, ManagerOnly
  <2>4. MgrStep
    BY <1>0, <1>2, <2>2 DEF MgrStep
  <2>5. Versions' /\ KnownWasThere' /\ ToolBuilds' /\ LiveIndexWhole'
    BY <1>0, <2>3, <2>4, MgrStepKeeps
  <2>6. ManagerAgrees'
    BY <1>0, <1>2, <2>1, <2>2 DEF IInv, ManagerAgrees, ManagerOnly, Filling
  <2>7. CursorsVouch' /\ TargetMade' /\ TargetFilled' /\ Swapped'
    BY <2>1, <2>2 DEF CursorsVouch, TargetMade, TargetFilled, Swapped, Filling, Moving
  <2>8. NothingAbove'
    BY <1>0, <2>2, SettledIsNoOther DEF IInv, NothingAbove, Exists, ManagerOnly
  <2>9. TargetComplete'
    BY <1>0, <2>2 DEF IInv, TargetFilled, TargetComplete, Carried, Reached, Holds, Accepts, Exists, ManagerOnly
  <2> QED BY <2>3, <2>5, <2>6, <2>7, <2>8, <2>9 DEF IInv
<1> QED BY <1>1, <1>2 DEF MarkCompleting, Steps

\* Deleting collections of one version
Dropped(S, v) ==
  /\ coll' \in [Sources -> [0..MaxVersion -> Collections]]
  /\ alias' \in [Sources -> 0..MaxVersion]
  /\ \A s \in Sources, w \in 0..MaxVersion :
       coll'[s][w] = IF s \in S /\ w = v THEN Absent ELSE coll[s][w]
  /\ \A s \in Sources : alias'[s] = IF s \in S /\ v > 0 /\ alias[s] = v THEN 0 ELSE alias[s]

LEMMA DropIs ==
  ASSUME TypeInv, NEW S \in SUBSET Sources, NEW v \in 0..MaxVersion, Drop(S, v)
  PROVE  Dropped(S, v)
<1>1. 0 \in 0..MaxVersion /\ Absent \in Collections
  BY Bounds, EmptiesAreTyped
<1>2. alias' \in [Sources -> 0..MaxVersion]
      /\ \A s \in Sources : alias'[s] = IF s \in S /\ v > 0 /\ alias[s] = v THEN 0 ELSE alias[s]
  BY <1>1 DEF Drop, TypeInv
<1>3. \A s \in Sources : coll[s] \in [0..MaxVersion -> Collections]
  BY DEF TypeInv
<1>4. \A s \in Sources : coll'[s] = IF s \in S THEN [coll[s] EXCEPT ![v] = Absent] ELSE coll[s]
  BY DEF Drop
<1>5. \A s \in Sources : coll'[s] \in [0..MaxVersion -> Collections]
  BY <1>1, <1>3, <1>4
<1>6. coll' \in [Sources -> [0..MaxVersion -> Collections]]
  <2>1. coll' = [s \in Sources |-> IF s \in S THEN [coll[s] EXCEPT ![v] = Absent] ELSE coll[s]]
    BY DEF Drop
  <2> QED BY <1>4, <1>5, <2>1
<1>7. \A s \in Sources, w \in 0..MaxVersion :
        coll'[s][w] = IF s \in S /\ w = v THEN Absent ELSE coll[s][w]
  BY <1>3, <1>4
<1> QED BY <1>2, <1>6, <1>7 DEF Dropped

\* While it moves: the target stays as it is, other collections may go.
LEMMA MovingKeeps ==
  ASSUME IInv, mgr.pc \in Moving, mgr' \in Managers, mgr'.pc \in Moving,
         mgr'.emb = mgr.emb, mgr'.from = mgr.from, mgr'.to = mgr.to,
         ManagerOnly, UNCHANGED db, proc' \in Procs, proc'.up = proc.up, proc'.vs = proc.vs,
         coll' \in [Sources -> [0..MaxVersion -> Collections]],
         \A s \in Sources : coll'[s][db.mig] = coll[s][db.mig],
         \A s \in Sources, v \in 0..MaxVersion : coll'[s][v] = Absent \/ coll'[s][v] = coll[s][v],
         alias' \in [Sources -> 0..MaxVersion],
         mgr'.pc # "swap" => \A s \in Sources : alias'[s] = db.mig,
         mgr'.pc \in {"single", "clean", "complete"} => proc'.active = cfg
  PROVE  IInv'
<1>0. mgr.pc # "off" /\ mgr.pc \notin Filling /\ mgr'.pc # "off" /\ mgr'.pc \notin Filling
  BY DEF Filling, Moving
<1>1. db.status = "completing"
  BY <1>0 DEF IInv, ManagerAgrees
<1>2. TypeInv'
  BY DEF IInv, TypeInv, ManagerOnly
<1>3. MgrStep
  BY <1>1 DEF MgrStep
<1>4. Versions' /\ KnownWasThere' /\ ToolBuilds' /\ LiveIndexWhole'
  BY <1>0, <1>2, <1>3, MgrStepKeeps
<1>5. ManagerAgrees'
  BY <1>0, <1>1 DEF IInv, ManagerAgrees, ManagerOnly
<1>6. CursorsVouch' /\ TargetMade' /\ TargetFilled'
  BY <1>0, <1>1 DEF CursorsVouch, TargetMade, TargetFilled, Filling
<1>7. NothingAbove'
  <2>1. \A s \in Sources, v \in 0..MaxVersion : v > db.ver + 1 => coll'[s][v] = Absent
    BY DEF IInv, NothingAbove
  <2> QED BY <1>1, <2>1, SettledIsNoOther DEF NothingAbove
<1>8. TargetComplete'
  BY DEF IInv, TargetComplete, Carried, Reached, Holds, Accepts, Exists, ManagerOnly
<1>9. Swapped'
  BY DEF Swapped, ManagerOnly, Moving
<1> QED BY <1>2, <1>4, <1>5, <1>6, <1>7, <1>8, <1>9 DEF IInv

\* What is known of the goroutine while it moves
LEMMA MovingFacts ==
  ASSUME IInv, mgr.pc \in Moving
  PROVE  /\ mgr \in Managers /\ proc \in Procs /\ TypeInv /\ mgr.pc # "off"
         /\ db.mig = db.ver + 1 /\ db.mig \in 1..MaxVersion /\ mgr.from \in 0..MaxVersion
         /\ mgr.from = db.ver /\ mgr.to = db.mig /\ mgr.emb = cfg /\ mgr.i \in Nat \ {0}
         /\ db.ver \in 0..MaxVersion
         /\ mgr.i <= Last => Src \in Sources
         /\ Swapped
<1>1. mgr.pc # "off" /\ mgr.pc \notin Filling /\ TypeInv
  BY DEF IInv, Moving, Filling
<1>2. db.status = "completing" /\ mgr.from = db.ver /\ mgr.to = db.mig /\ mgr.emb = cfg
  BY <1>1 DEF IInv, ManagerAgrees
<1>3. db.mig = db.ver + 1 /\ db.mig \in 0..MaxVersion /\ db.ver \in 0..MaxVersion
  BY <1>2, SettledIsNoOther DEF IInv, Versions, TypeInv, DbStates
<1>4. db.mig \in 1..MaxVersion
  BY <1>3, Bounds
<1> QED BY <1>1, <1>2, <1>3, <1>4, MgrFields DEF IInv, TypeInv

LEMMA DropRawKeeps ==
  ASSUME IInv, DropRaw
  PROVE  IInv'
<1>0. mgr.pc = "swap" /\ mgr.pc \in Moving /\ ManagerOnly /\ mgr.i <= Last
  BY DEF DropRaw, At, Moving
<1>a. TypeInv /\ Src \in Sources /\ mgr \in Managers /\ 0 \in 0..MaxVersion /\ proc \in Procs
      /\ db.mig \in 1..MaxVersion /\ mgr.i \in Nat \ {0} /\ mgr.pc # "off"
  BY <1>0, MovingFacts, Bounds
<1>1. CASE FailedByFault /\ UNCHANGED <<coll, alias>>
  <2>1. alias' \in [Sources -> 0..MaxVersion]
    BY <1>1, <1>a DEF TypeInv
  <2> QED BY <1>0, <1>1, <1>a, <2>1, EndedKeeps
<1>2. CASE Drop({Src}, 0) /\ mgr' = [mgr EXCEPT !.i = @ + 1] /\ UNCHANGED <<proc, db>>
  <2>1. mgr' \in Managers /\ mgr'.pc = "swap" /\ mgr'.emb = mgr.emb /\ mgr'.from = mgr.from
        /\ mgr'.to = mgr.to
    BY <1>0, <1>2, <1>a DEF Managers
  <2>2. /\ coll' \in [Sources -> [0..MaxVersion -> Collections]]
        /\ alias' \in [Sources -> 0..MaxVersion]
        /\ \A s \in Sources, w \in 0..MaxVersion :
             coll'[s][w] = IF s \in {Src} /\ w = 0 THEN Absent ELSE coll[s][w]
    <3>1. {Src} \in SUBSET Sources BY <1>a
    <3>2. Dropped({Src}, 0) BY <1>2, <1>a, <3>1, DropIs
    <3> QED BY <3>2 DEF Dropped
  <2>3. \A s \in Sources : coll'[s][db.mig] = coll[s][db.mig]
    BY <1>a, <2>2
  <2>4. \A s \in Sources, v \in 0..MaxVersion : coll'[s][v] = Absent \/ coll'[s][v] = coll[s][v]
    BY <2>2
  <2> QED BY <1>0, <1>2, <1>a, <2>1, <2>2, <2>3, <2>4, MovingKeeps
<1> QED BY <1>1, <1>2 DEF DropRaw, Steps, qdrant

LEMMA SwapAliasesKeeps ==
  ASSUME IInv, SwapAliases
  PROVE  IInv'
<1>0. mgr.pc = "swap" /\ mgr.pc \in Moving /\ ManagerOnly /\ UNCHANGED coll
  BY DEF SwapAliases, At, Moving
<1>a. TypeInv /\ mgr \in Managers /\ proc \in Procs /\ mgr.to = db.mig
      /\ db.mig \in 1..MaxVersion /\ mgr.i \in Nat \ {0} /\ mgr.pc # "off"
  BY <1>0, MovingFacts
<1>b. ASSUME PointAt(mgr.to)
      PROVE  alias' \in [Sources -> 0..MaxVersion] /\ \A s \in Sources : alias'[s] = db.mig
  <2>1. mgr.to \in 0..MaxVersion
    BY <1>a, MgrFields
  <2> QED BY <1>a, <1>b, <2>1 DEF PointAt
<1>1. CASE (Failed \/ FailedByFault) /\ (UNCHANGED alias \/ PointAt(mgr.to))
  <2>1. alias' \in [Sources -> 0..MaxVersion]
    BY <1>1, <1>a, <1>b DEF TypeInv
  <2> QED BY <1>0, <1>1, <1>a, <2>1, EndedKeeps
<1>2. CASE PointAt(mgr.to) /\ mgr' = [mgr EXCEPT !.pc = "adopt"] /\ UNCHANGED <<proc, db>>
  <2>1. mgr' \in Managers /\ mgr'.pc = "adopt" /\ mgr'.emb = mgr.emb /\ mgr'.from = mgr.from
        /\ mgr'.to = mgr.to
    <3>1. "adopt" \in Places BY DEF Places, Moving
    <3> QED BY <1>0, <1>2, <1>a, <3>1 DEF Managers
  <2>2. mgr'.pc \in Moving
    BY <2>1 DEF Moving
  <2>3. /\ coll' \in [Sources -> [0..MaxVersion -> Collections]]
        /\ \A s \in Sources : coll'[s][db.mig] = coll[s][db.mig]
        /\ \A s \in Sources, v \in 0..MaxVersion : coll'[s][v] = Absent \/ coll'[s][v] = coll[s][v]
    BY <1>0, <1>a DEF TypeInv
  <2> QED BY <1>0, <1>2, <1>a, <1>b, <2>1, <2>2, <2>3, MovingKeeps
<1> QED BY <1>1, <1>2 DEF SwapAliases, Steps, Adopt

LEMMA TakeOverKeeps ==
  ASSUME IInv, SwapEmbedder \/ DisableDualWrite
  PROVE  IInv'
<1>0. mgr.pc \in Moving /\ ManagerOnly /\ UNCHANGED <<coll, alias, db>> /\ mgr.pc \in {"adopt", "single"}
  BY DEF SwapEmbedder, DisableDualWrite, At, Moving, qdrant
<1>a. TypeInv /\ mgr \in Managers /\ proc \in Procs /\ mgr.emb = cfg /\ Swapped
  BY <1>0, MovingFacts
<1>b. "single" \in Places \cap Moving /\ "clean" \in Places \cap Moving
  BY DEF Places, Moving
<1>1. /\ coll' \in [Sources -> [0..MaxVersion -> Collections]]
      /\ alias' \in [Sources -> 0..MaxVersion]
      /\ \A s \in Sources : coll'[s][db.mig] = coll[s][db.mig]
      /\ \A s \in Sources, v \in 0..MaxVersion : coll'[s][v] = Absent \/ coll'[s][v] = coll[s][v]
  BY <1>0, <1>a DEF TypeInv
<1>2. \A s \in Sources : alias'[s] = db.mig
  BY <1>0, <1>a DEF Swapped, Moving
<1>3. CASE SwapEmbedder
  <2>1. mgr' \in Managers /\ mgr'.pc = "single" /\ mgr'.emb = mgr.emb /\ mgr'.from = mgr.from
        /\ mgr'.to = mgr.to
    BY <1>3, <1>a, <1>b DEF SwapEmbedder, Steps, Managers
  <2>2. proc' \in Procs /\ proc'.up = proc.up /\ proc'.vs = proc.vs /\ proc'.active = cfg
    BY <1>3, <1>a DEF SwapEmbedder, Procs, TypeInv, Known
  <2> QED BY <1>0, <1>1, <1>2, <1>b, <2>1, <2>2, MovingKeeps
<1>4. CASE DisableDualWrite
  <2>1. mgr' \in Managers /\ mgr'.pc = "clean" /\ mgr'.emb = mgr.emb /\ mgr'.from = mgr.from
        /\ mgr'.to = mgr.to
    BY <1>4, <1>a, <1>b DEF DisableDualWrite, Steps, Managers
  <2>2. proc' \in Procs /\ proc'.up = proc.up /\ proc'.vs = proc.vs /\ proc'.active = proc.active
    BY <1>4, <1>a, EmptiesAreTyped DEF DisableDualWrite, Procs
  <2>3. proc.active = cfg
    BY <1>4, <1>a DEF DisableDualWrite, At, Swapped
  <2> QED BY <1>0, <1>1, <1>2, <1>b, <2>1, <2>2, <2>3, MovingKeeps
<1> QED BY <1>3, <1>4

LEMMA DropOldKeeps ==
  ASSUME IInv, DropOld
  PROVE  IInv'
<1>0. mgr.pc = "clean" /\ mgr.pc \in Moving /\ ManagerOnly /\ UNCHANGED <<proc, db>>
      /\ mgr' = [mgr EXCEPT !.pc = "complete"]
  BY DEF DropOld, At, Moving, Steps
<1>a. TypeInv /\ mgr \in Managers /\ proc \in Procs /\ mgr.from \in 0..MaxVersion
      /\ mgr.from # db.mig /\ Swapped /\ db.mig \in 0..MaxVersion
  BY <1>0, MovingFacts, Bounds
<1>b. mgr' \in Managers /\ mgr'.pc = "complete" /\ mgr'.emb = mgr.emb /\ mgr'.from = mgr.from
      /\ mgr'.to = mgr.to /\ mgr'.pc \in Moving
  <2>1. "complete" \in Places /\ "complete" \in Moving BY DEF Places, Moving
  <2> QED BY <1>0, <1>a, <2>1 DEF Managers
<1>c. /\ \A s \in Sources : alias[s] = db.mig
      /\ proc.active = cfg
  BY <1>0, <1>a DEF Swapped, Moving
<1>1. CASE UNCHANGED <<coll, alias>>
  <2>1. /\ coll' \in [Sources -> [0..MaxVersion -> Collections]]
        /\ alias' \in [Sources -> 0..MaxVersion]
        /\ \A s \in Sources : coll'[s][db.mig] = coll[s][db.mig]
        /\ \A s \in Sources, v \in 0..MaxVersion : coll'[s][v] = Absent \/ coll'[s][v] = coll[s][v]
    BY <1>1, <1>a DEF TypeInv
  <2> QED BY <1>0, <1>1, <1>a, <1>b, <1>c, <2>1, MovingKeeps
<1>2. ASSUME NEW S \in SUBSET Sources, Drop(S, mgr.from) PROVE IInv'
  <2>1. /\ coll' \in [Sources -> [0..MaxVersion -> Collections]]
        /\ alias' \in [Sources -> 0..MaxVersion]
        /\ \A s \in Sources, w \in 0..MaxVersion :
             coll'[s][w] = IF s \in S /\ w = mgr.from THEN Absent ELSE coll[s][w]
        /\ \A s \in Sources : alias'[s] = IF s \in S /\ mgr.from > 0 /\ alias[s] = mgr.from THEN 0 ELSE alias[s]
    <3>1. Dropped(S, mgr.from) BY <1>2, <1>a, DropIs
    <3> QED BY <3>1 DEF Dropped
  <2>2. \A s \in Sources : coll'[s][db.mig] = coll[s][db.mig] /\ alias'[s] = db.mig
    BY <1>a, <1>c, <2>1
  <2>3. \A s \in Sources, v \in 0..MaxVersion : coll'[s][v] = Absent \/ coll'[s][v] = coll[s][v]
    BY <2>1
  <2> QED BY <1>0, <1>a, <1>b, <1>c, <2>1, <2>2, <2>3, MovingKeeps
<1> QED BY <1>1, <1>2 DEF DropOld, qdrant

LEMMA CompleteKeeps ==
  ASSUME IInv, Complete
  PROVE  IInv'
<1>0. mgr.pc = "complete" /\ mgr.pc \in Moving /\ mgr' = MgrOff
      /\ UNCHANGED <<rows, cfg, op, tool, known, damaged, coll, alias, proc>>
  BY DEF Complete, At, Moving, qdrant
<1>a. TypeInv /\ mgr.pc # "off" /\ mgr.to = db.mig /\ db.mig = db.ver + 1 /\ mgr.emb = cfg
      /\ db.mig \in 1..MaxVersion /\ db.ver \in 0..MaxVersion /\ Swapped
  BY <1>0, MovingFacts
<1>1. CASE UNCHANGED <<db, misread>>
  <2>1. Cancelled /\ ManagerOnly /\ alias' \in [Sources -> 0..MaxVersion]
    BY <1>0, <1>1, <1>a DEF TypeInv, Cancelled, ManagerOnly
  <2> QED BY <1>0, <1>a, <2>1, EndedKeeps
<1>2. CASE CompleteMigration(mgr.emb, mgr.to)
  <2>1. db' = [emb |-> cfg, ver |-> db.mig, mig |-> 0, status |-> Settled, cursor |-> AtStart]
        /\ misread' = FALSE
    BY <1>2, <1>a DEF CompleteMigration
  <2>2. db'.emb = cfg /\ db'.ver = db.mig /\ db'.status = Settled
    BY <2>1
  <2>3. db' \in DbStates
    <3>1. cfg \in Known /\ db.mig \in 0..MaxVersion /\ 0 \in 0..MaxVersion /\ Settled \in Statuses
      BY <1>a, Bounds DEF TypeInv, Known, Statuses
    <3> QED BY <2>1, <3>1, EmptiesAreTyped DEF DbStates
  <2>4. TypeInv' /\ mgr'.pc = "off" /\ cfg \in Embedders
    BY <1>0, <1>a, <2>1, <2>3, EmptiesAreTyped DEF TypeInv, MgrOff
  <2>5. db.status = "completing" /\ proc.up /\ proc.vs = "open"
    BY <1>0 DEF IInv, ManagerAgrees, Filling
  <2>6. ToolIdle /\ ToolIdle'
    BY <1>0, <2>5 DEF IInv, Versions, ToolIdle
  <2>7. Versions'
    BY <1>0, <2>2, <2>4, <2>6, Bounds DEF Versions
  <2>8. ManagerAgrees'
    BY <1>0, <2>4, <2>5 DEF ManagerAgrees
  <2>9. KnownWasThere'
    BY <1>0 DEF IInv, KnownWasThere, AllTexts
  <2>10. CursorsVouch' /\ TargetMade' /\ TargetFilled' /\ TargetComplete' /\ Swapped'
    BY <2>2, <2>4, SettledIsNoOther DEF CursorsVouch, TargetMade, TargetFilled, TargetComplete, Swapped,
       Filling, Moving
  <2>11. NothingAbove'
    <3>1. \A s \in Sources, v \in 0..MaxVersion : v > db.mig => coll[s][v] = Absent
      BY <1>a DEF IInv, NothingAbove
    <3>2. \A s \in Sources, v \in 0..MaxVersion : v > db.mig + 1 => coll[s][v] = Absent
      BY <1>a, <3>1
    <3> QED BY <1>0, <2>2, <3>1, <3>2, SettledIsNoOther DEF NothingAbove
  <2>12. ToolBuilds'
    BY <2>6 DEF ToolBuilds, ToolIdle
  <2>13. LiveIndexWhole'
    <3>1. ASSUME ~damaged, NEW s \in Sources PROVE alias[s] = db.mig /\ Holds(s, db.mig, cfg, Reached(s))
      BY <1>0, <1>a, <2>5, <3>1 DEF IInv, TargetComplete, Carried, Swapped, Moving
    <3>2. proc.active = cfg
      BY <1>0, <1>a DEF Swapped
    <3> QED BY <1>0, <2>2, <3>1, <3>2 DEF LiveIndexWhole, Reached, Holds, Accepts, Exists
  <2> QED BY <2>4, <2>7, <2>8, <2>9, <2>10, <2>11, <2>12, <2>13 DEF IInv
<1> QED BY <1>1, <1>2 DEF Complete

LEMMA CancelKeeps ==
  ASSUME IInv, Cancel
  PROVE  IInv'
<1>1. mgr.pc # "off" /\ Cancelled /\ ManagerOnly /\ UNCHANGED <<coll, alias>>
  BY DEF Cancel, qdrant
<1>2. alias' \in [Sources -> 0..MaxVersion]
  BY <1>1 DEF IInv, TypeInv
<1> QED BY <1>1, <1>2, EndedKeeps

LEMMA ManagerKeeps ==
  ASSUME IInv, Manager
  PROVE  IInv'
  BY CreateTargetKeeps, BackfillKeeps, CatchUpKeeps, MarkCompletingKeeps, DropRawKeeps,
     SwapAliasesKeeps, TakeOverKeeps, DropOldKeeps, CompleteKeeps, CancelKeeps DEF Manager

-------------------------------------------------------------------------------
\* The process

\* While the goroutine is off the invariant says nothing of it.
LEMMA ManagerIsOff ==
  ASSUME IInv, ~proc.up \/ proc.vs = "opening"
  PROVE  mgr.pc = "off"
  BY DEF IInv, ManagerAgrees

LEMMA OffSaysNothing ==
  ASSUME mgr'.pc = "off"
  PROVE  /\ TargetMade' /\ TargetFilled' /\ Swapped'
         /\ CursorsVouch' <=> (db'.status = "running" => Vouches(db.cursor)')
  BY DEF TargetMade, TargetFilled, Swapped, CursorsVouch, Filling, Moving

LEMMA StopKeeps ==
  ASSUME IInv, Exit \/ Crash
  PROVE  IInv'
<1>1. /\ proc' = Down /\ (mgr' = mgr \/ mgr' = MgrOff) /\ mgr'.pc = "off" /\ op' = OpOff
      /\ UNCHANGED <<rows, db, coll, alias, cfg, tool, known, misread, damaged>>
  BY DEF Exit, Crash, qdrant, MgrOff
<1>2. proc'.up = FALSE
  BY <1>1 DEF Down
<1>3. TypeInv'
  BY <1>1, EmptiesAreTyped DEF IInv, TypeInv
<1>4. Versions' /\ ManagerAgrees' /\ KnownWasThere'
  BY <1>1, <1>2 DEF IInv, Versions, ManagerAgrees, KnownWasThere, AllTexts, ToolIdle
<1>5. TargetMade' /\ TargetFilled' /\ Swapped' /\ CursorsVouch'
  BY <1>1, OffSaysNothing DEF IInv, CursorsVouch, Vouches, Holds, Accepts, Exists, Upto
<1>6. NothingAbove' /\ TargetComplete' /\ ToolBuilds'
  BY <1>1 DEF IInv, NothingAbove, TargetComplete, Carried, Reached, ToolBuilds, Made, Holds, Accepts, Exists, ToolIdle
<1>7. LiveIndexWhole'
  BY <1>1, <1>2 DEF IInv, LiveIndexWhole, Reached, Holds, Accepts, Exists, ToolIdle
<1> QED BY <1>3, <1>4, <1>5, <1>6, <1>7 DEF IInv

LEMMA ReconfigureKeeps ==
  ASSUME IInv, Reconfigure
  PROVE  IInv'
<1>1. /\ ~proc.up /\ ToolIdle /\ db.status = Settled /\ db.ver < MaxVersion
      /\ cfg' \in Embedders
      /\ UNCHANGED <<rows, db, coll, alias, proc, mgr, op, tool, known, misread, damaged>>
  BY DEF Reconfigure, qdrant
<1>2. mgr.pc = "off"
  BY <1>1, ManagerIsOff
<1>3. TypeInv'
  BY <1>1 DEF IInv, TypeInv
<1>4. Versions' /\ ManagerAgrees' /\ KnownWasThere'
  BY <1>1, <1>2 DEF IInv, Versions, ManagerAgrees, KnownWasThere, AllTexts, ToolIdle
<1>5. TargetMade' /\ TargetFilled' /\ Swapped' /\ CursorsVouch'
  BY <1>1, <1>2, OffSaysNothing, SettledIsNoOther
<1>6. NothingAbove' /\ TargetComplete'
  BY <1>1, SettledIsNoOther DEF IInv, NothingAbove, TargetComplete, ToolIdle
<1>7. ToolBuilds'
  BY <1>1 DEF ToolBuilds, ToolIdle
<1>8. LiveIndexWhole'
  BY <1>1 DEF IInv, LiveIndexWhole, Reached, Holds, Accepts, Exists, ToolIdle
<1> QED BY <1>3, <1>4, <1>5, <1>6, <1>7, <1>8 DEF IInv

LEMMA BootKeeps ==
  ASSUME IInv, Boot
  PROVE  IInv'
<1> DEFINE old == db.emb \in Rebuildable
           serving == IF old THEN db.emb ELSE cfg
           changed == db.status = Settled /\ db.emb # cfg
<1>0. /\ ~proc.up /\ ToolIdle
      /\ UNCHANGED <<rows, coll, alias, cfg, mgr, op, tool, damaged>>
  BY DEF Boot, qdrant
<1>m. misread' \in BOOLEAN /\ (misread => misread')
  <2>1. misread \in BOOLEAN
    BY DEF IInv, TypeInv
  <2>2. misread' = misread \/ BootUnread
    BY DEF Boot
  <2>3. BootUnread => misread' = (misread \/ (db # NoState /\ db.status = Settled /\ db.emb # cfg))
    BY Zenon DEF BootUnread
  <2> QED BY <2>1, <2>2, <2>3
<1>a. TypeInv /\ db \in DbStates /\ cfg \in Embedders /\ mgr.pc = "off" /\ Rebuildable \subseteq Embedders
  BY <1>0, ManagerIsOff, Bounds DEF IInv, TypeInv
<1>b. \A s \in Sources : AllTexts(s) \in SUBSET Nat
  BY <1>a DEF AllTexts, TypeInv
\* What is common to the ways to start
<1>1. ASSUME NEW active \in Embedders, NEW resume \in BOOLEAN, Up(active, resume)
      PROVE  /\ proc' \in Procs /\ proc'.up /\ proc'.vs = "opening" /\ proc'.active = active
             /\ proc'.resume = resume
             /\ known' \in [Sources -> SUBSET Nat]
             /\ (~resume \/ db.status = "completing") => known' = known
             /\ KnownWasThere'
  <2>1. proc' = [Down EXCEPT !.up = TRUE, !.vs = "opening", !.active = active, !.resume = resume]
    BY <1>1 DEF Up
  <2>2. active \in Known
    BY DEF Known
  <2>3. proc' \in Procs /\ proc'.up /\ proc'.vs = "opening" /\ proc'.active = active
        /\ proc'.resume = resume
    BY <2>1, <2>2, EmptiesAreTyped DEF Procs
  <2>4. known' = [s \in Sources |-> AllTexts(s)] \/ known' = known
    BY <1>1 DEF Up
  <2>5. known' \in [Sources -> SUBSET Nat]
    BY <1>a, <1>b, <2>4 DEF TypeInv
  <2>6. (~resume \/ db.status = "completing") => known' = known
    BY <1>1 DEF Up
  <2>7. KnownWasThere'
    BY <1>0, <2>4 DEF IInv, KnownWasThere, AllTexts
  <2> QED BY <2>3, <2>5, <2>6, <2>7
\* It starts without a change of what is recorded but for the embedder, which is
\* recorded at a first start and after a failed read.
<1>2. ASSUME NEW active \in Embedders, NEW resume \in BOOLEAN, Up(active, resume),
             db' \in DbStates,
             db' = db \/ (db.status = Settled /\ db' = [db EXCEPT !.emb = cfg]),
             db' = db => (resume => db.status \in {"running", "completing"}),
             db' # db => ~resume,
             db' # db /\ ~misread' => db = NoState,
             db' = db /\ ~misread' /\ db.status = Settled /\ (db.emb = cfg \/ old) => active = db.emb
      PROVE  IInv'
  <2>1. /\ proc' \in Procs /\ proc'.up /\ proc'.vs = "opening" /\ proc'.active = active
        /\ proc'.resume = resume
        /\ known' \in [Sources -> SUBSET Nat]
        /\ (~resume \/ db.status = "completing") => known' = known
        /\ KnownWasThere'
    BY <1>1, <1>2
  <2>2. TypeInv'
    BY <1>0, <1>m, <1>2, <1>a, <2>1 DEF TypeInv
  <2>3. db = NoState => db.ver = 0 /\ db.status = Settled /\ db.emb = "none"
    BY DEF NoState
  <2>4. /\ db'.ver = db.ver /\ db'.mig = db.mig /\ db'.status = db.status /\ db'.cursor = db.cursor
        /\ db' = db \/ (db.status = Settled /\ db'.emb = cfg)
    BY <1>2, <1>a DEF DbStates
  <2>5. Versions'
    <3>1. CASE db' = db
      BY <1>0, <3>1 DEF IInv, Versions, ToolIdle
    <3>2. CASE db.status = Settled /\ db'.emb = cfg
      BY <1>0, <1>a, <2>4, <3>2, Bounds DEF Versions, ToolIdle
    <3> QED BY <2>4, <3>1, <3>2
  <2>6. ManagerAgrees'
    BY <1>0, <1>2, <1>a, <2>1, <2>4 DEF ManagerAgrees
  <2>7. TargetMade' /\ TargetFilled' /\ Swapped' /\ CursorsVouch'
    BY <1>0, <1>a, <2>4, OffSaysNothing DEF IInv, CursorsVouch, Vouches, Holds, Accepts, Exists, Upto
  <2>8. NothingAbove'
    BY <1>0, <2>4 DEF IInv, NothingAbove, Exists, ToolIdle
  <2>9. TargetComplete'
    BY <1>0, <2>1, <2>4 DEF IInv, TargetComplete, Carried, Reached, Holds, Accepts, Exists
  <2>10. ToolBuilds'
    BY <1>0 DEF ToolBuilds, ToolIdle
  <2>11. LiveIndexWhole'
    <3>1. CASE db'.status = Settled /\ db'.ver > 0 /\ ~damaged /\ ~misread'
      <4>1. db' = db /\ ~resume /\ known' = known /\ ~misread
        BY <1>0, <1>m, <1>2, <2>1, <2>3, <2>4, <3>1, <1>a, SettledIsNoOther DEF DbStates
      <4>2. \A s \in Sources : alias[s] = db.ver /\ Holds(s, db.ver, db.emb, Reached(s))
        BY <1>0, <3>1, <4>1 DEF IInv, LiveIndexWhole
      <4> QED BY <1>0, <1>2, <2>1, <3>1, <4>1, <4>2 DEF LiveIndexWhole, Reached, Holds, Accepts, Exists
    <3> QED BY <1>0, <3>1 DEF LiveIndexWhole
  <2> QED BY <2>1, <2>2, <2>5, <2>6, <2>7, <2>8, <2>9, <2>10, <2>11 DEF IInv
<1>3. CASE db = NoState /\ db' = [NoState EXCEPT !.emb = cfg] /\ Up(cfg, FALSE)
  <2>1. db' \in DbStates
    BY <1>3, <1>a, EmptiesAreTyped DEF DbStates, Known
  <2>2. db' # db /\ db.status = Settled /\ db' = [db EXCEPT !.emb = cfg]
    BY <1>3, <1>a, Bounds DEF NoState
  <2> QED BY <1>2, <1>3, <1>a, <2>1, <2>2
<1>8. CASE BootUnread
  <2>1. Up(cfg, FALSE) /\ cfg \in Embedders
    BY <1>8, <1>a DEF BootUnread
  <2>2. db' = db \/ (db.status = Settled /\ db' = [db EXCEPT !.emb = cfg])
    BY <1>8 DEF BootUnread
  <2>3. db' \in DbStates
    BY <1>a, <2>2 DEF DbStates, Known
  <2>4. ~misread' => db = NoState \/ db.status # Settled \/ db.emb = cfg
    BY <1>8 DEF BootUnread
  <2>5. db.emb = cfg => db' = db
    <3>1. [db EXCEPT !.emb = db.emb] = db
      BY <1>a DEF DbStates
    <3> QED BY <2>2, <3>1
  <2>6. db' # db /\ ~misread' => db = NoState
    BY <2>2, <2>4, <2>5
  <2>7. db = NoState => ~(db.emb = cfg \/ old)
    BY <1>a, Bounds DEF NoState
  <2>8. db' = db /\ ~misread' /\ db.status = Settled /\ (db.emb = cfg \/ old) => cfg = db.emb
    BY <2>4, <2>7
  <2> HIDE DEF old
  <2> QED BY <1>2, <2>1, <2>2, <2>3, <2>6, <2>8
<1>4. CASE /\ db # NoState /\ ~changed /\ UNCHANGED db
           /\ Up(IF db.status = Settled THEN cfg ELSE serving,
                 old /\ db.status \in {"running", "completing"})
  <2>1. (IF db.status = Settled THEN cfg ELSE serving) \in Embedders
    BY <1>a
  <2>2. (old /\ db.status \in {"running", "completing"}) \in BOOLEAN
    OBVIOUS
  <2>3. db.status = Settled => db.emb = cfg
    BY <1>4
  <2> QED BY <1>2, <1>4, <1>a, <2>1, <2>2, <2>3
<1>5. CASE db # NoState /\ changed /\ ~old /\ Up(serving, old) /\ UNCHANGED db
  <2>1. Up(cfg, FALSE)
    <3>1. serving = cfg /\ old = FALSE BY <1>5
    <3>2. Up(serving, old) BY <1>5
    <3> HIDE DEF serving, old
    <3> QED BY <3>1, <3>2
  <2>2. ~(db.emb = cfg \/ old)
    BY <1>5
  <2> QED BY <1>2, <1>5, <1>a, <2>1, <2>2
<1>6. CASE db # NoState /\ changed /\ old /\ Up(serving, FALSE) /\ UNCHANGED db
  <2>1. Up(db.emb, FALSE) /\ db.emb \in Embedders
    BY <1>6, <1>a
  <2> QED BY <1>2, <1>6, <1>a, <2>1
\* A migration begins.
<1>7. CASE db # NoState /\ changed /\ old /\ Up(serving, old) /\ StartMigration
  <2>0. Up(db.emb, TRUE) /\ db.emb \in Embedders
    BY <1>7, <1>a
  <2>1. /\ proc' \in Procs /\ proc'.up /\ proc'.vs = "opening" /\ proc'.resume = TRUE
        /\ known' \in [Sources -> SUBSET Nat]
        /\ KnownWasThere'
    BY <1>1, <2>0
  <2>2. db.ver \in 0..MaxVersion /\ db.ver + 1 \in 0..MaxVersion /\ db.emb # "none"
    BY <1>7, <1>a, <2>0, Bounds DEF IInv, Versions, DbStates
  <2>3. db'.ver = db.ver /\ db'.emb = db.emb /\ db'.mig = db.ver + 1 /\ db'.status = "running"
        /\ db'.cursor = AtStart
    BY <1>7, <1>a DEF StartMigration, DbStates
  <2>4. db' \in DbStates
    <3>1. "running" \in Statuses BY DEF Statuses
    <3> QED BY <1>7, <1>a, <2>2, <3>1, EmptiesAreTyped DEF StartMigration, DbStates
  <2>5. TypeInv'
    BY <1>0, <1>m, <1>a, <2>1, <2>4 DEF TypeInv
  <2>6. Versions'
    BY <1>0, <2>2, <2>3 DEF IInv, Versions, ToolIdle
  <2>7. ManagerAgrees'
    BY <1>0, <1>a, <2>1, <2>3 DEF ManagerAgrees
  <2>8. TargetMade' /\ TargetFilled' /\ Swapped' /\ CursorsVouch'
    BY <1>0, <1>a, <2>3, OffSaysNothing DEF Vouches, AtStart
  <2>9. NothingAbove'
    <3>1. ~damaged => \A s \in Sources : coll[s][db.ver + 1] = Absent
      BY <1>0, <1>7, <2>2 DEF IInv, NothingAbove
    <3> QED BY <1>0, <2>3, <3>1, SettledIsNoOther DEF IInv, NothingAbove, Exists, ToolIdle
  <2>10. TargetComplete' /\ LiveIndexWhole'
    BY <2>3, SettledIsNoOther DEF TargetComplete, LiveIndexWhole
  <2>11. ToolBuilds'
    BY <1>0 DEF ToolBuilds, ToolIdle
  <2> QED BY <2>1, <2>5, <2>6, <2>7, <2>8, <2>9, <2>10, <2>11 DEF IInv
<1> QED BY <1>3, <1>4, <1>5, <1>6, <1>7, <1>8 DEF Boot

LEMMA EnsuredIs ==
  ASSUME TypeInv, NEW S \in SUBSET Sources
  PROVE  /\ Ensured(S) \in [Sources -> [0..MaxVersion -> Collections]]
         /\ \A s \in Sources, v \in 1..MaxVersion : Ensured(S)[s][v] = coll[s][v]
<1>1. Empty(proc.active) \in Collections
  BY DEF TypeInv, Procs, Empty, Collections
<1>2. \A s \in Sources : coll[s] \in [0..MaxVersion -> Collections]
  BY DEF TypeInv
<1>3. \A s \in Sources : Ensured(S)[s] = IF s \in S /\ coll[s][0].emb # proc.active
        THEN [coll[s] EXCEPT ![0] = Empty(proc.active)] ELSE coll[s]
  BY DEF Ensured
<1>4. \A s \in Sources : Ensured(S)[s] \in [0..MaxVersion -> Collections]
  BY <1>1, <1>2, <1>3, Zenon
<1>5. ASSUME NEW s \in Sources, NEW v \in 1..MaxVersion
      PROVE  Ensured(S)[s][v] = coll[s][v]
  <2>1. v # 0 /\ v \in 0..MaxVersion
    BY Bounds
  <2>2. [coll[s] EXCEPT ![0] = Empty(proc.active)][v] = coll[s][v]
    BY <1>2, <2>1
  <2> QED BY <1>3, <2>2
<1>6. Ensured(S) \in [Sources -> [0..MaxVersion -> Collections]]
  <2>1. DOMAIN Ensured(S) = Sources /\ Ensured(S) = [s \in Sources |-> Ensured(S)[s]]
    BY DEF Ensured
  <2> QED BY <1>4, <2>1
<1> QED BY <1>5, <1>6

LEMMA OpenVectorsKeeps ==
  ASSUME IInv, OpenVectors
  PROVE  IInv'
<1>0. /\ proc.up /\ proc.vs = "opening" /\ mgr.pc = "off" /\ TypeInv /\ proc \in Procs
      /\ db \in DbStates /\ mgr \in Managers /\ cfg \in Embedders
      /\ UNCHANGED <<rows, db, alias, cfg, op, tool, known, misread, damaged>>
  BY ManagerIsOff DEF OpenVectors, IInv, TypeInv
<1>1. \E vs \in {"none", "open"} : proc' = [proc EXCEPT !.vs = vs]
  BY DEF OpenVectors
<1>2. proc' \in Procs /\ proc'.up /\ proc'.vs \in {"none", "open"} /\ proc'.active = proc.active
      /\ proc'.resume = proc.resume
  BY <1>0, <1>1 DEF Procs
<1>3. \E S \in SUBSET Sources : coll' = coll \/ coll' = Ensured(S)
  <2>1. \A k \in 0..(Last - 1) : {Order[n] : n \in 1..k} \in SUBSET Sources
    BY OrderIs
  <2>2. Sources \in SUBSET Sources
    OBVIOUS
  <2> QED BY <2>1, <2>2 DEF OpenVectors
<1>4. /\ coll' \in [Sources -> [0..MaxVersion -> Collections]]
      /\ \A s \in Sources, v \in 1..MaxVersion : coll'[s][v] = coll[s][v]
  BY <1>0, <1>3, EnsuredIs DEF TypeInv
<1>5. mgr' = mgr \/ (proc.resume /\ proc'.vs = "open" /\ mgr' = NewManager)
  BY <1>0 DEF OpenVectors, Procs
<1>6. db.status = "running" \/ db.status = "completing" => db.mig \in 1..MaxVersion /\ db.mig = db.ver + 1
  BY <1>0, SettledIsNoOther, Bounds DEF IInv, Versions, DbStates
<1>7. ToolIdle
  BY <1>0 DEF IInv, Versions
<1>8. Versions' /\ KnownWasThere' /\ ToolBuilds'
  BY <1>0, <1>2, <1>7 DEF IInv, Versions, KnownWasThere, ToolBuilds, ToolIdle, AllTexts
<1>9. NothingAbove'
  <2>1. \A s \in Sources, v \in 0..MaxVersion : v > db.ver => coll'[s][v] = coll[s][v]
    <3>1. db.ver \in Nat BY <1>0 DEF DbStates
    <3>2. ASSUME NEW v \in 0..MaxVersion, v > db.ver PROVE v \in 1..MaxVersion
      BY <3>1, <3>2, Bounds
    <3> QED BY <1>4, <3>2
  <2>2. db.status = "running" => \A s \in Sources : coll'[s][db.mig] = coll[s][db.mig]
    BY <1>4, <1>6
  <2>3. \A s \in Sources, v \in 0..MaxVersion : v > db.ver + 1 => coll'[s][v] = Absent
    <3>1. db.ver \in Nat BY <1>0 DEF DbStates
    <3>2. \A v \in 0..MaxVersion : v > db.ver + 1 => v > db.ver
      BY <3>1, Bounds
    <3> QED BY <2>1, <3>2 DEF IInv, NothingAbove
  <2> QED BY <1>0, <2>1, <2>2, <2>3 DEF IInv, NothingAbove, Exists, ToolIdle
<1>10. TargetComplete'
  BY <1>0, <1>4, <1>6 DEF IInv, TargetComplete, Carried, Reached, Holds, Accepts, Exists
<1>11. LiveIndexWhole'
  <2>1. CASE db.status = Settled /\ db.ver > 0 /\ ~damaged
    <3>1. db.ver \in 1..MaxVersion
      BY <1>0, <2>1, Bounds DEF DbStates
    <3>2. \A s \in Sources : coll'[s][db.ver] = coll[s][db.ver]
      BY <1>4, <3>1
    <3> QED BY <1>0, <1>2, <1>7, <2>1, <3>2 DEF IInv, LiveIndexWhole, Reached, Holds, Accepts, Exists
  <2> QED BY <1>0, <2>1 DEF LiveIndexWhole
<1>12. db.status = "running" => Vouches(db.cursor)'
  <2>1. CASE db.status = "running"
    <3>1. \A s \in Sources : coll'[s][db.mig] = coll[s][db.mig]
      BY <1>4, <1>6, <2>1
    <3> QED BY <1>0, <2>1, <3>1 DEF IInv, CursorsVouch, Vouches, Holds, Accepts, Exists, Upto
  <2> QED BY <2>1
\* It does not begin, or takes up what was recorded.
<1>13. CASE mgr' = mgr
  <2>1. TypeInv'
    BY <1>0, <1>2, <1>4, <1>13 DEF TypeInv
  <2>2. ManagerAgrees'
    BY <1>0, <1>2, <1>13 DEF ManagerAgrees
  <2>3. TargetMade' /\ TargetFilled' /\ Swapped' /\ CursorsVouch'
    BY <1>0, <1>12, <1>13, OffSaysNothing
  <2> QED BY <1>8, <1>9, <1>10, <1>11, <2>1, <2>2, <2>3 DEF IInv
<1>14. CASE proc.resume /\ proc'.vs = "open" /\ mgr' = NewManager
  <2>1. db.status \in {"running", "completing"}
    BY <1>0, <1>14 DEF IInv, ManagerAgrees
  <2>2. mgr' = [MgrOff EXCEPT !.pc = IF db.status = "completing" THEN "swap" ELSE "create",
                 !.emb = cfg, !.from = db.ver, !.to = db.mig, !.last = db.cursor]
    BY <1>14 DEF NewManager
  <2>3. mgr'.pc = (IF db.status = "completing" THEN "swap" ELSE "create") /\ mgr'.emb = cfg
        /\ mgr'.from = db.ver /\ mgr'.to = db.mig /\ mgr'.last = db.cursor /\ mgr'.i = 1
    BY <2>2 DEF MgrOff
  <2>4. mgr' \in Managers
    <3>1. "swap" \in Places /\ "create" \in Places BY DEF Places, Moving, Filling
    <3>2. cfg \in Known BY <1>0 DEF Known
    <3>3. (IF db.status = "completing" THEN "swap" ELSE "create") \in Places BY <3>1
    <3>4. db.ver \in 0..MaxVersion /\ db.mig \in 0..MaxVersion /\ db.cursor \in [Sources -> Nat]
      BY <1>0 DEF DbStates
    <3> QED BY <2>2, <3>2, <3>3, <3>4, EmptiesAreTyped DEF Managers
  <2>5. TypeInv'
    BY <1>0, <1>2, <1>4, <2>4 DEF TypeInv
  <2>6. ManagerAgrees'
    BY <1>0, <1>2, <1>14, <2>1, <2>3 DEF ManagerAgrees, Filling
  <2>7. CursorsVouch'
    BY <1>0, <1>12, <2>1, <2>3 DEF CursorsVouch, Vouches, Filling, Holds, Accepts, Exists, Upto
  <2>9. TargetMade' /\ TargetFilled' /\ Swapped'
    BY <2>1, <2>3, OrderIs DEF TargetMade, TargetFilled, Swapped, Filling, Moving, Passed
  <2> QED BY <1>8, <1>9, <1>10, <1>11, <2>5, <2>6, <2>7, <2>9 DEF IInv
<1> QED BY <1>5, <1>13, <1>14

-------------------------------------------------------------------------------
\* The command

LEMMA ToolFacts ==
  ASSUME IInv, ~ToolIdle
  PROVE  /\ TypeInv /\ ~proc.up /\ mgr.pc = "off" /\ tool \in Tools /\ db \in DbStates
         /\ cfg \in Embedders
         /\ db.ver \in 0..MaxVersion /\ db.ver + 1 \in 1..MaxVersion
         /\ tool.i \in Nat \ {0}
         /\ tool.i <= Last => ToolSrc \in Sources
         /\ db.status # Settled => db.mig = db.ver + 1
<1>1. db.ver < MaxVersion /\ ~proc.up /\ TypeInv /\ (db.status # Settled => db.mig = db.ver + 1)
  BY DEF IInv, Versions
<1>2. tool.i \in Nat \ {0} /\ (tool.i <= Last => ToolSrc \in Sources) /\ tool \in Tools
  BY <1>1, OrderIs DEF TypeInv, Tools, ToolSrc
<1>3. db.ver \in 0..MaxVersion /\ db.ver + 1 \in 1..MaxVersion
  BY <1>1, Bounds DEF TypeInv, DbStates
<1> QED BY <1>1, <1>2, <1>3, ManagerIsOff DEF TypeInv

\* It breaks off: the less is promised.
LEMMA ToolErrorKeeps ==
  ASSUME IInv, ~ToolIdle, NEW hit \in BOOLEAN, ToolError(hit), ToolOnly, UNCHANGED <<db, coll, alias, known, misread>>
  PROVE  IInv'
<1>1. tool' = [ToolOff EXCEPT !.pc = "error", !.hit = hit] /\ damaged' = TRUE
      /\ UNCHANGED <<rows, cfg, proc, mgr, op>>
  BY DEF ToolError, ToolOnly
<1>2. tool'.pc = "error" /\ tool'.texts = [s \in Sources |-> {}]
  BY <1>1 DEF ToolOff, Nothing
<1>3. tool' \in Tools
  BY <1>1, EmptiesAreTyped DEF Tools
<1>4. TypeInv'
  BY <1>1, <1>3 DEF IInv, TypeInv
<1>5. Versions' /\ ManagerAgrees'
  BY <1>1, <1>2 DEF IInv, Versions, ManagerAgrees, ToolIdle
<1>6. KnownWasThere'
  BY <1>1, <1>2 DEF IInv, KnownWasThere, AllTexts
<1>7. TargetMade' /\ TargetFilled' /\ Swapped' /\ CursorsVouch'
  BY <1>1, ToolFacts, OffSaysNothing DEF IInv, CursorsVouch, Vouches, Holds, Accepts, Exists, Upto
<1>8. NothingAbove' /\ LiveIndexWhole'
  BY <1>1 DEF IInv, NothingAbove, LiveIndexWhole
<1>9. TargetComplete'
  BY <1>1 DEF IInv, TargetComplete, Carried, Reached, Holds, Accepts, Exists
<1>10. ToolBuilds'
  BY <1>2 DEF ToolBuilds
<1> QED BY <1>4, <1>5, <1>6, <1>7, <1>8, <1>9, <1>10 DEF IInv

\* It goes on: the active version may go, above it only what it makes itself is new.
LEMMA ToolGoesOn ==
  ASSUME IInv, ~ToolIdle, tool' \in Tools, ~ToolIdle', tool'.texts = tool.texts,
         ToolOnly, UNCHANGED <<db, damaged, known, misread>>,
         coll' \in [Sources -> [0..MaxVersion -> Collections]],
         alias' \in [Sources -> 0..MaxVersion],
         \A s \in Sources, v \in 0..MaxVersion : v > db.ver + 1 => coll'[s][v] = coll[s][v],
         \A s \in Sources : coll'[s][db.ver + 1] # Absent =>
           \/ coll[s][db.ver + 1] = Absent /\ coll'[s][db.ver + 1].emb = cfg
           \/ coll[s][db.ver + 1].emb = coll'[s][db.ver + 1].emb /\ Exists(s, db.ver + 1),
         \A s \in Sources : Exists(s, db.ver + 1) =>
           /\ coll'[s][db.ver + 1] # Absent
           /\ coll[s][db.ver + 1].rows \subseteq coll'[s][db.ver + 1].rows,
         ToolBuilds'
  PROVE  IInv'
<1>0. /\ TypeInv /\ ~proc.up /\ mgr.pc = "off" /\ (db.status # Settled => db.mig = db.ver + 1)
      /\ UNCHANGED <<rows, cfg, proc, mgr, op>>
  BY ToolFacts DEF ToolOnly
<1>1. TypeInv'
  BY <1>0 DEF TypeInv
<1>2. Versions' /\ ManagerAgrees' /\ KnownWasThere'
  BY <1>0 DEF IInv, Versions, ManagerAgrees, KnownWasThere, AllTexts
<1>3. ASSUME db.status # Settled, NEW s \in Sources, Accepts(s, db.mig, cfg)
      PROVE  /\ coll'[s][db.mig] # Absent /\ coll'[s][db.mig].emb = cfg
             /\ coll[s][db.mig].rows \subseteq coll'[s][db.mig].rows
  BY <1>0, <1>3 DEF Accepts, Exists
<1>4. TargetMade' /\ TargetFilled' /\ Swapped' /\ CursorsVouch'
  BY <1>0, <1>3, OffSaysNothing, SettledIsNoOther
     DEF IInv, CursorsVouch, Vouches, Holds, Accepts, Exists, Upto
<1>5. NothingAbove'
  <2>1. \A s \in Sources, v \in 0..MaxVersion : v > db.ver + 1 => coll'[s][v] = Absent
    BY DEF IInv, NothingAbove
  <2>2. ASSUME ~damaged, db.status = "running", NEW s \in Sources, coll'[s][db.mig] # Absent
        PROVE  coll'[s][db.mig].emb = cfg
    BY <1>0, <2>2, SettledIsNoOther DEF IInv, NothingAbove, Exists
  <2> QED BY <1>0, <2>1, <2>2 DEF NothingAbove, Exists
<1>6. TargetComplete'
  BY <1>0, <1>3, SettledIsNoOther DEF IInv, TargetComplete, Carried, Reached, Holds, Accepts, Exists
<1>7. LiveIndexWhole'
  BY DEF LiveIndexWhole
<1> QED BY <1>1, <1>2, <1>4, <1>5, <1>6, <1>7 DEF IInv

\* Nothing of the new version changes.
LEMMA SameAbove ==
  ASSUME IInv, ~ToolIdle,
         \A s \in Sources, v \in 0..MaxVersion : v > db.ver => coll'[s][v] = coll[s][v]
  PROVE  /\ \A s \in Sources, v \in 0..MaxVersion : v > db.ver + 1 => coll'[s][v] = coll[s][v]
         /\ \A s \in Sources : coll'[s][db.ver + 1] = coll[s][db.ver + 1]
<1>1. db.ver \in Nat /\ db.ver + 1 \in 0..MaxVersion /\ db.ver + 1 > db.ver
  BY ToolFacts, Bounds
<1>2. \A v \in 0..MaxVersion : v > db.ver + 1 => v > db.ver
  BY <1>1, Bounds
<1> QED BY <1>1, <1>2

LEMMA ToolMoves ==
  ASSUME tool \in Tools, NEW p, ToolNext(p), p \in {"create", "fill", "alias", "state"}
  PROVE  tool' \in Tools /\ tool'.pc = p /\ tool'.i = 1 /\ tool'.texts = tool.texts /\ ~ToolIdle'
<1>1. tool' = [tool EXCEPT !.pc = p, !.i = 1]
  BY DEF ToolNext
<1>2. tool'.pc = p /\ tool'.i = 1 /\ tool'.texts = tool.texts
  BY <1>1 DEF Tools
<1>3. 1 \in Nat \ {0} /\ p \in {"off", "error", "delete", "create", "fill", "alias", "state"}
  OBVIOUS
<1>4. tool' \in Tools
  BY <1>1, <1>3 DEF Tools
<1> QED BY <1>2, <1>4 DEF ToolIdle

LEMMA ToolSteps ==
  ASSUME tool \in Tools, ToolStep, ~ToolIdle
  PROVE  tool' \in Tools /\ tool'.pc = tool.pc /\ tool'.i = tool.i + 1 /\ tool'.texts = tool.texts
         /\ ~ToolIdle'
<1>1. tool' = [tool EXCEPT !.i = @ + 1]
  BY DEF ToolStep
<1>2. tool.i + 1 \in Nat \ {0}
  BY DEF Tools
<1>3. tool' \in Tools /\ tool'.pc = tool.pc /\ tool'.i = tool.i + 1 /\ tool'.texts = tool.texts
  BY <1>1, <1>2 DEF Tools
<1> QED BY <1>3 DEF ToolIdle

LEMMA MadeNext ==
  ASSUME tool \in Tools, tool.i <= Last, tool'.i = tool.i + 1, NEW s \in Sources, Made(s)'
  PROVE  Made(s) \/ s = ToolSrc
<1>1. PICK n \in DOMAIN Order : n < tool.i + 1 /\ s = Order[n]
  BY DEF Made
<1> QED BY <1>1, OrderIs DEF Made, ToolSrc, Tools

LEMMA MadeAll ==
  ASSUME tool \in Tools, tool.i > Last, NEW s \in Sources
  PROVE  Made(s)
<1>1. PICK n \in DOMAIN Order : s = Order[n]
  BY DEF Sources
<1> QED BY <1>1, OrderIs DEF Made, Tools

LEMMA ToolStartKeeps ==
  ASSUME IInv, ToolStart
  PROVE  IInv'
<1>0. /\ ~proc.up /\ ToolIdle /\ db.ver < MaxVersion
      /\ UNCHANGED <<rows, cfg, proc, mgr, op, db, coll, alias, known, misread, damaged>>
      /\ tool' = [ToolOff EXCEPT !.pc = "delete", !.texts = [s \in Sources |-> AllTexts(s)],
                                 !.aliased = HasAliases]
  BY DEF ToolStart, ToolOnly, qdrant
<1>1. TypeInv /\ HasAliases \in BOOLEAN /\ [s \in Sources |-> AllTexts(s)] \in [Sources -> SUBSET Nat]
  BY DEF IInv, TypeInv, HasAliases, AllTexts
<1> DEFINE texts == [s \in Sources |-> AllTexts(s)]
           aliased == HasAliases
<1> HIDE DEF texts, aliased
<1>2. tool' = [ToolOff EXCEPT !.pc = "delete", !.texts = texts, !.aliased = aliased]
      /\ texts \in [Sources -> SUBSET Nat] /\ aliased \in BOOLEAN
  BY <1>0, <1>1 DEF texts, aliased
<1>3. tool'.pc = "delete" /\ tool'.texts = texts
  BY <1>2 DEF ToolOff
<1>4. tool' \in Tools
  BY <1>2, EmptiesAreTyped DEF Tools
<1>5. TypeInv'
  BY <1>0, <1>1, <1>4 DEF TypeInv
<1>6. Versions' /\ ManagerAgrees'
  BY <1>0 DEF IInv, Versions, ManagerAgrees
<1>7. KnownWasThere'
  BY <1>0, <1>3 DEF IInv, KnownWasThere, AllTexts, texts
<1>8. TargetMade' /\ TargetFilled' /\ Swapped' /\ CursorsVouch'
  BY <1>0, ManagerIsOff, OffSaysNothing DEF IInv, CursorsVouch, Vouches, Holds, Accepts, Exists, Upto
<1>9. ~ToolIdle'
  BY <1>3 DEF ToolIdle
<1>10. NothingAbove' /\ LiveIndexWhole'
  BY <1>0, <1>9 DEF IInv, NothingAbove, LiveIndexWhole, Exists
<1>11. TargetComplete'
  BY <1>0 DEF IInv, TargetComplete, Carried, Reached, Holds, Accepts, Exists
<1>12. ToolBuilds'
  BY <1>3 DEF ToolBuilds
<1> QED BY <1>5, <1>6, <1>7, <1>8, <1>10, <1>11, <1>12 DEF IInv

LEMMA ToolDeleteKeeps ==
  ASSUME IInv, ToolDelete
  PROVE  IInv'
<1>0. tool.pc = "delete" /\ ~ToolIdle /\ ToolOnly /\ UNCHANGED <<db, known, misread>>
  BY DEF ToolDelete, ToolIdle
<1>a. tool \in Tools /\ TypeInv /\ db.ver \in 0..MaxVersion /\ 0 \in 0..MaxVersion
  BY <1>0, ToolFacts, Bounds
<1>1. CASE ToolError(TRUE) /\ UNCHANGED qdrant
  BY <1>0, <1>1, ToolErrorKeeps DEF qdrant
<1>2. CASE tool.i > Last /\ ToolNext("create") /\ UNCHANGED <<coll, alias, damaged>>
  <2>1. tool' \in Tools /\ tool'.pc = "create" /\ tool'.i = 1 /\ tool'.texts = tool.texts /\ ~ToolIdle'
    BY <1>2, <1>a, ToolMoves
  <2>2. ToolBuilds'
    BY <2>1, OrderIs DEF ToolBuilds, Made
  <2> QED BY <1>0, <1>2, <1>a, <2>1, <2>2, ToolGoesOn DEF TypeInv, Exists
<1>3. CASE tool.i <= Last /\ Drop({ToolSrc}, IF tool.aliased THEN db.ver ELSE 0) /\ ToolStep
           /\ UNCHANGED damaged
  <2> DEFINE v == IF tool.aliased THEN db.ver ELSE 0
  <2>1. tool' \in Tools /\ tool'.pc = "delete" /\ tool'.texts = tool.texts /\ ~ToolIdle'
    BY <1>0, <1>3, <1>a, ToolSteps
  <2>2. v \in 0..MaxVersion /\ v <= db.ver /\ {ToolSrc} \in SUBSET Sources
    BY <1>0, <1>3, <1>a, ToolFacts
  <2>3. Drop({ToolSrc}, v)
    BY <1>3
  <2> HIDE DEF v
  <2>4. Dropped({ToolSrc}, v)
    BY <1>a, <2>2, <2>3, DropIs
  <2>5. \A s \in Sources, w \in 0..MaxVersion : w > db.ver => coll'[s][w] = coll[s][w]
    BY <1>a, <2>2, <2>4 DEF Dropped
  <2>6. ToolBuilds'
    BY <2>1 DEF ToolBuilds
  <2>7. coll' \in [Sources -> [0..MaxVersion -> Collections]] /\ alias' \in [Sources -> 0..MaxVersion]
    BY <2>4 DEF Dropped
  <2>8. /\ \A s \in Sources, w \in 0..MaxVersion : w > db.ver + 1 => coll'[s][w] = coll[s][w]
        /\ \A s \in Sources : coll'[s][db.ver + 1] = coll[s][db.ver + 1]
    BY <1>0, <2>5, SameAbove
  <2> QED BY <1>0, <1>3, <2>1, <2>6, <2>7, <2>8, ToolGoesOn DEF Exists
<1> QED BY <1>1, <1>2, <1>3 DEF ToolDelete, qdrant

LEMMA ToolCreateKeeps ==
  ASSUME IInv, ToolCreate
  PROVE  IInv'
<1>0. tool.pc = "create" /\ ~ToolIdle /\ ToolOnly /\ UNCHANGED <<db, alias, known, misread>>
  BY DEF ToolCreate, ToolIdle
<1>a. tool \in Tools /\ TypeInv /\ db.ver + 1 \in 1..MaxVersion /\ cfg \in Embedders
      /\ alias' \in [Sources -> 0..MaxVersion] /\ UNCHANGED cfg
  BY <1>0, ToolFacts DEF TypeInv, ToolOnly
<1>1. CASE (\E hit \in BOOLEAN : ToolError(hit)) /\ UNCHANGED coll
  BY <1>0, <1>1, ToolErrorKeeps
<1>2. CASE tool.i > Last /\ ToolNext("fill") /\ UNCHANGED <<coll, damaged>>
  <2>1. tool' \in Tools /\ tool'.pc = "fill" /\ tool'.i = 1 /\ tool'.texts = tool.texts /\ ~ToolIdle'
    BY <1>2, <1>a, ToolMoves
  <2>2. \A s \in Sources : Accepts(s, db.ver + 1, cfg)
    BY <1>0, <1>2, <1>a, MadeAll DEF IInv, ToolBuilds
  <2>3. ToolBuilds'
    BY <1>0, <1>2, <1>a, <2>1, <2>2, OrderIs DEF ToolBuilds, Made, Accepts, Exists
  <2> QED BY <1>0, <1>2, <1>a, <2>1, <2>3, ToolGoesOn DEF TypeInv, Exists
<1>3. CASE /\ tool.i <= Last /\ ~Exists(ToolSrc, db.ver + 1)
           /\ coll' = [coll EXCEPT ![ToolSrc][db.ver + 1] = Empty(cfg)]
           /\ ToolStep /\ UNCHANGED damaged
  <2>1. tool' \in Tools /\ tool'.pc = "create" /\ tool'.i = tool.i + 1 /\ tool'.texts = tool.texts
        /\ ~ToolIdle'
    BY <1>0, <1>3, <1>a, ToolSteps
  <2>2. ToolSrc \in Sources /\ db.ver + 1 \in 0..MaxVersion /\ Empty(cfg) \in Collections
        /\ Empty(cfg) # Absent /\ Empty(cfg).emb = cfg
    BY <1>0, <1>3, <1>a, ToolFacts, EmptiesAreTyped DEF Empty
  <2>3. /\ coll' \in [Sources -> [0..MaxVersion -> Collections]]
        /\ coll'[ToolSrc][db.ver + 1] = Empty(cfg)
        /\ \A t \in Sources, w \in 0..MaxVersion : t # ToolSrc \/ w # db.ver + 1 => coll'[t][w] = coll[t][w]
    <3> DEFINE s == ToolSrc
               v == db.ver + 1
               c == Empty(cfg)
    <3>1. coll' = [coll EXCEPT ![s][v] = c] /\ s \in Sources /\ v \in 0..MaxVersion /\ c \in Collections
      BY <1>3, <2>2
    <3> HIDE DEF s, v, c
    <3>2. /\ coll' \in [Sources -> [0..MaxVersion -> Collections]]
          /\ coll'[s][v] = c
          /\ \A t \in Sources, w \in 0..MaxVersion : t # s \/ w # v => coll'[t][w] = coll[t][w]
      BY <1>a, <3>1, SetOne, ZenonT(40)
    <3> QED BY <3>2 DEF s, v, c
  <2>4. \A s \in Sources, v \in 0..MaxVersion : v > db.ver + 1 => coll'[s][v] = coll[s][v]
    BY <1>a, <2>3
  <2>5. \A s \in Sources : coll'[s][db.ver + 1] # Absent =>
           \/ coll[s][db.ver + 1] = Absent /\ coll'[s][db.ver + 1].emb = cfg
           \/ coll[s][db.ver + 1].emb = coll'[s][db.ver + 1].emb /\ Exists(s, db.ver + 1)
    BY <1>3, <2>2, <2>3 DEF Exists
  <2>6. \A s \in Sources : Exists(s, db.ver + 1) =>
           /\ coll'[s][db.ver + 1] # Absent
           /\ coll[s][db.ver + 1].rows \subseteq coll'[s][db.ver + 1].rows
    BY <1>3, <2>2, <2>3 DEF Exists
  <2>7. ASSUME NEW s \in Sources, Made(s)' PROVE Accepts(s, db.ver + 1, cfg)'
    <3>1. CASE s = ToolSrc
      BY <1>0, <1>a, <2>2, <2>3, <3>1 DEF Accepts, Exists
    <3>2. CASE s # ToolSrc
      <4>1. Made(s) BY <1>3, <1>a, <2>1, <2>7, <3>2, MadeNext
      <4> QED BY <1>0, <1>a, <2>2, <2>3, <3>2, <4>1 DEF IInv, ToolBuilds, Accepts, Exists
    <3> QED BY <3>1, <3>2
  <2>8. ToolBuilds'
    BY <1>0, <1>a, <2>1, <2>7 DEF ToolBuilds
  <2> QED BY <1>0, <1>3, <1>a, <2>1, <2>3, <2>4, <2>5, <2>6, <2>8, ToolGoesOn
<1> QED BY <1>1, <1>2, <1>3 DEF ToolCreate

LEMMA ToolFillKeeps ==
  ASSUME IInv, ToolFill
  PROVE  IInv'
<1>0. tool.pc = "fill" /\ ~ToolIdle /\ ToolOnly /\ UNCHANGED <<db, alias, known, misread>>
  BY DEF ToolFill, ToolIdle
<1>a. tool \in Tools /\ TypeInv /\ db.ver + 1 \in 1..MaxVersion
      /\ alias' \in [Sources -> 0..MaxVersion] /\ UNCHANGED cfg /\ tool.texts \in [Sources -> SUBSET Nat]
  BY <1>0, ToolFacts DEF TypeInv, ToolOnly, Tools
<1>b. \A s \in Sources : Accepts(s, db.ver + 1, cfg)
  BY <1>0 DEF IInv, ToolBuilds
<1>1. CASE ToolError(TRUE) /\ UNCHANGED coll
  BY <1>0, <1>1, ToolErrorKeeps
<1>2. CASE tool.i > Last /\ ToolNext("alias") /\ UNCHANGED <<coll, damaged>>
  <2>1. tool' \in Tools /\ tool'.pc = "alias" /\ tool'.i = 1 /\ tool'.texts = tool.texts /\ ~ToolIdle'
    BY <1>2, <1>a, ToolMoves
  <2>2. \A s \in Sources : Holds(s, db.ver + 1, cfg, tool.texts[s])
    BY <1>0, <1>2, <1>a, <1>b, MadeAll DEF IInv, ToolBuilds, Holds
  <2>3. ToolBuilds'
    BY <1>0, <1>2, <1>a, <2>1, <2>2 DEF ToolBuilds, Holds, Accepts, Exists
  <2> QED BY <1>0, <1>2, <1>a, <2>1, <2>3, ToolGoesOn DEF TypeInv, Exists
<1>3. CASE tool.i <= Last /\ Put(ToolSrc, db.ver + 1, tool.texts[ToolSrc]) /\ ToolStep /\ UNCHANGED damaged
  <2>1. tool' \in Tools /\ tool'.pc = "fill" /\ tool'.i = tool.i + 1 /\ tool'.texts = tool.texts
        /\ ~ToolIdle'
    BY <1>0, <1>3, <1>a, ToolSteps
  <2>2. ToolSrc \in Sources /\ db.ver + 1 \in 0..MaxVersion /\ Exists(ToolSrc, db.ver + 1)
        /\ tool.texts[ToolSrc] \in SUBSET Nat
    BY <1>0, <1>3, <1>a, <1>b, ToolFacts DEF Accepts
  <2>3. /\ coll' \in [Sources -> [0..MaxVersion -> Collections]]
        /\ \A s \in Sources, v \in 0..MaxVersion : Kept(s, v)
        /\ tool.texts[ToolSrc] \subseteq coll'[ToolSrc][db.ver + 1].rows
    BY <1>3, <1>a, <2>2, PutKeeps
  <2>4. \A s \in Sources, v \in 0..MaxVersion : v > db.ver + 1 => coll'[s][v] = coll[s][v]
    BY <2>3 DEF IInv, NothingAbove, Kept
  <2>5. \A s \in Sources : Kept(s, db.ver + 1)
    BY <2>2, <2>3
  <2>6. ASSUME NEW s \in Sources, Made(s)' PROVE tool.texts[s] \subseteq coll'[s][db.ver + 1].rows
    <3>1. CASE s = ToolSrc BY <2>3, <3>1
    <3>2. CASE s # ToolSrc
      <4>1. Made(s) BY <1>3, <1>a, <2>1, <2>6, <3>2, MadeNext
      <4> QED BY <1>0, <2>5, <4>1 DEF IInv, ToolBuilds, Kept
    <3> QED BY <3>1, <3>2
  <2>7. ToolBuilds'
    BY <1>0, <1>a, <1>b, <2>1, <2>5, <2>6 DEF ToolBuilds, Accepts, Exists, Kept
  <2>8. \A s \in Sources :
          /\ coll'[s][db.ver + 1] # Absent => coll[s][db.ver + 1].emb = coll'[s][db.ver + 1].emb
                                               /\ Exists(s, db.ver + 1)
          /\ Exists(s, db.ver + 1) => coll'[s][db.ver + 1] # Absent
               /\ coll[s][db.ver + 1].rows \subseteq coll'[s][db.ver + 1].rows
    BY <2>5 DEF Kept, Exists
  <2> QED BY <1>0, <1>3, <1>a, <2>1, <2>3, <2>4, <2>7, <2>8, ToolGoesOn
<1> QED BY <1>1, <1>2, <1>3 DEF ToolFill

LEMMA ToolAliasKeeps ==
  ASSUME IInv, ToolAlias
  PROVE  IInv'
<1>0. tool.pc = "alias" /\ ~ToolIdle /\ ToolOnly /\ UNCHANGED <<db, known, misread>>
  BY DEF ToolAlias, ToolIdle
<1>a. tool \in Tools /\ TypeInv /\ db.ver + 1 \in 1..MaxVersion /\ UNCHANGED cfg /\ db.ver \in 0..MaxVersion
  BY <1>0, ToolFacts DEF ToolOnly
<1>1. CASE (\E hit \in BOOLEAN : ToolError(hit)) /\ UNCHANGED qdrant
  BY <1>0, <1>1, ToolErrorKeeps DEF qdrant
<1>2. CASE /\ PointAt(db.ver + 1) /\ ToolNext("state")
           /\ coll' = [s \in Sources |-> [coll[s] EXCEPT ![0] = Absent]]
           /\ UNCHANGED damaged
  <2>1. tool' \in Tools /\ tool'.pc = "state" /\ tool'.i = 1 /\ tool'.texts = tool.texts /\ ~ToolIdle'
    BY <1>2, <1>a, ToolMoves
  <2>2. \A s \in Sources : coll[s] \in [0..MaxVersion -> Collections]
    BY <1>a DEF TypeInv
  <2>3. coll' \in [Sources -> [0..MaxVersion -> Collections]]
        /\ \A s \in Sources, v \in 0..MaxVersion : v # 0 => coll'[s][v] = coll[s][v]
    BY <1>2, <2>2, EmptiesAreTyped
  <2>4. alias' \in [Sources -> 0..MaxVersion] /\ \A s \in Sources : alias'[s] = db.ver + 1
    BY <1>2, <1>a DEF PointAt
  <2>5. \A s \in Sources, v \in 0..MaxVersion : v > db.ver => coll'[s][v] = coll[s][v]
    BY <1>a, <2>3
  <2>6. /\ \A s \in Sources, v \in 0..MaxVersion : v > db.ver + 1 => coll'[s][v] = coll[s][v]
        /\ \A s \in Sources : coll'[s][db.ver + 1] = coll[s][db.ver + 1]
    BY <1>0, <2>5, SameAbove
  <2>7. ToolBuilds'
    BY <1>0, <1>a, <2>1, <2>4, <2>6 DEF IInv, ToolBuilds, Holds, Accepts, Exists
  <2> QED BY <1>0, <1>2, <2>1, <2>3, <2>4, <2>6, <2>7, ToolGoesOn DEF Exists
<1> QED BY <1>1, <1>2 DEF ToolAlias

LEMMA ToolStateKeeps ==
  ASSUME IInv, ToolState
  PROVE  IInv'
<1>0. tool.pc = "state" /\ ~ToolIdle /\ ToolOnly /\ UNCHANGED <<coll, alias>>
  BY DEF ToolState, ToolIdle, qdrant
<1>a. /\ tool \in Tools /\ TypeInv /\ db.ver + 1 \in 1..MaxVersion /\ cfg \in Embedders
      /\ ~proc.up /\ mgr.pc = "off" /\ db.ver \in 0..MaxVersion
      /\ UNCHANGED <<rows, cfg, proc, mgr, op>>
  BY <1>0, ToolFacts DEF ToolOnly
<1>1. CASE ToolError(TRUE) /\ UNCHANGED <<db, known, misread>>
  BY <1>0, <1>1, ToolErrorKeeps
<1>2. CASE /\ CompleteMigration(cfg, db.ver + 1) /\ known' = tool.texts
           /\ tool' = ToolOff /\ UNCHANGED damaged
  <2>1. db' = [emb |-> cfg, ver |-> db.ver + 1, mig |-> 0, status |-> Settled, cursor |-> AtStart]
        /\ misread' = FALSE
    BY <1>2 DEF CompleteMigration
  <2>2. db'.emb = cfg /\ db'.ver = db.ver + 1 /\ db'.status = Settled
    BY <2>1
  <2>3. db' \in DbStates
    <3>1. cfg \in Known /\ db.ver + 1 \in 0..MaxVersion /\ 0 \in 0..MaxVersion /\ Settled \in Statuses
      BY <1>a, Bounds DEF Known, Statuses
    <3> QED BY <2>1, <3>1, EmptiesAreTyped DEF DbStates
  <2>4. TypeInv'
    BY <1>0, <1>2, <1>a, <2>1, <2>3, EmptiesAreTyped DEF TypeInv, Tools
  <2>5. tool'.pc = "off" /\ tool'.texts = [s \in Sources |-> {}] /\ ToolIdle'
    BY <1>2 DEF ToolOff, Nothing, ToolIdle
  <2>6. Versions' /\ ManagerAgrees'
    BY <1>a, <2>2, <2>5, Bounds DEF Versions, ManagerAgrees
  <2>7. KnownWasThere'
    BY <1>2, <1>a, <2>5 DEF IInv, KnownWasThere, AllTexts
  <2>8. TargetMade' /\ TargetFilled' /\ Swapped' /\ CursorsVouch' /\ TargetComplete'
    BY <1>a, <2>2, OffSaysNothing, SettledIsNoOther DEF TargetComplete
  <2>9. NothingAbove'
    <3>1. \A s \in Sources, v \in 0..MaxVersion : v > db.ver + 1 => coll[s][v] = Absent
      BY DEF IInv, NothingAbove
    <3>2. \A s \in Sources, v \in 0..MaxVersion : v > db.ver + 1 + 1 => coll[s][v] = Absent
      BY <1>a, <3>1
    <3> QED BY <1>0, <2>2, <3>1, <3>2, SettledIsNoOther DEF NothingAbove
  <2>10. ToolBuilds'
    BY <2>5 DEF ToolBuilds
  <2>11. LiveIndexWhole'
    BY <1>0, <1>2, <1>a, <2>2 DEF IInv, ToolBuilds, LiveIndexWhole, Reached, Holds, Accepts, Exists
  <2> QED BY <2>4, <2>6, <2>7, <2>8, <2>9, <2>10, <2>11 DEF IInv
<1> QED BY <1>1, <1>2 DEF ToolState

LEMMA ToolKeeps ==
  ASSUME IInv, Tool
  PROVE  IInv'
<1>1. ToolKilled => IInv'
  BY ToolErrorKeeps DEF ToolKilled, qdrant
<1> QED BY <1>1, ToolStartKeeps, ToolDeleteKeeps, ToolCreateKeeps, ToolFillKeeps, ToolAliasKeeps,
     ToolStateKeeps DEF Tool

-------------------------------------------------------------------------------
\* The invariant holds throughout.
THEOREM Invariance == Spec => []IInv
<1>1. ASSUME IInv, [Next]_vars PROVE IInv'
  <2>1. CASE Index \/ (\E s \in Sources : SaveRow(s)) \/ Shutdown \/ UNCHANGED vars
    <3>1. TypeInv BY <1>1 DEF IInv
    <3>2. TypeInv' /\ Adds BY <2>1, <3>1, TypeIndex
    <3> QED BY <1>1, <3>2, AddingKeeps
  <2> QED BY <1>1, <2>1, ManagerKeeps, StopKeeps, ReconfigureKeeps, BootKeeps, OpenVectorsKeeps,
       ToolKeeps DEF Next
<1> QED BY <1>1, InitInv, PTL DEF Spec

\* Whatever is marked completing has everything there was when its backfill
\* began or was resumed, but for rows behind a batch's worth without text, for
\* any sources, texts and batches: no crash, failed call or row saved meanwhile
\* lets the old collections be deleted too early.
THEOREM NothingIsLeftBehind == Spec => []TargetComplete
<1>1. IInv => TargetComplete
  BY DEF IInv
<1> QED BY <1>1, Invariance, PTL

\* What is recorded as active is what the aliases lead to, whole and of the
\* recorded embedder, unless a run of the command broke off or a start could not
\* read what was recorded.
THEOREM WhatServesIsWhole == Spec => []LiveIndexWhole
<1>1. IInv => LiveIndexWhole
  BY DEF IInv
<1> QED BY <1>1, Invariance, PTL
===============================================================================
