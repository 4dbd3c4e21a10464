----------------------------- MODULE IngestProofs -----------------------------
(***************************************************************************)
(* Proofs about Ingest, for any sources and items, any daily limits, and   *)
(* any number of days, edits, failures and restarts.                       *)
(***************************************************************************)
EXTENDS Ingest, TLAPS

\* A note has at most as many versions as there were edits.
VersionsBounded ==
  \A i \in Items : version[i] <= IF i \in Notes THEN edits ELSE 1

\* The item being processed is one of the batch, and what is in the batch
\* exists; a text that was read is a version.
InBatch == {"read", "extract", "save"}
BatchExists ==
  /\ cycle.todo \subseteq ItemsOf[cycle.src]
  /\ \A i \in cycle.todo : version[i] >= 1
  /\ cycle.pc \in InBatch => cycle.item \in cycle.todo
  /\ cycle.pc \in {"extract", "save"} => cycle.read >= 1

\* The daily limits left room for the item being processed.
RoomForItem ==
  /\ cycle.pc = "read" => dailyLLMUsed[cycle.src] < MaxDailyLLM
  /\ cycle.pc \in {"read", "extract"} => dailyObsKept[cycle.src] < MaxDailyObs
  /\ cycle.pc = "save" =>
       \A k \in cycle.left : dailyObsKept[cycle.src] <= MaxDailyObs + k - 2

TypeInv == TypeOK /\ VersionsBounded /\ BatchExists /\ RoomForItem

-----------------------------------------------------------------------------
(* Values the actions build. *)

LEMMA Constants ==
  /\ MaxDailyLLM \in Nat /\ MaxDailyLLM >= 1 /\ MaxDailyObs \in Nat /\ MaxDailyObs >= 1
  /\ PerItem \in Nat /\ PerItem >= 1
  /\ MaxDay \in Nat /\ MaxDay >= 1 /\ MaxEdits \in Nat
  /\ MaxFaults \in Nat /\ MaxForgets \in Nat /\ MaxRestarts \in Nat
  /\ Notes \subseteq Items
  /\ \A s \in Sources : ItemsOf[s] \subseteq Items
  /\ Mail \subseteq Sources
BY IngestAssumption DEF Notes, Items

LEMMA OffTyped ==
  /\ Off \in Cycles
  /\ Off.todo = {} /\ Off.pc = "off"
<1>1. AnyItem \in Items
  BY IngestAssumption DEF AnyItem
<1>2. Order[1] \in Sources
  BY IngestAssumption DEF Sources
<1> QED BY <1>1, <1>2, Constants DEF Off, Cycles, Versions

LEMMA RestTyped ==
  ASSUME NEW q \in Seq(Sources), q # <<>>
  PROVE  Head(q) \in Sources /\ Tail(q) \in Seq(Sources)
OBVIOUS

LEMMA WithoutTyped ==
  ASSUME NEW i \in Items, cycle \in Cycles
  PROVE  /\ Without(i) \in Cycles
         /\ Without(i).todo = cycle.todo \ {i}
         /\ Without(i).src = cycle.src /\ Without(i).pc = "item"
         /\ Without(i).newCursor = cycle.newCursor /\ Without(i).found = cycle.found
BY OffTyped DEF Without, Cycles, Working, Off, Versions

-----------------------------------------------------------------------------
(* The type invariant is inductive: one lemma per action, in the parts of    *)
(* TypeOK that have a variable the action changes.                           *)

WorldType ==
  /\ day \in 1..MaxDay /\ edits \in 0..MaxEdits
  /\ version \in [Items -> Versions] /\ stamp \in [Items -> Nat]
CountersType ==
  /\ dailyLLMUsed \in [Sources -> 0..MaxDailyLLM]
  /\ dailyObsKept \in [Sources -> 0..(MaxDailyObs + PerItem - 1)]
  /\ lastResetDay \in 0..MaxDay
MemoryType == memory \cup found \cup gone \subseteq Observations
BudgetType ==
  /\ ctxDone \in BOOLEAN /\ faults \in 0..MaxFaults
  /\ forgets \in 0..MaxForgets /\ restarts \in 0..MaxRestarts
HistoryType ==
  /\ seen \in [Notes -> SUBSET Versions] /\ settled \subseteq Items
  /\ today \in [Sources -> [calls : Nat, kept : Nat]] /\ lives \in Nat

TypeParts ==
  /\ WorldType /\ state \in [Sources -> States] /\ rows \in [Items -> Rows]
  /\ MemoryType /\ CountersType /\ cycle \in Cycles /\ BudgetType /\ HistoryType

LEMMA Parts == (TypeOK <=> TypeParts) /\ (TypeOK <=> TypeParts)'
BY DEF TypeOK, TypeParts, WorldType, CountersType, MemoryType, BudgetType, HistoryType


\* Outside of an item nothing is asked of the text in hand and of the limits.
LEMMA Outside ==
  ASSUME TypeInv, cycle' \in Cycles, UNCHANGED world,
         cycle'.pc \notin InBatch, cycle'.todo \subseteq cycle.todo,
         cycle'.src = cycle.src \/ cycle'.todo = {}
  PROVE  WorldType' /\ VersionsBounded' /\ BatchExists' /\ RoomForItem'
<1>1. WorldType' /\ VersionsBounded'
  BY Parts DEF TypeInv, TypeParts, WorldType, VersionsBounded, world
<1>2. BatchExists'
  BY DEF TypeInv, BatchExists, InBatch, world
<1>3. RoomForItem'
  BY DEF RoomForItem, InBatch
<1> QED BY <1>1, <1>2, <1>3

\* So nothing is asked of them when the batch goes on without an item.
LEMMA WithoutKeeps ==
  ASSUME TypeInv, NEW i \in Items, cycle' = Without(i), UNCHANGED world
  PROVE  cycle' \in Cycles /\ WorldType' /\ VersionsBounded' /\ BatchExists' /\ RoomForItem'
<1>1. cycle \in Cycles
  BY Parts DEF TypeInv, TypeParts
<1>2. /\ cycle' \in Cycles /\ cycle'.pc = "item"
      /\ cycle'.todo \subseteq cycle.todo /\ cycle'.src = cycle.src
  BY <1>1, WithoutTyped
<1> QED BY <1>2, Outside DEF InBatch

LEMMA RecordTyped ==
  ASSUME TypeInv, NEW i \in Items, NEW result \in {"done", "failed"}, NEW fp \in Versions,
         Record(i, result, fp), UNCHANGED <<ctxDone, forgets, restarts, seen, today, lives>>
  PROVE  rows' \in [Items -> Rows] /\ BudgetType' /\ HistoryType'
<1>1. rows' \in [Items -> Rows]
  <2>1. [result |-> result, fp |-> fp, old |-> FALSE] \in Rows
    BY DEF Rows
  <2> QED BY <2>1, Parts DEF TypeInv, TypeParts, Record
<1>2. BudgetType'
  BY Parts, Constants DEF TypeInv, TypeParts, Record, BudgetType, Fault, NoFault
<1>3. HistoryType'
  BY Parts DEF TypeInv, TypeParts, Record, HistoryType, Settle
<1> QED BY <1>1, <1>2, <1>3

LEMMA FaultTyped ==
  ASSUME TypeInv, Fault \/ NoFault, UNCHANGED <<ctxDone, forgets, restarts>>
  PROVE  BudgetType'
BY Parts, Constants DEF TypeInv, TypeParts, BudgetType, Fault, NoFault

\* What TypeInv says of the cycle, one by one.
LEMMA CycleTyped ==
  ASSUME TypeInv
  PROVE  /\ cycle \in Cycles /\ cycle.src \in Sources /\ cycle.item \in Items
         /\ cycle.todo \subseteq Items /\ cycle.read \in Versions
         /\ cycle.rest \in Seq(Sources) /\ cycle.newCursor \in Nat
         /\ cycle.left \subseteq 1..PerItem
BY Parts DEF TypeInv, TypeParts, Cycles

LEMMA WorldTyped ==
  ASSUME TypeInv, MailArrives \/ NoteWritten \/ Midnight
  PROVE  TypeInv'
<1>1. cycle' = cycle /\ UNCHANGED <<state, memory, kept, counters, budgets>>
  BY DEF MailArrives, NoteWritten, Midnight, tables, history
<1>2. WorldType' /\ VersionsBounded' /\ (\A i \in Items : version'[i] >= version[i])
  <2>1. CASE MailArrives
    BY <2>1, Parts, Constants
    DEF MailArrives, TypeInv, TypeParts, WorldType, VersionsBounded, Versions
  <2>2. CASE NoteWritten
    BY <2>2, Parts, Constants
    DEF NoteWritten, TypeInv, TypeParts, WorldType, VersionsBounded, Versions
  <2>3. CASE Midnight
    BY <2>3, Parts, Constants DEF Midnight, TypeInv, TypeParts, WorldType, VersionsBounded, Versions
  <2> QED BY <2>1, <2>2, <2>3
<1>3. rows' \in [Items -> Rows]
  <2>1. CASE Midnight
    BY <2>1, Parts DEF Midnight, TypeInv, TypeParts, Rows
  <2> QED BY <2>1, Parts DEF MailArrives, NoteWritten, tables, TypeInv, TypeParts
<1>4. HistoryType'
  <2>1. CASE Midnight
    BY <2>1, Parts DEF Midnight, TypeInv, TypeParts, HistoryType
  <2> QED BY <2>1, Parts DEF MailArrives, NoteWritten, history, TypeInv, TypeParts, HistoryType
<1>5. TypeOK'
  BY <1>1, <1>2, <1>3, <1>4, Parts
  DEF TypeInv, TypeParts, kept, MemoryType, CountersType, BudgetType, counters, budgets
<1>6. BatchExists'
  <2>1. \A i \in cycle.todo : version'[i] >= 1
    BY <1>2, Parts, CycleTyped DEF TypeInv, BatchExists, TypeParts, WorldType, Versions
  <2> QED BY <1>1, <2>1 DEF TypeInv, BatchExists
<1>7. RoomForItem'
  BY <1>1 DEF TypeInv, RoomForItem, counters
<1> QED BY <1>2, <1>5, <1>6, <1>7 DEF TypeInv

LEMMA StartCycleTyped == TypeInv /\ StartCycle => TypeInv'
<1> SUFFICES ASSUME TypeInv, StartCycle PROVE TypeInv'
  OBVIOUS
<1>1. /\ cycle' \in Cycles /\ cycle'.pc = "next" /\ cycle'.todo = {}
  BY OffTyped, IngestAssumption DEF StartCycle, Off, Cycles
<1>2. WorldType' /\ VersionsBounded' /\ BatchExists' /\ RoomForItem'
  BY <1>1, Outside DEF StartCycle, InBatch
<1>3. CountersType'
  BY Parts, Constants DEF TypeInv, TypeParts, StartCycle, CountersType, Zero, counters, WorldType
<1>4. HistoryType'
  BY Parts DEF TypeInv, TypeParts, StartCycle, HistoryType
<1>5. TypeOK'
  BY <1>1, <1>2, <1>3, <1>4, Parts
  DEF TypeInv, TypeParts, StartCycle, tables, kept, MemoryType, BudgetType, budgets
<1> QED BY <1>2, <1>5 DEF TypeInv

\* Steps between sources.
LEMMA BetweenTyped ==
  ASSUME TypeInv, EndCycle \/ TakeSource \/ SkipSource \/ ResetIdle
  PROVE  TypeInv'
<1>1. CASE EndCycle
  <2>1. cycle' \in Cycles /\ cycle'.pc = "off" /\ cycle'.todo = {}
    BY <1>1, OffTyped DEF EndCycle
  <2>2. WorldType' /\ VersionsBounded' /\ BatchExists' /\ RoomForItem'
    BY <1>1, <2>1, Outside DEF EndCycle, InBatch
  <2>3. TypeOK'
    BY <1>1, <2>1, <2>2, Parts
    DEF EndCycle, TypeInv, TypeParts, tables, counters, budgets, history,
        kept, MemoryType, CountersType, BudgetType, HistoryType
  <2> QED BY <2>2, <2>3 DEF TypeInv
<1>2. CASE TakeSource
  <2>1. Head(cycle.rest) \in Sources /\ Tail(cycle.rest) \in Seq(Sources)
    BY <1>2, CycleTyped, RestTyped DEF TakeSource
  <2>2. cycle' \in Cycles /\ cycle'.pc = "discover" /\ cycle'.todo = {}
    BY <1>2, <2>1, OffTyped DEF TakeSource, Off, Cycles, Working
  <2>3. WorldType' /\ VersionsBounded' /\ BatchExists' /\ RoomForItem'
    BY <1>2, <2>2, Outside DEF TakeSource, InBatch
  <2>4. state' \in [Sources -> States]
    BY <1>2, <2>1, Parts DEF TakeSource, Status, States, TypeInv, TypeParts
  <2>5. TypeOK'
    BY <1>2, <2>2, <2>3, <2>4, Parts
    DEF TakeSource, TypeInv, TypeParts, counters, budgets, history,
        kept, MemoryType, CountersType, BudgetType, HistoryType
  <2> QED BY <2>3, <2>5 DEF TypeInv
<1>3. CASE SkipSource
  <2>1. Tail(cycle.rest) \in Seq(Sources)
    BY <1>3, CycleTyped, RestTyped DEF SkipSource
  <2>2. /\ cycle' \in Cycles /\ cycle'.pc = "next" /\ cycle'.todo = cycle.todo
        /\ cycle'.src = cycle.src
    BY <1>3, <2>1, CycleTyped DEF SkipSource, At, Cycles
  <2>3. WorldType' /\ VersionsBounded' /\ BatchExists' /\ RoomForItem'
    BY <1>3, <2>2, Outside DEF SkipSource, InBatch
  <2>4. BudgetType'
    BY <1>3, FaultTyped DEF SkipSource
  <2>5. TypeOK'
    BY <1>3, <2>2, <2>3, <2>4, Parts
    DEF SkipSource, TypeInv, TypeParts, tables, counters, history,
        kept, MemoryType, CountersType, HistoryType
  <2> QED BY <2>3, <2>5 DEF TypeInv
<1>4. CASE ResetIdle
  <2>1. cycle' \in Cycles /\ cycle'.pc = "next" /\ cycle'.todo = {}
    BY <1>4, CycleTyped, OffTyped DEF ResetIdle, Off, Cycles
  <2>2. WorldType' /\ VersionsBounded' /\ BatchExists' /\ RoomForItem'
    BY <1>4, <2>1, Outside DEF ResetIdle, InBatch
  <2>3. state' \in [Sources -> States]
    BY <1>4, CycleTyped, Parts, ZenonT(40) DEF ResetIdle, Status, States, TypeInv, TypeParts, Src
  <2>4. BudgetType'
    BY <1>4, FaultTyped DEF ResetIdle
  <2>5. TypeOK'
    BY <1>4, <2>1, <2>2, <2>3, <2>4, Parts
    DEF ResetIdle, TypeInv, TypeParts, counters, history,
        kept, MemoryType, CountersType, HistoryType
  <2> QED BY <2>2, <2>5 DEF TypeInv
<1> QED BY <1>1, <1>2, <1>3, <1>4


\* The world's time of day: what Discover may save as a cursor is a number.
LEMMA NewCursorTyped ==
  ASSUME TypeInv, NEW s \in Sources, NEW c \in NewCursors(s)
  PROVE  c \in Nat
<1>1. /\ edits \in Nat /\ day \in Nat /\ day >= 1 /\ stamp \in [Items -> Nat]
      /\ state[s].cursor \in Nat
  BY Parts, Constants DEF TypeInv, TypeParts, WorldType, States
<1>2. Cursor(s) \in Nat
  BY <1>1 DEF Cursor
<1>3. Newest(s) \subseteq Items
  BY Constants DEF Newest, Discovered
<1> QED BY <1>1, <1>2, <1>3 DEF NewCursors

LEMMA DiscoverTyped == TypeInv /\ (Discover \/ DiscoverFails) => TypeInv'
<1> SUFFICES ASSUME TypeInv, Discover \/ DiscoverFails PROVE TypeInv'
  OBVIOUS
<1>0. cycle.pc = "discover"
  BY DEF Discover, DiscoverFails, At
<1>1. cycle' \in Cycles /\ cycle'.pc \in {"item", "reset"} /\ cycle'.src = cycle.src
  <2>1. CASE Discover
    <3>1. PICK c \in NewCursors(Src) :
            cycle' = [cycle EXCEPT !.pc = "item", !.todo = Discovered(Src),
                                   !.found = Discovered(Src) # {}, !.newCursor = c]
      BY <2>1 DEF Discover
    <3>2. c \in Nat /\ Discovered(Src) \subseteq Items
      BY CycleTyped, NewCursorTyped, Constants DEF Src, Discovered
    <3>3. (Discovered(Src) # {}) \in BOOLEAN
      OBVIOUS
    <3> QED BY <3>1, <3>2, <3>3, CycleTyped DEF Cycles, Working
  <2>2. CASE DiscoverFails
    BY <2>2, CycleTyped DEF DiscoverFails, Cycles, Working
  <2> QED BY <2>1, <2>2
<1>2. cycle'.todo = cycle.todo \/ cycle'.todo = Discovered(Src)
  BY CycleTyped DEF Discover, DiscoverFails, Cycles
<1>3. UNCHANGED <<world, state, rows, memory, counters, budgets, history>>
  BY DEF Discover, DiscoverFails, tables
<1>4. WorldType' /\ VersionsBounded'
  BY <1>3, Parts DEF TypeInv, TypeParts, WorldType, VersionsBounded, world
<1>5. BatchExists'
  <2>1. CASE cycle'.todo = cycle.todo
    BY <2>1, <1>1, <1>3 DEF TypeInv, BatchExists, InBatch, world
  <2>2. CASE cycle'.todo = Discovered(Src)
    <3>1. \A i \in Discovered(Src) : i \in ItemsOf[cycle.src] /\ version[i] >= 1
      <4>1. \A i \in Items : version[i] \in Nat
        BY Parts, Constants DEF TypeInv, TypeParts, WorldType, Versions
      <4> QED BY <4>1, CycleTyped, Constants DEF Discovered, Src
    <3> QED BY <2>2, <3>1, <1>1, <1>3 DEF BatchExists, InBatch, world
  <2> QED BY <1>2, <2>1, <2>2
<1>6. RoomForItem'
  BY <1>1 DEF RoomForItem
<1>7. TypeOK'
  BY <1>1, <1>3, <1>4, Parts
  DEF TypeInv, TypeParts, counters, budgets, history,
      kept, MemoryType, CountersType, BudgetType, HistoryType
<1> QED BY <1>4, <1>5, <1>6, <1>7 DEF TypeInv

\* Steps after which the batch goes on without an item.
LEMMA ItemLeftTyped ==
  ASSUME TypeInv,
         SkipItem \/ Prefiltered \/ ReadFails \/ ExtractFails \/ RecordItemProcessed
  PROVE  TypeInv'
<1>1. /\ UNCHANGED <<world, state, memory, counters, ctxDone, forgets, restarts, seen, kept, today, lives>>
      /\ \E i \in Items : cycle' = Without(i)
  BY CycleTyped
  DEF SkipItem, Prefiltered, ReadFails, ExtractFails, RecordItemProcessed, tables, Item
<1>2. cycle' \in Cycles /\ WorldType' /\ VersionsBounded' /\ BatchExists' /\ RoomForItem'
  BY <1>1, WithoutKeeps
<1>3. rows' \in [Items -> Rows] /\ BudgetType' /\ HistoryType'
  <2>1. CASE SkipItem
    <3>1. UNCHANGED <<rows, seen, today, lives>> /\ settled' \subseteq Items
      BY <2>1, CycleTyped, Parts DEF SkipItem, tables, Settle, TypeInv, TypeParts, HistoryType
    <3>2. BudgetType'
      BY <2>1, FaultTyped DEF SkipItem
    <3> QED BY <3>1, <3>2, Parts DEF TypeInv, TypeParts, HistoryType
  <2>2. CASE ~SkipItem
    <3>1. 0 \in Versions /\ cycle.read \in Versions
      BY CycleTyped, Constants DEF Versions
    <3>2. \E i \in Items, result \in {"done", "failed"}, fp \in Versions : Record(i, result, fp)
      BY <2>2, <3>1, CycleTyped
      DEF Prefiltered, ReadFails, ExtractFails, RecordItemProcessed, Item, Fingerprint
    <3> QED BY <1>1, <3>2, RecordTyped
  <2> QED BY <2>1, <2>2
<1>4. TypeOK'
  BY <1>1, <1>2, <1>3, Parts
  DEF TypeInv, TypeParts, counters, kept, MemoryType, CountersType
<1> QED BY <1>2, <1>4 DEF TypeInv

LEMMA TakeItemTyped == TypeInv /\ TakeItem => TypeInv'
<1> SUFFICES ASSUME TypeInv, TakeItem PROVE TypeInv'
  OBVIOUS
<1>1. PICK i \in cycle.todo \ Unwanted :
        ~Capped(Src) /\ cycle' = [cycle EXCEPT !.pc = "read", !.item = i]
  BY DEF TakeItem
<1>2. /\ cycle' \in Cycles /\ cycle'.pc = "read" /\ cycle'.item = i
      /\ cycle'.todo = cycle.todo /\ cycle'.src = cycle.src
  BY <1>1, CycleTyped DEF Cycles, Working
<1>3. UNCHANGED <<world, state, rows, memory, counters, budgets, history>>
  BY DEF TakeItem, tables
<1>4. WorldType' /\ VersionsBounded' /\ TypeOK'
  BY <1>2, <1>3, Parts
  DEF TypeInv, TypeParts, WorldType, VersionsBounded, world, counters, budgets, history,
      kept, MemoryType, CountersType, BudgetType, HistoryType
<1>5. BatchExists'
  BY <1>2, <1>3 DEF TypeInv, BatchExists, InBatch, world
<1>6. RoomForItem'
  <2>1. dailyLLMUsed[cycle.src] \in Nat /\ dailyObsKept[cycle.src] \in Nat
    BY CycleTyped, Constants, Parts DEF TypeInv, TypeParts, CountersType
  <2> QED BY <2>1, <1>1, <1>2, <1>3, Constants DEF RoomForItem, Capped, Src, counters
<1> QED BY <1>4, <1>5, <1>6 DEF TypeInv

LEMMA BatchEndsTyped == TypeInv /\ (BatchEnds \/ Finish) => TypeInv'
<1> SUFFICES ASSUME TypeInv, BatchEnds \/ Finish PROVE TypeInv'
  OBVIOUS
<1>1. /\ cycle' \in Cycles /\ cycle'.pc \in {"finish", "reset"} /\ cycle'.src = cycle.src
      /\ cycle'.todo \subseteq cycle.todo
  BY CycleTyped DEF BatchEnds, Finish, Cycles, Working
<1>2. UNCHANGED <<world, rows, memory, counters, ctxDone, forgets, restarts, seen, kept, today, lives>>
  BY DEF BatchEnds, Finish, tables, budgets, history
<1>3. WorldType' /\ VersionsBounded' /\ BatchExists' /\ RoomForItem'
  BY <1>1, <1>2, Outside DEF InBatch
<1>4. state' \in [Sources -> States]
  <2>1. CASE BatchEnds
    BY <2>1, Parts DEF BatchEnds, tables, TypeInv, TypeParts
  <2>2. CASE Finish
    <3>1. Advanced(Src) \in States
      BY CycleTyped, Parts DEF Advanced, Src, States, TypeInv, TypeParts
    <3> QED BY <2>2, <3>1, CycleTyped, Parts DEF Finish, TypeInv, TypeParts
  <2> QED BY <2>1, <2>2
<1>5. BudgetType'
  <2>1. CASE BatchEnds
    BY <2>1, Parts DEF BatchEnds, budgets, BudgetType, TypeInv, TypeParts
  <2>2. CASE Finish
    BY <2>2, FaultTyped DEF Finish
  <2> QED BY <2>1, <2>2
<1>6. HistoryType'
  BY CycleTyped, Parts DEF BatchEnds, Finish, Settle, history, HistoryType, TypeInv, TypeParts
<1>7. TypeOK'
  BY <1>1, <1>2, <1>3, <1>4, <1>5, <1>6, Parts
  DEF TypeInv, TypeParts, counters, kept, MemoryType, CountersType
<1> QED BY <1>3, <1>7 DEF TypeInv

LEMMA ReadItemTyped == TypeInv /\ ReadItem => TypeInv'
<1> SUFFICES ASSUME TypeInv, ReadItem PROVE TypeInv'
  OBVIOUS
<1> USE DEF At, Src, Item
<1>0. cycle.pc = "read" /\ cycle \in Cycles /\ cycle.src \in Sources /\ cycle.item \in Items
  BY Parts DEF TypeInv, TypeParts, ReadItem, Cycles
<1>1. cycle' \in Cycles
  BY <1>0, Parts DEF TypeInv, TypeParts, ReadItem, Cycles, Working, WorldType
<1>2. CountersType'
  BY <1>0, Parts, Constants DEF TypeInv, TypeParts, ReadItem, CountersType, Counted, RoomForItem
<1>3. HistoryType'
  BY <1>0, Parts DEF TypeInv, TypeParts, ReadItem, HistoryType
<1>4. TypeOK'
  BY <1>1, <1>2, <1>3, Parts DEF TypeInv, TypeParts, ReadItem, world, tables, budgets, kept, WorldType, MemoryType, BudgetType
<1>5. VersionsBounded'
  BY DEF TypeInv, ReadItem, VersionsBounded, world
<1>6. /\ cycle'.pc = "extract" /\ cycle'.todo = cycle.todo /\ cycle'.src = cycle.src
      /\ cycle'.item = cycle.item /\ cycle'.read = version[cycle.item]
  BY <1>0 DEF ReadItem, Cycles
<1>7. BatchExists'
  BY <1>0, <1>6 DEF TypeInv, ReadItem, BatchExists, InBatch, world
<1>8. RoomForItem'
  BY <1>0, <1>6 DEF TypeInv, ReadItem, RoomForItem
<1> QED BY <1>4, <1>5, <1>7, <1>8 DEF TypeInv


\* A text in hand has a version.
LEMMA ReadTyped ==
  ASSUME TypeInv, cycle.pc \in {"extract", "save"}
  PROVE  cycle.read \in 1..(MaxEdits + 1)
BY CycleTyped, Constants DEF TypeInv, BatchExists, Versions

LEMMA ExtractTyped == TypeInv /\ Extract => TypeInv'
<1> SUFFICES ASSUME TypeInv, Extract PROVE TypeInv'
  OBVIOUS
<1>1. PICK n \in 0..PerItem : cycle' = [cycle EXCEPT !.pc = "save", !.left = 1..n] /\ Finds(n)
  BY DEF Extract
<1>2. /\ cycle' \in Cycles /\ cycle'.pc = "save" /\ cycle'.left \subseteq 1..PerItem
      /\ cycle'.todo = cycle.todo /\ cycle'.src = cycle.src
      /\ cycle'.item = cycle.item /\ cycle'.read = cycle.read
  <2>1. 1..n \subseteq 1..PerItem
    BY Constants
  <2> QED BY <1>1, <2>1, CycleTyped DEF Cycles, Working
<1>3. /\ UNCHANGED <<world, tables, counters, budgets, gone, settled, today, lives>>
      /\ cycle.pc = "extract"
  BY DEF Extract, At
<1>4. HistoryType'
  BY <1>3, CycleTyped, Parts DEF Extract, Item, HistoryType, TypeInv, TypeParts
<1>5. MemoryType'
  <2>1. cycle.item \in Items /\ cycle.read \in 1..(MaxEdits + 1)
    BY <1>3, CycleTyped, ReadTyped
  <2>2. \A k \in 1..n : Of(k) \in Observations
    BY <2>1, Constants DEF Of, Observations, Item
  <2> QED BY <1>1, <1>3, <2>2, Parts DEF Finds, MemoryType, TypeInv, TypeParts, tables
<1>a. WorldType' /\ VersionsBounded' /\ TypeOK'
  BY <1>2, <1>3, <1>4, <1>5, Parts
  DEF TypeInv, TypeParts, WorldType, VersionsBounded, world, tables, counters, budgets,
      CountersType, BudgetType
<1>6. BatchExists'
  BY <1>2, <1>3 DEF TypeInv, BatchExists, InBatch, world
<1>7. RoomForItem'
  <2>1. dailyObsKept[cycle.src] \in Nat /\ dailyObsKept[cycle.src] <= MaxDailyObs - 1
    BY <1>3, CycleTyped, Constants, Parts DEF TypeInv, TypeParts, CountersType, RoomForItem
  <2>2. \A k \in cycle'.left : k \in Nat /\ k >= 1
    BY <1>2
  <2> QED BY <1>2, <1>3, <2>1, <2>2, Constants DEF RoomForItem, counters
<1> QED BY <1>6, <1>7, <1>a DEF TypeInv

\* The next observation to save, the cycle after it, and the room that is left.
LEMMA SavingTyped ==
  ASSUME TypeInv, NEW k \in cycle.left, Saving(k)
  PROVE  /\ cycle' \in Cycles /\ cycle.pc = "save" /\ cycle'.pc = "save"
         /\ cycle'.left = cycle.left \ {k} /\ cycle'.todo = cycle.todo
         /\ cycle'.src = cycle.src /\ cycle'.item = cycle.item /\ cycle'.read = cycle.read
         /\ k \in 1..PerItem /\ \A j \in cycle'.left : j \in 1..PerItem /\ k + 1 <= j
         /\ dailyObsKept[cycle.src] \in Nat /\ dailyObsKept[cycle.src] <= MaxDailyObs + k - 2
         /\ cycle.read \in 1..(MaxEdits + 1)
<1>1. /\ cycle.pc = "save" /\ cycle' = [cycle EXCEPT !.left = @ \ {k}]
      /\ \A j \in cycle.left : k <= j
  BY DEF Saving, At
<1>2. /\ cycle' \in Cycles /\ cycle'.pc = "save"
      /\ cycle'.left = cycle.left \ {k} /\ cycle'.todo = cycle.todo
      /\ cycle'.src = cycle.src /\ cycle'.item = cycle.item /\ cycle'.read = cycle.read
  BY <1>1, CycleTyped DEF Cycles, Working
<1>3. k \in 1..PerItem /\ \A j \in cycle'.left : j \in 1..PerItem /\ k + 1 <= j
  BY <1>1, <1>2, CycleTyped, Constants
<1>4. dailyObsKept[cycle.src] \in Nat /\ dailyObsKept[cycle.src] <= MaxDailyObs + k - 2
  BY <1>1, CycleTyped, Constants, Parts, SMTT(30) DEF TypeInv, TypeParts, CountersType, RoomForItem
<1>5. cycle.read \in 1..(MaxEdits + 1)
  BY <1>1, ReadTyped
<1> QED BY <1>1, <1>2, <1>3, <1>4, <1>5

LEMMA SaveTyped == TypeInv /\ (SaveSkipped \/ SaveObservation) => TypeInv'
<1> SUFFICES ASSUME TypeInv, SaveSkipped \/ SaveObservation PROVE TypeInv'
  OBVIOUS
<1>1. PICK k \in cycle.left :
        /\ Saving(k)
        /\ memory' \subseteq memory \cup {Of(k)} /\ gone' \subseteq gone \cup {Of(k)}
        /\ \/ (Fault \/ NoFault) /\ UNCHANGED <<dailyObsKept, today>>
           \/ /\ UNCHANGED budgets
              /\ dailyObsKept' = [dailyObsKept EXCEPT ![cycle.src] = @ + 1]
              /\ today' = [today EXCEPT ![cycle.src].kept = @ + 1]
  BY DEF SaveSkipped, SaveObservation, tables, counters, history, Counted, Src
<1>2. UNCHANGED <<world, state, rows, dailyLLMUsed, lastResetDay, ctxDone, forgets, restarts,
                  seen, found, settled, lives>>
  BY DEF SaveSkipped, SaveObservation, tables, counters, history, budgets
<1>a. /\ cycle' \in Cycles /\ cycle.pc = "save" /\ cycle'.pc = "save"
      /\ cycle'.todo = cycle.todo /\ cycle'.src = cycle.src
      /\ cycle'.item = cycle.item /\ cycle'.read = cycle.read
      /\ cycle'.left = cycle.left \ {k}
  BY <1>1, SavingTyped
<1>b. /\ k \in 1..PerItem /\ \A j \in cycle'.left : j \in 1..PerItem /\ k + 1 <= j
      /\ dailyObsKept[cycle.src] \in Nat /\ dailyObsKept[cycle.src] <= MaxDailyObs + k - 2
      /\ cycle.read \in 1..(MaxEdits + 1)
  BY <1>1, SavingTyped
<1>c. /\ dailyObsKept \in [Sources -> 0..(MaxDailyObs + PerItem - 1)]
      /\ today \in [Sources -> [calls : Nat, kept : Nat]]
  BY Parts DEF TypeInv, TypeParts, CountersType, HistoryType
<1>3. /\ dailyObsKept' \in [Sources -> 0..(MaxDailyObs + PerItem - 1)]
      /\ dailyObsKept'[cycle.src] \in Nat
      /\ dailyObsKept'[cycle.src] <= dailyObsKept[cycle.src] + 1
  <2>1. dailyObsKept[cycle.src] + 1 \in 0..(MaxDailyObs + PerItem - 1)
    BY <1>b, Constants
  <2>2. CASE UNCHANGED dailyObsKept
    BY <2>2, <1>b, <1>c
  <2>3. CASE dailyObsKept' = [dailyObsKept EXCEPT ![cycle.src] = @ + 1]
    BY <2>1, <2>3, <1>b, <1>c, CycleTyped
  <2> QED BY <1>1, <2>2, <2>3
<1>4. MemoryType'
  <2>1. Of(k) \in Observations
    BY <1>b, CycleTyped DEF Of, Observations, Item
  <2> QED BY <1>1, <1>2, <2>1, Parts DEF MemoryType, TypeInv, TypeParts
<1>5. BudgetType'
  BY <1>1, <1>2, FaultTyped DEF budgets, NoFault
<1>6. HistoryType'
  <2>1. today' \in [Sources -> [calls : Nat, kept : Nat]]
    <3>1. CASE UNCHANGED today
      BY <3>1, <1>c
    <3>2. CASE today' = [today EXCEPT ![cycle.src].kept = @ + 1]
      <4>1. cycle.src \in Sources /\ today[cycle.src] \in [calls : Nat, kept : Nat]
        BY <1>c, CycleTyped
      <4>2. [today[cycle.src] EXCEPT !.kept = @ + 1] \in [calls : Nat, kept : Nat]
        BY <4>1
      <4>3. today' = [today EXCEPT ![cycle.src] = [today[cycle.src] EXCEPT !.kept = @ + 1]]
        BY <3>2
      <4> QED BY <4>1, <4>2, <4>3, <1>c
    <3> QED BY <1>1, <3>1, <3>2
  <2> QED BY <1>2, <2>1, Parts DEF HistoryType, TypeInv, TypeParts
<1>7. WorldType' /\ VersionsBounded' /\ BatchExists'
  BY <1>2, <1>a, Parts
  DEF TypeInv, TypeParts, WorldType, VersionsBounded, BatchExists, InBatch, world
<1>8. RoomForItem'
  <2>1. ASSUME NEW j \in cycle'.left PROVE dailyObsKept'[cycle.src] <= MaxDailyObs + j - 2
    BY <1>3, <1>b, <2>1, Constants
  <2> QED BY <1>a, <2>1 DEF RoomForItem
<1>9. TypeOK'
  BY <1>2, <1>3, <1>4, <1>5, <1>6, <1>7, <1>a, Parts DEF TypeInv, TypeParts, CountersType
<1> QED BY <1>7, <1>8, <1>9 DEF TypeInv

\* Steps of the process, of the cleanup and of the user.
LEMMA ProcessTyped ==
  ASSUME TypeInv, CleanupOldProcessedItems \/ ForgetObservation \/ Shutdown \/ Restart
  PROVE  TypeInv'
<1>1. /\ UNCHANGED <<world, seen, found, settled, today, lives>>
      /\ memory' \cup gone' \subseteq memory \cup gone
  BY DEF CleanupOldProcessedItems, ForgetObservation, Shutdown, Restart, tables, history, kept
<1>2. rows' \in [Items -> Rows]
  <2>1. NoRow \in Rows
    BY Constants DEF NoRow, Rows, Versions
  <2> QED BY <2>1, Parts
          DEF CleanupOldProcessedItems, ForgetObservation, Shutdown, Restart, tables, TypeInv, TypeParts
<1>3. state' \in [Sources -> States]
  <2>1. Recovered \in [Sources -> States]
    BY Parts DEF Recovered, States, TypeInv, TypeParts
  <2>2. \A s \in Sources : [Recovered EXCEPT ![s] = state[s]] \in [Sources -> States]
    BY <2>1, Parts DEF TypeInv, TypeParts
  <2> QED BY <2>1, <2>2, Parts
          DEF CleanupOldProcessedItems, ForgetObservation, Shutdown, Restart, tables, TypeInv, TypeParts
<1>4. \/ UNCHANGED <<cycle, dailyLLMUsed, dailyObsKept, lastResetDay>>
      \/ cycle' = Off /\ lastResetDay' = 0 /\ dailyLLMUsed' = Zero /\ dailyObsKept' = Zero
  BY DEF CleanupOldProcessedItems, ForgetObservation, Shutdown, Restart, counters
<1>5. cycle' \in Cycles /\ CountersType'
  <2>1. CASE UNCHANGED <<cycle, dailyLLMUsed, dailyObsKept, lastResetDay>>
    BY <2>1, CycleTyped, Parts DEF counters, CountersType, TypeInv, TypeParts
  <2>2. CASE cycle' = Off /\ lastResetDay' = 0 /\ dailyLLMUsed' = Zero /\ dailyObsKept' = Zero
    <3>1. 0 \in 0..MaxDay /\ 0 \in 0..MaxDailyLLM /\ 0 \in 0..(MaxDailyObs + PerItem - 1)
      BY Constants
    <3> QED BY <2>2, <3>1, OffTyped DEF Zero, CountersType
  <2> QED BY <1>4, <2>1, <2>2
<1>6. BudgetType'
  <2>1. /\ ctxDone \in BOOLEAN /\ faults \in 0..MaxFaults
        /\ forgets \in 0..MaxForgets /\ restarts \in 0..MaxRestarts
    BY Parts DEF BudgetType, TypeInv, TypeParts
  <2>2. ctxDone' \in BOOLEAN
    BY <2>1 DEF CleanupOldProcessedItems, ForgetObservation, Shutdown, Restart, budgets
  <2>3. faults' \in 0..MaxFaults
    BY <2>1, Constants DEF CleanupOldProcessedItems, ForgetObservation, Shutdown, Restart, budgets, Fault, NoFault
  <2>4. restarts' \in 0..MaxRestarts
    BY <2>1, Constants DEF CleanupOldProcessedItems, ForgetObservation, Shutdown, Restart, budgets
  <2>5. forgets' \in 0..MaxForgets
    BY <2>1, Constants DEF CleanupOldProcessedItems, ForgetObservation, Shutdown, Restart, budgets
  <2> QED BY <2>2, <2>3, <2>4, <2>5 DEF BudgetType
<1>7. TypeOK' /\ VersionsBounded'
  BY <1>1, <1>2, <1>3, <1>5, <1>6, Parts
  DEF TypeInv, TypeParts, world, WorldType, MemoryType, HistoryType, VersionsBounded
<1>8. BatchExists' /\ RoomForItem'
  <2>1. CASE UNCHANGED <<cycle, dailyLLMUsed, dailyObsKept, lastResetDay>>
    BY <2>1, <1>1 DEF TypeInv, BatchExists, RoomForItem, world, counters
  <2>2. CASE cycle' = Off
    BY <2>2, OffTyped DEF BatchExists, RoomForItem, InBatch
  <2> QED BY <1>4, <2>1, <2>2
<1> QED BY <1>7, <1>8 DEF TypeInv

LEMMA InitTyped == Init => TypeInv
<1> SUFFICES ASSUME Init PROVE TypeInv
  OBVIOUS
<1>1. WorldType /\ VersionsBounded
  <2>1. 1 \in 1..MaxDay /\ 0 \in 0..MaxEdits /\ {0, 1} \subseteq Versions /\ {0, 1} \subseteq Nat
    BY Constants DEF Versions
  <2>2. version \in [Items -> {0, 1}] /\ stamp = [i \in Items |-> version[i]]
    BY DEF Init
  <2>3. version \in [Items -> Versions] /\ stamp \in [Items -> Nat]
    BY <2>1, <2>2
  <2>4. \A i \in Items : version[i] <= IF i \in Notes THEN edits ELSE 1
    BY <2>2 DEF Init
  <2> QED BY <2>1, <2>3, <2>4 DEF Init, WorldType, VersionsBounded
<1>2. state \in [Sources -> States]
  BY DEF Init, States
<1>a. rows \in [Items -> Rows]
  <2>1. NoRow \in Rows
    BY Constants DEF NoRow, Rows, Versions
  <2> QED BY <2>1 DEF Init
<1>b. MemoryType
  BY Constants DEF Init, MemoryType
<1>3. CountersType /\ BudgetType
  <2>1. /\ 0 \in 0..MaxDay /\ 0 \in 0..MaxDailyLLM /\ 0 \in 0..(MaxDailyObs + PerItem - 1)
        /\ 0 \in 0..MaxFaults /\ 0 \in 0..MaxForgets /\ 0 \in 0..MaxRestarts
    BY Constants
  <2> QED BY <2>1 DEF Init, Zero, CountersType, BudgetType
<1>c. HistoryType
  BY DEF Init, HistoryType
<1>4. cycle \in Cycles /\ BatchExists /\ RoomForItem
  BY OffTyped DEF Init, BatchExists, RoomForItem, InBatch
<1> QED BY <1>1, <1>2, <1>a, <1>b, <1>c, <1>3, <1>4, Parts DEF TypeInv, TypeParts

LEMMA StepTyped == TypeInv /\ [Next]_vars => TypeInv'
<1> SUFFICES ASSUME TypeInv, [Next]_vars PROVE TypeInv'
  OBVIOUS
<1>1. CASE UNCHANGED vars
  BY <1>1, Parts
  DEF vars, world, tables, counters, budgets, history, TypeInv, TypeParts, WorldType,
      kept, MemoryType, CountersType, BudgetType, HistoryType, VersionsBounded, BatchExists,
      RoomForItem
<1>2. CASE Next
  BY <1>2, WorldTyped, StartCycleTyped, BetweenTyped, DiscoverTyped, ItemLeftTyped,
     TakeItemTyped, BatchEndsTyped, ReadItemTyped, ExtractTyped, SaveTyped, ProcessTyped
  DEF Next, CycleStep, ItemStep
<1> QED BY <1>1, <1>2

-----------------------------------------------------------------------------
(* What the properties need besides the types. *)

\* A version is recorded as extracted only after an extraction saw it.
SeenBeforeSaved ==
  cycle.pc = "save" /\ cycle.item \in Notes => cycle.read \in seen[cycle.item]

\* No date is in the future, and no cursor.
DatesArePast ==
  /\ \A i \in Items \ Notes : stamp[i] <= day
  /\ \A s \in Mail : state[s].cursor <= day
  /\ cycle.src \in Mail => cycle.newCursor <= day

HandledIsSettled == \A i \in Items : rows[i].result # "none" => i \in settled

\* What is older than the cursor a batch will set is settled or still in the
\* batch, of which nothing is left when the cursor is set.
InItems == {"item", "read", "extract", "save", "finish"}
BatchCovers ==
  cycle.pc \in InItems /\ cycle.src \in Mail /\ state[cycle.src].mode = "backfill" =>
    \A i \in ItemsOf[cycle.src] :
      version[i] > 0 /\ stamp[i] < cycle.newCursor => i \in settled \cup cycle.todo
BatchIsEmptied == cycle.pc = "finish" => cycle.todo = {}

\* The counters account for what the lives before this one have not used.
InUse == cycle.pc # "off" \/ lastResetDay = day
CountersAccount ==
  /\ lastResetDay <= day
  /\ InUse =>
       /\ lives >= 1
       /\ \A s \in Sources :
            /\ today[s].calls <= MaxDailyLLM * (lives - 1) + dailyLLMUsed[s]
            /\ today[s].kept <= (MaxDailyObs + PerItem - 1) * (lives - 1) + dailyObsKept[s]

-----------------------------------------------------------------------------
(* How the steps of a cycle change it. *)

LEMMA FaultsGrow ==
  ASSUME TypeInv, [Next]_vars
  PROVE  faults \in Nat /\ (faults' = faults \/ faults' = faults + 1)
<1>1. faults \in Nat
  BY Parts, Constants DEF TypeInv, TypeParts, BudgetType
<1>2. CASE MailArrives \/ NoteWritten \/ Midnight
  BY <1>1, <1>2 DEF MailArrives, NoteWritten, Midnight, budgets
<1>3. CASE StartCycle \/ EndCycle \/ TakeSource \/ SkipSource \/ Discover \/ DiscoverFails
  BY <1>1, <1>3 DEF StartCycle, EndCycle, TakeSource, SkipSource, Discover, DiscoverFails, budgets, Fault, NoFault
<1>4. CASE SkipItem \/ Prefiltered \/ TakeItem \/ BatchEnds \/ ReadItem \/ ReadFails
  BY <1>1, <1>4 DEF SkipItem, Prefiltered, TakeItem, BatchEnds, ReadItem, ReadFails, Record, budgets, Fault, NoFault
<1>5. CASE Extract \/ ExtractFails \/ SaveSkipped \/ SaveObservation \/ RecordItemProcessed
  BY <1>1, <1>5 DEF Extract, ExtractFails, SaveSkipped, SaveObservation, RecordItemProcessed, Record, budgets, Fault, NoFault
<1>6. CASE Finish \/ ResetIdle \/ CleanupOldProcessedItems \/ ForgetObservation \/ Shutdown \/ Restart
          \/ UNCHANGED vars
  BY <1>1, <1>6 DEF Finish, ResetIdle, CleanupOldProcessedItems, ForgetObservation, Shutdown, Restart, vars,
         budgets, Fault, NoFault
<1> QED BY <1>1, <1>2, <1>3, <1>4, <1>5, <1>6 DEF Next, CycleStep, ItemStep

\* A step at an item leaves the source and the new cursor alone; what leaves
\* the batch is settled.
LEMMA ItemShape ==
  ASSUME TypeInv, HandledIsSettled, ItemStep
  PROVE  /\ cycle.pc \in {"item", "read", "extract", "save"}
         /\ cycle'.pc \in InItems
         /\ cycle'.src = cycle.src /\ cycle'.newCursor = cycle.newCursor
         /\ settled \subseteq settled'
         /\ cycle.todo \subseteq cycle'.todo \cup settled'
         /\ cycle'.pc = "finish" => cycle'.todo = {}
<1>1. CASE SkipItem
  <2>1. PICK i \in cycle.todo : (Handled(i) \/ i \in settled') /\ cycle' = Without(i)
    BY <1>1 DEF SkipItem, Settle
  <2>2. i \in settled' /\ settled \subseteq settled'
    BY <1>1, <2>1, CycleTyped DEF SkipItem, Settle, Handled, HandledIsSettled
  <2>3. /\ cycle'.pc = "item" /\ cycle'.src = cycle.src /\ cycle'.newCursor = cycle.newCursor
        /\ cycle'.todo = cycle.todo \ {i}
    BY <2>1, CycleTyped, WithoutTyped
  <2> QED BY <1>1, <2>2, <2>3 DEF SkipItem, At, InItems
<1>2. CASE Prefiltered \/ ReadFails \/ ExtractFails \/ RecordItemProcessed
  <2>1. PICK i \in Items : i \in settled' /\ settled \subseteq settled' /\ cycle' = Without(i)
    BY <1>2, CycleTyped
    DEF Prefiltered, ReadFails, ExtractFails, RecordItemProcessed, Record, Settle, Item
  <2>2. /\ cycle'.pc = "item" /\ cycle'.src = cycle.src /\ cycle'.newCursor = cycle.newCursor
        /\ cycle'.todo = cycle.todo \ {i}
    BY <2>1, CycleTyped, WithoutTyped
  <2> QED BY <1>2, <2>1, <2>2
          DEF Prefiltered, ReadFails, ExtractFails, RecordItemProcessed, At, InItems
<1>3. CASE BatchEnds
  BY <1>3, CycleTyped DEF BatchEnds, Settle, At, InItems, Cycles
<1>4. CASE TakeItem \/ ReadItem \/ Extract
  <2>1. settled' = settled /\ cycle.pc \in {"item", "read", "extract"}
    BY <1>4 DEF TakeItem, ReadItem, Extract, At, history
  <2>2. /\ cycle'.pc \in {"read", "extract", "save"} /\ cycle'.todo = cycle.todo
        /\ cycle'.src = cycle.src /\ cycle'.newCursor = cycle.newCursor
    BY <1>4, CycleTyped DEF TakeItem, ReadItem, Extract, Cycles
  <2> QED BY <2>1, <2>2 DEF InItems
<1>5. CASE SaveSkipped \/ SaveObservation
  <2>1. PICK k \in cycle.left : At("save") /\ cycle' = [cycle EXCEPT !.left = @ \ {k}]
    BY <1>5 DEF SaveSkipped, SaveObservation, Saving
  <2>2. settled' = settled
    BY <1>5 DEF SaveSkipped, SaveObservation, history
  <2>3. /\ cycle'.pc = cycle.pc /\ cycle'.todo = cycle.todo
        /\ cycle'.src = cycle.src /\ cycle'.newCursor = cycle.newCursor
    BY <2>1, CycleTyped DEF Cycles
  <2> QED BY <2>1, <2>2, <2>3 DEF At, InItems
<1> QED BY <1>1, <1>2, <1>3, <1>4, <1>5 DEF ItemStep

LEMMA DiscoverShape ==
  ASSUME TypeInv, Discover \/ DiscoverFails
  PROVE  /\ cycle.pc = "discover" /\ cycle'.pc \in {"item", "reset"} /\ cycle'.src = cycle.src
         /\ settled' = settled
         /\ cycle'.pc = "item" => cycle'.todo = Discovered(cycle.src)
         /\ \/ cycle'.newCursor = cycle.newCursor
            \/ cycle'.newCursor \in NewCursors(cycle.src)
         /\ cycle'.pc = "item" => cycle'.newCursor \in NewCursors(cycle.src)
BY CycleTyped DEF Discover, DiscoverFails, At, Src, history, Cycles

\* Steps that leave cycle and state alone.
Elsewhere ==
  MailArrives \/ NoteWritten \/ Midnight \/ CleanupOldProcessedItems \/ ForgetObservation
  \/ Shutdown \/ UNCHANGED vars

LEMMA ElsewhereShape == Elsewhere => UNCHANGED <<cycle, state>>
BY DEF Elsewhere, MailArrives, NoteWritten, Midnight, CleanupOldProcessedItems,
      ForgetObservation, Shutdown, vars, tables

LEMMA StepCases ==
  [Next]_vars <=> \/ Elsewhere \/ StartCycle \/ EndCycle \/ TakeSource \/ SkipSource
                  \/ Discover \/ DiscoverFails \/ ItemStep \/ Finish \/ ResetIdle \/ Restart
BY DEF Next, CycleStep, Elsewhere

LEMMA ItemStepState == ItemStep => state' = state
BY DEF ItemStep, SkipItem, Prefiltered, TakeItem, BatchEnds, ReadItem, ReadFails, Extract,
       ExtractFails, SaveSkipped, SaveObservation, RecordItemProcessed, tables

-----------------------------------------------------------------------------
(* RunningMeansWorking. *)

LEMMA RunningStep ==
  ASSUME TypeInv, HandledIsSettled, RunningMeansWorking, [Next]_vars
  PROVE  RunningMeansWorking'
<1> SUFFICES ASSUME faults' = 0, NEW s \in Sources, state'[s].status = "running"
             PROVE  cycle'.pc \in Working /\ cycle'.src = s
  BY DEF RunningMeansWorking
<1>1. faults = 0 /\ faults' = faults
  BY FaultsGrow
<1>2. \A t \in Sources : state[t].status = "running" => cycle.pc \in Working /\ cycle.src = t
  BY <1>1 DEF RunningMeansWorking
<1>3. state \in [Sources -> States] /\ ~Fault
  BY <1>1, Parts DEF Fault, TypeInv, TypeParts
<1>4. CASE Elsewhere
  BY <1>2, <1>4, ElsewhereShape
<1>5. CASE StartCycle \/ EndCycle \/ SkipSource
  <2>1. state' = state /\ cycle.pc \in {"off", "next"}
    BY <1>5 DEF StartCycle, EndCycle, SkipSource, At, tables
  <2> QED BY <1>2, <2>1 DEF Working
<1>6. CASE TakeSource
  <2>1. cycle.pc = "next" /\ Head(cycle.rest) \in Sources
    BY <1>6, CycleTyped, RestTyped DEF TakeSource, At
  <2>2. s = Head(cycle.rest)
    BY <1>2, <1>3, <1>6, <2>1 DEF TakeSource, Status, Working
  <2> QED BY <1>6, <2>2 DEF TakeSource, Off, Working
<1>7. CASE Discover \/ DiscoverFails
  <2>1. state' = state
    BY <1>7 DEF Discover, DiscoverFails, tables
  <2> QED BY <1>2, <1>7, <2>1, DiscoverShape DEF Working
<1>8. CASE ItemStep
  BY <1>2, <1>8, ItemShape, ItemStepState DEF Working, InItems
<1>9. CASE Finish
  <2>1. state'[s].status = state[s].status
    <3>1. Advanced(cycle.src).status = state[cycle.src].status
      BY <1>3, CycleTyped DEF Advanced, States
    <3>2. state' = state \/ state' = [state EXCEPT ![cycle.src] = Advanced(cycle.src)]
      BY <1>9 DEF Finish, Src
    <3> QED BY <1>3, <3>1, <3>2
  <2>2. cycle'.pc = "reset" /\ cycle'.src = cycle.src
    BY <1>9, CycleTyped DEF Finish, Cycles
  <2> QED BY <1>2, <2>1, <2>2 DEF Working
<1>10. CASE ResetIdle
  <2>1. state' = [state EXCEPT ![cycle.src].status = "idle"]
    BY <1>3, <1>10 DEF ResetIdle, Status, Src
  <2>2. s # cycle.src /\ state[s].status = "running"
    BY <1>3, <2>1, CycleTyped DEF States
  <2> QED BY <1>2, <2>2
<1>11. CASE Restart
  BY <1>3, <1>11 DEF Restart, Recovered, States
<1> QED BY <1>4, <1>5, <1>6, <1>7, <1>8, <1>9, <1>10, <1>11, StepCases

-----------------------------------------------------------------------------
(* RowsClaimWhatWasSeen. *)

LEMMA SeenGrows ==
  ASSUME TypeInv, [Next]_vars
  PROVE  \A i \in Notes : seen[i] \subseteq seen'[i]
<1>1. CASE Extract
  BY <1>1, Parts DEF Extract, TypeInv, TypeParts, HistoryType
<1>2. CASE ~Extract
  <2>1. seen' = seen
    <3>1. CASE Elsewhere
      BY <3>1 DEF Elsewhere, MailArrives, NoteWritten, Midnight, CleanupOldProcessedItems,
      ForgetObservation, Shutdown, vars, history
    <3>2. CASE StartCycle \/ EndCycle \/ TakeSource \/ SkipSource \/ Discover \/ DiscoverFails
      BY <3>2 DEF StartCycle, EndCycle, TakeSource, SkipSource, Discover, DiscoverFails, history
    <3>3. CASE ItemStep
      BY <1>2, <3>3
      DEF ItemStep, SkipItem, Prefiltered, TakeItem, BatchEnds, ReadItem, ReadFails,
          ExtractFails, SaveSkipped, SaveObservation, RecordItemProcessed, history
    <3>4. CASE Finish \/ ResetIdle \/ Restart
      BY <3>4 DEF Finish, ResetIdle, Restart, history
    <3> QED BY <3>1, <3>2, <3>3, <3>4, StepCases
  <2> QED BY <2>1
<1> QED BY <1>1, <1>2

\* Only a processed item is recorded as done, with the version that was read.
LEMMA RowShape ==
  ASSUME TypeInv, [Next]_vars, NEW i \in Items, rows'[i].result = "done", rows'[i].fp # 0
  PROVE  \/ rows[i].result = "done" /\ rows[i].fp = rows'[i].fp
         \/ /\ cycle.pc = "save" /\ i = cycle.item
            /\ i \in Notes /\ rows'[i].fp = cycle.read
<1>1. rows \in [Items -> Rows]
  BY Parts DEF TypeInv, TypeParts
<1>2. CASE Elsewhere
  BY <1>1, <1>2
  DEF Elsewhere, MailArrives, NoteWritten, Midnight, CleanupOldProcessedItems,
      ForgetObservation, Shutdown, vars, tables, NoRow, Rows
<1>3. CASE StartCycle \/ EndCycle \/ TakeSource \/ SkipSource \/ Discover \/ DiscoverFails
  BY <1>3 DEF StartCycle, EndCycle, TakeSource, SkipSource, Discover, DiscoverFails, tables
<1>4. CASE Prefiltered
  <2>1. PICK j \in cycle.todo : Record(j, "done", 0)
    BY <1>4 DEF Prefiltered
  <2> QED BY <1>1, <2>1, CycleTyped DEF Record
<1>5. CASE ReadFails
  BY <1>1, <1>5, CycleTyped DEF ReadFails, Record
<1>6. CASE ExtractFails
  BY <1>1, <1>6, CycleTyped DEF ExtractFails, Record
<1>7. CASE RecordItemProcessed
  <2>1. rows' = rows \/ rows' = [rows EXCEPT ![cycle.item] =
                                   [result |-> "done", fp |-> Fingerprint, old |-> FALSE]]
    BY <1>7 DEF RecordItemProcessed, Record, Item
  <2>2. CASE i = cycle.item /\ rows' # rows
    <3>1. rows'[i].fp = Fingerprint
      BY <1>1, <2>1, <2>2
    <3> QED BY <1>7, <2>2, <3>1 DEF RecordItemProcessed, At, Fingerprint, Item
  <2>3. CASE i # cycle.item \/ rows' = rows
    BY <1>1, <2>1, <2>3
  <2> QED BY <2>2, <2>3
<1>8. CASE SkipItem \/ TakeItem \/ BatchEnds \/ ReadItem \/ Extract \/ SaveSkipped \/ SaveObservation
  BY <1>8 DEF SkipItem, TakeItem, BatchEnds, ReadItem, Extract, SaveSkipped, SaveObservation, tables
<1>9. CASE Finish \/ ResetIdle \/ Restart
  BY <1>9 DEF Finish, ResetIdle, Restart
<1> QED BY <1>2, <1>3, <1>4, <1>5, <1>6, <1>7, <1>8, <1>9, StepCases DEF ItemStep

\* A text that is being saved was extracted just before, and stays the same.
LEMMA SeenStep ==
  ASSUME TypeInv, HandledIsSettled, SeenBeforeSaved, [Next]_vars
  PROVE  SeenBeforeSaved'
<1> SUFFICES ASSUME cycle'.pc = "save", cycle'.item \in Notes
             PROVE  cycle'.read \in seen'[cycle'.item]
  BY DEF SeenBeforeSaved
<1>1. CASE cycle.pc = "save" /\ cycle'.item = cycle.item /\ cycle'.read = cycle.read
  BY <1>1, SeenGrows DEF SeenBeforeSaved
<1>2. CASE Extract
  <2>1. cycle'.item = cycle.item /\ cycle'.read = cycle.read
    BY <1>2, CycleTyped DEF Extract, Cycles
  <2> QED BY <1>2, <2>1 DEF Extract, Item
<1>3. CASE SaveSkipped \/ SaveObservation
  BY <1>1, <1>3, SavingTyped DEF SaveSkipped, SaveObservation
<1>4. CASE Elsewhere
  BY <1>1, <1>4, ElsewhereShape
<1>5. CASE SkipItem \/ Prefiltered \/ ReadFails \/ ExtractFails \/ RecordItemProcessed
  <2>1. \E i \in Items : cycle' = Without(i)
    BY <1>5, CycleTyped
    DEF SkipItem, Prefiltered, ReadFails, ExtractFails, RecordItemProcessed, Item
  <2> QED BY <2>1, CycleTyped, WithoutTyped
<1>6. CASE TakeItem \/ BatchEnds \/ ReadItem \/ Finish
  BY <1>6, CycleTyped DEF TakeItem, BatchEnds, ReadItem, Finish, Cycles
<1>7. CASE StartCycle \/ EndCycle \/ TakeSource \/ ResetIdle \/ Restart
  <2>1. CASE StartCycle
    BY <2>1 DEF StartCycle, Off
  <2>2. CASE EndCycle \/ Restart
    BY <2>2, OffTyped DEF EndCycle, Restart
  <2>3. CASE TakeSource
    BY <2>3 DEF TakeSource, Off
  <2>4. CASE ResetIdle
    BY <2>4 DEF ResetIdle, Off
  <2> QED BY <1>7, <2>1, <2>2, <2>3, <2>4
<1>8. CASE SkipSource
  BY <1>8, CycleTyped DEF SkipSource, At, Cycles
<1>9. CASE Discover \/ DiscoverFails
  BY <1>9, DiscoverShape
<1> QED BY <1>2, <1>3, <1>4, <1>5, <1>6, <1>7, <1>8, <1>9, StepCases DEF ItemStep

LEMMA RowsStep ==
  ASSUME TypeInv, SeenBeforeSaved, RowsClaimWhatWasSeen, [Next]_vars
  PROVE  RowsClaimWhatWasSeen'
<1> SUFFICES ASSUME NEW i \in Notes, rows'[i].result = "done", rows'[i].fp # 0
             PROVE  rows'[i].fp \in seen'[i]
  BY DEF RowsClaimWhatWasSeen
<1>1. rows'[i].fp \in seen[i]
  BY RowShape, Constants DEF SeenBeforeSaved, RowsClaimWhatWasSeen
<1> QED BY <1>1, SeenGrows

-----------------------------------------------------------------------------
(* BackfillIsResumable. *)

LEMMA MailItems ==
  ASSUME NEW s \in Mail, NEW i \in ItemsOf[s]
  PROVE  i \in Items \ Notes /\ s \in Sources
<1>1. s \in Sources /\ i \in Items
  BY Constants
<1>2. \A t \in Sources \ Mail : i \notin ItemsOf[t]
  BY <1>1, IngestAssumption
<1> QED BY <1>1, <1>2 DEF Notes

LEMMA SettledGrows ==
  ASSUME TypeInv, HandledIsSettled, [Next]_vars
  PROVE  settled \subseteq settled'
<1>1. CASE Elsewhere
  BY <1>1 DEF Elsewhere, MailArrives, NoteWritten, Midnight, CleanupOldProcessedItems,
      ForgetObservation, Shutdown, vars, history
<1>2. CASE StartCycle \/ EndCycle \/ TakeSource \/ SkipSource \/ Discover \/ DiscoverFails
  BY <1>2 DEF StartCycle, EndCycle, TakeSource, SkipSource, Discover, DiscoverFails, history
<1>3. CASE ItemStep
  BY <1>3, ItemShape
<1>4. CASE Finish \/ ResetIdle \/ Restart
  BY <1>4 DEF Finish, ResetIdle, Restart, history
<1> QED BY <1>1, <1>2, <1>3, <1>4, StepCases

\* Time does not go back, and a message that arrives has today's date.
LEMMA WorldShape ==
  ASSUME TypeInv, [Next]_vars
  PROVE  /\ day \in Nat /\ day' \in Nat /\ day <= day'
         /\ \A i \in Items \ Notes : \/ version'[i] = version[i] /\ stamp'[i] = stamp[i]
                                     \/ stamp'[i] = day
<1>1. day \in Nat /\ version \in [Items -> Versions] /\ stamp \in [Items -> Nat]
  BY Parts, Constants DEF TypeInv, TypeParts, WorldType
<1>2. CASE MailArrives
  BY <1>1, <1>2 DEF MailArrives
<1>3. CASE NoteWritten
  BY <1>1, <1>3, Constants DEF NoteWritten
<1>4. CASE Midnight
  BY <1>1, <1>4 DEF Midnight
<1>5. CASE ~(MailArrives \/ NoteWritten \/ Midnight)
  <2>1. UNCHANGED world
    <3>1. CASE Elsewhere
      BY <1>5, <3>1 DEF Elsewhere, CleanupOldProcessedItems, ForgetObservation, Shutdown, vars
    <3>2. CASE StartCycle \/ EndCycle \/ TakeSource \/ SkipSource \/ Discover \/ DiscoverFails
      BY <3>2 DEF StartCycle, EndCycle, TakeSource, SkipSource, Discover, DiscoverFails
    <3>3. CASE ItemStep
      BY <3>3
      DEF ItemStep, SkipItem, Prefiltered, TakeItem, BatchEnds, ReadItem, ReadFails, Extract,
          ExtractFails, SaveSkipped, SaveObservation, RecordItemProcessed
    <3>4. CASE Finish \/ ResetIdle \/ Restart
      BY <3>4 DEF Finish, ResetIdle, Restart
    <3> QED BY <3>1, <3>2, <3>3, <3>4, StepCases
  <2> QED BY <1>1, <2>1 DEF world
<1> QED BY <1>2, <1>3, <1>4, <1>5

\* Modes and cursors change at the end of a batch only.
LEMMA StateShape ==
  ASSUME TypeInv, [Next]_vars, NEW s \in Sources
  PROVE  \/ state'[s].mode = state[s].mode /\ state'[s].cursor = state[s].cursor
         \/ /\ Finish /\ s = cycle.src /\ state[s].mode = "backfill"
            /\ state'[s].cursor \in {0, cycle.newCursor}
<1>1. state \in [Sources -> States]
  BY Parts DEF TypeInv, TypeParts
<1>2. CASE Elsewhere \/ ItemStep
  BY <1>2, ElsewhereShape, ItemStepState
<1>3. CASE StartCycle \/ EndCycle \/ SkipSource \/ Discover \/ DiscoverFails
  BY <1>3 DEF StartCycle, EndCycle, SkipSource, Discover, DiscoverFails, tables
<1>4. CASE TakeSource \/ ResetIdle
  <2>1. state' = state \/ \E t \in Sources, status \in {"idle", "running"} : state' = Status(t, status)
    BY <1>4, CycleTyped, RestTyped DEF TakeSource, ResetIdle, Src
  <2> QED BY <1>1, <2>1 DEF Status, States
<1>5. CASE Restart
  BY <1>1, <1>5, ZenonT(40) DEF Restart, Recovered, States
<1>6. CASE Finish
  <2>1. \/ state' = state
        \/ /\ state[cycle.src].mode = "backfill"
           /\ state' = [state EXCEPT ![cycle.src] = Advanced(cycle.src)]
    BY <1>6 DEF Finish, Src
  <2>2. Advanced(cycle.src).cursor \in {0, cycle.newCursor}
    BY <1>1, CycleTyped DEF Advanced, States
  <2> QED BY <1>1, <1>6, <2>1, <2>2, CycleTyped
<1> QED BY <1>2, <1>3, <1>4, <1>5, <1>6, StepCases

LEMMA CursorShape ==
  ASSUME TypeInv, HandledIsSettled, [Next]_vars
  PROVE  \/ cycle'.newCursor = 0
         \/ /\ cycle'.src = cycle.src
            /\ cycle'.newCursor = cycle.newCursor \/ cycle'.newCursor \in NewCursors(cycle.src)
<1>1. CASE Elsewhere \/ ItemStep
  BY <1>1, ElsewhereShape, ItemShape
<1>2. CASE StartCycle
  BY <1>2 DEF StartCycle, Off
<1>3. CASE EndCycle \/ Restart
  BY <1>3 DEF EndCycle, Restart, Off
<1>4. CASE TakeSource
  BY <1>4 DEF TakeSource, Off
<1>5. CASE ResetIdle
  BY <1>5 DEF ResetIdle, Off
<1>6. CASE SkipSource \/ Finish
  BY <1>6, CycleTyped DEF SkipSource, Finish, Cycles
<1>7. CASE Discover \/ DiscoverFails
  BY <1>7, DiscoverShape
<1> QED BY <1>1, <1>2, <1>3, <1>4, <1>5, <1>6, <1>7, StepCases

LEMMA DatesStep ==
  ASSUME TypeInv, HandledIsSettled, DatesArePast, [Next]_vars
  PROVE  DatesArePast'
<1>1. /\ day \in Nat /\ day' \in Nat /\ day <= day' /\ day >= 1
      /\ stamp \in [Items -> Nat] /\ state \in [Sources -> States]
  BY WorldShape, Parts DEF TypeInv, TypeParts, WorldType
<1>2. ASSUME NEW i \in Items \ Notes PROVE stamp'[i] <= day'
  BY <1>1, WorldShape DEF DatesArePast
<1>3. ASSUME NEW s \in Mail PROVE state'[s].cursor <= day'
  <2>1. s \in Sources /\ state[s].cursor \in Nat /\ state[s].cursor <= day
    BY <1>1, Constants DEF DatesArePast, States
  <2>2. s = cycle.src => cycle.newCursor \in Nat /\ cycle.newCursor <= day
    BY CycleTyped DEF DatesArePast
  <2> QED BY <1>1, <2>1, <2>2, StateShape
<1>4. ASSUME cycle'.src \in Mail PROVE cycle'.newCursor <= day'
  <2>1. CASE cycle'.newCursor = 0
    BY <1>1, <2>1
  <2>2. CASE cycle'.src = cycle.src /\ cycle'.newCursor = cycle.newCursor
    BY <1>1, <1>4, <2>2, CycleTyped DEF DatesArePast
  <2>3. CASE cycle'.src = cycle.src /\ cycle'.newCursor \in NewCursors(cycle.src)
    <3>1. cycle.src \in Sources /\ cycle.src \in Mail
      BY <1>4, <2>3, CycleTyped
    <3>2. Cursor(cycle.src) \in Nat /\ Cursor(cycle.src) <= day
      BY <1>1, <3>1 DEF Cursor, DatesArePast, States
    <3>3. \A i \in Newest(cycle.src) : stamp[i] \in Nat /\ stamp[i] <= day
      BY <1>1, <3>1, MailItems DEF Newest, Discovered, DatesArePast
    <3>4. cycle'.newCursor \in Nat /\ cycle'.newCursor <= day
      BY <2>3, <3>1, <3>2, <3>3 DEF NewCursors
    <3> QED BY <1>1, <3>4
  <2> QED BY <2>1, <2>2, <2>3, CursorShape
<1> QED BY <1>2, <1>3, <1>4 DEF DatesArePast

LEMMA HandledStep ==
  ASSUME TypeInv, HandledIsSettled, [Next]_vars
  PROVE  HandledIsSettled'
<1> SUFFICES ASSUME NEW i \in Items, rows'[i].result # "none" PROVE i \in settled'
  BY DEF HandledIsSettled
<1>1. rows \in [Items -> Rows]
  BY Parts DEF TypeInv, TypeParts
<1>2. CASE rows[i].result # "none"
  BY <1>2, SettledGrows DEF HandledIsSettled
<1>3. CASE rows[i].result = "none"
  <2>1. CASE Elsewhere
    BY <1>1, <1>3, <2>1
    DEF Elsewhere, MailArrives, NoteWritten, Midnight, CleanupOldProcessedItems,
      ForgetObservation, Shutdown, vars, tables, NoRow, Rows
  <2>2. CASE StartCycle \/ EndCycle \/ TakeSource \/ SkipSource \/ Discover \/ DiscoverFails
    BY <1>3, <2>2 DEF StartCycle, EndCycle, TakeSource, SkipSource, Discover, DiscoverFails, tables
  <2>3. CASE Prefiltered \/ ReadFails \/ ExtractFails \/ RecordItemProcessed
    <3>1. PICK j \in Items : /\ j \in settled'
                             /\ rows' = rows \/ \E row : rows' = [rows EXCEPT ![j] = row]
      BY <2>3, CycleTyped
      DEF Prefiltered, ReadFails, ExtractFails, RecordItemProcessed, Record, Settle, Item
    <3> QED BY <1>1, <1>3, <3>1
  <2>4. CASE SkipItem \/ TakeItem \/ BatchEnds \/ ReadItem \/ Extract \/ SaveSkipped \/ SaveObservation
    BY <1>3, <2>4 DEF SkipItem, TakeItem, BatchEnds, ReadItem, Extract, SaveSkipped, SaveObservation, tables
  <2>5. CASE Finish \/ ResetIdle \/ Restart
    BY <1>3, <2>5 DEF Finish, ResetIdle, Restart
  <2> QED BY <2>1, <2>2, <2>3, <2>4, <2>5, StepCases DEF ItemStep
<1> QED BY <1>2, <1>3

\* Outside of a batch, and when it begins.
LEMMA BatchShape ==
  ASSUME TypeInv, [Next]_vars, cycle'.pc \in InItems
  PROVE  Elsewhere \/ ItemStep \/ (Discover /\ cycle'.pc = "item")
<1>1. CASE StartCycle
  BY <1>1 DEF StartCycle, Off, InItems
<1>2. CASE EndCycle \/ Restart
  BY <1>2, OffTyped DEF EndCycle, Restart, InItems
<1>3. CASE TakeSource
  BY <1>3 DEF TakeSource, Off, InItems
<1>4. CASE ResetIdle
  BY <1>4 DEF ResetIdle, Off, InItems
<1>5. CASE SkipSource \/ Finish \/ DiscoverFails
  BY <1>5, CycleTyped DEF SkipSource, Finish, DiscoverFails, At, Cycles, InItems
<1>6. CASE Discover
  BY <1>6, CycleTyped DEF Discover, Cycles
<1> QED BY <1>1, <1>2, <1>3, <1>4, <1>5, <1>6, StepCases

LEMMA BatchEmptiedStep ==
  ASSUME TypeInv, HandledIsSettled, BatchIsEmptied, [Next]_vars
  PROVE  BatchIsEmptied'
BY BatchShape, ItemShape, ElsewhereShape DEF BatchIsEmptied, InItems

LEMMA BatchCoversStep ==
  ASSUME TypeInv, HandledIsSettled, DatesArePast, BackfillIsResumable, BatchCovers, [Next]_vars
  PROVE  BatchCovers'
<1> SUFFICES ASSUME cycle'.pc \in InItems, cycle'.src \in Mail,
                    state'[cycle'.src].mode = "backfill",
                    NEW i \in ItemsOf[cycle'.src], version'[i] > 0, stamp'[i] < cycle'.newCursor
             PROVE  i \in settled' \cup cycle'.todo
  BY DEF BatchCovers
<1>1. i \in Items \ Notes /\ cycle'.src \in Sources
  BY MailItems
<1>2. /\ stamp \in [Items -> Nat] /\ version \in [Items -> Versions]
      /\ state \in [Sources -> States] /\ day \in Nat
  BY WorldShape, Parts DEF TypeInv, TypeParts, WorldType
<1>3. CASE Elsewhere
  <2>1. cycle' = cycle /\ state' = state
    BY <1>3, ElsewhereShape
  <2>2. cycle.newCursor \in Nat /\ cycle.newCursor <= day
    BY <2>1, CycleTyped DEF DatesArePast
  <2>3. version'[i] = version[i] /\ stamp'[i] = stamp[i]
    BY <1>1, <1>2, <2>1, <2>2, WorldShape
  <2> QED BY <2>1, <2>3, SettledGrows DEF BatchCovers
<1>4. CASE ItemStep
  <2>1. version' = version /\ stamp' = stamp /\ state' = state
    BY <1>4, ItemStepState
    DEF ItemStep, SkipItem, Prefiltered, TakeItem, BatchEnds, ReadItem, ReadFails, Extract,
        ExtractFails, SaveSkipped, SaveObservation, RecordItemProcessed, world
  <2>2. i \in settled \cup cycle.todo
    BY <1>4, <2>1, ItemShape DEF BatchCovers, InItems
  <2> QED BY <1>4, <2>2, ItemShape
<1>5. CASE Discover /\ cycle'.pc = "item"
  <2>1. /\ version' = version /\ stamp' = stamp /\ state' = state /\ settled' = settled
        /\ cycle'.src = cycle.src /\ cycle'.todo = Discovered(cycle.src)
    BY <1>5, DiscoverShape DEF Discover, world, tables
  <2>2. CASE stamp[i] >= Cursor(cycle.src)
    BY <2>1, <2>2 DEF Discovered
  <2>3. CASE stamp[i] < Cursor(cycle.src)
    <3>1. Cursor(cycle.src) = state[cycle.src].cursor
      BY <2>1 DEF Cursor
    <3> QED BY <2>1, <2>3, <3>1 DEF BackfillIsResumable
  <2>4. Cursor(cycle.src) \in Nat /\ stamp[i] \in Nat
    BY <1>1, <1>2, <2>1 DEF Cursor, States
  <2> QED BY <2>2, <2>3, <2>4
<1> QED BY <1>3, <1>4, <1>5, BatchShape

LEMMA BackfillStep ==
  ASSUME TypeInv, HandledIsSettled, DatesArePast, BatchCovers, BatchIsEmptied,
         BackfillIsResumable, [Next]_vars
  PROVE  BackfillIsResumable'
<1> SUFFICES ASSUME NEW s \in Mail, NEW i \in ItemsOf[s],
                    version'[i] > 0, stamp'[i] < state'[s].cursor
             PROVE  i \in settled'
  BY DEF BackfillIsResumable
<1>1. i \in Items \ Notes /\ s \in Sources
  BY MailItems
<1>2. stamp \in [Items -> Nat] /\ state \in [Sources -> States] /\ day \in Nat
  BY WorldShape, Parts DEF TypeInv, TypeParts, WorldType
<1>3. CASE state'[s].cursor = state[s].cursor
  <2>1. state[s].cursor \in Nat /\ state[s].cursor <= day
    BY <1>1, <1>2 DEF DatesArePast, States
  <2>2. version'[i] = version[i] /\ stamp'[i] = stamp[i]
    BY <1>1, <1>2, <1>3, <2>1, WorldShape
  <2> QED BY <1>3, <2>2, SettledGrows DEF BackfillIsResumable
<1>4. CASE /\ Finish /\ s = cycle.src /\ state[s].mode = "backfill"
           /\ state'[s].cursor \in {0, cycle.newCursor}
  <2>1. cycle.pc = "finish" /\ version' = version /\ stamp' = stamp
    BY <1>4 DEF Finish, At, world
  <2>2. state'[s].cursor = cycle.newCursor
    BY <1>1, <1>2, <1>4, <2>1
  <2>3. i \in settled \cup cycle.todo
    BY <1>4, <2>1, <2>2 DEF BatchCovers, InItems
  <2> QED BY <2>1, <2>3, SettledGrows DEF BatchIsEmptied
<1> QED BY <1>1, <1>3, <1>4, StateShape

-----------------------------------------------------------------------------
(* ProcessedIsKept. *)

\* The invariant it needs: a row's fingerprint is of a version there was, and messages have
\* none; a text in hand is wanted and not processed yet; while observations are saved,
\* those found in the text are saved, given up, or still to save.
InHand == {"extract", "save"}
FingerprintsArePast ==
  /\ \A i \in Notes : rows[i].fp <= version[i]
  /\ \A i \in Items \ Notes : rows[i].fp = 0
HandIsDue ==
  /\ cycle.pc \in InBatch => cycle.item \notin Unwanted
  /\ cycle.pc = "read" => Due(cycle.item)
  /\ cycle.pc \in InHand => /\ cycle.read <= version[cycle.item]
                            /\ ~Processed(cycle.item, cycle.read)
FoundIsPast == \A o \in found : o[1] \notin Unwanted /\ o[2] <= version[o[1]]
SavedSoFar ==
  cycle.pc = "save" =>
    \A o \in found : o[1] = cycle.item /\ o[2] = cycle.read =>
      o[3] \in cycle.left \/ o \in memory \cup gone

KeptInv == FingerprintsArePast /\ HandIsDue /\ FoundIsPast /\ SavedSoFar /\ ProcessedIsKept

LEMMA KeptTypes ==
  ASSUME TypeInv
  PROVE  /\ rows \in [Items -> Rows] /\ version \in [Items -> Versions]
         /\ \A i \in Items : version[i] \in Nat /\ rows[i].fp \in Nat
         /\ \A i \in Items \ Notes : version[i] <= 1
         /\ cycle.item \in Items /\ cycle.read \in Nat
         /\ found \subseteq Observations /\ Notes \subseteq Items
<1>1. rows \in [Items -> Rows] /\ version \in [Items -> Versions] /\ found \subseteq Observations
  BY Parts DEF TypeInv, TypeParts, WorldType, MemoryType
<1> QED BY <1>1, CycleTyped, Constants DEF TypeInv, VersionsBounded, Rows, Versions

\* Versions only grow.
LEMMA VersionsGrow ==
  ASSUME TypeInv, [Next]_vars
  PROVE  \A i \in Items : version'[i] \in Nat /\ version[i] <= version'[i]
<1>1. CASE Elsewhere
  BY <1>1, KeptTypes
  DEF Elsewhere, MailArrives, NoteWritten, Midnight, CleanupOldProcessedItems,
      ForgetObservation, Shutdown, vars, world
<1>2. CASE ~Elsewhere
  <2>1. version' = version
    <3>1. CASE StartCycle \/ EndCycle \/ TakeSource \/ SkipSource \/ Discover \/ DiscoverFails
      BY <3>1 DEF StartCycle, EndCycle, TakeSource, SkipSource, Discover, DiscoverFails, world
    <3>2. CASE ItemStep
      BY <3>2
      DEF ItemStep, SkipItem, Prefiltered, TakeItem, BatchEnds, ReadItem, ReadFails, Extract,
          ExtractFails, SaveSkipped, SaveObservation, RecordItemProcessed, world
    <3>3. CASE Finish \/ ResetIdle \/ Restart
      BY <3>3 DEF Finish, ResetIdle, Restart, world
    <3> QED BY <1>2, <3>1, <3>2, <3>3, StepCases
  <2> QED BY <2>1, KeptTypes
<1> QED BY <1>1, <1>2

\* What is saved or given up is not forgotten; only an extraction finds anything.
LEMMA KeptGrows ==
  ASSUME TypeInv, [Next]_vars
  PROVE  memory \cup gone \subseteq memory' \cup gone' /\ (~Extract => found' = found)
<1>1. CASE Elsewhere
  BY <1>1
  DEF Elsewhere, MailArrives, NoteWritten, Midnight, CleanupOldProcessedItems,
      ForgetObservation, Shutdown, vars, tables, history, kept
<1>2. CASE StartCycle \/ EndCycle \/ TakeSource \/ SkipSource \/ Discover \/ DiscoverFails
  BY <1>2
  DEF StartCycle, EndCycle, TakeSource, SkipSource, Discover, DiscoverFails, tables, history, kept
<1>3. CASE SkipItem \/ Prefiltered \/ TakeItem \/ BatchEnds \/ ReadItem \/ ReadFails
  BY <1>3
  DEF SkipItem, Prefiltered, TakeItem, BatchEnds, ReadItem, ReadFails, tables, history, kept
<1>4. CASE Extract \/ ExtractFails \/ SaveSkipped \/ SaveObservation \/ RecordItemProcessed
  BY <1>4
  DEF Extract, ExtractFails, SaveSkipped, SaveObservation, RecordItemProcessed, tables, history, kept
<1>5. CASE Finish \/ ResetIdle \/ Restart
  BY <1>5 DEF Finish, ResetIdle, Restart, tables, history, kept
<1> QED BY <1>1, <1>2, <1>3, <1>4, <1>5, StepCases DEF ItemStep

\* What the row of item i may become.
Becomes(i, result, fp) == rows'[i].result = result /\ rows'[i].fp = fp
LEMMA ElsewhereRows ==
  ASSUME TypeInv, Elsewhere, NEW i \in Items
  PROVE  Becomes(i, rows[i].result, rows[i].fp) \/ Becomes(i, "none", 0)
BY KeptTypes
DEF Elsewhere, MailArrives, NoteWritten, Midnight, CleanupOldProcessedItems,
    ForgetObservation, Shutdown, vars, tables, NoRow, Rows, Becomes

LEMMA RecordBecomes ==
  ASSUME TypeInv, NEW i \in Items, NEW j \in Items, NEW result, NEW fp, Record(j, result, fp)
  PROVE  Becomes(i, rows[i].result, rows[i].fp) \/ (i = j /\ Becomes(i, result, fp))
BY KeptTypes DEF Record, Becomes

LEMMA RowBecomes ==
  ASSUME TypeInv, [Next]_vars, NEW i \in Items
  PROVE  \/ Becomes(i, rows[i].result, rows[i].fp) \/ Becomes(i, "none", 0)
         \/ Becomes(i, "done", 0) /\ i \in Unwanted
         \/ Becomes(i, "failed", 0)
         \/ i = cycle.item /\ ExtractFails /\ Becomes(i, "failed", Fingerprint)
         \/ i = cycle.item /\ RecordItemProcessed /\ Becomes(i, "done", Fingerprint)
<1>1. CASE Elsewhere
  BY <1>1, ElsewhereRows
<1>2. CASE Prefiltered
  <2>1. PICK j \in cycle.todo \cap Unwanted : Record(j, "done", 0)
    BY <1>2 DEF Prefiltered
  <2> QED BY <2>1, CycleTyped, RecordBecomes
<1>3. CASE ReadFails
  BY <1>3, CycleTyped, RecordBecomes DEF ReadFails, Item
<1>4. CASE ExtractFails
  <2>1. Record(cycle.item, "failed", Fingerprint)
    BY <1>4 DEF ExtractFails, Item
  <2> QED BY <1>4, <2>1, CycleTyped, RecordBecomes
<1>5. CASE RecordItemProcessed
  <2>1. Record(cycle.item, "done", Fingerprint)
    BY <1>5 DEF RecordItemProcessed, Item
  <2> QED BY <1>5, <2>1, CycleTyped, RecordBecomes
<1>6. CASE StartCycle \/ EndCycle \/ TakeSource \/ SkipSource \/ Discover \/ DiscoverFails
  BY <1>6
  DEF StartCycle, EndCycle, TakeSource, SkipSource, Discover, DiscoverFails, tables, Becomes
<1>7. CASE SkipItem \/ TakeItem \/ BatchEnds \/ ReadItem \/ Extract \/ SaveSkipped \/ SaveObservation
  BY <1>7
  DEF SkipItem, TakeItem, BatchEnds, ReadItem, Extract, SaveSkipped, SaveObservation, tables, Becomes
<1>8. CASE Finish \/ ResetIdle \/ Restart
  BY <1>8 DEF Finish, ResetIdle, Restart, Becomes
<1> QED BY <1>1, <1>2, <1>3, <1>4, <1>5, <1>6, <1>7, <1>8, StepCases DEF ItemStep

\* How a text gets and stays in hand.
SameText == cycle'.item = cycle.item /\ cycle'.read = cycle.read
LEMMA HandShape ==
  ASSUME TypeInv, [Next]_vars, cycle'.pc \in InBatch
  PROVE  \/ Elsewhere /\ cycle' = cycle
         \/ /\ cycle'.pc = "read" /\ Due(cycle'.item) /\ cycle'.item \notin Unwanted
            /\ UNCHANGED <<rows, version, found>>
         \/ /\ cycle.pc = "read" /\ cycle'.pc = "extract"
            /\ cycle'.item = cycle.item /\ cycle'.read = version[cycle.item]
            /\ UNCHANGED <<rows, version, found>>
         \/ /\ Extract /\ cycle.pc = "extract" /\ cycle'.pc = "save"
            /\ SameText /\ UNCHANGED <<rows, version>>
         \/ /\ SaveSkipped \/ SaveObservation
            /\ cycle.pc = "save" /\ cycle'.pc = "save" /\ SameText
            /\ UNCHANGED <<rows, version, found>>
<1>1. CASE Elsewhere
  BY <1>1, ElsewhereShape
<1>2. CASE TakeItem
  <2>1. PICK i \in cycle.todo \ Unwanted :
          Due(i) /\ cycle' = [cycle EXCEPT !.pc = "read", !.item = i]
    BY <1>2 DEF TakeItem
  <2>2. cycle'.pc = "read" /\ cycle'.item = i
    BY <2>1, CycleTyped DEF Cycles
  <2> QED BY <1>2, <2>1, <2>2 DEF TakeItem, tables, world, history, kept
<1>3. CASE ReadItem
  <2>1. /\ cycle'.pc = "extract" /\ cycle'.item = cycle.item
        /\ cycle'.read = version[cycle.item]
    BY <1>3, CycleTyped DEF ReadItem, Item, Cycles
  <2> QED BY <1>3, <2>1 DEF ReadItem, At, tables, world, kept
<1>4. CASE Extract
  <2>1. cycle'.pc = "save" /\ SameText
    BY <1>4, CycleTyped DEF Extract, Cycles, SameText
  <2> QED BY <1>4, <2>1 DEF Extract, At, tables, world
<1>5. CASE SaveSkipped \/ SaveObservation
  <2>1. cycle.pc = "save" /\ cycle'.pc = "save" /\ SameText
    BY <1>5, SavingTyped DEF SaveSkipped, SaveObservation, SameText
  <2> QED BY <1>5, <2>1 DEF SaveSkipped, SaveObservation, tables, world
<1>6. CASE SkipItem \/ Prefiltered \/ ReadFails \/ ExtractFails \/ RecordItemProcessed
  <2>1. \E i \in Items : cycle' = Without(i)
    BY <1>6, CycleTyped
    DEF SkipItem, Prefiltered, ReadFails, ExtractFails, RecordItemProcessed, Item
  <2> QED BY <2>1, CycleTyped, WithoutTyped DEF InBatch
<1>7. CASE BatchEnds
  BY <1>7, CycleTyped DEF BatchEnds, Cycles, InBatch
<1>8. CASE Discover /\ cycle'.pc = "item"
  BY <1>8 DEF InBatch
<1> QED BY <1>1, <1>2, <1>3, <1>4, <1>5, <1>6, <1>7, <1>8, BatchShape DEF ItemStep, InItems, InBatch

LEMMA FingerprintsStep ==
  ASSUME TypeInv, FingerprintsArePast, HandIsDue, [Next]_vars
  PROVE  FingerprintsArePast'
<1>1. ExtractFails \/ RecordItemProcessed => cycle.pc \in InHand
  BY DEF ExtractFails, RecordItemProcessed, At, InHand
<1>2. ASSUME NEW i \in Notes PROVE rows'[i].fp <= version'[i]
  <2>1. i \in Items /\ version'[i] \in Nat /\ version[i] <= version'[i]
    BY KeptTypes, VersionsGrow
  <2>2. rows[i].fp <= version[i]
    BY DEF FingerprintsArePast
  <2>3. i = cycle.item /\ cycle.pc \in InHand => Fingerprint \in Nat /\ Fingerprint <= version[i]
    BY KeptTypes DEF HandIsDue, Fingerprint, Item
  <2> QED BY <1>1, <2>1, <2>2, <2>3, KeptTypes, RowBecomes DEF Becomes
<1>3. ASSUME NEW i \in Items \ Notes PROVE rows'[i].fp = 0
  BY RowBecomes DEF FingerprintsArePast, Becomes, Fingerprint, Item
<1> QED BY <1>2, <1>3 DEF FingerprintsArePast

\* An item that is due stays so until it is recorded, and then its text is not processed.
LEMMA DueStays ==
  ASSUME TypeInv, FingerprintsArePast, [Next]_vars, Elsewhere, NEW i \in Items, Due(i)
  PROVE  Due(i)'
<1>1. version[i] \in Nat /\ version'[i] \in Nat /\ version[i] <= version'[i] /\ rows[i].fp \in Nat
  BY KeptTypes, VersionsGrow
<1>2. rows[i].fp <= version[i]
  BY <1>1, KeptTypes DEF FingerprintsArePast
<1> QED BY <1>1, <1>2, ElsewhereRows DEF Due, Handled, Becomes

LEMMA DueIsNotProcessed ==
  ASSUME TypeInv, FingerprintsArePast, NEW i \in Items, Due(i)
  PROVE  ~Processed(i, version[i])
BY DEF Due, Processed, FingerprintsArePast

LEMMA HandStep ==
  ASSUME TypeInv, FingerprintsArePast, HandIsDue, [Next]_vars
  PROVE  HandIsDue'
<1> SUFFICES ASSUME cycle'.pc \in InBatch PROVE HandIsDue'
  BY DEF HandIsDue, InBatch, InHand
<1>1. CASE Elsewhere /\ cycle' = cycle
  <2>1. cycle.pc = "read" => Due(cycle.item)'
    BY <1>1, KeptTypes, DueStays DEF HandIsDue
  <2>2. cycle.pc \in InHand => cycle.read <= version'[cycle.item]
    BY KeptTypes, VersionsGrow DEF HandIsDue
  <2>3. cycle.pc \in InHand => ~Processed(cycle.item, cycle.read)'
    <3>1. \/ Becomes(cycle.item, rows[cycle.item].result, rows[cycle.item].fp)
          \/ Becomes(cycle.item, "none", 0)
      BY <1>1, KeptTypes, ElsewhereRows
    <3> QED BY <1>1, <3>1 DEF HandIsDue, Processed, Handled, Becomes
  <2> QED BY <1>1, <2>1, <2>2, <2>3 DEF HandIsDue, Due, Handled, Processed
<1>2. CASE /\ cycle'.pc = "read" /\ Due(cycle'.item) /\ cycle'.item \notin Unwanted
           /\ UNCHANGED <<rows, version, found>>
  BY <1>2 DEF HandIsDue, InHand, Due, Handled
<1>3. CASE /\ cycle.pc = "read" /\ cycle'.pc = "extract"
           /\ cycle'.item = cycle.item /\ cycle'.read = version[cycle.item]
           /\ UNCHANGED <<rows, version, found>>
  <2>1. ~Processed(cycle.item, version[cycle.item]) /\ cycle.item \notin Unwanted
    BY <1>3, KeptTypes, DueIsNotProcessed DEF HandIsDue, InBatch
  <2> QED BY <1>3, <2>1, KeptTypes DEF HandIsDue, InHand, Processed, Handled
<1>4. CASE cycle.pc \in InHand /\ cycle'.pc = "save" /\ SameText /\ rows' = rows /\ version' = version
  BY <1>4 DEF HandIsDue, InHand, InBatch, SameText, Processed, Handled
<1>5. "extract" \in InHand /\ "save" \in InHand
  BY DEF InHand
<1> QED BY <1>1, <1>2, <1>3, <1>4, <1>5, HandShape

LEMMA FoundStep ==
  ASSUME TypeInv, HandIsDue, FoundIsPast, [Next]_vars
  PROVE  FoundIsPast'
<1> SUFFICES ASSUME NEW o \in found' PROVE o[1] \notin Unwanted /\ o[2] <= version'[o[1]]
  BY DEF FoundIsPast
<1>1. CASE o \in found
  <2>1. o[1] \in Items /\ o[2] \in Nat
    BY <1>1, KeptTypes, Constants DEF Observations
  <2> QED BY <1>1, <2>1, KeptTypes, VersionsGrow DEF FoundIsPast
<1>2. CASE o \notin found
  <2>1. Extract /\ cycle.pc = "extract"
    BY <1>2, KeptGrows DEF Extract, At
  <2>2. o[1] = cycle.item /\ o[2] = cycle.read
    BY <1>2, <2>1 DEF Extract, Finds, Of, Item
  <2>3. cycle.item \notin Unwanted /\ cycle.read <= version[cycle.item]
    BY <2>1 DEF HandIsDue, InBatch, InHand
  <2> QED BY <2>2, <2>3, KeptTypes, VersionsGrow
<1> QED BY <1>1, <1>2

LEMMA SavedStep ==
  ASSUME TypeInv, SavedSoFar, [Next]_vars
  PROVE  SavedSoFar'
<1> SUFFICES ASSUME cycle'.pc = "save", NEW o \in found',
                    o[1] = cycle'.item, o[2] = cycle'.read
             PROVE  o[3] \in cycle'.left \/ o \in memory' \cup gone'
  BY DEF SavedSoFar
<1>1. CASE Elsewhere /\ cycle' = cycle
  <2>1. o \in found
    BY <1>1, KeptGrows DEF Extract, At
  <2> QED BY <1>1, <2>1, KeptGrows DEF SavedSoFar
<1>2. CASE Extract /\ SameText
  <2>1. PICK n \in 0..PerItem : cycle' = [cycle EXCEPT !.pc = "save", !.left = 1..n] /\ Finds(n)
    BY <1>2 DEF Extract
  <2>2. \E k \in 1..n : o = Of(k)
    BY <1>2, <2>1 DEF Finds, SameText, Item
  <2>3. o[3] \in 1..n
    BY <2>2 DEF Of
  <2> QED BY <2>1, <2>3, CycleTyped DEF Cycles
<1>3. CASE /\ SaveSkipped \/ SaveObservation
           /\ cycle.pc = "save" /\ SameText /\ UNCHANGED found
  <2>1. PICK k \in cycle.left : Saving(k) /\ Of(k) \in memory' \cup gone'
    BY <1>3 DEF SaveSkipped, SaveObservation, Exists, tables, kept
  <2>2. cycle'.left = cycle.left \ {k}
    BY <2>1, SavingTyped
  <2>3. o[3] = k => o = Of(k)
    <3>1. o \in Observations
      BY <1>3, KeptTypes
    <3>2. o = <<o[1], o[2], o[3]>>
      BY <3>1 DEF Observations
    <3> QED BY <1>3, <3>2 DEF Of, SameText, Item
  <2>4. o[3] \in cycle.left \/ o \in memory \cup gone
    BY <1>3 DEF SavedSoFar, SameText
  <2> QED BY <2>1, <2>2, <2>3, <2>4, KeptGrows
<1> QED BY <1>1, <1>2, <1>3, HandShape DEF InBatch

LEMMA ProcessedStep ==
  ASSUME TypeInv, HandIsDue, FoundIsPast, SavedSoFar, ProcessedIsKept, [Next]_vars
  PROVE  ProcessedIsKept'
<1> SUFFICES ASSUME NEW o \in found', Processed(o[1], o[2])'
             PROVE  o \in memory' \cup gone'
  BY DEF ProcessedIsKept
<1>1. CASE Extract
  <2>1. rows' = rows /\ cycle.pc \in InHand
    BY <1>1 DEF Extract, tables, At, InHand
  <2>2. Processed(o[1], o[2])
    BY <2>1 DEF Processed, Handled
  <2>3. <<o[1], o[2]>> # <<cycle.item, cycle.read>>
    BY <2>1, <2>2 DEF HandIsDue
  <2>4. o \in found
    BY <1>1, <2>3 DEF Extract, Finds, Of, Item
  <2> QED BY <2>2, <2>4, KeptGrows DEF ProcessedIsKept
<1>2. CASE ~Extract
  <2>1. o \in found /\ o \in Observations
    BY <1>2, KeptGrows, KeptTypes
  <2>2. o[1] \in Items /\ o[2] \in 1..(MaxEdits + 1)
    BY <2>1 DEF Observations
  <2>3. CASE Becomes(o[1], rows[o[1]].result, rows[o[1]].fp)
    <3>1. Processed(o[1], o[2])
      BY <2>3 DEF Becomes, Processed, Handled
    <3> QED BY <2>1, <3>1, KeptGrows DEF ProcessedIsKept
  <2>4. CASE \E fp : Becomes(o[1], "none", fp) \/ Becomes(o[1], "failed", fp)
    BY <2>4 DEF Becomes, Processed, Handled
  <2>5. CASE o[1] \in Unwanted
    BY <2>1, <2>5 DEF FoundIsPast
  <2>6. CASE o[1] = cycle.item /\ RecordItemProcessed /\ Becomes(o[1], "done", Fingerprint)
    <3>1. cycle.pc = "save" /\ cycle.left = {}
      BY <2>6 DEF RecordItemProcessed, At
    <3>2. o[2] = cycle.read
      <4>1. CASE o[1] \in Notes
        BY <2>6, <4>1 DEF Becomes, Processed, Fingerprint, Item
      <4>2. CASE o[1] \notin Notes
        <5>1. version[o[1]] \in Nat /\ version[o[1]] <= 1 /\ o[2] <= version[o[1]]
          BY <2>1, <2>2, <4>2, KeptTypes DEF FoundIsPast
        <5>2. cycle.read \in 1..(MaxEdits + 1) /\ cycle.read <= version[o[1]]
          BY <2>6, <3>1, ReadTyped DEF HandIsDue, InHand
        <5> QED BY <2>2, <5>1, <5>2, Constants
      <4> QED BY <4>1, <4>2
    <3>3. o \in memory \cup gone
      BY <2>1, <2>6, <3>1, <3>2 DEF SavedSoFar
    <3> QED BY <3>3, KeptGrows
  <2> QED BY <2>2, <2>3, <2>4, <2>5, <2>6, RowBecomes
<1> QED BY <1>1, <1>2

LEMMA KeptStep ==
  ASSUME TypeInv, KeptInv, [Next]_vars
  PROVE  KeptInv'
BY FingerprintsStep, HandStep, FoundStep, SavedStep, ProcessedStep DEF KeptInv

-----------------------------------------------------------------------------
(* DailyCaps. *)

\* What the lives before this one may have used and this one has, fits.
LEMMA OneMoreLife ==
  ASSUME NEW cap \in Nat, NEW n \in Nat, n >= 1, NEW used \in 0..cap, NEW sum \in Nat,
         sum <= cap * (n - 1) + used
  PROVE  sum <= cap * n
<1>1. cap * n = cap * (n - 1) + cap
  OBVIOUS
<1>2. cap * (n - 1) \in Nat
  OBVIOUS
<1> QED BY <1>1, <1>2

LEMMA MoreLives ==
  ASSUME NEW cap \in Nat, NEW n \in Nat, NEW sum \in Nat, sum <= cap * n
  PROVE  cap * n \in Nat /\ cap * (n + 1) = cap * n + cap /\ sum <= cap * (n + 1)
OBVIOUS

LEMMA CountersTyped ==
  ASSUME TypeInv
  PROVE  /\ day \in Nat /\ day >= 1 /\ lastResetDay \in Nat /\ lives \in Nat
         /\ today \in [Sources -> [calls : Nat, kept : Nat]]
         /\ dailyLLMUsed \in [Sources -> 0..MaxDailyLLM]
         /\ dailyObsKept \in [Sources -> 0..(MaxDailyObs + PerItem - 1)]
         /\ MaxDailyObs + PerItem - 1 \in Nat
BY Parts, Constants DEF TypeInv, TypeParts, WorldType, CountersType, HistoryType

\* While the counters are in use, they show that the limits hold.
LEMMA CountersImplyCaps ==
  ASSUME TypeInv, CountersAccount, InUse
  PROVE  DailyCaps
<1> SUFFICES ASSUME NEW s \in Sources
             PROVE  /\ today[s].calls <= MaxDailyLLM * lives
                    /\ today[s].kept <= (MaxDailyObs + PerItem - 1) * lives
  BY DEF DailyCaps
<1>1. /\ lives \in Nat /\ lives >= 1 /\ today[s].calls \in Nat /\ today[s].kept \in Nat
      /\ dailyLLMUsed[s] \in 0..MaxDailyLLM
      /\ dailyObsKept[s] \in 0..(MaxDailyObs + PerItem - 1)
  BY CountersTyped DEF CountersAccount
<1>2. /\ today[s].calls <= MaxDailyLLM * (lives - 1) + dailyLLMUsed[s]
      /\ today[s].kept <= (MaxDailyObs + PerItem - 1) * (lives - 1) + dailyObsKept[s]
  BY DEF CountersAccount
<1> QED BY <1>1, <1>2, CountersTyped, Constants, OneMoreLife

Metered == <<day, lastResetDay, today, lives, dailyLLMUsed, dailyObsKept>>

\* Steps that use neither a call nor an observation and do not end a life.
LEMMA MeteredSteps ==
  ASSUME TypeInv, HandledIsSettled, [Next]_vars
  PROVE  \/ UNCHANGED Metered /\ (InUse' => InUse)
         \/ Midnight \/ StartCycle \/ ReadItem \/ SaveObservation \/ Restart
<1>1. CASE Elsewhere
  BY <1>1, ElsewhereShape
  DEF Elsewhere, MailArrives, NoteWritten, CleanupOldProcessedItems, ForgetObservation, Shutdown, vars, world,
      counters, history, Metered, InUse
<1>2. CASE EndCycle
  BY <1>2 DEF EndCycle, At, world, counters, history, Metered, InUse
<1>3. CASE TakeSource \/ SkipSource \/ Discover \/ DiscoverFails
  BY <1>3 DEF TakeSource, SkipSource, Discover, DiscoverFails, At, world, counters, history, Metered, InUse
<1>4. CASE ItemStep /\ ~ReadItem /\ ~SaveObservation
  <2>1. UNCHANGED Metered
    BY <1>4
    DEF ItemStep, SkipItem, Prefiltered, TakeItem, BatchEnds, ReadFails, Extract, ExtractFails,
        SaveSkipped, RecordItemProcessed, world, counters, history, Metered
  <2> QED BY <1>4, <2>1, ItemShape DEF InUse
<1>5. CASE Finish \/ ResetIdle
  BY <1>5 DEF Finish, ResetIdle, At, world, counters, history, Metered, InUse
<1> QED BY <1>1, <1>2, <1>3, <1>4, <1>5, StepCases

LEMMA CountersStep ==
  ASSUME TypeInv, TypeInv', HandledIsSettled, DailyCaps, CountersAccount, [Next]_vars
  PROVE  DailyCaps' /\ CountersAccount'
<1> DEFINE ObsCap == MaxDailyObs + PerItem - 1
<1>0. MaxDailyLLM \in Nat /\ ObsCap \in Nat
  BY Constants, CountersTyped
<1>1. CASE UNCHANGED Metered /\ (InUse' => InUse)
  BY <1>1 DEF Metered, DailyCaps, CountersAccount
<1>2. CASE Midnight
  <2>1. /\ day' = day + 1 /\ lastResetDay' = lastResetDay /\ cycle' = cycle
        /\ \A s \in Sources : today'[s].calls = 0 /\ today'[s].kept = 0
        /\ lives' = IF cycle.pc = "off" THEN 0 ELSE 1
        /\ dailyLLMUsed' = dailyLLMUsed /\ dailyObsKept' = dailyObsKept
    BY <1>2 DEF Midnight, counters
  <2>2. DailyCaps'
    <3>1. MaxDailyLLM * lives' >= 0 /\ ObsCap * lives' >= 0
      BY <1>0, <2>1
    <3> QED BY <2>1, <3>1 DEF DailyCaps
  <2>3. lastResetDay' < day'
    BY <2>1, CountersTyped DEF CountersAccount
  <2>4. InUse' => lives' = 1
    BY <2>1, <2>3, CountersTyped DEF InUse
  <2>5. \A s \in Sources : dailyLLMUsed[s] >= 0 /\ dailyObsKept[s] >= 0
    BY CountersTyped
  <2>6. MaxDailyLLM * 0 = 0 /\ ObsCap * 0 = 0
    BY <1>0
  <2>7. ASSUME InUse', NEW s \in Sources
        PROVE  /\ today'[s].calls <= MaxDailyLLM * (lives' - 1) + dailyLLMUsed'[s]
               /\ today'[s].kept <= ObsCap * (lives' - 1) + dailyObsKept'[s]
    <3>1. lives' - 1 = 0
      BY <2>4, <2>7
    <3>2. dailyLLMUsed[s] \in Nat /\ dailyObsKept[s] \in Nat
      BY CountersTyped
    <3> QED BY <2>1, <2>6, <3>1, <3>2
  <2> QED BY <2>1, <2>2, <2>3, <2>4, <2>7, CountersTyped DEF CountersAccount
<1>3. CASE StartCycle
  <2>1. /\ day' = day /\ today' = today /\ cycle'.pc = "next" /\ cycle.pc = "off"
        /\ IF lastResetDay # day
           THEN /\ dailyLLMUsed' = Zero /\ dailyObsKept' = Zero
                /\ lastResetDay' = day /\ lives' = lives + 1
           ELSE UNCHANGED <<dailyLLMUsed, dailyObsKept, lastResetDay, lives>>
    BY <1>3 DEF StartCycle, world, counters, Off, At
  <2>2. CASE lastResetDay # day
    <3>1. ASSUME NEW s \in Sources
          PROVE  /\ today[s].calls \in Nat /\ today[s].calls <= MaxDailyLLM * lives
                 /\ today[s].kept \in Nat /\ today[s].kept <= ObsCap * lives
                 /\ dailyLLMUsed'[s] = 0 /\ dailyObsKept'[s] = 0
      BY <2>1, <2>2, CountersTyped DEF DailyCaps, Zero
    <3>2. lives' = lives + 1 /\ lives' - 1 = lives /\ lives \in Nat /\ lives' >= 1
      BY <2>1, <2>2, CountersTyped
    <3>3. MaxDailyLLM * lives \in Nat /\ ObsCap * lives \in Nat
      BY <1>0, <3>2
    <3>4. ASSUME NEW s \in Sources
          PROVE  /\ today[s].calls <= MaxDailyLLM * (lives + 1)
                 /\ today[s].kept <= ObsCap * (lives + 1)
      BY <1>0, <3>1, <3>2, MoreLives
    <3>5. DailyCaps'
      BY <2>1, <3>2, <3>4 DEF DailyCaps
    <3>6. ASSUME NEW s \in Sources
          PROVE  /\ today'[s].calls <= MaxDailyLLM * (lives' - 1) + dailyLLMUsed'[s]
                 /\ today'[s].kept <= ObsCap * (lives' - 1) + dailyObsKept'[s]
      BY <2>1, <3>1, <3>2, <3>3
    <3> QED BY <2>1, <2>2, <3>2, <3>5, <3>6, CountersTyped DEF CountersAccount
  <2>3. CASE lastResetDay = day
    BY <2>1, <2>3 DEF DailyCaps, CountersAccount, InUse
  <2> QED BY <2>2, <2>3
<1>4. CASE Restart
  <2>1. UNCHANGED <<day, today, lives>> /\ lastResetDay' = 0 /\ cycle'.pc = "off"
    BY <1>4, OffTyped DEF Restart, world, history
  <2>2. lastResetDay' < day'
    BY <2>1, CountersTyped
  <2>3. ~InUse'
    BY <2>1, <2>2, CountersTyped DEF InUse
  <2> QED BY <2>1, <2>2, <2>3, CountersTyped DEF DailyCaps, CountersAccount
<1>5. CASE ReadItem \/ SaveObservation
  <2>1. /\ cycle.pc # "off" /\ cycle'.pc # "off" /\ UNCHANGED <<day, lastResetDay, lives>>
    <3>1. cycle.pc # "off" /\ cycle'.pc # "off"
      BY <1>5, ItemShape DEF ItemStep, InItems
    <3> QED BY <1>5, <3>1 DEF ReadItem, SaveObservation, world
  <2>2. \/ /\ today' = [today EXCEPT ![cycle.src].calls = @ + 1]
           /\ dailyLLMUsed' = [dailyLLMUsed EXCEPT ![cycle.src] = @ + 1]
           /\ dailyObsKept' = dailyObsKept
        \/ /\ today' = [today EXCEPT ![cycle.src].kept = @ + 1]
           /\ dailyObsKept' = [dailyObsKept EXCEPT ![cycle.src] = @ + 1]
           /\ dailyLLMUsed' = dailyLLMUsed
    BY <1>5 DEF ReadItem, SaveObservation, Counted, Src
  <2>3. InUse /\ lives \in Nat /\ lives >= 1 /\ lastResetDay <= day
    BY <2>1, CountersTyped DEF InUse, CountersAccount
  <2>4. ASSUME NEW s \in Sources
        PROVE  /\ today'[s].calls <= MaxDailyLLM * (lives - 1) + dailyLLMUsed'[s]
               /\ today'[s].kept <= ObsCap * (lives - 1) + dailyObsKept'[s]
    <3>1. /\ today[s].calls \in Nat /\ today[s].kept \in Nat
          /\ dailyLLMUsed[s] \in Nat /\ dailyObsKept[s] \in Nat
      BY CountersTyped
    <3>2. MaxDailyLLM * (lives - 1) \in Nat /\ ObsCap * (lives - 1) \in Nat
      BY <1>0, <2>3
    <3>3. /\ today[s].calls <= MaxDailyLLM * (lives - 1) + dailyLLMUsed[s]
          /\ today[s].kept <= ObsCap * (lives - 1) + dailyObsKept[s]
      BY <2>3 DEF CountersAccount
    <3>4. \/ /\ today'[s].calls = today[s].calls /\ today'[s].kept = today[s].kept
             /\ dailyLLMUsed'[s] = dailyLLMUsed[s] /\ dailyObsKept'[s] = dailyObsKept[s]
          \/ /\ today'[s].calls = today[s].calls + 1 /\ today'[s].kept = today[s].kept
             /\ dailyLLMUsed'[s] = dailyLLMUsed[s] + 1 /\ dailyObsKept'[s] = dailyObsKept[s]
          \/ /\ today'[s].calls = today[s].calls /\ today'[s].kept = today[s].kept + 1
             /\ dailyLLMUsed'[s] = dailyLLMUsed[s] /\ dailyObsKept'[s] = dailyObsKept[s] + 1
      <4>1. CASE s = cycle.src
        BY <2>2, <4>1, CountersTyped
      <4>2. CASE s # cycle.src
        BY <2>2, <4>2, CountersTyped
      <4> QED BY <4>1, <4>2
    <3> HIDE DEF ObsCap
    <3> QED BY <3>1, <3>2, <3>3, <3>4
  <2>5. CountersAccount'
    BY <2>1, <2>3, <2>4 DEF CountersAccount
  <2>6. DailyCaps'
    <3> SUFFICES ASSUME NEW s \in Sources
                 PROVE  today'[s].calls <= MaxDailyLLM * lives /\ today'[s].kept <= ObsCap * lives
      BY <2>1 DEF DailyCaps
    <3>1. /\ today'[s].calls \in Nat /\ today'[s].kept \in Nat
          /\ dailyLLMUsed'[s] \in 0..MaxDailyLLM /\ dailyObsKept'[s] \in 0..ObsCap
      BY Parts DEF TypeInv, TypeParts, CountersType, HistoryType
    <3> HIDE DEF ObsCap
    <3> QED BY <1>0, <2>3, <2>4, <3>1, OneMoreLife
  <2> QED BY <2>5, <2>6
<1> QED BY <1>1, <1>2, <1>3, <1>4, <1>5, MeteredSteps

-----------------------------------------------------------------------------
(* The theorems. *)

IInv ==
  /\ TypeInv /\ HandledIsSettled
  /\ RunningMeansWorking
  /\ SeenBeforeSaved /\ RowsClaimWhatWasSeen
  /\ KeptInv
  /\ DatesArePast /\ BatchCovers /\ BatchIsEmptied /\ BackfillIsResumable
  /\ DailyCaps /\ CountersAccount

LEMMA InitInv == Init => IInv
<1> SUFFICES ASSUME Init PROVE IInv
  OBVIOUS
<1>1. TypeInv
  BY InitTyped
<1>2. cycle.pc = "off" /\ cycle.newCursor = 0
  BY DEF Init, Off
<1>3. HandledIsSettled /\ RunningMeansWorking /\ RowsClaimWhatWasSeen
  BY Constants DEF Init, NoRow, HandledIsSettled, RunningMeansWorking, RowsClaimWhatWasSeen
<1>4. SeenBeforeSaved /\ BatchCovers /\ BatchIsEmptied
  BY <1>2 DEF SeenBeforeSaved, BatchCovers, BatchIsEmptied, InItems
<1>5. KeptInv
  <2>1. \A i \in Items : rows[i].fp = 0 /\ version[i] \in {0, 1}
    BY DEF Init, NoRow
  <2> QED BY <1>2, <2>1, Constants
          DEF Init, KeptInv, FingerprintsArePast, HandIsDue, FoundIsPast, SavedSoFar,
              ProcessedIsKept, InBatch, InHand
<1>6. DatesArePast /\ BackfillIsResumable
  <2>1. \A i \in Items : stamp[i] \in {0, 1}
    BY DEF Init
  <2>2. \A s \in Mail : state[s].cursor = 0
    BY Constants DEF Init
  <2>3. \A s \in Mail : \A i \in ItemsOf[s] : i \in Items
    BY MailItems
  <2> QED BY <1>2, <2>1, <2>2, <2>3, SMTT(30) DEF Init, DatesArePast, BackfillIsResumable
<1>7. DailyCaps /\ CountersAccount
  <2>1. day = 1 /\ lastResetDay = 0 /\ lives = 0
    BY DEF Init
  <2>2. ~InUse
    BY <1>2, <2>1 DEF InUse
  <2>3. MaxDailyLLM * 0 = 0 /\ (MaxDailyObs + PerItem - 1) * 0 = 0
    BY Constants
  <2>4. \A s \in Sources : today[s].calls = 0 /\ today[s].kept = 0
    BY DEF Init
  <2> QED BY <2>1, <2>2, <2>3, <2>4 DEF DailyCaps, CountersAccount
<1> QED BY <1>1, <1>3, <1>4, <1>5, <1>6, <1>7 DEF IInv

LEMMA StepInv == IInv /\ [Next]_vars => IInv'
<1> SUFFICES ASSUME IInv, [Next]_vars PROVE IInv'
  OBVIOUS
<1>1. TypeInv'
  BY StepTyped DEF IInv
<1>2. RunningMeansWorking' /\ SeenBeforeSaved' /\ RowsClaimWhatWasSeen' /\ KeptInv'
  BY RunningStep, SeenStep, RowsStep, KeptStep DEF IInv
<1>3. /\ HandledIsSettled' /\ DatesArePast' /\ BatchCovers' /\ BatchIsEmptied'
      /\ BackfillIsResumable'
  BY HandledStep, DatesStep, BatchCoversStep, BatchEmptiedStep, BackfillStep DEF IInv
<1>4. DailyCaps' /\ CountersAccount'
  BY <1>1, CountersStep DEF IInv
<1> QED BY <1>1, <1>2, <1>3, <1>4 DEF IInv

\* The invariant that carries all of them: it holds at first, and every step
\* keeps it.
THEOREM Invariance == Spec => []IInv
BY InitInv, StepInv, PTL DEF Spec

\* Every variable keeps its type; the counters stay within their limits.
THEOREM TypeCorrect == Spec => []TypeOK
<1>1. IInv => TypeOK
  BY DEF IInv, TypeInv
<1> QED BY <1>1, Invariance, PTL

\* What a source costs on a day is bounded by its limits and by how often its
\* counters were put to use, over any number of cycles, failures and restarts.
THEOREM DailyCostIsBounded == Spec => []DailyCaps
<1>1. IInv => DailyCaps
  BY DEF IInv
<1> QED BY <1>1, Invariance, PTL

\* A backfill's cursor passes no message that was not dealt with, whenever the
\* process crashes.
THEOREM BackfillSurvivesCrashes == Spec => []BackfillIsResumable
<1>1. IInv => BackfillIsResumable
  BY DEF IInv
<1> QED BY <1>1, Invariance, PTL

\* What Claude found in a text is there once the table says that the text was processed,
\* whatever crash, fault, edit or cleanup came between the steps; except what the user took
\* out and what could not be saved.
THEOREM ProcessedTextsAreKept == Spec => []ProcessedIsKept
<1>1. IInv => ProcessedIsKept
  BY DEF IInv, KeptInv
<1> QED BY <1>1, Invariance, PTL

\* While the tables can be written, a source marked "running" is being worked
\* on, so that the guard against overlapping runs never locks a source out.
THEOREM NoSourceIsLockedOut == Spec => []RunningMeansWorking
<1>1. IInv => RunningMeansWorking
  BY DEF IInv
<1> QED BY <1>1, Invariance, PTL

\* The fingerprint recorded for a note is one of a text that was extracted.
THEOREM RowsAreHonest == Spec => []RowsClaimWhatWasSeen
<1>1. IInv => RowsClaimWhatWasSeen
  BY DEF IInv
<1> QED BY <1>1, Invariance, PTL

=============================================================================
