--------------------------- MODULE ExtensionsProofs ---------------------------
(***************************************************************************)
(* Proofs about Extensions, for any names, tools, callers, calls and       *)
(* troubles, in the daemon and in a skills server: no open connection is   *)
(* lost, what runs is what the registry says, and an environment's values  *)
(* reach their server.                                                     *)
(*                                                                         *)
(* The invariant says where a call may be (Course), whose the connections  *)
(* are (HandsInv), and of every name on which no calls overlapped what is  *)
(* true of its server, tools, skill and environment: between calls (Calm)  *)
(* and at each place of the call that works on it (Under).  A step of one  *)
(* call disturbs the latter only of its own name.                          *)
(* Two parts hold on every name: the registry's file is its map, but for a *)
(* start that could not read it (DiskInv), and what is held or about to be *)
(* put somewhere runs (Live).                                              *)
(*                                                                         *)
(* The last part is about the skill collections (SkillLoader), for any     *)
(* directories, names and number of edits: a directory is up to date, or   *)
(* its last event or the step in progress will bring it up to date.        *)
(***************************************************************************)
EXTENDS MCSkills, SequenceTheorems, TLAPS

-------------------------------------------------------------------------------
(* Types. *)

AllKinds == Mcp \cup {"exec", "prompt", "none"}
Entries == [kind : AllKinds, env : BOOLEAN]
Connections == [of : Names, env : Nat, tools : SUBSET Tools, by : Ops \cup {Free}, open : BOOLEAN]
Places ==
  {"off", "reserve", "connect", "store", "unreserve", "persist", "persistAnyway", "register",
   "unregister", "unpersist", "removeServer", "take", "removeTools", "credRead", "credSet", "update",
   "dropRead", "credDelete", "resolve", "dial", "offer", "swap", "removeStale", "closeOld", "reload",
   "reloadAndStart", "autoStart", "retry", "return"}
OpRecords ==
  [pc : Places, call : {"none", "load", "add", "again", "remove", "set", "unset"},
   x : Names \cup {"none"}, kind : AllKinds, env : Nat, conn : Nat, old : Nat,
   todo : SUBSET Tools, snap : [Names -> Nat], tries : Int]

TypeInv ==
  /\ mode \in {"api", "cli"} /\ proc \in {"down", "loading", "serving", "closing"}
  /\ reg \in [Names -> Entries] /\ creds \in [Names -> Nat]
  /\ skills \subseteq Names /\ reload \in BOOLEAN /\ raced \subseteq Names /\ waived \subseteq Names
  /\ budgets \in [calls : Nat, troubles : Nat]
  /\ conns \in Seq(Connections) /\ servers \in [Names -> Int] /\ tracked \in [Names -> Nat]
  /\ served \in [Names -> [Tools -> Nat]] /\ op \in [Ops -> OpRecords]

-------------------------------------------------------------------------------
(* Which call is where. *)

Active(w) == op[w] # Off
Serving == proc \in {"loading", "serving"}
Dialing == {"resolve", "dial", "offer", "swap", "removeStale", "closeOld"}
Starting == {"reserve", "connect", "store", "unreserve"}

\* The places of a call, by what it is, for which kind and in which process.
LoadAt(w) ==
  /\ w \in Loaders /\ op[w].x = w /\ op[w].kind \in Mcp
  /\ IF mode = "api" THEN op[w].pc \in Starting ELSE op[w].pc \in Dialing \cup {"retry"}
  /\ op[w].pc = "retry" => op[w].kind = "http"
  /\ proc = "serving" => op[w].kind = "http" /\ mode = "cli"
AddAt(w) ==
  IF op[w].pc = "reload" THEN TRUE
  ELSE CASE op[w].kind = "exec" -> op[w].pc \in {"register", "persist", "unregister"}
         [] op[w].kind = "prompt" -> op[w].pc = "persist"
         [] op[w].kind \in Mcp ->
              /\ op[w].pc \in {"persistAnyway", "reloadAndStart", "autoStart"} => op[w].kind = "http"
              /\ op[w].pc = "return" => op[w].kind = "stdio"
              /\ IF mode = "api"
                 THEN op[w].pc \in Starting \cup {"persist", "persistAnyway", "removeServer", "return"}
                 ELSE op[w].pc \in Dialing \cup {"persist", "reloadAndStart", "autoStart"}
         [] OTHER -> FALSE
RemoveAt(w) ==
  \/ op[w].pc = "unpersist"
  \/ op[w].kind = "exec" /\ op[w].pc = "unregister"
  \/ op[w].kind \in Mcp /\ mode = "api" /\ op[w].pc \in {"removeServer", "reload"}
  \/ op[w].kind \in Mcp /\ mode = "cli" /\ op[w].pc \in {"take", "removeTools", "closeOld"}
EnvAt(w) ==
  \/ op[w].pc \in {"update", "dropRead", "credDelete", "resolve", "reload"}
  \/ op[w].call = "set" /\ op[w].pc \in {"credRead", "credSet"}
  \/ mode = "cli" /\ op[w].kind \in Mcp /\ op[w].pc \in Dialing

PlaceOf(w) ==
  /\ op[w].x \in Names /\ proc # "down"
  /\ op[w].call = "load" \/ (w \in Callers /\ proc # "loading" /\ budgets.calls > 0)
  /\ CASE op[w].call = "load" -> LoadAt(w)
       [] op[w].call = "add" -> AddAt(w)
       [] op[w].call = "again" -> mode = "cli" /\ op[w].kind = "http" /\ op[w].pc \in Dialing
       [] op[w].call = "remove" -> RemoveAt(w)
       [] op[w].call \in EnvCalls -> EnvAt(w)
       [] OTHER -> FALSE
Course == \A w \in Ops : Active(w) => PlaceOf(w)

\* What belongs to one mode only, and what a process starts with.
OneHolder ==
  /\ mode = "cli" => \A x \in Names : servers[x] = Absent
  /\ mode = "api" => \A x \in Names : tracked[x] = NoConn /\ \A t \in Tools : served[x][t] = NoConn
  /\ proc = "closing" => mode = "api"
  /\ proc = "down" => /\ conns = <<>> /\ \A w \in Ops : ~Active(w)
                      /\ \A x \in Names : servers[x] = Absent /\ tracked[x] = NoConn
                                            /\ \A t \in Tools : served[x][t] = NoConn

-------------------------------------------------------------------------------
(* Who has a connection. *)

Of(c, x) == c = NoConn \/ (c \in DOMAIN conns /\ conns[c].of = x)
ConnsAreOf ==
  /\ \A x \in Names : Of(tracked[x], x) /\ (servers[x] = Reserved \/ Of(servers[x], x))
  /\ \A w \in Ops : Of(op[w].conn, op[w].x) /\ Of(op[w].old, op[w].x)

\* A call has a connection in hand only at places that put it somewhere.
HandOf(w) ==
  /\ op[w].conn # NoConn <=> \/ op[w].pc \in {"store", "offer", "swap", "removeStale"}
                             \/ op[w].pc = "closeOld" /\ op[w].call # "remove"
  /\ op[w].old # NoConn => op[w].pc \in {"removeStale", "removeTools", "closeOld"}
Hands == \A w \in Ops : HandOf(w)

\* A reserved name is one call's, which is starting its server.
HasReserved(w) == op[w].pc \in {"connect", "store", "unreserve"}
Reservations ==
  proc # "closing" =>
    /\ \A w \in Ops : HasReserved(w) => servers[op[w].x] = Reserved
    /\ \A v, w \in Ops : HasReserved(v) /\ HasReserved(w) /\ op[v].x = op[w].x => v = w

\* What a call has put in place of another is there still, or the next call has taken it
\* out and will close it.
Succeeded ==
  \A w \in Ops : op[w].pc \in {"removeStale", "closeOld"} /\ op[w].conn # NoConn =>
    \/ ~conns[op[w].conn].open \/ tracked[op[w].x] = op[w].conn
    \/ \E v \in Ops \ {w} : op[v].old = op[w].conn

\* At a start there is nothing to replace.
NothingToReplace ==
  /\ \A w \in Ops : op[w].call = "load" /\ op[w].kind = "stdio" => op[w].old = NoConn
  /\ proc = "loading" =>
       \A w \in Ops : op[w].pc \in {"resolve", "dial", "offer", "swap"} => tracked[op[w].x] = NoConn

HandsInv == ConnsAreOf /\ Hands /\ Reservations /\ Succeeded /\ NothingToReplace

-------------------------------------------------------------------------------
(* Names on which no two operations overlapped. *)

Alone ==
  \A v, w \in Ops : v # w /\ Active(v) /\ Active(w) =>
    /\ op[v].x = op[w].x => op[w].x \in raced
    /\ op[v].call \in EnvCalls /\ op[w].call \in EnvCalls => op[w].x \in raced

\* What a call has read of the credential store is what it still holds, but for raced names.
SnapshotOf(w) ==
  op[w].pc \in {"credSet", "credDelete"} => \A y \in Names \ raced : op[w].snap[y] = creds[y]
Snapshots == \A w \in Ops : SnapshotOf(w)

Clean(x) == x \in Names /\ x \notin raced /\ x \notin waived
Want(x) == IF reg[x].env THEN creds[x] ELSE 0

\* A reference has its value: it is stored first and deleted last.
ValueIs(w, x) ==
  /\ op[w].pc = "update" /\ op[w].call = "set" => creds[x] # 0
  /\ op[w].pc \in {"dropRead", "credDelete"} => ~reg[x].env
RefersToValue ==
  /\ \A x \in Names : Clean(x) /\ reg[x].env => creds[x] # 0
  /\ \A w \in Ops : Active(w) /\ Clean(op[w].x) => ValueIs(w, op[w].x)

\* The kind a call goes by is the registry's, once it is there and until it is removed.
KindIs(w, x) ==
  CASE op[w].call \in {"load", "again", "set", "unset"} -> reg[x].kind = op[w].kind
    [] op[w].call = "add" ->
         /\ op[w].pc \in Dialing \cup {"reloadAndStart", "autoStart"} => reg[x] = Entry(op[w].kind)
         /\ op[w].kind = "exec" => reg[x].kind # "exec"
    [] op[w].call = "remove" -> IF op[w].pc = "unpersist" THEN reg[x].kind = op[w].kind
                                ELSE reg[x] = None

\* The exec skills; another call or kind leaves them alone.
SkillIs(w, x) ==
  /\ op[w].pc # "unregister" /\ ~(op[w].call = "add" /\ op[w].kind = "exec" /\ op[w].pc = "persist")
       => (x \in skills <=> reg[x].kind = "exec")
  /\ op[w].pc = "unregister" => reg[x].kind # "exec"
  /\ op[w].call = "add" /\ op[w].kind = "exec" /\ op[w].pc = "persist" => x \in skills

ServerOk(x) == HasServer(x) => reg[x].kind \in Mcp
ServerIs(w, x) ==
  CASE op[w].pc = "persist" /\ op[w].kind \in Mcp /\ mode = "api" -> HasServer(x)
    [] op[w].pc = "removeServer" -> TRUE
    [] OTHER -> ServerOk(x)

\* The tools that are offered are those of connection c, and else of d.
Served(x, c, C, d) ==
  \A t \in Tools : served[x][t] = IF t \in C THEN c ELSE IF t \in Offers(d) THEN d ELSE NoConn
TrackOk(x) == tracked[x] # NoConn => reg[x].kind \in Mcp /\ Open(tracked[x])
ToolsOk(x) == Served(x, tracked[x], Offers(tracked[x]), NoConn)
ToolsAre(w, x) ==
  CASE op[w].pc \in {"offer", "swap"} ->
         /\ TrackOk(x) /\ Open(op[w].conn) /\ op[w].conn # tracked[x]
         /\ op[w].pc = "swap" => op[w].todo = {}
         /\ op[w].todo \subseteq Offers(op[w].conn)
         /\ Served(x, op[w].conn, Offers(op[w].conn) \ op[w].todo, tracked[x])
    [] op[w].pc = "removeStale" ->
         /\ TrackOk(x) /\ tracked[x] = op[w].conn /\ op[w].old # op[w].conn
         /\ Served(x, op[w].conn, Offers(op[w].conn), op[w].old)
    [] op[w].pc = "closeOld" ->
         /\ TrackOk(x) /\ ToolsOk(x) /\ tracked[x] = op[w].conn
         /\ op[w].old \in {NoConn} \cup (Nat \ {op[w].conn})
    [] op[w].pc = "take" -> ToolsOk(x)
    [] op[w].pc = "removeTools" -> tracked[x] = NoConn /\ Served(x, op[w].old, Offers(op[w].old), NoConn)
    [] OTHER -> TrackOk(x) /\ ToolsOk(x)

\* The environment of the server that runs; a call that has changed the value has still to
\* connect or to ask for a reload.
Asked(x) == reload \/ x \in unasked
EnvOk(x) ==
  mode = "cli" /\ reg[x].kind = "stdio" /\ tracked[x] # NoConn =>
    Asked(x) \/ conns[tracked[x]].env = Want(x)
Stale(w, x) ==
  \/ op[w].call = "set" /\ op[w].pc = "update" /\ reg[x].env
  \/ op[w].call = "unset" /\ op[w].pc \in {"dropRead", "credDelete"}
  \/ op[w].call \in EnvCalls /\ op[w].pc \in {"resolve", "dial", "offer", "swap", "reload"}
EnvIs(w, x) ==
  /\ Stale(w, x) \/ EnvOk(x)
  /\ reg[x].kind = "stdio" =>
       /\ op[w].pc = "dial" => op[w].env = Want(x)
       /\ op[w].pc \in {"offer", "swap"} => conns[op[w].conn].env = Want(x)

Under(w, x) == KindIs(w, x) /\ SkillIs(w, x) /\ ServerIs(w, x) /\ ToolsAre(w, x) /\ EnvIs(w, x)
Calm(x) == (x \in skills <=> reg[x].kind = "exec") /\ ServerOk(x) /\ TrackOk(x) /\ ToolsOk(x) /\ EnvOk(x)
UpToDate ==
  Serving => \A x \in Names : Clean(x) =>
    /\ (\A w \in Ops : Active(w) => op[w].x # x) => Calm(x)
    /\ \A w \in Ops : Active(w) /\ op[w].x = x => Under(w, x)

IInv ==
  /\ TypeInv /\ Course /\ OneHolder /\ HandsInv
  /\ Alone /\ Snapshots /\ RefersToValue /\ UpToDate

-------------------------------------------------------------------------------
(* The step of one operation. *)

LEMMA Constants == /\ Callers \cap Names = {} /\ NoConn = 0 /\ Absent = 0 /\ Reserved = -1
                   /\ Ops = Callers \cup Names /\ {0, MaxCalls, MaxRetries} \subseteq Nat
                   /\ \A x \in DOMAIN Defaults : x \in Names
  BY ExtensionsAssumption DEF ExtensionsAssumption, Loaders, NoConn, Absent, Reserved, Ops

LEMMA OffIs ==
  /\ Off.pc = "off" /\ Off.call = "none" /\ Off.x = "none" /\ Off.kind = "none" /\ Off.conn = 0
  /\ Off.old = 0
  /\ MaxRetries \in Nat => Off \in OpRecords
  BY DEF Off, NoConn, OpRecords, Places, AllKinds, Mcp

\* An operation under way is at a place.
LEMMA ActiveIs ==
  ASSUME Course, NEW w \in Ops
  PROVE  Active(w) <=> op[w].pc # "off"
  BY OffIs DEF Course, PlaceOf, Active, LoadAt, AddAt, RemoveAt, EnvAt, Dialing, Starting, EnvCalls, Mcp

\* A step of operation w on name x leaves the other operations and names alone.
Local(w, x) ==
  /\ \A v \in Ops \ {w} : op'[v] = op[v]
  /\ mode' = mode /\ proc' = proc
  /\ raced \subseteq raced' /\ waived \subseteq waived' /\ (reload => reload') /\ unasked \subseteq unasked'
  /\ budgets'.calls >= budgets.calls
  /\ \A y \in Names \ {x} :
       /\ reg'[y] = reg[y] /\ (y \in skills' <=> y \in skills)
       /\ servers'[y] = servers[y] /\ tracked'[y] = tracked[y] /\ served'[y] = served[y]
  /\ Len(conns) <= Len(conns')
  /\ \A c \in 1..Len(conns) :
       /\ conns'[c].of = conns[c].of /\ conns'[c].env = conns[c].env /\ conns'[c].tools = conns[c].tools
       /\ conns'[c].open => conns[c].open
       /\ conns[c].of # x => conns'[c].open = conns[c].open

\* The credential store changes for a call about a variable, and then for x.
CredsLocal(w, x) ==
  \/ creds' = creds
  \/ op[w].call \in EnvCalls /\ \A y \in Names \ (raced \cup {x}) : creds'[y] = creds[y]

Mine(w, x) ==
  /\ Active(w) /\ op[w].x = x
  /\ \/ op'[w] = Off
     \/ op'[w].x = x /\ (op'[w].call \in EnvCalls => op[w].call \in EnvCalls)

LEMMA CourseKept ==
  ASSUME TypeInv, TypeInv', Course, NEW w \in Ops, NEW x \in Names, Local(w, x), Active(w)' => PlaceOf(w)'
  PROVE  Course'
<1>1. ASSUME NEW v \in Ops \ {w}, Active(v)'
      PROVE  PlaceOf(v)'
  <2>1. Active(v) /\ op'[v] = op[v] /\ mode' = mode /\ proc' = proc
    BY <1>1 DEF Local, Active
  <2>2. PlaceOf(v) /\ (budgets.calls > 0 => budgets'.calls > 0)
    BY <2>1 DEF Course, Local, TypeInv
  <2> QED BY <2>1, <2>2 DEF PlaceOf, LoadAt, AddAt, RemoveAt, EnvAt
<1> QED BY <1>1 DEF Course

LEMMA AloneKept ==
  ASSUME Alone, NEW w \in Ops, NEW x \in Names, Local(w, x), Mine(w, x)
  PROVE  Alone'
<1>1. ASSUME NEW v \in Ops, NEW u \in Ops, v # u, Active(v)', Active(u)'
      PROVE  /\ op'[v].x = op'[u].x => op'[u].x \in raced'
             /\ op'[v].call \in EnvCalls /\ op'[u].call \in EnvCalls => op'[u].x \in raced'
  <2>1. Active(v) /\ Active(u) /\ op'[v].x = op[v].x /\ op'[u].x = op[u].x
        /\ (op'[v].call \in EnvCalls => op[v].call \in EnvCalls)
        /\ (op'[u].call \in EnvCalls => op[u].call \in EnvCalls)
    BY <1>1 DEF Local, Mine, Active
  <2> QED BY <1>1, <2>1 DEF Alone, Local
<1> QED BY <1>1 DEF Alone

LEMMA SnapshotsKept ==
  ASSUME TypeInv, Course, Alone, Snapshots, NEW w \in Ops, NEW x \in Names, Local(w, x), Mine(w, x),
         CredsLocal(w, x), SnapshotOf(w)'
  PROVE  Snapshots'
<1>1. ASSUME NEW v \in Ops \ {w}, op'[v].pc \in {"credSet", "credDelete"}, NEW y \in Names \ raced'
      PROVE  op'[v].snap[y] = creds'[y]
  <2>1. op'[v] = op[v] /\ y \notin raced /\ Active(v)
    BY <1>1, ActiveIs DEF Local
  <2>2. op[v].snap[y] = creds[y]
    BY <1>1, <2>1 DEF Snapshots, SnapshotOf
  <2>3. op[v].call \in EnvCalls
    BY <1>1, <2>1 DEF Course, PlaceOf, LoadAt, AddAt, RemoveAt, Dialing, Starting, Mcp
  <2>4. CASE creds' = creds
    BY <2>1, <2>2, <2>4
  <2>5. CASE op[w].call \in EnvCalls /\ \A z \in Names \ (raced \cup {x}) : creds'[z] = creds[z]
    <3>1. x \in raced
      BY <2>1, <2>3, <2>5 DEF Alone, Mine
    <3> QED BY <2>1, <2>2, <2>5, <3>1
  <2> QED BY <2>4, <2>5 DEF CredsLocal
<1> QED BY <1>1 DEF Snapshots, SnapshotOf

LEMMA RefersKept ==
  ASSUME TypeInv, Course, Alone, RefersToValue, NEW w \in Ops, NEW x \in Names, Local(w, x), Mine(w, x),
         CredsLocal(w, x),
         Clean(x)' => (reg'[x].env => creds'[x] # 0) /\ (Active(w)' => ValueIs(w, x)')
  PROVE  RefersToValue'
<1>1. ASSUME NEW y \in Names, Clean(y)', y # x
      PROVE  Clean(y) /\ reg'[y] = reg[y] /\ creds'[y] = creds[y]
  BY <1>1 DEF Local, Clean, CredsLocal
<1>2. ASSUME NEW y \in Names, Clean(y)', reg'[y].env
      PROVE  creds'[y] # 0
  BY <1>1, <1>2 DEF RefersToValue
<1>3. ASSUME NEW v \in Ops, Active(v)', Clean(op[v].x)'
      PROVE  ValueIs(v, op[v].x)'
  <2>1. CASE v = w
    BY <1>3, <2>1 DEF Mine, Active
  <2>2. CASE v # w
    <3>1. op'[v] = op[v] /\ Active(v)
      BY <1>3, <2>2 DEF Local, Active
    <3>2. op[v].x # x /\ op[v].x \in Names
      BY <1>3, <2>2, <3>1 DEF Alone, Mine, Local, Clean
    <3>3. ValueIs(v, op[v].x)
      BY <1>1, <1>3, <3>1, <3>2 DEF RefersToValue
    <3> QED BY <1>1, <1>3, <3>1, <3>2, <3>3 DEF ValueIs
  <2> QED BY <2>1, <2>2
<1> QED BY <1>2, <1>3 DEF RefersToValue

\* What is said of a name is said of its parts of the state.
SameFor(y) ==
  /\ reg'[y] = reg[y] /\ (y \in skills' <=> y \in skills) /\ mode' = mode /\ (reload => reload') /\ unasked \subseteq unasked'
  /\ servers'[y] = servers[y] /\ tracked'[y] = tracked[y] /\ served'[y] = served[y]
  /\ creds'[y] = creds[y] \/ ~reg[y].env
  /\ Len(conns) <= Len(conns')
  /\ \A c \in 1..Len(conns) : conns[c].of = y =>
       /\ conns'[c].env = conns[c].env /\ conns'[c].tools = conns[c].tools
       /\ conns'[c].open = conns[c].open

LEMMA OpensAreSame ==
  ASSUME TypeInv, NEW y \in Names, SameFor(y), NEW c \in Nat, Of(c, y)
  PROVE  Open(c)' = Open(c) /\ Offers(c)' = Offers(c) /\ (c # NoConn => conns'[c].env = conns[c].env)
<1>1. CASE c = NoConn
  BY <1>1 DEF Open, Offers
<1>2. CASE c # NoConn
  <2>1. c \in 1..Len(conns) /\ conns[c].of = y
    BY <1>2 DEF Of, TypeInv
  <2>2. conns'[c].env = conns[c].env /\ conns'[c].tools = conns[c].tools /\ conns'[c].open = conns[c].open
    BY <2>1 DEF SameFor
  <2> QED BY <1>2, <2>2 DEF Open, Offers
<1> QED BY <1>1, <1>2

LEMMA SameKeepsCalm ==
  ASSUME TypeInv, ConnsAreOf, NEW y \in Names, SameFor(y), Calm(y)
  PROVE  Calm(y)'
<1>1. tracked[y] \in Nat /\ Of(tracked[y], y) /\ tracked'[y] = tracked[y] /\ servers'[y] = servers[y]
  BY DEF TypeInv, ConnsAreOf, SameFor
<1>2. HasServer(y) => servers[y] \in Nat /\ Of(servers[y], y)
  BY Constants DEF ConnsAreOf, HasServer, Of, TypeInv
<1>3. ServerOk(y)'
  BY <1>1, <1>2, OpensAreSame DEF ServerOk, HasServer, Calm, SameFor
<1>4. TrackOk(y)'
  BY <1>1, OpensAreSame DEF TrackOk, Calm, SameFor
<1>5. ToolsOk(y)'
  <2>1. Offers(tracked[y])' = Offers(tracked[y]) /\ Offers(NoConn)' = {} /\ Offers(NoConn) = {}
    BY <1>1, OpensAreSame DEF Offers
  <2> QED BY <1>1, <2>1 DEF ToolsOk, Served, Calm, SameFor
<1>6. EnvOk(y)'
  BY <1>1, OpensAreSame DEF EnvOk, Asked, Want, Calm, SameFor
<1> QED BY <1>3, <1>4, <1>5, <1>6 DEF Calm, SameFor

LEMMA SameKeepsUnder ==
  ASSUME TypeInv, ConnsAreOf, NEW y \in Names, SameFor(y), NEW w \in Ops, op'[w] = op[w], op[w].x = y,
         Under(w, y)
  PROVE  Under(w, y)'
<1>1. tracked[y] \in Nat /\ Of(tracked[y], y) /\ tracked'[y] = tracked[y] /\ servers'[y] = servers[y]
  BY DEF TypeInv, ConnsAreOf, SameFor
<1>2. HasServer(y) => servers[y] \in Nat /\ Of(servers[y], y)
  BY Constants DEF ConnsAreOf, HasServer, Of, TypeInv
<1>3. op[w].conn \in Nat /\ op[w].old \in Nat /\ Of(op[w].conn, y) /\ Of(op[w].old, y)
  BY DEF TypeInv, OpRecords, ConnsAreOf
<1>4. \A c \in {tracked[y], op[w].conn, op[w].old} :
        Open(c)' = Open(c) /\ Offers(c)' = Offers(c) /\ (c # NoConn => conns'[c].env = conns[c].env)
  BY <1>1, <1>3, OpensAreSame
<1>5. KindIs(w, y)' /\ SkillIs(w, y)'
  BY DEF Under, KindIs, SkillIs, SameFor
<1>6. (HasServer(y)' <=> HasServer(y)) /\ (HasServer(y) => Open(servers[y])' = Open(servers[y]))
  BY <1>1, <1>2, OpensAreSame DEF HasServer
<1>7. ServerOk(y)' = ServerOk(y)
  BY <1>1, <1>6 DEF ServerOk, SameFor
<1>8. ServerIs(w, y)'
  BY <1>1, <1>4, <1>6, <1>7 DEF Under, ServerIs, SameFor
<1>9. Offers(NoConn)' = {} /\ Offers(NoConn) = {} /\ served'[y] = served[y]
  BY DEF Offers, SameFor
<1>10. TrackOk(y)' = TrackOk(y) /\ ToolsOk(y)' = ToolsOk(y)
  BY <1>1, <1>4, <1>9 DEF TrackOk, ToolsOk, Served, SameFor
<1>11. ToolsAre(w, y)'
  BY <1>1, <1>4, <1>9, <1>10 DEF Under, ToolsAre, Served
<1>12. reg'[y] = reg[y] /\ Want(y)' = Want(y) /\ mode' = mode
  BY DEF Want, SameFor
<1>13. EnvOk(y) => EnvOk(y)'
  BY <1>1, <1>4, <1>12 DEF EnvOk, Asked, SameFor
<1>14. EnvIs(w, y)'
  <2>1. Stale(w, y)' = Stale(w, y)
    BY <1>12 DEF Stale
  <2>2. op[w].pc \in {"offer", "swap"} /\ op[w].conn # NoConn => conns'[op[w].conn].env = conns[op[w].conn].env
    BY <1>4
  <2>3. op[w].pc \in {"offer", "swap"} => op[w].conn # NoConn
    BY DEF Under, ToolsAre, Open
  <2> QED BY <1>12, <1>13, <2>1, <2>2, <2>3 DEF Under, EnvIs
<1> QED BY <1>5, <1>8, <1>11, <1>14 DEF Under

LEMMA UpToDateKept ==
  ASSUME TypeInv, ConnsAreOf, Alone, UpToDate, NEW w \in Ops, NEW x \in Names, Local(w, x), Mine(w, x),
         CredsLocal(w, x),
         Serving /\ Clean(x)' => IF Active(w)' THEN Under(w, x)' ELSE Calm(x)'
  PROVE  UpToDate'
<1> SUFFICES ASSUME Serving', NEW y \in Names, Clean(y)'
             PROVE  /\ (\A v \in Ops : Active(v)' => op'[v].x # y) => Calm(y)'
                    /\ \A v \in Ops : Active(v)' /\ op'[v].x = y => Under(v, y)'
  BY DEF UpToDate
<1>1. Serving /\ Clean(y)
  BY DEF Serving, Local, Clean
<1>2. CASE y = x
  <2>1. \A v \in Ops \ {w} : Active(v)' => op'[v].x # x
    BY <1>2 DEF Alone, Mine, Local, Clean, Active
  <2>2. (\A v \in Ops : Active(v)' => op'[v].x # x) => ~Active(w)'
    BY DEF Mine, Active
  <2> QED BY <1>1, <1>2, <2>1, <2>2
<1>3. CASE y # x
  <2>1. SameFor(y)
    BY <1>1, <1>3 DEF Local, CredsLocal, SameFor, Clean
  <2>2. ASSUME \A v \in Ops : Active(v)' => op'[v].x # y
        PROVE  Calm(y)'
    <3>1. \A v \in Ops : Active(v) => op[v].x # y
      BY <1>3, <2>2 DEF Local, Mine, Active
    <3> QED BY <1>1, <2>1, <3>1, SameKeepsCalm DEF UpToDate
  <2>3. ASSUME NEW v \in Ops, Active(v)', op'[v].x = y
        PROVE  Under(v, y)'
    <3>1. v # w
      BY <1>3, <2>3 DEF Mine, Active
    <3>2. op'[v] = op[v] /\ Active(v) /\ op[v].x = y
      BY <2>3, <3>1 DEF Local, Active
    <3>3. Under(v, y)
      BY <1>1, <3>2 DEF UpToDate
    <3> QED BY <2>1, <3>2, <3>3, SameKeepsUnder
  <2> QED BY <2>2, <2>3
<1> QED BY <1>2, <1>3

LEMMA StepKeeps ==
  ASSUME IInv, NEW w \in Ops, NEW x \in Names, Local(w, x), Mine(w, x), CredsLocal(w, x),
         TypeInv', OneHolder', HandsInv', Active(w)' => PlaceOf(w)', SnapshotOf(w)',
         Clean(x)' => (reg'[x].env => creds'[x] # 0) /\ (Active(w)' => ValueIs(w, x)'),
         Serving /\ Clean(x)' => IF Active(w)' THEN Under(w, x)' ELSE Calm(x)'
  PROVE  IInv'
<1>1. Course' /\ Alone' /\ Snapshots'
  BY CourseKept, AloneKept, SnapshotsKept DEF IInv
<1>2. RefersToValue'
  BY RefersKept DEF IInv
<1>3. UpToDate'
  BY UpToDateKept DEF IInv, HandsInv
<1> QED BY <1>1, <1>2, <1>3 DEF IInv

\* A step that has to do with no connection: operation w goes on as r.
InHand == {"store", "offer", "swap", "removeStale", "removeTools", "closeOld"}
Move(w, x, r) ==
  /\ Active(w) /\ op[w].x = x /\ op[w].pc \notin InHand
  /\ op' = [op EXCEPT ![w] = r] /\ r \in OpRecords
  /\ \/ r = Off
     \/ /\ r.x = x /\ (r.call \in EnvCalls => op[w].call \in EnvCalls) /\ r.pc # "off"
        /\ r.call = "load" => op[w].call = "load"
        /\ r.pc \notin InHand /\ r.conn = 0 /\ r.old = 0
        /\ r.pc \in {"connect", "unreserve"} => op[w].pc \in {"connect", "unreserve"}
        /\ r.pc \in {"resolve", "dial"} /\ proc = "loading" => op[w].pc = "resolve"
  /\ UNCHANGED <<clientVars, mode, proc, raced>>
  /\ reg' \in [Names -> Entries] /\ \A y \in Names \ {x} : reg'[y] = reg[y]
  /\ skills' \subseteq Names /\ \A y \in Names \ {x} : y \in skills' <=> y \in skills
  /\ reload' \in BOOLEAN /\ (reload => reload') /\ unasked \subseteq unasked'
  /\ creds' \in [Names -> Nat] /\ CredsLocal(w, x)
  /\ budgets' \in [calls : Nat, troubles : Nat] /\ budgets'.calls >= budgets.calls
  /\ waived' \subseteq Names /\ waived \subseteq waived'

LEMMA MoveKeeps ==
  ASSUME IInv, NEW w \in Ops, NEW x \in Names, NEW r, Move(w, x, r),
         r # Off => PlaceOf(w)', SnapshotOf(w)',
         Clean(x)' => (reg'[x].env => creds'[x] # 0) /\ (r # Off => ValueIs(w, x)'),
         Serving /\ Clean(x)' => IF r # Off THEN Under(w, x)' ELSE Calm(x)'
  PROVE  IInv'
<1>1. op \in [Ops -> OpRecords] /\ op' \in [Ops -> OpRecords] /\ op'[w] = r /\ \A v \in Ops \ {w} : op'[v] = op[v]
  BY DEF IInv, TypeInv, Move
<1>2. TypeInv'
  BY <1>1 DEF IInv, TypeInv, Move, clientVars
<1>3. Len(conns) \in Nat /\ conns' = conns /\ \A c \in 1..Len(conns) : c \in DOMAIN conns
  BY DEF Move, IInv, TypeInv, clientVars
<1>4. budgets.calls \in Nat
  BY DEF IInv, TypeInv
<1>5. Local(w, x)
  BY <1>1, <1>3, <1>4 DEF Local, Move, clientVars
<1>6. Mine(w, x) /\ CredsLocal(w, x)
  BY <1>1 DEF Mine, Move
<1>7. Active(w)' <=> r # Off
  BY <1>1 DEF Active
<1>8. OneHolder'
  <2>1. proc # "down" /\ mode' = mode /\ proc' = proc /\ UNCHANGED clientVars
    BY DEF Move, IInv, Course, PlaceOf
  <2> QED BY <2>1 DEF IInv, OneHolder, clientVars
<1>9. op[w].conn = NoConn /\ op[w].old = NoConn /\ op'[w].conn = NoConn /\ op'[w].old = NoConn
      /\ op'[w].pc \notin InHand
  BY <1>1, OffIs, Constants DEF IInv, HandsInv, Hands, HandOf, Move, InHand
<1>10. HandsInv'
  <2>1. UNCHANGED <<conns, servers, tracked, mode, proc>>
    BY DEF Move, clientVars
  <2>2. ConnsAreOf'
    BY <1>1, <1>9, <2>1 DEF IInv, HandsInv, ConnsAreOf, Of
  <2>3. Hands'
    BY <1>1, <1>9 DEF IInv, HandsInv, Hands, HandOf, InHand
  <2>4. Reservations'
    <3>1. HasReserved(w)' => HasReserved(w) /\ op'[w].x = op[w].x
      BY <1>1, <1>9, OffIs DEF HasReserved, Move, InHand
    <3>2. \A v \in Ops : HasReserved(v)' => HasReserved(v) /\ op'[v].x = op[v].x
      BY <1>1, <3>1 DEF HasReserved
    <3> QED BY <2>1, <3>2 DEF IInv, HandsInv, Reservations
  <2>5. Succeeded'
    <3>1. ASSUME NEW v \in Ops, op'[v].pc \in {"removeStale", "closeOld"}, op'[v].conn # NoConn
          PROVE  \/ ~conns'[op'[v].conn].open \/ tracked'[op'[v].x] = op'[v].conn
                 \/ \E u \in Ops \ {v} : op'[u].old = op'[v].conn
      <4>1. op'[v] = op[v] /\ v # w
        BY <1>1, <1>9, <3>1 DEF InHand
      <4>2. \A u \in Ops : op'[u].old = op[u].old
        BY <1>1, <1>9
      <4> QED BY <2>1, <3>1, <4>1, <4>2 DEF IInv, HandsInv, Succeeded
    <3> QED BY <3>1 DEF Succeeded
  <2>6. NothingToReplace'
    <3>1. proc = "loading" /\ op'[w].pc \in {"resolve", "dial", "offer", "swap"} =>
            op[w].pc = "resolve" /\ op'[w].x = op[w].x
      BY <1>1, <1>9, OffIs DEF Move, InHand
    <3>2. \A v \in Ops : op'[v].old = op[v].old
      BY <1>1, <1>9
    <3>3. op'[w].call = "load" /\ op'[w].kind = "stdio" => op'[w].old = NoConn
      BY <1>9
    <3> QED BY <1>1, <2>1, <3>1, <3>2, <3>3 DEF IInv, HandsInv, NothingToReplace
  <2> QED BY <2>2, <2>3, <2>4, <2>5, <2>6 DEF HandsInv
<1> QED BY <1>1, <1>2, <1>5, <1>6, <1>7, <1>8, <1>10, StepKeeps

-------------------------------------------------------------------------------
(* The calls begin. *)

LEMMA SpendIs ==
  ASSUME TypeInv
  PROVE  /\ Spend("calls") => /\ budgets' \in [calls : Nat, troubles : Nat]
                              /\ budgets'.calls = budgets.calls + 1
         /\ Spend("troubles") => /\ budgets' \in [calls : Nat, troubles : Nat]
                                 /\ budgets'.calls = budgets.calls
  BY DEF TypeInv, Spend

LEMMA OthersSeen ==
  ASSUME TypeInv, Course, NEW w \in Ops, NEW call, NEW x \in Names,
         raced' = raced \cup Overlap(w, call, x)
  PROVE  /\ raced \subseteq raced' /\ raced' \subseteq Names
         /\ \A v \in Ops \ {w} : Active(v) =>
              /\ op[v].x = x => x \in raced'
              /\ op[v].call \in EnvCalls /\ call \in EnvCalls => x \in raced' /\ op[v].x \in raced'
<1>1. Overlap(w, call, x) \subseteq Names
  BY DEF Overlap
<1>2. ASSUME NEW v \in Ops \ {w}, Active(v)
      PROVE  /\ op[v].x = x => x \in Overlap(w, call, x)
             /\ op[v].call \in EnvCalls /\ call \in EnvCalls
                  => x \in Overlap(w, call, x) /\ op[v].x \in Overlap(w, call, x)
  <2>1. op[v].x \in Names /\ op[v] # Off
    BY <1>2 DEF Course, PlaceOf, Active
  <2> QED BY <1>2, <2>1 DEF Overlap
<1> QED BY <1>1, <1>2 DEF TypeInv

\* The step that begins a call, and what it is afterwards.
BeginRecord(call, x, kind, pc) == [Off EXCEPT !.pc = pc, !.call = call, !.x = x, !.kind = kind]

BeginNow(w, call, x, kind, pc) ==
  /\ proc = "serving" /\ proc' = proc /\ w \in Callers /\ op[w] = Off /\ budgets'.calls > 0
  /\ UNCHANGED <<clientVars, mode, proc, reg, disk, creds, skills, reload, unasked>>
  /\ mode' = mode
  /\ op'[w].pc = pc /\ op'[w].call = call /\ op'[w].x = x /\ op'[w].kind = kind

LEMMA BeginIs ==
  ASSUME TypeInv, NEW w \in Ops, NEW x \in Names, NEW call, NEW kind, NEW pc, Begin(w, call, x, kind, pc)
  PROVE  BeginNow(w, call, x, kind, pc)
<1>1. Spend("calls") /\ op \in [Ops -> OpRecords] /\ budgets.calls \in Nat
  BY DEF Begin, TypeInv
<1>2. budgets'.calls > 0
  BY <1>1, SpendIs
<1>3. op'[w] = BeginRecord(call, x, kind, pc)
  BY <1>1 DEF Begin, BeginRecord
<1>4. op'[w].pc = pc /\ op'[w].call = call /\ op'[w].x = x /\ op'[w].kind = kind
  BY <1>3 DEF BeginRecord, Off
<1> QED BY <1>2, <1>4 DEF Begin, BeginNow, regVars, credVars

LEMMA BeginKeeps ==
  ASSUME IInv, NEW w \in Ops, NEW x \in Names, NEW call \in {"add", "remove", "set", "unset"},
         NEW kind \in AllKinds, NEW pc \in {"reserve", "persist", "register", "unpersist", "credRead", "update"},
         Begin(w, call, x, kind, pc), waived' \subseteq Names, waived \subseteq waived',
         call = "set" => pc # "update",
         PlaceOf(w)',
         Clean(x)' /\ Calm(x) => Under(w, x)'
  PROVE  IInv'
<1>1. /\ proc = "serving" /\ w \in Callers /\ op[w] = Off /\ budgets.calls' = budgets.calls + 1
      /\ budgets' \in [calls : Nat, troubles : Nat]
      /\ UNCHANGED <<clientVars, mode, proc, reg, disk, creds, skills, reload, unasked>>
      /\ op' = [op EXCEPT ![w] = BeginRecord(call, x, kind, pc)]
      /\ raced' = raced \cup Overlap(w, call, x)
  <2>1. TypeInv /\ Spend("calls")
    BY DEF Begin, IInv
  <2> QED BY <2>1, SpendIs DEF Begin, regVars, credVars, BeginRecord
<1>2. BeginRecord(call, x, kind, pc) \in OpRecords
  BY OffIs, Constants DEF BeginRecord, OpRecords, Places
<1>3. /\ op \in [Ops -> OpRecords] /\ op' \in [Ops -> OpRecords]
      /\ \A v \in Ops \ {w} : op'[v] = op[v] /\ (Active(v)' <=> Active(v))
      /\ op'[w].pc = pc /\ op'[w].call = call /\ op'[w].x = x /\ op'[w].conn = 0 /\ op'[w].old = 0
      /\ ~Active(w)
  BY <1>1, <1>2 DEF IInv, TypeInv, Active, BeginRecord, Off, NoConn
<1>4. /\ raced \subseteq raced' /\ raced' \subseteq Names
      /\ \A v \in Ops \ {w} : Active(v) =>
           /\ op[v].x = x => x \in raced'
           /\ op[v].call \in EnvCalls /\ call \in EnvCalls => x \in raced' /\ op[v].x \in raced'
  BY <1>1, OthersSeen DEF IInv
<1>5. TypeInv'
  BY <1>1, <1>3, <1>4 DEF IInv, TypeInv, clientVars
<1>6. Course'
  <2>1. ASSUME NEW v \in Ops \ {w}, Active(v)'
        PROVE  PlaceOf(v)'
    <3>1. PlaceOf(v) /\ op'[v] = op[v] /\ mode' = mode /\ proc' = proc
          /\ (budgets.calls > 0 => budgets'.calls > 0)
      BY <1>1, <1>3, <2>1 DEF IInv, Course, TypeInv
    <3> QED BY <3>1 DEF PlaceOf, LoadAt, AddAt, RemoveAt, EnvAt
  <2> QED BY <2>1 DEF Course
<1>7. OneHolder'
  BY <1>1 DEF IInv, OneHolder, clientVars
<1>8. HandsInv'
  <2>1. UNCHANGED <<conns, servers, tracked, mode, proc>>
    BY <1>1 DEF clientVars
  <2>2. \A v \in Ops : op'[v].old = op[v].old /\ op'[v].conn = op[v].conn
    BY <1>1, <1>3, OffIs
  <2>3. ConnsAreOf'
    BY <1>1, <1>3, <2>1, Constants DEF IInv, HandsInv, ConnsAreOf, Of
  <2>4. Hands'
    BY <1>3, Constants DEF IInv, HandsInv, Hands, HandOf
  <2>5. Reservations'
    BY <1>3, <2>1 DEF IInv, HandsInv, Reservations, HasReserved
  <2>6. Succeeded'
    <3>1. ASSUME NEW v \in Ops, op'[v].pc \in {"removeStale", "closeOld"}, op'[v].conn # NoConn
          PROVE  \/ ~conns'[op'[v].conn].open \/ tracked'[op'[v].x] = op'[v].conn
                 \/ \E u \in Ops \ {v} : op'[u].old = op'[v].conn
      <4>1. op'[v] = op[v] /\ v # w
        BY <1>3, <3>1
      <4> QED BY <2>1, <2>2, <3>1, <4>1 DEF IInv, HandsInv, Succeeded
    <3> QED BY <3>1 DEF Succeeded
  <2>7. NothingToReplace'
    BY <1>1, <1>3, <2>1 DEF IInv, HandsInv, NothingToReplace
  <2> QED BY <2>3, <2>4, <2>5, <2>6, <2>7 DEF HandsInv
<1>9. Alone'
  <2>1. ASSUME NEW u \in Ops, NEW v \in Ops, u # v, Active(u)', Active(v)'
        PROVE  /\ op'[u].x = op'[v].x => op'[v].x \in raced'
               /\ op'[u].call \in EnvCalls /\ op'[v].call \in EnvCalls => op'[v].x \in raced'
    <3>1. CASE u = w
      BY <1>3, <1>4, <2>1, <3>1
    <3>2. CASE v = w
      BY <1>3, <1>4, <2>1, <3>2
    <3>3. CASE u # w /\ v # w
      BY <1>3, <1>4, <2>1, <3>3 DEF IInv, Alone
    <3> QED BY <3>1, <3>2, <3>3
  <2> QED BY <2>1 DEF Alone
<1>10. Snapshots'
  BY <1>1, <1>3, <1>4 DEF IInv, Snapshots, SnapshotOf
<1>11. \A y : Clean(y)' => Clean(y)
  BY <1>4 DEF Clean
<1>12. RefersToValue'
  <2>1. ValueIs(w, x)'
    BY <1>3 DEF ValueIs
  <2>2. ASSUME NEW v \in Ops \ {w}, Active(v)', Clean(op[v].x)'
        PROVE  ValueIs(v, op[v].x)'
    BY <1>1, <1>3, <1>11, <2>2 DEF IInv, RefersToValue, ValueIs
  <2> QED BY <1>1, <1>3, <1>11, <2>1, <2>2 DEF IInv, RefersToValue
<1>13. UpToDate'
  <2> SUFFICES ASSUME NEW y \in Names, Clean(y)'
               PROVE  /\ (\A v \in Ops : Active(v)' => op'[v].x # y) => Calm(y)'
                      /\ \A v \in Ops : Active(v)' /\ op'[v].x = y => Under(v, y)'
    BY DEF UpToDate
  <2>1. Serving /\ Clean(y) /\ ConnsAreOf /\ TypeInv
    BY <1>1, <1>11 DEF Serving, IInv, HandsInv
  <2>2. SameFor(y)
    <3>1. conns' = conns /\ Len(conns) \in Nat
      BY <1>1 DEF clientVars, IInv, TypeInv
    <3> QED BY <1>1, <3>1 DEF SameFor, clientVars
  <2>3. (\A v \in Ops \ {w} : Active(v) => op[v].x # y) => Calm(y)
    BY <1>3, <2>1 DEF IInv, UpToDate
  <2>4. ASSUME \A v \in Ops : Active(v)' => op'[v].x # y
        PROVE  Calm(y)'
    BY <1>3, <2>1, <2>2, <2>3, <2>4, SameKeepsCalm
  <2>5. ASSUME NEW v \in Ops \ {w}, Active(v)', op'[v].x = y
        PROVE  Under(v, y)'
    BY <1>3, <2>1, <2>2, <2>5, SameKeepsUnder DEF IInv, UpToDate
  <2>6. ASSUME y = x
        PROVE  Under(w, y)'
    <3>1. \A v \in Ops \ {w} : Active(v) => op[v].x # y
      BY <1>4, <2>6 DEF Clean
    <3> QED BY <2>3, <2>6, <3>1
  <2> QED BY <1>3, <2>4, <2>5, <2>6
<1> QED BY <1>5, <1>6, <1>7, <1>8, <1>9, <1>10, <1>12, <1>13 DEF IInv

LEMMA UnderNow ==
  ASSUME IInv, NEW w \in Ops, NEW x \in Names, Active(w), op[w].x = x,
         raced \subseteq raced', waived \subseteq waived', Clean(x)'
  PROVE  /\ Clean(x)
         /\ Serving => Under(w, x)
         /\ (reg[x].env => creds[x] # 0) /\ ValueIs(w, x)
  BY DEF IInv, UpToDate, RefersToValue, Clean

\* Without a step on connections.
LEMMA QuietSame ==
  ASSUME UNCHANGED <<clientVars, mode>>, NEW x \in Names
  PROVE  /\ HasServer(x)' = HasServer(x) /\ ToolsOk(x)' = ToolsOk(x)
         /\ servers' = servers /\ tracked' = tracked /\ served' = served /\ conns' = conns
         /\ reg'[x].kind = reg[x].kind => ServerOk(x)' = ServerOk(x) /\ TrackOk(x)' = TrackOk(x)
         /\ reg'[x] = reg[x] /\ creds'[x] = creds[x] => Want(x)' = Want(x)
         /\ reg'[x] = reg[x] /\ creds'[x] = creds[x] /\ (reload => reload') /\ unasked \subseteq unasked' => (EnvOk(x) => EnvOk(x)')
  BY DEF clientVars, HasServer, ToolsOk, Served, Offers, ServerOk, TrackOk, Open, EnvOk, Asked, Want

LEMMA CalmToUnder ==
  ASSUME UNCHANGED <<clientVars, mode, reg, skills, creds, reload, unasked>>, NEW x \in Names, NEW w \in Ops,
         Calm(x), op'[w].call \in {"add", "remove", "set", "unset"},
         op'[w].call = "add" => /\ op'[w].pc \notin Dialing \cup {"reloadAndStart", "autoStart"}
                                /\ op'[w].kind = "exec" => reg[x].kind # "exec" /\ op'[w].pc # "persist"
                                /\ op'[w].kind \in Mcp /\ mode = "api" => op'[w].pc # "persist",
         op'[w].call = "remove" => op'[w].pc = "unpersist",
         op'[w].call # "add" => op'[w].kind = reg[x].kind,
         op'[w].pc \in {"reserve", "persist", "register", "unpersist", "credRead", "update"},
         op'[w].call = "set" => op'[w].pc # "update", op'[w].pc = "persist" => op'[w].call = "add"
  PROVE  Under(w, x)'
<1>1. KindIs(w, x)'
  BY DEF KindIs
<1>2. SkillIs(w, x)'
  BY DEF SkillIs, Calm
<1>3. ServerIs(w, x)'
  <2>1. ServerOk(x)'
    BY QuietSame DEF Calm
  <2>2. ~(op'[w].pc = "persist" /\ op'[w].kind \in Mcp /\ mode' = "api") /\ op'[w].pc # "removeServer"
    OBVIOUS
  <2> QED BY <2>1, <2>2 DEF ServerIs
<1>4. ToolsAre(w, x)'
  BY QuietSame DEF ToolsAre, Calm
<1>5. EnvIs(w, x)'
  BY QuietSame DEF EnvIs, Stale, Calm
<1> QED BY <1>1, <1>2, <1>3, <1>4, <1>5 DEF Under

LEMMA AddExtensionKeeps ==
  ASSUME IInv, NEW w \in Ops, NEW x \in Names, NEW kind \in Kinds, AddExtension(w, x, kind)
  PROVE  IInv'
<1> DEFINE pc == CASE kind = "exec" -> "register"
                   [] kind = "prompt" -> "persist"
                   [] OTHER -> IF mode = "api" THEN "reserve" ELSE "persist"
<1>1. Begin(w, "add", x, kind, pc)
      /\ waived' = waived \cup (IF kind = "exec" /\ reg[x].kind = "exec" THEN {x} ELSE {})
  BY DEF AddExtension
<1>2. kind \in {"stdio", "http", "exec", "prompt"} /\ kind \in AllKinds /\ mode \in {"api", "cli"}
  BY ExtensionsAssumption DEF ExtensionsAssumption, AllKinds, Mcp, IInv, TypeInv
<1>3. /\ pc \in {"reserve", "persist", "register"}
      /\ kind = "exec" <=> pc = "register"
      /\ kind \in Mcp /\ mode = "api" <=> pc = "reserve"
  BY <1>2 DEF Mcp
<1> HIDE DEF pc
<1>4. BeginNow(w, "add", x, kind, pc)
  BY <1>1, <1>2, <1>3, BeginIs DEF IInv
<1>5. PlaceOf(w)'
  <2>1. AddAt(w)'
    BY <1>2, <1>3, <1>4 DEF BeginNow, AddAt, Mcp, Starting, Dialing
  <2> QED BY <1>4, <2>1 DEF BeginNow, PlaceOf, EnvCalls
<1>6. Clean(x)' /\ Calm(x) => Under(w, x)'
  <2> SUFFICES ASSUME Clean(x)', Calm(x) PROVE Under(w, x)'
    OBVIOUS
  <2>1. kind = "exec" => reg[x].kind # "exec"
    BY <1>1 DEF Clean
  <2> QED BY <1>3, <1>4, <2>1, CalmToUnder DEF BeginNow, Dialing, Mcp
<1>7. waived' \subseteq Names /\ waived \subseteq waived'
  BY <1>1 DEF IInv, TypeInv
<1> QED BY <1>1, <1>2, <1>3, <1>5, <1>6, <1>7, BeginKeeps

LEMMA OtherCallsKeep ==
  ASSUME IInv, NEW w \in Ops, NEW x \in Names,
         RemoveExtension(w, x) \/ SetExtensionEnv(w, x) \/ UnsetExtensionEnv(w, x)
  PROVE  IInv'
<1>1. reg[x].kind \in AllKinds /\ waived' = waived /\ waived \subseteq Names
  BY DEF IInv, TypeInv, Entries, RemoveExtension, SetExtensionEnv, UnsetExtensionEnv
<1>2. PICK call \in {"remove", "set", "unset"}, pc \in {"unpersist", "credRead", "update"} :
        /\ Begin(w, call, x, reg[x].kind, pc)
        /\ call = "remove" <=> pc = "unpersist"
        /\ call = "set" <=> pc = "credRead"
  BY DEF RemoveExtension, SetExtensionEnv, UnsetExtensionEnv
<1>3. BeginNow(w, call, x, reg[x].kind, pc)
  BY <1>1, <1>2, BeginIs DEF IInv
<1>4. PlaceOf(w)'
  BY <1>2, <1>3 DEF BeginNow, PlaceOf, RemoveAt, EnvAt, EnvCalls
<1>5. Clean(x)' /\ Calm(x) => Under(w, x)'
  BY <1>2, <1>3, CalmToUnder DEF BeginNow
<1> QED BY <1>1, <1>2, <1>4, <1>5, BeginKeeps

-------------------------------------------------------------------------------
(* Steps of a call that leave the connections alone. *)

Plain(w) ==
  /\ op[w].pc \notin InHand \cup {"take", "removeServer"}
  /\ ~(op[w].pc = "persist" /\ op[w].kind \in Mcp /\ mode = "api")

LEMMA PlainIs ==
  ASSUME NEW w \in Ops, NEW x \in Names, Plain(w)
  PROVE  Under(w, x) <=> /\ KindIs(w, x) /\ SkillIs(w, x) /\ EnvIs(w, x)
                         /\ ServerOk(x) /\ TrackOk(x) /\ ToolsOk(x)
  BY DEF Plain, Under, ServerIs, ToolsAre, InHand

LEMMA PlainNext ==
  ASSUME NEW w \in Ops, NEW x \in Names, Plain(w)'
  PROVE  Under(w, x)' <=> /\ KindIs(w, x)' /\ SkillIs(w, x)' /\ EnvIs(w, x)'
                          /\ ServerOk(x)' /\ TrackOk(x)' /\ ToolsOk(x)'
  BY DEF Plain, Under, ServerIs, ToolsAre, InHand

\* Nothing but the operation moves, and perhaps the credential store.
Moves(w, x, r) ==
  /\ Active(w) /\ op[w].x = x /\ op[w].pc \notin InHand
  /\ op' = [op EXCEPT ![w] = r] /\ r \in OpRecords
  /\ \/ r = Off
     \/ /\ r.x = x /\ (r.call \in EnvCalls => op[w].call \in EnvCalls) /\ r.pc # "off"
        /\ r.call = "load" => op[w].call = "load"
        /\ r.pc \notin InHand /\ r.conn = 0 /\ r.old = 0
        /\ r.pc \in {"connect", "unreserve"} => op[w].pc \in {"connect", "unreserve"}
        /\ r.pc \in {"resolve", "dial"} /\ proc = "loading" => op[w].pc = "resolve"
  /\ UNCHANGED <<clientVars, mode, proc, regVars, skills, raced, waived>>
  /\ budgets' = budgets \/ Spend("troubles")
  /\ (reload' = reload \/ reload' = TRUE) /\ unasked \subseteq unasked'

LEMMA QuietKeeps ==
  ASSUME IInv, NEW w \in Ops, NEW x \in Names, NEW r, Moves(w, x, r), creds' \in [Names -> Nat], CredsLocal(w, x),
         r # Off => PlaceOf(w)', SnapshotOf(w)',
         ValueIs(w, x) /\ (reg[x].env => creds[x] # 0)
           => (reg[x].env => creds'[x] # 0) /\ (r # Off => ValueIs(w, x)'),
         Serving /\ Clean(x)' /\ Under(w, x) => IF r # Off THEN Under(w, x)' ELSE Calm(x)'
  PROVE  IInv'
<1>1. Move(w, x, r)
  <2>1. budgets' \in [calls : Nat, troubles : Nat] /\ budgets'.calls >= budgets.calls
    BY SpendIs DEF Moves, IInv, TypeInv
  <2>2. /\ reg \in [Names -> Entries] /\ skills \subseteq Names /\ reload \in BOOLEAN
        /\ creds \in [Names -> Nat] /\ waived \subseteq Names
    BY DEF IInv, TypeInv
  <2> QED BY <2>1, <2>2 DEF Move, Moves, regVars, credVars
<1>2. Active(w) /\ op[w].x = x /\ reg' = reg /\ raced \subseteq raced' /\ waived \subseteq waived'
  BY DEF Moves, regVars, credVars
<1>3. Clean(x)' => (reg'[x].env => creds'[x] # 0) /\ (r # Off => ValueIs(w, x)')
  BY <1>2, UnderNow
<1>4. Serving /\ Clean(x)' => IF r # Off THEN Under(w, x)' ELSE Calm(x)'
  BY <1>2, UnderNow
<1> QED BY <1>1, <1>3, <1>4, MoveKeeps

LEMMA OpRead ==
  ASSUME IInv, NEW w \in Ops
  PROVE  /\ op \in [Ops -> OpRecords] /\ op[w] \in OpRecords
         /\ op[w].pc # "off" => Active(w) /\ PlaceOf(w) /\ op[w].x \in Names
         /\ op[w].pc \notin InHand => op[w].conn = 0 /\ op[w].old = 0
  BY ActiveIs, Constants DEF IInv, TypeInv, HandsInv, Hands, HandOf, InHand, Course, PlaceOf

LEMMA PlaceIs ==
  ASSUME NEW w \in Ops, PlaceOf(w)
  PROVE  /\ op[w].call \in {"load", "add", "again", "remove", "set", "unset"}
         /\ op[w].call = "load" => LoadAt(w)
         /\ op[w].call = "add" => AddAt(w)
         /\ op[w].call = "again" => mode = "cli" /\ op[w].kind = "http" /\ op[w].pc \in Dialing
         /\ op[w].call = "remove" => RemoveAt(w)
         /\ op[w].call \in EnvCalls => EnvAt(w)
         /\ op[w].call # "load" => w \in Callers /\ proc # "loading" /\ budgets.calls > 0
  BY DEF PlaceOf, EnvCalls

LEMMA PlaceGoes ==
  ASSUME NEW w \in Ops, PlaceOf(w), UNCHANGED <<mode, proc>>, budgets.calls > 0 => budgets'.calls > 0,
         op'[w].x = op[w].x, op'[w].call = op[w].call,
         op[w].call = "load" => LoadAt(w)',
         op[w].call = "add" => AddAt(w)',
         op[w].call = "again" => op'[w].kind = "http" /\ op'[w].pc \in Dialing,
         op[w].call = "remove" => RemoveAt(w)',
         op[w].call \in EnvCalls => EnvAt(w)'
  PROVE  PlaceOf(w)'
  BY DEF PlaceOf, EnvCalls

\* A call that returns, with everything as it is for its name.
LEMMA ReturnKeeps ==
  ASSUME IInv, NEW w \in Ops, NEW x \in Names, op[w].x = x, Active(w), op[w].pc \notin InHand,
         Return(w), UNCHANGED <<clientVars, mode, proc, regVars, skills, raced, waived, creds>>,
         UNCHANGED budgets \/ Trouble, (reload' = reload \/ reload' = TRUE) /\ unasked \subseteq unasked',
         Serving /\ Under(w, x) => Calm(x)'
  PROVE  IInv'
<1>1. Off \in OpRecords /\ Off.pc = "off"
  BY OffIs, Constants
<1>2. Moves(w, x, Off)
  BY <1>1 DEF Moves, Return, Trouble
<1>3. creds' \in [Names -> Nat] /\ CredsLocal(w, x)
  BY DEF IInv, TypeInv, CredsLocal
<1>4. op'[w] = Off
  BY DEF Return, IInv, TypeInv
<1>5. SnapshotOf(w)'
  BY <1>1, <1>4 DEF SnapshotOf
<1> QED BY <1>2, <1>3, <1>5, QuietKeeps

LEMMA GotoKeeps ==
  ASSUME IInv, NEW w \in Ops, NEW x \in Names, op[w].x = x, Active(w), op[w].pc \notin InHand,
         NEW p \in Places \ (InHand \cup {"off", "connect", "credSet", "credDelete"}), Goto(w, p),
         p = "unreserve" => op[w].pc = "connect",
         p \in {"resolve", "dial"} => proc # "loading",
         UNCHANGED <<clientVars, mode, proc, regVars, skills, raced, waived, creds>>,
         UNCHANGED budgets \/ Trouble, (reload' = reload \/ reload' = TRUE) /\ unasked \subseteq unasked',
         op'[w] = [op[w] EXCEPT !.pc = p] => PlaceOf(w)' /\ (ValueIs(w, x) => ValueIs(w, x)'),
         op'[w] = [op[w] EXCEPT !.pc = p] /\ Serving /\ Under(w, x) => Under(w, x)'
  PROVE  IInv'
<1> DEFINE r == [op[w] EXCEPT !.pc = p]
<1>1. op \in [Ops -> OpRecords] /\ op[w] \in OpRecords /\ op[w].conn = 0 /\ op[w].old = 0
  BY Constants DEF IInv, TypeInv, HandsInv, Hands, HandOf, InHand
<1>2. /\ op' = [op EXCEPT ![w] = r] /\ op'[w] = r /\ r \in OpRecords /\ r.x = x /\ r.call = op[w].call
      /\ r.pc = p /\ r.conn = 0 /\ r.old = 0 /\ r # Off
  BY <1>1, OffIs DEF Goto, OpRecords
<1>3. SnapshotOf(w)'
  BY <1>2 DEF SnapshotOf
<1>4. op'[w] = [op[w] EXCEPT !.pc = p]
  BY <1>2
<1> HIDE DEF r
<1>5. Moves(w, x, r)
  BY <1>2 DEF Moves, Trouble
<1>6. creds' \in [Names -> Nat] /\ CredsLocal(w, x)
  BY DEF IInv, TypeInv, CredsLocal
<1>7. PlaceOf(w)' /\ (ValueIs(w, x) => ValueIs(w, x)')
  BY <1>4
<1>8. Serving /\ Under(w, x) => Under(w, x)'
  BY <1>4
<1>9. ValueIs(w, x) /\ (reg[x].env => creds[x] # 0)
        => (reg[x].env => creds'[x] # 0) /\ (r # Off => ValueIs(w, x)')
  BY <1>7
<1> QED BY <1>2, <1>3, <1>5, <1>6, <1>7, <1>8, <1>9, QuietKeeps

\* From one place to another, or to the end, where nothing is said of the connections.
Settling(w, x) ==
  /\ op[w].pc # "unregister" /\ ~(op[w].call = "add" /\ op[w].kind = "exec" /\ op[w].pc = "persist")
  /\ Plain(w)

LEMMA UnderGoes ==
  ASSUME NEW w \in Ops, NEW x \in Names, Settling(w, x), Settling(w, x)', Under(w, x),
         UNCHANGED <<clientVars, mode, regVars, skills, creds>>, (reload' = reload \/ reload' = TRUE) /\ unasked \subseteq unasked',
         op'[w].pc # "dial", Stale(w, x) => Stale(w, x)' \/ Asked(x)', KindIs(w, x) => KindIs(w, x)'
  PROVE  Under(w, x)'
<1>1. KindIs(w, x) /\ SkillIs(w, x) /\ EnvIs(w, x) /\ ServerOk(x) /\ TrackOk(x) /\ ToolsOk(x)
  BY PlainIs DEF Settling
<1>2. SkillIs(w, x)'
  BY <1>1 DEF SkillIs, Settling, regVars, credVars
<1>3. EnvIs(w, x)'
  <2>1. Stale(w, x)' \/ EnvOk(x)'
    BY <1>1, QuietSame DEF EnvIs, EnvOk, Asked, regVars, credVars
  <2>2. op'[w].pc \notin {"offer", "swap"}
    BY DEF Settling, Plain, InHand
  <2> QED BY <2>1, <2>2 DEF EnvIs
<1>4. ServerOk(x)' /\ TrackOk(x)' /\ ToolsOk(x)'
  BY <1>1, QuietSame DEF regVars, credVars
<1> QED BY <1>1, <1>2, <1>3, <1>4, PlainNext DEF Settling

LEMMA CalmGoes ==
  ASSUME NEW w \in Ops, NEW x \in Names, Settling(w, x), Under(w, x),
         UNCHANGED <<clientVars, mode, regVars, skills, creds>>, (reload' = reload \/ reload' = TRUE) /\ unasked \subseteq unasked',
         Stale(w, x) => Asked(x)' \/ reg[x].kind # "stdio" \/ mode # "cli"
  PROVE  Calm(x)'
<1>1. KindIs(w, x) /\ SkillIs(w, x) /\ EnvIs(w, x) /\ ServerOk(x) /\ TrackOk(x) /\ ToolsOk(x)
  BY PlainIs DEF Settling
<1>2. EnvOk(x)'
  BY <1>1, QuietSame DEF EnvIs, EnvOk, Asked, regVars, credVars
<1>3. ServerOk(x)' /\ TrackOk(x)' /\ ToolsOk(x)'
  BY <1>1, QuietSame DEF regVars, credVars
<1> QED BY <1>1, <1>2, <1>3 DEF Calm, SkillIs, Settling, regVars, credVars

LEMMA CredSetKeeps ==
  ASSUME IInv, NEW w \in Ops, NEW x, op[w].x = x, CredSet(w)
  PROVE  IInv'
<1> DEFINE r == [op[w] EXCEPT !.pc = "update"]
<1>1. op[w].pc = "credSet"
      /\ UNCHANGED <<clientVars, mode, proc, regVars, skills, reload, unasked, raced, waived>>
  BY DEF CredSet, At, noteVars, credVars
<1>2. /\ Active(w) /\ PlaceOf(w) /\ x \in Names /\ op[w] \in OpRecords
      /\ op[w].conn = 0 /\ op[w].old = 0 /\ op \in [Ops -> OpRecords]
  BY <1>1, OpRead DEF InHand
<1>3. op[w].call = "set" /\ EnvAt(w) /\ budgets.calls > 0
  BY <1>1, <1>2, PlaceIs DEF LoadAt, AddAt, RemoveAt, EnvAt, Dialing, Starting, Mcp, EnvCalls
<1>4. ASSUME creds' = [op[w].snap EXCEPT ![x] = budgets.calls], op' = [op EXCEPT ![w] = r],
             UNCHANGED budgets
      PROVE  IInv'
  <2>1. /\ r \in OpRecords /\ r.x = x /\ r.pc = "update" /\ r.call = "set" /\ r.conn = 0 /\ r.old = 0
        /\ r.kind = op[w].kind /\ op'[w] = r /\ r # Off
    BY <1>2, <1>3, <1>4, OffIs DEF OpRecords, Places
  <2> HIDE DEF r
  <2>2. Moves(w, x, r)
    BY <1>1, <1>2, <1>3, <1>4, <2>1 DEF Moves, InHand
  <2>3. op[w].snap \in [Names -> Nat] /\ budgets.calls \in Nat
    BY <1>2 DEF OpRecords, IInv, TypeInv
  <2>4. creds' \in [Names -> Nat] /\ creds'[x] # 0
    BY <1>2, <1>3, <1>4, <2>3
  <2>5. CredsLocal(w, x)
    BY <1>1, <1>2, <1>3, <1>4, <2>3 DEF CredsLocal, IInv, Snapshots, SnapshotOf, EnvCalls
  <2>6. PlaceOf(w)'
    <3>1. EnvAt(w)'
      BY <2>1 DEF EnvAt
    <3> QED BY <1>1, <1>2, <1>3, <1>4, <2>1, <3>1, PlaceGoes DEF EnvCalls
  <2>7. SnapshotOf(w)' /\ ValueIs(w, x)'
    BY <2>1, <2>4 DEF SnapshotOf, ValueIs
  <2>8. ASSUME Under(w, x) PROVE Under(w, x)'
    <3>1. Plain(w) /\ Plain(w)'
      BY <1>1, <2>1 DEF Plain, InHand
    <3>2. KindIs(w, x) /\ SkillIs(w, x) /\ EnvIs(w, x) /\ ServerOk(x) /\ TrackOk(x) /\ ToolsOk(x)
      BY <1>2, <2>8, <3>1, PlainIs
    <3>3. KindIs(w, x)' /\ SkillIs(w, x)'
      BY <1>1, <1>3, <2>1, <3>2 DEF KindIs, SkillIs, regVars, credVars
    <3>4. EnvIs(w, x)'
      <4>1. EnvOk(x) /\ reg'[x] = reg[x]
        BY <1>1, <1>3, <3>2 DEF EnvIs, Stale, EnvCalls, regVars, credVars
      <4>2. reg[x].env \/ EnvOk(x)'
        BY <1>1, <4>1 DEF EnvOk, Asked, Want, clientVars
      <4> QED BY <2>1, <4>1, <4>2 DEF EnvIs, Stale
    <3>5. ServerOk(x)' /\ TrackOk(x)' /\ ToolsOk(x)'
      BY <1>1, <1>2, <3>2, QuietSame DEF regVars, credVars
    <3> QED BY <1>2, <3>1, <3>3, <3>4, <3>5, PlainNext
  <2> QED BY <1>1, <1>2, <2>1, <2>2, <2>4, <2>5, <2>6, <2>7, <2>8, QuietKeeps
<1>5. ASSUME Return(w), Trouble, UNCHANGED creds
      PROVE  IInv'
  <2>1. Calm(x)' \/ ~Under(w, x)
    <3> SUFFICES ASSUME Under(w, x) PROVE Calm(x)'
      OBVIOUS
    <3>1. Plain(w)
      BY <1>1 DEF Plain, InHand
    <3>2. SkillIs(w, x) /\ EnvIs(w, x) /\ ServerOk(x) /\ TrackOk(x) /\ ToolsOk(x)
      BY <1>2, <3>1, PlainIs
    <3>3. EnvOk(x) /\ (x \in skills <=> reg[x].kind = "exec")
      BY <1>1, <1>3, <3>2 DEF EnvIs, Stale, SkillIs, EnvCalls
    <3> QED BY <1>1, <1>2, <1>5, <3>2, <3>3, QuietSame DEF Calm, regVars, credVars
  <2>2. UNCHANGED <<clientVars, mode, proc, regVars, skills, raced, waived, creds>>
    BY <1>1, <1>5
  <2> QED BY <1>1, <1>2, <1>5, <2>1, <2>2, ReturnKeeps DEF InHand
<1> QED BY <1>4, <1>5 DEF CredSet, CredsWrite, CredsFail, Named, NoTrouble, Goto

LEMMA RequestReloadKeeps ==
  ASSUME IInv, NEW w \in Ops, NEW x, op[w].x = x, RequestReload(w)
  PROVE  IInv'
<1>1. /\ op[w].pc \in {"reload", "reloadAndStart"} /\ op[w].pc # "off" /\ op[w].pc \notin InHand
      /\ UNCHANGED <<clientVars, mode, proc, regVars, skills, raced, waived, creds>>
      /\ (reload' = reload \/ reload' = TRUE) /\ unasked \subseteq unasked' /\ Asked(x)'
      /\ UNCHANGED budgets \/ Trouble
  BY DEF RequestReload, noteVars, credVars, InHand, Asked, Named, NoTrouble
<1>2. Active(w) /\ PlaceOf(w) /\ x \in Names
  BY <1>1, OpRead
<1>3. Settling(w, x)
  BY <1>1 DEF Settling, Plain, InHand
<1>4. CASE Return(w)
  <2>1. Serving /\ Under(w, x) => Calm(x)'
    BY <1>1, <1>2, <1>3, CalmGoes
  <2> QED BY <1>1, <1>2, <1>4, <2>1, ReturnKeeps
<1>5. ASSUME NEW p \in {"autoStart", "return"}, Goto(w, p), op[w].call = "add",
             p = "autoStart" => op[w].pc = "reloadAndStart",
             p = "return" => mode = "api" /\ op[w].kind = "stdio"
      PROVE  IInv'
  <2>1. AddAt(w)
    BY <1>2, <1>5, PlaceIs
  <2>2. ASSUME op'[w] = [op[w] EXCEPT !.pc = p]
        PROVE  PlaceOf(w)' /\ ValueIs(w, x)' /\ (Serving /\ Under(w, x) => Under(w, x)')
    <3>1. op'[w].pc = p /\ op'[w].call = "add" /\ op'[w].x = x /\ op'[w].kind = op[w].kind
      BY <1>2, <1>5, <2>2, OpRead DEF OpRecords
    <3>2. AddAt(w)'
      BY <1>1, <1>5, <2>1, <3>1 DEF AddAt, Starting, Mcp
    <3>3. PlaceOf(w)'
      <4>1. budgets.calls > 0 => budgets'.calls > 0
        BY <1>1, SpendIs DEF IInv, Trouble
      <4> QED BY <1>1, <1>2, <1>5, <3>1, <3>2, <4>1, PlaceGoes DEF EnvCalls
    <3>4. Settling(w, x)'
      BY <1>5, <3>1 DEF Settling, Plain, InHand
    <3>5. (KindIs(w, x) => KindIs(w, x)') /\ ValueIs(w, x)'
      BY <1>1, <1>5, <3>1 DEF KindIs, ValueIs, regVars, Dialing
    <3> QED BY <1>1, <1>2, <1>3, <1>5, <3>1, <3>3, <3>4, <3>5, UnderGoes
  <2> QED BY <1>1, <1>2, <1>5, <2>2, GotoKeeps DEF Places, InHand
<1>6. op[w].pc = "reloadAndStart" => op[w].call = "add"
  BY <1>2, PlaceIs DEF LoadAt, AddAt, RemoveAt, EnvAt, Dialing, Starting, EnvCalls
<1> QED BY <1>1, <1>4, <1>5, <1>6 DEF RequestReload, At, Finish, Called

LEMMA NotConnectedKeeps ==
  ASSUME IInv, NEW w \in Ops, NEW x, op[w].x = x, op[w].pc \in {"resolve", "dial"}, mode = "cli",
         NotConnected(w), UNCHANGED <<clientVars, mode, proc, regVars, creds, skills, reload, unasked, noteVars>>,
         UNCHANGED budgets \/ Trouble
  PROVE  IInv'
<1>1. UNCHANGED <<clientVars, mode, proc, regVars, skills, raced, waived, creds>> /\ UNCHANGED <<reload, unasked>>
      /\ op[w].pc # "off" /\ op[w].pc \notin InHand
  BY DEF noteVars, credVars, InHand
<1>2. Active(w) /\ PlaceOf(w) /\ x \in Names /\ op[w] \in OpRecords
  BY <1>1, OpRead
<1>3. Settling(w, x)
  BY DEF Settling, Plain, InHand
<1>4. ASSUME NEW p \in {"reloadAndStart", "reload", "retry"}, Goto(w, p),
             \/ op[w].call = "add" /\ (p = "reload" \/ (p = "reloadAndStart" /\ op[w].kind = "http"))
             \/ op[w].call \in EnvCalls /\ p = "reload"
             \/ op[w].call = "load" /\ p = "retry" /\ op[w].kind = "http"
      PROVE  IInv'
  <2>1. ASSUME op'[w] = [op[w] EXCEPT !.pc = p]
        PROVE  PlaceOf(w)' /\ ValueIs(w, x)' /\ (Serving /\ Under(w, x) => Under(w, x)')
    <3>1. op'[w].pc = p /\ op'[w].call = op[w].call /\ op'[w].x = x /\ op'[w].kind = op[w].kind
      BY <1>2, <2>1 DEF OpRecords
    <3>2. op[w].call = "add" => AddAt(w)'
      BY <1>1, <1>2, <1>4, <3>1, PlaceIs DEF AddAt, Starting, Mcp, EnvCalls
    <3>3. op[w].call = "load" => LoadAt(w)'
      BY <1>1, <1>2, <1>4, <3>1, PlaceIs DEF LoadAt, Mcp, EnvCalls
    <3>4. op[w].call \in EnvCalls => EnvAt(w)'
      BY <1>4, <3>1 DEF EnvAt, EnvCalls
    <3>5. op[w].call \in EnvCalls \cup {"add", "load"} /\ (budgets.calls > 0 => budgets'.calls > 0)
      BY <1>4, SpendIs DEF IInv, Trouble
    <3>6. PlaceOf(w)'
      BY <1>1, <1>2, <3>1, <3>2, <3>3, <3>4, <3>5, PlaceGoes DEF EnvCalls
    <3>7. Settling(w, x)'
      BY <1>4, <3>1 DEF Settling, Plain, InHand, EnvCalls
    <3>8. (KindIs(w, x) => KindIs(w, x)') /\ ValueIs(w, x)'
      BY <1>1, <1>4, <3>1 DEF KindIs, ValueIs, regVars, credVars, EnvCalls, Dialing
    <3>9. Stale(w, x) => Stale(w, x)'
      BY <1>1, <1>4, <3>1 DEF Stale, EnvCalls
    <3> QED BY <1>1, <1>2, <1>3, <1>4, <3>1, <3>6, <3>7, <3>8, <3>9, UnderGoes
  <2>2. p \in Places \ (InHand \cup {"off", "connect", "credSet", "credDelete"}) /\ p # "unreserve"
        /\ p \notin {"resolve", "dial"}
    BY <1>4 DEF Places, InHand
  <2> QED BY <1>1, <1>2, <1>4, <2>1, <2>2, GotoKeeps
<1>5. ASSUME Return(w), op[w].call \notin EnvCalls
      PROVE  IInv'
  <2>1. Serving /\ Under(w, x) => Calm(x)'
    BY <1>1, <1>2, <1>3, <1>5, CalmGoes DEF Stale, EnvCalls
  <2> QED BY <1>1, <1>2, <1>5, <2>1, ReturnKeeps
<1>6. CASE op[w].call = "add"
  <2>1. CASE op[w].kind = "http"
    BY <1>4, <1>6, <2>1 DEF NotConnected, EnvCalls
  <2>2. CASE op[w].kind # "http"
    BY <1>4, <1>6, <2>2 DEF NotConnected, EnvCalls
  <2> QED BY <2>1, <2>2
<1>7. CASE op[w].call \in EnvCalls
  BY <1>4, <1>7 DEF NotConnected, EnvCalls
<1>8. CASE op[w].call = "load" /\ op[w].kind = "http" /\ op[w].tries > 0
  BY <1>4, <1>8 DEF NotConnected, EnvCalls
<1>9. CASE /\ op[w].call \notin EnvCalls \cup {"add"}
           /\ ~(op[w].call = "load" /\ op[w].kind = "http" /\ op[w].tries > 0)
  BY <1>5, <1>9 DEF NotConnected, EnvCalls
<1> QED BY <1>6, <1>7, <1>8, <1>9

\* The operation goes on as record r.
LEMMA RecordKeeps ==
  ASSUME IInv, NEW w \in Ops, NEW x \in Names, op[w].x = x, Active(w), op[w].pc \notin InHand,
         NEW r \in OpRecords, op' = [op EXCEPT ![w] = r], r.x = x, r.conn = 0, r.old = 0,
         r.call \in EnvCalls => op[w].call \in EnvCalls, r.call = "load" => op[w].call = "load",
         r.pc \notin InHand \cup {"off", "connect", "unreserve", "credSet", "credDelete"},
         r.pc \in {"resolve", "dial"} /\ proc = "loading" => op[w].pc = "resolve",
         UNCHANGED <<clientVars, mode, proc, regVars, skills, raced, waived, creds, budgets, reload, unasked>>,
         op'[w] = r => PlaceOf(w)' /\ (ValueIs(w, x) => ValueIs(w, x)'),
         op'[w] = r /\ Serving /\ Under(w, x) => Under(w, x)'
  PROVE  IInv'
<1>1. op'[w] = r /\ r # Off
  BY OffIs DEF IInv, TypeInv
<1>2. SnapshotOf(w)'
  BY <1>1 DEF SnapshotOf
<1>3. Moves(w, x, r)
  BY DEF Moves
<1>4. creds' \in [Names -> Nat] /\ CredsLocal(w, x)
  BY DEF IInv, TypeInv, CredsLocal
<1>5. ValueIs(w, x) /\ (reg[x].env => creds[x] # 0)
        => (reg[x].env => creds'[x] # 0) /\ (r # Off => ValueIs(w, x)')
  BY <1>1
<1> QED BY <1>1, <1>2, <1>3, <1>4, <1>5, QuietKeeps

LEMMA ResolveEnvKeeps ==
  ASSUME IInv, NEW w \in Ops, NEW x, op[w].x = x, op[w].pc = "resolve", mode = "cli", ResolveEnv(w),
         op[w].call \in EnvCalls => op[w].kind \in Mcp,
         UNCHANGED <<clientVars, mode, proc, regVars, creds, skills, reload, unasked, budgets, noteVars>>
  PROVE  IInv'
<1> DEFINE ref == op[w].call \notin {"add", "again"} /\ op[w].kind = "stdio" /\ reg[x].env
           e == IF ref THEN creds[x] ELSE 0
           r == [op[w] EXCEPT !.pc = "dial", !.env = e]
<1>1. UNCHANGED <<clientVars, mode, proc, regVars, skills, raced, waived, creds, budgets, reload, unasked>>
      /\ op[w].pc # "off" /\ op[w].pc \notin InHand
  BY DEF noteVars, credVars, InHand
<1>2. Active(w) /\ PlaceOf(w) /\ x \in Names /\ op[w] \in OpRecords /\ op[w].conn = 0 /\ op[w].old = 0
  BY <1>1, OpRead
<1>3. CASE NotConnected(w)
  BY <1>1, <1>3, NotConnectedKeeps
<1>4. CASE op' = [op EXCEPT ![w] = r]
  <2>1. e \in Nat /\ (ref => e = creds[x]) /\ (~ref => e = 0)
    BY <1>2 DEF IInv, TypeInv
  <2>2. /\ r \in OpRecords /\ r.x = x /\ r.conn = 0 /\ r.old = 0 /\ r.call = op[w].call /\ r.pc = "dial"
        /\ r.env = e /\ r.kind = op[w].kind
    BY <1>2, <2>1 DEF OpRecords, Places
  <2> HIDE DEF r, e
  <2>3. ASSUME op'[w] = r
        PROVE  PlaceOf(w)' /\ ValueIs(w, x)' /\ (Under(w, x) => Under(w, x)')
    <3>1. (op[w].call = "add" => AddAt(w)') /\ (op[w].call = "load" => LoadAt(w)')
      BY <1>1, <1>2, <2>2, <2>3, PlaceIs DEF AddAt, LoadAt, Starting, Mcp, EnvCalls, Dialing
    <3>2. op[w].call # "remove" /\ (op[w].call \in EnvCalls => EnvAt(w)')
      BY <1>1, <1>2, <2>2, <2>3, PlaceIs DEF EnvAt, RemoveAt, EnvCalls, Dialing
    <3>3. PlaceOf(w)'
      BY <1>1, <1>2, <2>2, <2>3, <3>1, <3>2, PlaceIs, PlaceGoes DEF Dialing
    <3>4. ValueIs(w, x)'
      BY <2>2, <2>3 DEF ValueIs
    <3>5. ASSUME Under(w, x) PROVE Under(w, x)'
      <4>1. Plain(w) /\ Plain(w)'
        BY <2>2, <2>3 DEF Plain, InHand
      <4>2. KindIs(w, x) /\ SkillIs(w, x) /\ EnvIs(w, x) /\ ServerOk(x) /\ TrackOk(x) /\ ToolsOk(x)
        BY <1>2, <3>5, <4>1, PlainIs
      <4>3. KindIs(w, x)'
        BY <1>1, <2>2, <2>3, <3>2, <4>2 DEF KindIs, regVars, credVars, Dialing
      <4>4. SkillIs(w, x)'
        BY <1>1, <2>2, <2>3, <4>2 DEF SkillIs, regVars, credVars
      <4>5. Want(x)' = Want(x) /\ reg'[x] = reg[x]
        BY <1>1 DEF Want, regVars, credVars
      <4>6. reg[x].kind = "stdio" => e = Want(x)
        <5>1. op[w].call = "add" => reg[x] = Entry(op[w].kind)
          BY <4>2 DEF KindIs, Dialing
        <5>2. op[w].call = "add" => ~reg[x].env
          BY <5>1 DEF Entry
        <5>3. op[w].call # "add" => reg[x].kind = op[w].kind
          BY <1>2, <3>2, <4>2, PlaceIs DEF KindIs, EnvCalls
        <5>4. op[w].call = "again" => op[w].kind = "http"
          BY <1>2, PlaceIs
        <5> QED BY <2>1, <5>2, <5>3, <5>4 DEF Want
      <4>7. Stale(w, x)' \/ EnvOk(x)'
        <5>1. Stale(w, x) => Stale(w, x)'
          BY <2>2, <2>3 DEF Stale
        <5> QED BY <1>1, <1>2, <4>2, <5>1, QuietSame DEF EnvIs, regVars, credVars
      <4>8. EnvIs(w, x)'
        BY <2>2, <2>3, <4>5, <4>6, <4>7 DEF EnvIs
      <4>9. ServerOk(x)' /\ TrackOk(x)' /\ ToolsOk(x)'
        BY <1>1, <1>2, <4>2, QuietSame DEF regVars, credVars
      <4> QED BY <1>2, <4>1, <4>3, <4>4, <4>8, <4>9, PlainNext
    <3> QED BY <3>3, <3>4, <3>5
  <2> QED BY <1>1, <1>2, <1>4, <2>2, <2>3, RecordKeeps DEF InHand
<1> QED BY <1>3, <1>4 DEF ResolveEnv, Named

LEMMA ResolveKeeps ==
  ASSUME IInv, NEW w \in Ops, NEW x, op[w].x = x, Resolve(w)
  PROVE  IInv'
<1>1. /\ op[w].pc = "resolve" /\ op[w].pc # "off" /\ op[w].pc \notin InHand
      /\ UNCHANGED <<clientVars, mode, proc, regVars, creds, skills, reload, unasked, budgets, noteVars>>
  BY DEF Resolve, At, InHand, credVars, noteVars
<1>2. Active(w) /\ PlaceOf(w) /\ x \in Names /\ op[w] \in OpRecords
  BY <1>1, OpRead
<1>3. UNCHANGED <<clientVars, mode, proc, regVars, skills, raced, waived, creds>> /\ UNCHANGED <<reload, unasked>>
      /\ UNCHANGED budgets
  BY <1>1 DEF noteVars, credVars
<1>4. Settling(w, x)
  BY <1>1 DEF Settling, Plain, InHand
<1>5. ASSUME op[w].call \in EnvCalls, op[w].kind \notin Mcp, Return(w)
      PROVE  IInv'
  <2>1. ASSUME Under(w, x) PROVE Calm(x)'
    <3>1. reg[x].kind = op[w].kind
      BY <1>5, <2>1 DEF Under, KindIs, EnvCalls
    <3> QED BY <1>2, <1>3, <1>4, <1>5, <2>1, <3>1, CalmGoes DEF Mcp
  <2> QED BY <1>1, <1>2, <1>3, <1>5, <2>1, ReturnKeeps
<1>6. ASSUME op[w].call \in EnvCalls, Goto(w, "reload")
      PROVE  IInv'
  <2>1. ASSUME op'[w] = [op[w] EXCEPT !.pc = "reload"]
        PROVE  PlaceOf(w)' /\ ValueIs(w, x)' /\ (Under(w, x) => Under(w, x)')
    <3>1. op'[w].pc = "reload" /\ op'[w].call = op[w].call /\ op'[w].x = x /\ op'[w].kind = op[w].kind
      BY <1>2, <2>1 DEF OpRecords
    <3>2. EnvAt(w)'
      BY <3>1 DEF EnvAt
    <3>3. PlaceOf(w)'
      BY <1>2, <1>3, <1>6, <3>1, <3>2, PlaceGoes DEF EnvCalls
    <3>4. Settling(w, x)'
      BY <3>1 DEF Settling, Plain, InHand
    <3>5. (KindIs(w, x) => KindIs(w, x)') /\ ValueIs(w, x)' /\ Stale(w, x)'
      BY <1>3, <1>6, <3>1 DEF KindIs, ValueIs, Stale, regVars, credVars, EnvCalls
    <3> QED BY <1>2, <1>3, <1>4, <3>1, <3>3, <3>4, <3>5, UnderGoes
  <2> QED BY <1>1, <1>2, <1>3, <1>6, <2>1, GotoKeeps DEF Places, InHand
<1>7. ASSUME op[w].call \notin EnvCalls
      PROVE  mode = "cli"
  BY <1>1, <1>2, <1>7, PlaceIs DEF LoadAt, AddAt, RemoveAt, Starting, Mcp, EnvCalls, IInv, TypeInv
<1>8. ASSUME op[w].call \in EnvCalls, EnvChange(w)
      PROVE  IInv'
  BY <1>1, <1>5, <1>6, <1>8, ResolveEnvKeeps DEF EnvChange
<1>9. ASSUME op[w].call \notin EnvCalls, ResolveEnv(w)
      PROVE  IInv'
  BY <1>1, <1>7, <1>9, ResolveEnvKeeps
<1> QED BY <1>8, <1>9 DEF Resolve

LEMMA RetryKeeps ==
  ASSUME IInv, NEW w \in Ops, NEW x, op[w].x = x, Retry(w)
  PROVE  IInv'
<1> DEFINE n == op[w].tries - 1
           r == [op[w] EXCEPT !.pc = "resolve", !.tries = n]
<1>1. /\ op[w].pc = "retry" /\ op[w].pc # "off" /\ op[w].pc \notin InHand /\ proc = "serving"
      /\ UNCHANGED <<clientVars, mode, proc, regVars, skills, raced, waived, creds, budgets, reload, unasked>>
      /\ op' = [op EXCEPT ![w] = r]
  BY DEF Retry, At, InHand, noteVars, credVars
<1>2. Active(w) /\ PlaceOf(w) /\ x \in Names /\ op[w] \in OpRecords /\ op[w].conn = 0 /\ op[w].old = 0
  BY <1>1, OpRead
<1>3. op[w].call = "load" /\ LoadAt(w)
  BY <1>1, <1>2, PlaceIs DEF AddAt, RemoveAt, EnvAt, Starting, Dialing, Mcp, EnvCalls
<1>4. /\ r \in OpRecords /\ r.x = x /\ r.conn = 0 /\ r.old = 0 /\ r.call = op[w].call /\ r.pc = "resolve"
      /\ r.kind = op[w].kind
  <2>1. n \in Int
    BY <1>2 DEF OpRecords
  <2> HIDE DEF n
  <2> QED BY <1>2, <2>1 DEF OpRecords, Places
<1> HIDE DEF r, n
<1>5. ASSUME op'[w] = r
      PROVE  PlaceOf(w)' /\ ValueIs(w, x)' /\ (Under(w, x) => Under(w, x)')
  <2>1. LoadAt(w)'
    BY <1>1, <1>3, <1>4, <1>5 DEF LoadAt, Dialing
  <2>2. PlaceOf(w)'
    BY <1>1, <1>2, <1>3, <1>4, <1>5, <2>1, PlaceGoes DEF EnvCalls
  <2>3. Settling(w, x) /\ Settling(w, x)'
    BY <1>1, <1>4, <1>5 DEF Settling, Plain, InHand
  <2>4. (KindIs(w, x) => KindIs(w, x)') /\ ValueIs(w, x)' /\ ~Stale(w, x)
    BY <1>1, <1>3, <1>4, <1>5 DEF KindIs, ValueIs, Stale, regVars, credVars, EnvCalls
  <2> QED BY <1>1, <1>2, <1>4, <1>5, <2>2, <2>3, <2>4, UnderGoes
<1> QED BY <1>1, <1>2, <1>4, <1>5, RecordKeeps DEF InHand

LEMMA AutoStartKeeps ==
  ASSUME IInv, NEW w \in Ops, NEW x, op[w].x = x, AutoStart(w)
  PROVE  IInv'
<1> DEFINE r == [op[w] EXCEPT !.pc = "resolve", !.call = "again"]
<1>1. /\ op[w].pc = "autoStart" /\ op[w].pc # "off" /\ op[w].pc \notin InHand
      /\ UNCHANGED <<clientVars, mode, proc, regVars, skills, raced, waived, creds, budgets, reload, unasked>>
  BY DEF AutoStart, At, InHand, noteVars, credVars
<1>2. Active(w) /\ PlaceOf(w) /\ x \in Names /\ op[w] \in OpRecords /\ op[w].conn = 0 /\ op[w].old = 0
  BY <1>1, OpRead
<1>3. op[w].call = "add" /\ op[w].kind = "http" /\ mode = "cli" /\ w \in Callers /\ proc # "loading"
      /\ budgets.calls > 0 /\ proc # "down"
  <2>1. op[w].call = "add" /\ AddAt(w)
    BY <1>1, <1>2, PlaceIs DEF LoadAt, RemoveAt, EnvAt, Starting, Dialing, Mcp, EnvCalls
  <2> QED BY <1>1, <1>2, <2>1, PlaceIs DEF AddAt, Starting, Dialing, Mcp, IInv, TypeInv, PlaceOf
<1>4. Settling(w, x)
  BY <1>1 DEF Settling, Plain, InHand
<1>5. CASE Return(w)
  <2>1. Under(w, x) => Calm(x)'
    BY <1>1, <1>2, <1>3, <1>4, CalmGoes DEF Stale, EnvCalls
  <2> QED BY <1>1, <1>2, <1>5, <2>1, ReturnKeeps
<1>6. CASE op' = [op EXCEPT ![w] = r]
  <2>1. /\ r \in OpRecords /\ r.x = x /\ r.conn = 0 /\ r.old = 0 /\ r.call = "again" /\ r.pc = "resolve"
        /\ r.kind = "http"
    BY <1>2, <1>3 DEF OpRecords, Places
  <2> HIDE DEF r
  <2>2. ASSUME op'[w] = r
        PROVE  PlaceOf(w)' /\ ValueIs(w, x)' /\ (Under(w, x) => Under(w, x)')
    <3>1. PlaceOf(w)'
      BY <1>1, <1>2, <1>3, <2>1, <2>2 DEF PlaceOf, EnvCalls, Dialing
    <3>2. Settling(w, x)'
      BY <2>1, <2>2 DEF Settling, Plain, InHand
    <3>3. KindIs(w, x) => KindIs(w, x)'
      <4>1. KindIs(w, x) => reg[x].kind = "http"
        BY <1>1, <1>3 DEF KindIs, Entry
      <4> QED BY <1>1, <2>1, <2>2, <4>1 DEF KindIs, regVars, credVars
    <3>4. ValueIs(w, x)' /\ ~Stale(w, x)
      BY <1>1, <1>3, <2>1, <2>2 DEF ValueIs, Stale, EnvCalls
    <3> QED BY <1>1, <1>2, <1>4, <2>1, <2>2, <3>1, <3>2, <3>3, <3>4, UnderGoes
  <2> QED BY <1>1, <1>2, <1>3, <1>6, <2>1, <2>2, RecordKeeps DEF InHand, EnvCalls
<1> QED BY <1>5, <1>6 DEF AutoStart

\* What follows the attempt to delete a value: it is gone, or it is as it was.
LEMMA DroppedKeeps ==
  ASSUME IInv, NEW w \in Ops, NEW x, op[w].x = x, op[w].pc \in {"dropRead", "credDelete"}, Dropped(w),
         UNCHANGED <<clientVars, mode, proc, regVars, skills, raced, waived, reload, unasked>>,
         UNCHANGED budgets \/ Trouble,
         UNCHANGED creds \/ (op[w].pc = "credDelete" /\ creds' = [op[w].snap EXCEPT ![x] = 0])
  PROVE  IInv'
<1>1. op[w].pc \in {"dropRead", "credDelete"} /\ op[w].pc # "off" /\ op[w].pc \notin InHand
  BY DEF InHand
<1>2. Active(w) /\ PlaceOf(w) /\ x \in Names /\ op[w] \in OpRecords /\ op[w].conn = 0 /\ op[w].old = 0
  BY <1>1, OpRead
<1>3. op[w].call \in EnvCalls
  BY <1>1, <1>2, PlaceIs DEF LoadAt, AddAt, RemoveAt, Starting, Dialing, Mcp, EnvCalls
<1>4. creds' \in [Names -> Nat] /\ CredsLocal(w, x)
  <2>1. op[w].snap \in [Names -> Nat]
    BY <1>2 DEF OpRecords
  <2>2. creds \in [Names -> Nat]
        /\ (op[w].pc = "credDelete" => \A y \in Names \ raced : op[w].snap[y] = creds[y])
    BY DEF IInv, TypeInv, Snapshots, SnapshotOf
  <2>3. CASE op[w].pc = "credDelete" /\ creds' = [op[w].snap EXCEPT ![x] = 0]
    BY <1>2, <1>3, <2>1, <2>2, <2>3 DEF CredsLocal
  <2>4. CASE UNCHANGED creds
    BY <2>2, <2>4 DEF CredsLocal
  <2> QED BY <1>1, <2>3, <2>4
<1>5. Settling(w, x)
  BY <1>1 DEF Settling, Plain, InHand
\* What is read next refers to no value of x, which alone has changed.
<1>6. ASSUME NEW r \in OpRecords, op' = [op EXCEPT ![w] = r],
             \/ r = Off /\ op[w].call = "set"
             \/ /\ r.x = x /\ r.pc = "resolve" /\ r.call = "unset" /\ op[w].call = "unset"
                /\ r.conn = 0 /\ r.old = 0 /\ r.kind = op[w].kind
      PROVE  IInv'
  <2>1. op'[w] = r /\ (r.pc \notin {"credSet", "credDelete"})
    BY <1>6, OffIs DEF IInv, TypeInv
  <2>2. r # Off => r.pc = "resolve" /\ r.x = x /\ r.call = "unset" /\ op[w].call = "unset"
                   /\ r.kind = op[w].kind
    BY <1>6
  <2>3. Moves(w, x, r)
    BY <1>1, <1>2, <1>3, <1>6, PlaceIs DEF Moves, InHand, EnvCalls, Trouble
  <2>4. r # Off => PlaceOf(w)'
    <3>1. r # Off => EnvAt(w)'
      BY <2>1, <2>2 DEF EnvAt
    <3>2. budgets.calls > 0 => budgets'.calls > 0
      BY <1>1, SpendIs DEF IInv, Trouble
    <3> QED BY <1>1, <1>2, <1>3, <2>1, <2>2, <3>1, <3>2, PlaceGoes DEF EnvCalls
  <2>5. SnapshotOf(w)'
    BY <2>1 DEF SnapshotOf
  <2>6. ValueIs(w, x) => ~reg[x].env /\ (r # Off => ValueIs(w, x)')
    BY <1>1, <2>1, <2>2 DEF ValueIs
  <2>7. ASSUME Serving, Clean(x)', Under(w, x)
        PROVE  IF r # Off THEN Under(w, x)' ELSE Calm(x)'
    <3>1. ~reg[x].env /\ reg'[x] = reg[x] /\ Want(x) = 0 /\ Want(x)' = 0
      BY <1>1, <1>2, <2>7, UnderNow DEF ValueIs, Want, regVars, credVars
    <3>2. KindIs(w, x) /\ SkillIs(w, x) /\ EnvIs(w, x) /\ ServerOk(x) /\ TrackOk(x) /\ ToolsOk(x)
      BY <1>2, <1>5, <2>7, PlainIs DEF Settling
    <3>3. ServerOk(x)' /\ TrackOk(x)' /\ ToolsOk(x)'
      BY <1>1, <1>2, <3>1, <3>2, QuietSame
    <3>4. CASE r = Off
      <4>1. EnvOk(x)
        BY <1>1, <1>6, <2>1, <3>2, <3>4, OffIs DEF EnvIs, Stale, EnvCalls
      <4>2. EnvOk(x)'
        BY <1>1, <3>1, <4>1 DEF EnvOk, Asked, clientVars
      <4> QED BY <1>1, <1>5, <3>1, <3>2, <3>3, <3>4, <4>2 DEF Calm, SkillIs, Settling
    <3>5. CASE r # Off
      <4>1. Plain(w)' /\ op'[w].call = "unset" /\ op'[w].pc = "resolve" /\ op'[w].kind = op[w].kind
        BY <2>1, <2>2, <3>5 DEF Plain, InHand
      <4>2. KindIs(w, x)' /\ EnvIs(w, x)'
        BY <2>2, <3>1, <3>2, <3>5, <4>1 DEF KindIs, EnvIs, Stale, EnvCalls
      <4>3. SkillIs(w, x)'
        BY <1>1, <1>5, <3>1, <3>2, <4>1 DEF SkillIs, Settling
      <4> QED BY <1>2, <3>3, <3>5, <4>1, <4>2, <4>3, PlainNext
    <3> QED BY <3>4, <3>5
  <2> QED BY <1>1, <1>2, <1>4, <2>3, <2>4, <2>5, <2>6, <2>7, QuietKeeps
<1>7. CASE op[w].call = "set" /\ Return(w)
  BY <1>6, <1>7, OffIs, Constants DEF Return
<1>8. CASE op[w].call # "set" /\ Goto(w, "resolve")
  <2> DEFINE r == [op[w] EXCEPT !.pc = "resolve"]
  <2>1. /\ r \in OpRecords /\ r.x = x /\ r.conn = 0 /\ r.old = 0 /\ r.call = "unset" /\ r.pc = "resolve"
        /\ r.kind = op[w].kind
    BY <1>2, <1>3, <1>8 DEF OpRecords, Places, EnvCalls
  <2>2. op' = [op EXCEPT ![w] = r]
    BY <1>8 DEF Goto
  <2> HIDE DEF r
  <2> QED BY <1>3, <1>6, <1>8, <2>1, <2>2 DEF EnvCalls
<1> QED BY <1>7, <1>8 DEF Dropped

\* The store is read: the call goes on with what it has read.
LEMMA SnapshotKeeps ==
  ASSUME IInv, NEW w \in Ops, NEW x, op[w].x = x, op[w].pc \in {"credRead", "dropRead"},
         op' = [op EXCEPT ![w].pc = IF @ = "credRead" THEN "credSet" ELSE "credDelete", ![w].snap = creds],
         UNCHANGED <<clientVars, mode, proc, regVars, creds, skills, reload, unasked, budgets, raced, waived>>
  PROVE  IInv'
<1> DEFINE pc == IF op[w].pc = "credRead" THEN "credSet" ELSE "credDelete"
           r == [op[w] EXCEPT !.pc = pc, !.snap = creds]
<1>1. op[w].pc \in {"credRead", "dropRead"} /\ op' = [op EXCEPT ![w] = r]
      /\ UNCHANGED <<clientVars, mode, proc, regVars, creds, skills, reload, unasked, budgets, raced, waived>>
  BY DEF IInv, TypeInv
<1>2. /\ Active(w) /\ PlaceOf(w) /\ x \in Names /\ op[w] \in OpRecords
      /\ op[w].conn = 0 /\ op[w].old = 0 /\ op \in [Ops -> OpRecords]
  BY <1>1, OpRead DEF InHand
<1>3. pc \in {"credSet", "credDelete"} /\ (op[w].pc = "credRead" <=> pc = "credSet")
  BY <1>1
<1>4. /\ r \in OpRecords /\ r.x = x /\ r.pc = pc /\ r.call = op[w].call /\ r.conn = 0 /\ r.old = 0
      /\ r.kind = op[w].kind /\ r.snap = creds /\ op'[w] = r /\ r # Off
  BY <1>1, <1>2, <1>3, OffIs DEF OpRecords, Places, IInv, TypeInv
<1> HIDE DEF r, pc
<1>5. Moves(w, x, r)
  BY <1>1, <1>2, <1>3, <1>4 DEF Moves, InHand
<1>6. op[w].call \in EnvCalls
  BY <1>1, <1>2 DEF PlaceOf, LoadAt, AddAt, RemoveAt, Dialing, Starting, Mcp
<1>7. PlaceOf(w)'
  <2>1. EnvAt(w)'
    BY <1>1, <1>2, <1>3, <1>4, <1>6, PlaceIs DEF EnvAt, Dialing
  <2> QED BY <1>1, <1>2, <1>4, <1>6, <2>1, PlaceGoes DEF EnvCalls
<1>8. SnapshotOf(w)' /\ (ValueIs(w, x) => ValueIs(w, x)')
  BY <1>1, <1>3, <1>4 DEF SnapshotOf, ValueIs, regVars, credVars
<1>9. ASSUME Under(w, x) PROVE Under(w, x)'
  <2>1. Plain(w) /\ Plain(w)'
    BY <1>1, <1>3, <1>4 DEF Plain, InHand
  <2>2. KindIs(w, x) /\ SkillIs(w, x) /\ EnvIs(w, x) /\ ServerOk(x) /\ TrackOk(x) /\ ToolsOk(x)
    BY <1>2, <1>9, <2>1, PlainIs
  <2>3. KindIs(w, x)' /\ SkillIs(w, x)'
    BY <1>1, <1>3, <1>4, <1>6, <2>2 DEF KindIs, SkillIs, regVars, credVars, EnvCalls
  <2>4. EnvIs(w, x)'
    BY <1>1, <1>2, <1>3, <1>4, <1>6, <2>2, QuietSame DEF EnvIs, Stale, regVars, credVars, EnvCalls
  <2>5. ServerOk(x)' /\ TrackOk(x)' /\ ToolsOk(x)'
    BY <1>1, <1>2, <2>2, QuietSame DEF regVars, credVars
  <2> QED BY <1>2, <2>1, <2>3, <2>4, <2>5, PlainNext
<1>10. creds' \in [Names -> Nat] /\ CredsLocal(w, x)
  BY <1>1 DEF IInv, TypeInv, CredsLocal
<1> QED BY <1>1, <1>2, <1>4, <1>5, <1>7, <1>8, <1>9, <1>10, QuietKeeps DEF regVars, credVars

LEMMA CredDeleteKeeps ==
  ASSUME IInv, NEW w \in Ops, NEW x, op[w].x = x, CredDelete(w)
  PROVE  IInv'
<1>1. /\ op[w].pc = "credDelete" /\ Dropped(w)
      /\ UNCHANGED <<clientVars, mode, proc, regVars, skills, raced, waived, reload, unasked>>
      /\ \/ creds' = [op[w].snap EXCEPT ![x] = 0] /\ UNCHANGED budgets
         \/ UNCHANGED creds /\ Trouble
  BY DEF CredDelete, CredsWrite, CredsFail, At, noteVars, Named, NoTrouble
<1> QED BY <1>1, DroppedKeeps

LEMMA CredReadKeeps ==
  ASSUME IInv, NEW w \in Ops, NEW x, op[w].x = x, CredRead(w)
  PROVE  IInv'
<1>1. /\ op[w].pc \in {"credRead", "dropRead"} /\ op[w].pc # "off" /\ op[w].pc \notin InHand
      /\ UNCHANGED <<clientVars, mode, proc, regVars, creds, skills, reload, unasked, raced, waived>>
  BY DEF CredRead, noteVars, credVars, InHand
<1>2. Active(w) /\ PlaceOf(w) /\ x \in Names
  BY <1>1, OpRead
<1>3. CASE /\ UNCHANGED budgets
           /\ op' = [op EXCEPT ![w].pc = IF @ = "credRead" THEN "credSet" ELSE "credDelete", ![w].snap = creds]
  BY <1>1, <1>3, SnapshotKeeps
<1>4. CASE op[w].pc = "dropRead" /\ Dropped(w) /\ (UNCHANGED budgets \/ Trouble)
  BY <1>1, <1>4, DroppedKeeps
<1>5. CASE op[w].pc = "credRead" /\ Return(w) /\ (UNCHANGED budgets \/ Trouble)
  <2>1. Settling(w, x) /\ ~Stale(w, x)
    BY <1>5 DEF Settling, Plain, InHand, Stale
  <2>2. Serving /\ Under(w, x) => Calm(x)'
    BY <1>1, <1>2, <2>1, CalmGoes
  <2> QED BY <1>1, <1>2, <1>5, <2>2, ReturnKeeps
<1> QED BY <1>1, <1>3, <1>4, <1>5 DEF CredRead, At, NoTrouble, Named

-------------------------------------------------------------------------------
(* Steps on the registry and on the exec skills. *)

LEMMA EditKeeps ==
  ASSUME IInv, NEW w \in Ops, NEW x \in Names, op[w].x = x, Active(w), op[w].pc \notin InHand,
         NEW r \in OpRecords, op' = [op EXCEPT ![w] = r],
         \/ r = Off
         \/ /\ r.x = x /\ r.conn = 0 /\ r.old = 0 /\ r.call = op[w].call
            /\ r.pc \notin InHand \cup {"off", "connect", "unreserve", "credSet", "credDelete"}
            /\ r.pc \in {"resolve", "dial"} => proc # "loading",
         UNCHANGED <<clientVars, mode, proc, raced, creds, reload, unasked>>, UNCHANGED budgets \/ Trouble,
         reg' \in [Names -> Entries], \A y \in Names \ {x} : reg'[y] = reg[y],
         skills' \subseteq Names, \A y \in Names \ {x} : y \in skills' <=> y \in skills,
         waived' \subseteq Names, waived \subseteq waived',
         op'[w] = r /\ r # Off => PlaceOf(w)',
         op'[w] = r /\ Clean(x)' /\ ValueIs(w, x) /\ (reg[x].env => creds[x] # 0)
           => (reg'[x].env => creds[x] # 0) /\ (r # Off => ValueIs(w, x)'),
         op'[w] = r /\ Serving /\ Clean(x)' /\ Under(w, x) => IF r # Off THEN Under(w, x)' ELSE Calm(x)'
  PROVE  IInv'
<1>1. op'[w] = r /\ (r = Off => r.pc = "off")
  BY OffIs DEF IInv, TypeInv
<1>2. SnapshotOf(w)'
  BY <1>1 DEF SnapshotOf
<1>3. budgets' \in [calls : Nat, troubles : Nat] /\ budgets'.calls >= budgets.calls
  BY SpendIs DEF Trouble, IInv, TypeInv
<1>4. reload \in BOOLEAN /\ creds \in [Names -> Nat]
  BY DEF IInv, TypeInv
<1>5. Move(w, x, r)
  BY <1>3, <1>4 DEF Move, CredsLocal
<1>6. Clean(x)' => Clean(x) /\ ValueIs(w, x) /\ (reg[x].env => creds[x] # 0) /\ (Serving => Under(w, x))
  BY UnderNow
<1>7. Clean(x)' => (reg'[x].env => creds'[x] # 0) /\ (r # Off => ValueIs(w, x)')
  BY <1>1, <1>6
<1>8. Serving /\ Clean(x)' => IF r # Off THEN Under(w, x)' ELSE Calm(x)'
  BY <1>1, <1>6
<1> QED BY <1>1, <1>2, <1>5, <1>7, <1>8, MoveKeeps

\* What Goto and Return make of an operation that has no connection in hand.
LEMMA GotoIs ==
  ASSUME IInv, NEW w \in Ops, op[w].pc \notin InHand, NEW p \in Places, Goto(w, p)
  PROVE  \E r \in OpRecords : /\ op' = [op EXCEPT ![w] = r] /\ op'[w] = r /\ r.pc = p /\ r.x = op[w].x
                              /\ r.call = op[w].call /\ r.kind = op[w].kind /\ r.conn = 0 /\ r.old = 0
                              /\ (p # "off" => r # Off)
<1> DEFINE r == [op[w] EXCEPT !.pc = p]
<1>1. op \in [Ops -> OpRecords] /\ op[w] \in OpRecords /\ op[w].conn = 0 /\ op[w].old = 0
  BY OpRead
<1>2. /\ op' = [op EXCEPT ![w] = r] /\ op'[w] = r /\ r \in OpRecords /\ r.x = op[w].x /\ r.call = op[w].call
      /\ r.pc = p /\ r.conn = 0 /\ r.old = 0 /\ r.kind = op[w].kind /\ (p # "off" => r # Off)
  BY <1>1, OffIs DEF Goto, OpRecords
<1> HIDE DEF r
<1> QED BY <1>2

LEMMA ReturnIs ==
  ASSUME IInv, NEW w \in Ops, Return(w)
  PROVE  Off \in OpRecords /\ op' = [op EXCEPT ![w] = Off] /\ op'[w] = Off
  BY OffIs, Constants DEF Return, IInv, TypeInv

\* The operations of the registry.
LEMMA EntriesAre ==
  /\ None \in Entries /\ None.kind = "none" /\ ~None.env
  /\ \A kind \in AllKinds : Entry(kind) \in Entries /\ Entry(kind).kind = kind /\ ~Entry(kind).env
  BY DEF None, Entry, Entries, AllKinds

\* Entry e is written for x, and nothing else.
Writes(x, e) ==
  /\ reg'[x] = e /\ reg' \in [Names -> Entries] /\ UNCHANGED budgets
  /\ \A y \in Names \ {x} : reg'[y] = reg[y]

LEMMA WritesIs ==
  ASSUME TypeInv, NEW x \in Names, NEW e \in Entries, Persists([reg EXCEPT ![x] = e]), UNCHANGED budgets
  PROVE  Writes(x, e)
  BY DEF TypeInv, Persists, Writes

LEMMA AddIs ==
  ASSUME TypeInv, NEW x \in Names, NEW e \in Entries, Through(Add(x, e))
  PROVE  reg[x] = None /\ Writes(x, e)
  BY WritesIs DEF Through, Add, Has, NoTrouble

LEMMA RemoveIs ==
  ASSUME TypeInv, NEW x \in Names, Through(Remove(x))
  PROVE  Has(x) /\ Writes(x, None)
  BY WritesIs, EntriesAre DEF Through, Remove, NoTrouble

LEMMA UpdateIs ==
  ASSUME TypeInv, NEW x \in Names, NEW b \in BOOLEAN, Through(Update(x, b))
  PROVE  /\ reg'[x].kind = reg[x].kind /\ reg'[x].env = b /\ UNCHANGED budgets
         /\ reg' \in [Names -> Entries] /\ \A y \in Names \ {x} : reg'[y] = reg[y]
<1> DEFINE e == [reg[x] EXCEPT !.env = b]
<1>1. reg[x] \in Entries /\ reg \in [Names -> Entries]
  BY DEF TypeInv
<1>2. e \in Entries /\ e.kind = reg[x].kind /\ e.env = b
  BY <1>1 DEF Entries
<1>3. Persists([reg EXCEPT ![x] = e]) /\ UNCHANGED budgets
  BY DEF Through, Update, NoTrouble
<1> HIDE DEF e
<1>4. Writes(x, e)
  BY <1>2, <1>3, WritesIs
<1> QED BY <1>2, <1>4 DEF Writes

LEMMA RefusedIs ==
  ASSUME TypeInv, NEW may \in BOOLEAN, Refused(may)
  PROVE  /\ reg' = reg /\ UNCHANGED regVars /\ reg' \in [Names -> Entries]
         /\ UNCHANGED budgets \/ Trouble
  BY DEF TypeInv, Refused, NoTrouble, regVars, credVars

LEMMA UpdateEntryKeeps ==
  ASSUME IInv, NEW w \in Ops, NEW x, op[w].x = x, UpdateEntry(w)
  PROVE  IInv'
<1>1. /\ op[w].pc = "update" /\ op[w].pc # "off" /\ op[w].pc \notin InHand
      /\ UNCHANGED <<clientVars, mode, proc, raced, creds, skills, reload, unasked>>
  BY DEF UpdateEntry, At, InHand, credVars
<1>2. Active(w) /\ PlaceOf(w) /\ x \in Names /\ skills \subseteq Names /\ waived \subseteq Names
  BY <1>1, OpRead DEF IInv, TypeInv
<1>3. op[w].call \in {"set", "unset"} /\ proc # "loading"
  BY <1>1, <1>2, PlaceIs DEF LoadAt, AddAt, RemoveAt, Starting, Dialing, Mcp, EnvCalls
<1>4. Plain(w)
  BY <1>1 DEF Plain, InHand
<1>5. ASSUME NEW p \in {"resolve", "dropRead"}, Goto(w, p), UNCHANGED budgets \/ Trouble,
             reg' \in [Names -> Entries], \A y \in Names \ {x} : reg'[y] = reg[y],
             waived' \subseteq Names, waived \subseteq waived', reg'[x].kind = reg[x].kind,
             Clean(x)' => (reg'[x].env => (op[w].call = "set" /\ p = "resolve")),
             Clean(x)' => \/ op[w].call = "set" /\ p = "resolve"
                          \/ op[w].call = "unset" /\ p = "dropRead"
                          \/ op[w].call = "set" /\ reg'[x] = reg[x]
      PROVE  IInv'
  <2>1. PICK r \in OpRecords : /\ op' = [op EXCEPT ![w] = r] /\ op'[w] = r /\ r.pc = p /\ r.x = x
                               /\ r.call = op[w].call /\ r.kind = op[w].kind /\ r.conn = 0 /\ r.old = 0
                               /\ r # Off
    BY <1>1, <1>5, GotoIs DEF Places
  <2>2. PlaceOf(w)'
    <3>1. EnvAt(w)'
      BY <1>5, <2>1 DEF EnvAt
    <3>2. budgets.calls > 0 => budgets'.calls > 0
      BY <1>5, SpendIs DEF IInv, Trouble
    <3> QED BY <1>1, <1>2, <1>3, <2>1, <3>1, <3>2, PlaceGoes DEF EnvCalls
  <2>3. Clean(x)' /\ ValueIs(w, x) /\ (reg[x].env => creds[x] # 0)
          => (reg'[x].env => creds[x] # 0) /\ ValueIs(w, x)'
    BY <1>1, <1>5, <2>1 DEF ValueIs
  <2>4. ASSUME Clean(x)', Under(w, x)
        PROVE  Under(w, x)'
    <3>1. KindIs(w, x) /\ SkillIs(w, x) /\ EnvIs(w, x) /\ ServerOk(x) /\ TrackOk(x) /\ ToolsOk(x)
      BY <1>2, <1>4, <2>4, PlainIs
    <3>2. KindIs(w, x)' /\ SkillIs(w, x)'
      <4>1. /\ reg'[x].kind = reg[x].kind /\ skills' = skills /\ op'[w].call = op[w].call
            /\ op'[w].kind = op[w].kind /\ op'[w].pc \in {"resolve", "dropRead"}
        BY <1>1, <1>5, <2>1
      <4> QED BY <1>1, <1>3, <3>1, <4>1 DEF KindIs, SkillIs
    <3>3. ServerOk(x)' /\ TrackOk(x)' /\ ToolsOk(x)'
      BY <1>1, <1>2, <1>5, <3>1, QuietSame
    <3>4. EnvIs(w, x)'
      <4>1. CASE \/ op[w].call = "set" /\ p = "resolve"
                 \/ op[w].call = "unset" /\ p = "dropRead"
        BY <1>5, <2>1, <4>1 DEF EnvIs, Stale, EnvCalls
      <4>2. CASE op[w].call = "set" /\ p = "dropRead"
        <5>1. ~reg[x].env /\ reg'[x] = reg[x]
          BY <1>5, <2>4, <4>2
        <5>2. EnvOk(x)
          BY <1>1, <3>1, <4>2, <5>1 DEF EnvIs, Stale, EnvCalls
        <5>3. EnvOk(x)'
          BY <1>1, <1>2, <5>1, <5>2, QuietSame
        <5> QED BY <2>1, <4>2, <5>3 DEF EnvIs
      <4>3. p = "resolve" \/ p = "dropRead"
        BY <1>5
      <4>4. op[w].call = "unset" => p = "dropRead"
        BY <1>5, <2>4
      <4> QED BY <1>3, <4>1, <4>2, <4>3, <4>4
    <3>5. Plain(w)'
      BY <1>5, <2>1 DEF Plain, InHand
    <3> QED BY <1>2, <3>2, <3>3, <3>4, <3>5, PlainNext
  <2> QED BY <1>1, <1>2, <1>3, <1>5, <2>1, <2>2, <2>3, <2>4, EditKeeps DEF InHand
<1>6. TypeInv
  BY DEF IInv
<1>7. ASSUME Through(Update(x, op[w].call = "set")), UNCHANGED waived,
             Goto(w, IF op[w].call = "set" THEN "resolve" ELSE "dropRead")
      PROVE  IInv'
  BY <1>2, <1>3, <1>5, <1>6, <1>7, UpdateIs
<1>8. ASSUME Refused(Has(x)),
             IF op[w].call = "set" THEN Goto(w, "dropRead") ELSE Return(w),
             waived' = waived \cup (IF op[w].call = "set" /\ reg[x].env THEN {x} ELSE {})
      PROVE  IInv'
  <2>1. reg' = reg /\ UNCHANGED regVars /\ reg' \in [Names -> Entries]
        /\ (UNCHANGED budgets \/ Trouble)
    BY <1>6, <1>8, RefusedIs DEF Has
  <2>2. CASE op[w].call = "set"
    <3>1. Clean(x)' => ~reg[x].env
      BY <1>8, <2>2 DEF Clean
    <3> QED BY <1>2, <1>5, <1>8, <2>1, <2>2, <3>1
  <2>3. CASE op[w].call = "unset"
    <3>1. Settling(w, x)
      BY <1>1, <1>4 DEF Settling
    <3>2. Under(w, x) => Calm(x)'
      BY <1>1, <1>2, <2>1, <2>3, <3>1, CalmGoes DEF Stale
    <3>3. waived' = waived /\ Return(w)
      BY <1>8, <2>3
    <3>4. UNCHANGED <<clientVars, mode, proc, regVars, skills, raced, waived, creds>>
      BY <1>1, <2>1, <3>3
    <3> QED BY <1>1, <1>2, <2>1, <3>2, <3>3, <3>4, ReturnKeeps
  <2> QED BY <1>3, <2>2, <2>3
<1> QED BY <1>7, <1>8 DEF UpdateEntry, Named

LEMMA RegisterKeeps ==
  ASSUME IInv, NEW w \in Ops, NEW x, op[w].x = x, Register(w)
  PROVE  IInv'
<1>1. /\ op[w].pc = "register" /\ op[w].pc # "off" /\ op[w].pc \notin InHand
      /\ UNCHANGED <<clientVars, mode, proc, raced, creds, reload, unasked>> /\ UNCHANGED <<regVars, budgets, waived>>
      /\ skills' = skills \cup {x} /\ Goto(w, "persist")
  BY DEF Register, At, InHand, noteVars, credVars, Named
<1>2. Active(w) /\ PlaceOf(w) /\ x \in Names /\ skills \subseteq Names /\ waived \subseteq Names
      /\ reg \in [Names -> Entries]
  BY <1>1, OpRead DEF IInv, TypeInv
<1>3. op[w].call = "add" /\ op[w].kind = "exec"
  BY <1>1, <1>2, PlaceIs DEF LoadAt, AddAt, RemoveAt, EnvAt, Starting, Dialing, Mcp, EnvCalls
<1>4. PICK r \in OpRecords : /\ op' = [op EXCEPT ![w] = r] /\ op'[w] = r /\ r.pc = "persist" /\ r.x = x
                             /\ r.call = "add" /\ r.kind = "exec" /\ r.conn = 0 /\ r.old = 0 /\ r # Off
  BY <1>1, <1>3, GotoIs DEF Places
<1>5. PlaceOf(w)'
  <2>1. AddAt(w)'
    BY <1>4 DEF AddAt
  <2> QED BY <1>1, <1>2, <1>3, <1>4, <2>1, PlaceGoes DEF EnvCalls
<1>6. ValueIs(w, x)'
  BY <1>4 DEF ValueIs
<1>7. ASSUME Under(w, x) PROVE Under(w, x)'
  <2>1. Plain(w) /\ Plain(w)'
    BY <1>1, <1>3, <1>4 DEF Plain, InHand, Mcp
  <2>2. KindIs(w, x) /\ SkillIs(w, x) /\ EnvIs(w, x) /\ ServerOk(x) /\ TrackOk(x) /\ ToolsOk(x)
    BY <1>2, <1>7, <2>1, PlainIs
  <2>3. KindIs(w, x)' /\ SkillIs(w, x)'
    BY <1>1, <1>3, <1>4, <2>2 DEF KindIs, SkillIs, regVars, credVars, Dialing
  <2>4. EnvIs(w, x)' /\ ServerOk(x)' /\ TrackOk(x)' /\ ToolsOk(x)'
    BY <1>1, <1>2, <1>3, <1>4, <2>2, QuietSame DEF EnvIs, Stale, EnvCalls, regVars, credVars
  <2> QED BY <1>2, <2>1, <2>3, <2>4, PlainNext
<1> QED BY <1>1, <1>2, <1>3, <1>4, <1>5, <1>6, <1>7, EditKeeps DEF InHand, regVars, credVars

LEMMA UnregisterKeeps ==
  ASSUME IInv, NEW w \in Ops, NEW x, op[w].x = x, Unregister(w)
  PROVE  IInv'
<1>1. /\ op[w].pc = "unregister" /\ op[w].pc # "off" /\ op[w].pc \notin InHand
      /\ UNCHANGED <<clientVars, mode, proc, raced, creds, reload, unasked>> /\ UNCHANGED <<regVars, budgets, waived>>
      /\ skills' = skills \ {x} /\ Return(w)
  BY DEF Unregister, At, InHand, noteVars, credVars, Named
<1>2. Active(w) /\ PlaceOf(w) /\ x \in Names /\ skills \subseteq Names /\ waived \subseteq Names
      /\ reg \in [Names -> Entries]
  BY <1>1, OpRead DEF IInv, TypeInv
<1>3. op[w].call \notin EnvCalls
  BY <1>1, <1>2, PlaceIs DEF EnvAt, Dialing, EnvCalls
<1>4. ASSUME Under(w, x) PROVE Calm(x)'
  <2>1. Plain(w)
    BY <1>1 DEF Plain, InHand
  <2>2. SkillIs(w, x) /\ EnvIs(w, x) /\ ServerOk(x) /\ TrackOk(x) /\ ToolsOk(x)
    BY <1>2, <1>4, <2>1, PlainIs
  <2>3. reg[x].kind # "exec" /\ EnvOk(x)
    BY <1>1, <1>3, <2>2 DEF SkillIs, EnvIs, Stale, EnvCalls
  <2>4. EnvOk(x)' /\ ServerOk(x)' /\ TrackOk(x)' /\ ToolsOk(x)'
    BY <1>1, <1>2, <2>2, <2>3, QuietSame DEF regVars, credVars
  <2> QED BY <1>1, <2>3, <2>4 DEF Calm, regVars, credVars
<1> QED BY <1>1, <1>2, <1>4, ReturnIs, EditKeeps DEF regVars, credVars

\* The registry has no entry: nothing runs for it.
LEMMA NothingRuns ==
  ASSUME NEW x \in Names, reg[x].kind \notin Mcp, ServerOk(x), TrackOk(x),
         UNCHANGED <<clientVars, mode>>
  PROVE  ServerOk(x)' /\ TrackOk(x)' /\ EnvOk(x)'
<1>1. ~HasServer(x) /\ tracked[x] = NoConn
  BY DEF ServerOk, TrackOk
<1> QED BY <1>1 DEF ServerOk, TrackOk, EnvOk, Asked, HasServer, clientVars

LEMMA PersistKeeps ==
  ASSUME IInv, NEW w \in Ops, NEW x, op[w].x = x, Persist(w)
  PROVE  IInv'
<1>1. /\ op[w].pc = "persist" /\ op[w].pc # "off" /\ op[w].pc \notin InHand
      /\ UNCHANGED <<clientVars, mode, proc, raced, creds, reload, unasked>> /\ UNCHANGED <<skills, waived>>
      /\ waived' = waived
  BY DEF Persist, At, InHand, noteVars, credVars
<1>2. /\ Active(w) /\ PlaceOf(w) /\ x \in Names /\ skills \subseteq Names /\ waived \subseteq Names
      /\ TypeInv /\ op[w] \in OpRecords /\ mode \in {"api", "cli"} /\ OneHolder
  BY <1>1, OpRead DEF IInv, TypeInv
<1>3. op[w].call = "add" /\ proc # "loading" /\ AddAt(w)
  BY <1>1, <1>2, PlaceIs DEF LoadAt, RemoveAt, EnvAt, Starting, Dialing, Mcp, EnvCalls
<1>4. op[w].kind \in {"stdio", "http", "exec", "prompt"} /\ op[w].kind \in AllKinds
  BY <1>1, <1>3 DEF AddAt, AllKinds, Mcp
<1>5. Entry(op[w].kind) \in Entries /\ Entry(op[w].kind).kind = op[w].kind /\ ~Entry(op[w].kind).env
      /\ None.kind = "none" /\ None \in Entries
  BY <1>4, EntriesAre
\* What holds of a name that is being added: its exec skill is registered already.
<1>6. ASSUME Under(w, x)
      PROVE  /\ KindIs(w, x) /\ SkillIs(w, x) /\ EnvOk(x) /\ TrackOk(x) /\ ToolsOk(x)
             /\ op[w].kind \in Mcp /\ mode = "api" => HasServer(x)
             /\ ~(op[w].kind \in Mcp /\ mode = "api") => ServerOk(x)
             /\ op[w].kind = "exec" => x \in skills /\ reg[x].kind # "exec"
             /\ op[w].kind # "exec" => (x \in skills <=> reg[x].kind = "exec")
  <2>1. EnvOk(x)
    BY <1>1, <1>3, <1>6 DEF Under, EnvIs, Stale, EnvCalls
  <2>2. TrackOk(x) /\ ToolsOk(x)
    BY <1>1, <1>6 DEF Under, ToolsAre
  <2>3. /\ op[w].kind \in Mcp /\ mode = "api" => HasServer(x)
        /\ ~(op[w].kind \in Mcp /\ mode = "api") => ServerOk(x)
    BY <1>1, <1>6 DEF Under, ServerIs
  <2>4. /\ op[w].kind = "exec" => x \in skills /\ reg[x].kind # "exec"
        /\ op[w].kind # "exec" => (x \in skills <=> reg[x].kind = "exec")
    BY <1>1, <1>3, <1>6 DEF Under, KindIs, SkillIs, Dialing
  <2> QED BY <1>6, <2>1, <2>2, <2>3, <2>4 DEF Under
\* It goes on or returns, with the registry as it is or with the new entry.
<1>7. ASSUME NEW r \in OpRecords, op' = [op EXCEPT ![w] = r], op'[w] = r, UNCHANGED budgets \/ Trouble,
             reg' \in [Names -> Entries], \A y \in Names \ {x} : reg'[y] = reg[y],
             reg'[x].env => reg'[x] = reg[x],
             \/ r = Off
             \/ /\ r.x = x /\ r.conn = 0 /\ r.old = 0 /\ r.call = "add" /\ r.kind = op[w].kind
                /\ r.pc \in {"reload", "resolve", "unregister", "removeServer"}
                /\ r.pc = "resolve" => mode = "cli" /\ r.kind \in Mcp
                /\ r.pc = "unregister" => r.kind = "exec"
                /\ r.pc = "removeServer" => mode = "api" /\ r.kind \in Mcp,
             Under(w, x) => IF r # Off THEN Under(w, x)' ELSE Calm(x)'
      PROVE  IInv'
  <2>1. r # Off => PlaceOf(w)'
    <3> SUFFICES ASSUME r # Off PROVE PlaceOf(w)'
      OBVIOUS
    <3>1. AddAt(w)'
      BY <1>1, <1>2, <1>3, <1>4, <1>7 DEF AddAt, Dialing, Starting, Mcp
    <3>2. budgets.calls > 0 => budgets'.calls > 0
      BY <1>7, SpendIs DEF IInv, Trouble
    <3> QED BY <1>1, <1>2, <1>3, <1>7, <3>1, <3>2, PlaceGoes DEF EnvCalls
  <2>2. ASSUME reg[x].env => creds[x] # 0
        PROVE  (reg'[x].env => creds[x] # 0) /\ (r # Off => ValueIs(w, x)')
    BY <1>7, <2>2 DEF ValueIs
  <2>3. \/ r = Off
        \/ /\ r.x = x /\ r.conn = 0 /\ r.old = 0 /\ r.call = op[w].call
           /\ r.pc \notin InHand \cup {"off", "connect", "unreserve", "credSet", "credDelete"}
           /\ r.pc \in {"resolve", "dial"} => proc # "loading"
    BY <1>3, <1>7 DEF InHand
  <2> QED BY <1>1, <1>2, <1>7, <2>1, <2>2, <2>3, EditKeeps
<1>8. ASSUME Through(Add(x, Entry(op[w].kind))), op[w].kind \notin Mcp, Return(w)
      PROVE  IInv'
  <2>1. reg[x] = None /\ Writes(x, Entry(op[w].kind))
    BY <1>2, <1>5, <1>8, AddIs
  <2>2. ASSUME Under(w, x) PROVE Calm(x)'
    <3>1. ServerOk(x)' /\ TrackOk(x)' /\ EnvOk(x)' /\ ToolsOk(x)'
      BY <1>1, <1>2, <1>5, <1>6, <1>8, <2>1, <2>2, NothingRuns, QuietSame DEF Mcp
    <3>2. x \in skills' <=> reg'[x].kind = "exec"
      BY <1>1, <1>4, <1>5, <1>6, <2>1, <2>2 DEF Writes, Mcp
    <3> QED BY <3>1, <3>2 DEF Calm
  <2> QED BY <1>5, <1>7, <1>8, <2>1, <2>2, ReturnIs DEF Writes
<1>9. ASSUME Through(Add(x, Entry(op[w].kind))), op[w].kind \in Mcp,
             Goto(w, IF mode = "api" THEN "reload" ELSE "resolve")
      PROVE  IInv'
  <2>1. reg[x] = None /\ Writes(x, Entry(op[w].kind))
    BY <1>2, <1>5, <1>9, AddIs
  <2>2. PICK r \in OpRecords :
          /\ op' = [op EXCEPT ![w] = r] /\ op'[w] = r /\ r.x = x /\ r.call = "add" /\ r.kind = op[w].kind
          /\ r.pc = IF mode = "api" THEN "reload" ELSE "resolve"
          /\ r.conn = 0 /\ r.old = 0 /\ r # Off
    BY <1>1, <1>3, <1>9, GotoIs DEF Places
  <2>3. ASSUME Under(w, x) PROVE Under(w, x)'
    <3>1. TrackOk(x)' /\ EnvOk(x)' /\ ToolsOk(x)'
      <4>1. tracked[x] = NoConn
        BY <1>5, <1>6, <2>1, <2>3 DEF TrackOk, Mcp
      <4> QED BY <1>1, <1>2, <1>6, <2>3, <4>1, QuietSame DEF TrackOk, EnvOk, Asked
    <3>2. ServerOk(x)'
      <4>1. reg'[x].kind \in Mcp
        BY <1>5, <1>9, <2>1 DEF Writes
      <4> QED BY <4>1 DEF ServerOk
    <3>3. KindIs(w, x)' /\ SkillIs(w, x)'
      <4>1. x \notin skills' /\ reg'[x] = Entry(op[w].kind) /\ reg'[x].kind # "exec"
        BY <1>1, <1>5, <1>6, <1>9, <2>1, <2>3 DEF Writes, Mcp
      <4> QED BY <1>9, <2>2, <4>1 DEF KindIs, SkillIs, Mcp
    <3>4. EnvIs(w, x)'
      BY <2>2, <3>1 DEF EnvIs
    <3>5. Plain(w)'
      BY <2>2 DEF Plain, InHand
    <3> QED BY <1>2, <3>1, <3>2, <3>3, <3>4, <3>5, PlainNext
  <2> QED BY <1>2, <1>5, <1>7, <1>9, <2>1, <2>2, <2>3 DEF Writes
<1>10. ASSUME Refused(~Has(x)),
              IF op[w].kind = "exec" THEN Goto(w, "unregister")
              ELSE IF op[w].kind \in Mcp /\ mode = "api" THEN Goto(w, "removeServer") ELSE Return(w)
       PROVE  IInv'
  <2>1. reg' = reg /\ UNCHANGED regVars /\ reg' \in [Names -> Entries]
        /\ (UNCHANGED budgets \/ Trouble)
    BY <1>2, <1>10, RefusedIs DEF Has
  <2>2. ASSUME Under(w, x)
        PROVE  /\ EnvOk(x)' /\ TrackOk(x)' /\ ToolsOk(x)'
               /\ ~(op[w].kind \in Mcp /\ mode = "api") => ServerOk(x)'
    BY <1>1, <1>2, <1>6, <2>1, <2>2, QuietSame
  <2>3. CASE op[w].kind = "exec"
    <3>1. PICK r \in OpRecords :
            /\ op' = [op EXCEPT ![w] = r] /\ op'[w] = r /\ r.x = x /\ r.call = "add" /\ r.kind = "exec"
            /\ r.pc = "unregister" /\ r.conn = 0 /\ r.old = 0 /\ r # Off
      BY <1>1, <1>3, <1>10, <2>3, GotoIs DEF Places
    <3>2. ASSUME Under(w, x) PROVE Under(w, x)'
      <4>1. KindIs(w, x)' /\ SkillIs(w, x)'
        BY <1>6, <2>1, <2>3, <3>1, <3>2 DEF KindIs, SkillIs, Dialing
      <4>2. EnvIs(w, x)' /\ Plain(w)' /\ ServerOk(x)' /\ TrackOk(x)' /\ ToolsOk(x)'
        BY <2>2, <2>3, <3>1, <3>2 DEF EnvIs, Plain, InHand, Mcp
      <4> QED BY <1>2, <4>1, <4>2, PlainNext
    <3> QED BY <1>7, <2>1, <2>3, <3>1, <3>2
  <2>4. CASE op[w].kind \in Mcp /\ mode = "api"
    <3>1. PICK r \in OpRecords :
            /\ op' = [op EXCEPT ![w] = r] /\ op'[w] = r /\ r.x = x /\ r.call = "add" /\ r.kind = op[w].kind
            /\ r.pc = "removeServer" /\ r.conn = 0 /\ r.old = 0 /\ r # Off
      BY <1>1, <1>3, <1>10, <2>4, GotoIs DEF Places, Mcp
    <3>2. ASSUME Under(w, x) PROVE Under(w, x)'
      <4>1. KindIs(w, x)' /\ SkillIs(w, x)'
        BY <1>1, <1>6, <2>1, <2>4, <3>1, <3>2 DEF KindIs, SkillIs, Dialing, Mcp
      <4>2. EnvIs(w, x)' /\ ServerIs(w, x)' /\ ToolsAre(w, x)'
        BY <2>2, <3>1, <3>2 DEF EnvIs, ServerIs, ToolsAre
      <4> QED BY <4>1, <4>2 DEF Under
    <3> QED BY <1>7, <2>1, <2>4, <3>1, <3>2
  <2>5. CASE op[w].kind # "exec" /\ ~(op[w].kind \in Mcp /\ mode = "api")
    <3>1. Under(w, x) => Calm(x)'
      BY <1>1, <1>6, <2>1, <2>2, <2>5 DEF Calm
    <3> QED BY <1>7, <1>10, <2>1, <2>5, <3>1, ReturnIs
  <2> QED BY <2>3, <2>4, <2>5
<1>11. CASE Through(Add(x, Entry(op[w].kind)))
  BY <1>8, <1>9, <1>11, <1>10 DEF Persist, Named
<1> QED BY <1>8, <1>9, <1>10 DEF Persist, Named

LEMMA PersistAnywayKeeps ==
  ASSUME IInv, NEW w \in Ops, NEW x, op[w].x = x, PersistAnyway(w)
  PROVE  IInv'
<1>1. /\ op[w].pc = "persistAnyway" /\ op[w].pc # "off" /\ op[w].pc \notin InHand
      /\ UNCHANGED <<clientVars, mode, proc, raced, creds, reload, unasked>> /\ UNCHANGED <<skills, waived>>
      /\ Return(w)
  BY DEF PersistAnyway, At, InHand, noteVars, credVars
<1>2. /\ Active(w) /\ PlaceOf(w) /\ x \in Names /\ skills \subseteq Names /\ waived \subseteq Names
      /\ TypeInv /\ OneHolder
  BY <1>1, OpRead DEF IInv, TypeInv
<1>3. op[w].call = "add" /\ AddAt(w)
  BY <1>1, <1>2, PlaceIs DEF LoadAt, RemoveAt, EnvAt, Starting, Dialing, Mcp, EnvCalls
<1>4. op[w].kind = "http" /\ mode = "api"
  BY <1>1, <1>2, <1>3 DEF AddAt, Dialing, Starting, Mcp, IInv, TypeInv
<1>5. Plain(w)
  BY <1>1 DEF Plain, InHand
<1>6. ASSUME Under(w, x)
      PROVE  EnvOk(x) /\ ServerOk(x) /\ TrackOk(x) /\ ToolsOk(x) /\ (x \in skills <=> reg[x].kind = "exec")
  <2>1. SkillIs(w, x) /\ EnvIs(w, x) /\ ServerOk(x) /\ TrackOk(x) /\ ToolsOk(x)
    BY <1>2, <1>5, <1>6, PlainIs
  <2> QED BY <1>1, <1>3, <2>1 DEF EnvIs, Stale, EnvCalls, SkillIs
<1>7. ASSUME reg' \in [Names -> Entries], \A y \in Names \ {x} : reg'[y] = reg[y],
             UNCHANGED budgets \/ Trouble, reg'[x].env => reg'[x] = reg[x],
             Under(w, x) => Calm(x)'
      PROVE  IInv'
  BY <1>1, <1>2, <1>7, ReturnIs, EditKeeps
<1>8. CASE Through(Add(x, Entry(op[w].kind)))
  <2>1. Entry("http") \in Entries /\ Entry("http").kind = "http" /\ ~Entry("http").env /\ None.kind = "none"
    BY EntriesAre DEF AllKinds, Mcp
  <2>2. reg[x] = None /\ Writes(x, Entry("http"))
    BY <1>2, <1>4, <1>8, <2>1, AddIs
  <2>3. ASSUME Under(w, x) PROVE Calm(x)'
    <3>1. ServerOk(x)' /\ TrackOk(x)' /\ EnvOk(x)' /\ ToolsOk(x)'
      BY <1>1, <1>2, <1>6, <2>1, <2>2, <2>3, NothingRuns, QuietSame DEF Mcp
    <3> QED BY <1>1, <1>6, <2>1, <2>2, <2>3, <3>1 DEF Calm, Writes
  <2> QED BY <1>7, <2>1, <2>2, <2>3 DEF Writes
<1>9. CASE Refused(~Has(x))
  <2>1. reg' = reg /\ UNCHANGED regVars /\ reg' \in [Names -> Entries]
        /\ (UNCHANGED budgets \/ Trouble)
    BY <1>2, <1>9, RefusedIs DEF Has
  <2>2. ASSUME Under(w, x) PROVE Calm(x)'
    <3>1. EnvOk(x)' /\ TrackOk(x)' /\ ToolsOk(x)' /\ ServerOk(x)'
      BY <1>1, <1>2, <1>6, <2>1, <2>2, QuietSame
    <3> QED BY <1>1, <1>6, <2>1, <2>2, <3>1 DEF Calm
  <2> QED BY <1>7, <2>1, <2>2
<1> QED BY <1>8, <1>9 DEF PersistAnyway, Named

LEMMA UnpersistKeeps ==
  ASSUME IInv, NEW w \in Ops, NEW x, op[w].x = x, Unpersist(w)
  PROVE  IInv'
<1>1. /\ op[w].pc = "unpersist" /\ op[w].pc # "off" /\ op[w].pc \notin InHand
      /\ UNCHANGED <<clientVars, mode, proc, raced, creds, reload, unasked>> /\ UNCHANGED <<skills, waived>>
  BY DEF Unpersist, At, InHand, noteVars, credVars
<1>2. /\ Active(w) /\ PlaceOf(w) /\ x \in Names /\ skills \subseteq Names /\ waived \subseteq Names
      /\ TypeInv /\ mode \in {"api", "cli"}
  BY <1>1, OpRead DEF IInv, TypeInv
<1>3. op[w].call = "remove" /\ proc # "loading"
  BY <1>1, <1>2, PlaceIs DEF LoadAt, AddAt, EnvAt, Starting, Dialing, Mcp, EnvCalls
<1>4. ASSUME Under(w, x)
      PROVE  /\ EnvOk(x) /\ ServerOk(x) /\ TrackOk(x) /\ ToolsOk(x) /\ (x \in skills <=> reg[x].kind = "exec")
             /\ reg[x].kind = op[w].kind
  <2>1. Plain(w)
    BY <1>1 DEF Plain, InHand
  <2>2. KindIs(w, x) /\ SkillIs(w, x) /\ EnvIs(w, x) /\ ServerOk(x) /\ TrackOk(x) /\ ToolsOk(x)
    BY <1>2, <1>4, <2>1, PlainIs
  <2> QED BY <1>1, <1>3, <2>2 DEF EnvIs, Stale, EnvCalls, SkillIs, KindIs
<1>5. ASSUME Through(Remove(x))
      PROVE  Writes(x, None) /\ None.kind = "none" /\ ~None.env
  BY <1>2, <1>5, RemoveIs, EntriesAre
\* It goes on by the kind it has read.
<1>6. ASSUME Through(Remove(x)), NEW p \in {"unregister", "removeServer", "take"}, Goto(w, p),
             p = "unregister" => op[w].kind = "exec",
             p = "removeServer" => op[w].kind \in Mcp /\ mode = "api",
             p = "take" => op[w].kind \in Mcp /\ mode = "cli"
      PROVE  IInv'
  <2>1. PICK r \in OpRecords :
          /\ op' = [op EXCEPT ![w] = r] /\ op'[w] = r /\ r.pc = p /\ r.x = x /\ r.call = "remove"
          /\ r.kind = op[w].kind /\ r.conn = 0 /\ r.old = 0 /\ r # Off
    BY <1>1, <1>3, <1>6, GotoIs DEF Places
  <2>2. Writes(x, None) /\ None.kind = "none" /\ ~None.env
    BY <1>5, <1>6
  <2>3. PlaceOf(w)'
    <3>1. RemoveAt(w)'
      BY <1>1, <1>6, <2>1 DEF RemoveAt
    <3> QED BY <1>1, <1>2, <1>3, <2>1, <2>2, <3>1, PlaceGoes DEF EnvCalls, Writes
  <2>4. ValueIs(w, x)'
    BY <1>6, <2>1 DEF ValueIs
  <2>5. ASSUME Under(w, x) PROVE Under(w, x)'
    <3>1. KindIs(w, x)'
      BY <1>6, <2>1, <2>2 DEF KindIs, Writes
    <3>2. reg'[x].kind \notin {"exec", "stdio"} /\ (op[w].kind # "exec" => x \notin skills')
      BY <1>1, <1>4, <2>2, <2>5 DEF Writes
    <3>3. SkillIs(w, x)'
      BY <1>6, <2>1, <3>2 DEF SkillIs, Mcp
    <3>4. EnvIs(w, x)'
      BY <2>1, <3>2 DEF EnvIs, EnvOk, Asked
    <3>5. ToolsOk(x)'
      BY <1>1, <1>2, <1>4, <2>5, QuietSame
    <3>6. CASE p = "unregister"
      <4>1. ServerOk(x)' /\ TrackOk(x)'
        BY <1>1, <1>2, <1>4, <1>6, <2>5, <3>6, NothingRuns DEF Mcp
      <4>2. Plain(w)'
        BY <2>1, <3>6 DEF Plain, InHand
      <4> QED BY <1>2, <3>1, <3>3, <3>4, <3>5, <4>1, <4>2, PlainNext
    <3>7. CASE p = "removeServer"
      <4>1. tracked[x] = NoConn /\ tracked' = tracked
        BY <1>1, <1>2, <1>6, <3>7 DEF IInv, OneHolder, clientVars
      <4>2. TrackOk(x)'
        BY <4>1 DEF TrackOk
      <4>3. ServerIs(w, x)' /\ ToolsAre(w, x)'
        BY <2>1, <3>5, <3>7, <4>2 DEF ServerIs, ToolsAre
      <4> QED BY <3>1, <3>3, <3>4, <4>3 DEF Under
    <3>8. CASE p = "take"
      <4>1. ServerOk(x)'
        BY <1>1, <1>2, <1>6, <3>8 DEF IInv, OneHolder, clientVars, ServerOk, HasServer
      <4>2. ServerIs(w, x)' /\ ToolsAre(w, x)'
        BY <2>1, <3>5, <3>8, <4>1 DEF ServerIs, ToolsAre
      <4> QED BY <3>1, <3>3, <3>4, <4>2 DEF Under
    <3> QED BY <1>6, <3>6, <3>7, <3>8
  <2> QED BY <1>1, <1>2, <1>3, <1>6, <2>1, <2>2, <2>3, <2>4, <2>5, EditKeeps DEF InHand, Writes
<1>7. ASSUME Through(Remove(x)), op[w].kind \notin Mcp \cup {"exec"}, Return(w)
      PROVE  IInv'
  <2>1. Writes(x, None) /\ None.kind = "none" /\ ~None.env
    BY <1>5, <1>7
  <2>2. ASSUME Under(w, x) PROVE Calm(x)'
    <3>1. ServerOk(x)' /\ TrackOk(x)' /\ EnvOk(x)' /\ ToolsOk(x)'
      BY <1>1, <1>2, <1>4, <1>7, <2>2, NothingRuns, QuietSame
    <3>2. x \in skills' <=> reg'[x].kind = "exec"
      BY <1>1, <1>4, <1>7, <2>1, <2>2 DEF Writes
    <3> QED BY <3>1, <3>2 DEF Calm
  <2> QED BY <1>1, <1>2, <1>7, <2>1, <2>2, ReturnIs, EditKeeps DEF Writes
<1>8. ASSUME Refused(Has(x)), Return(w)
      PROVE  IInv'
  <2>1. reg' = reg /\ UNCHANGED regVars /\ reg' \in [Names -> Entries]
        /\ (UNCHANGED budgets \/ Trouble)
    BY <1>2, <1>8, RefusedIs DEF Has
  <2>2. ASSUME Under(w, x) PROVE Calm(x)'
    <3>1. EnvOk(x)' /\ TrackOk(x)' /\ ToolsOk(x)' /\ ServerOk(x)'
      BY <1>1, <1>2, <1>4, <2>1, <2>2, QuietSame
    <3> QED BY <1>1, <1>4, <2>1, <2>2, <3>1 DEF Calm
  <2> QED BY <1>1, <1>2, <1>8, <2>1, <2>2, ReturnIs, EditKeeps
<1>9. ASSUME Through(Remove(x)),
             CASE op[w].kind = "exec" -> Goto(w, "unregister")
               [] op[w].kind \in Mcp -> Goto(w, IF mode = "api" THEN "removeServer" ELSE "take")
               [] OTHER -> Return(w)
      PROVE  IInv'
  <2>1. CASE op[w].kind = "exec"
    <3>1. Goto(w, "unregister")
      BY <1>9, <2>1 DEF Mcp
    <3> QED BY <1>6, <1>9, <2>1, <3>1
  <2>2. CASE op[w].kind \in Mcp
    <3>1. op[w].kind # "exec"
      BY <2>2 DEF Mcp
    <3> QED BY <1>2, <1>6, <1>9, <2>2, <3>1
  <2>3. CASE op[w].kind \notin Mcp \cup {"exec"}
    BY <1>7, <1>9, <2>3
  <2> QED BY <2>1, <2>2, <2>3
<1> QED BY <1>8, <1>9 DEF Unpersist, Named

-------------------------------------------------------------------------------
(* Steps on the connections. *)

\* A connection to x is made, or some are closed, if any.
ConnsStep(x) ==
  \/ conns' = conns
  \/ \E C \in SUBSET Int : (\A c \in C : Of(c, x)) /\ conns' = Closed(C)
  \/ \E env \in Nat, T \in SUBSET Tools, by \in Ops \cup {Free} : Connects(x, env, T, by)

LEMMA ConnsGo ==
  ASSUME TypeInv, NEW x \in Names, ConnsStep(x)
  PROVE  /\ conns' \in Seq(Connections) /\ Len(conns) <= Len(conns') /\ Len(conns) \in Nat /\ Len(conns') \in Nat
         /\ \A c \in 1..Len(conns) :
              /\ conns'[c].of = conns[c].of /\ conns'[c].env = conns[c].env /\ conns'[c].tools = conns[c].tools
              /\ conns'[c].open => conns[c].open
              /\ conns[c].of # x => conns'[c].open = conns[c].open
              /\ conns'[c].by = conns[c].by
         /\ \A y \in Names, c \in Int : Of(c, y) => Of(c, y)'
<1>1. conns \in Seq(Connections) /\ Len(conns) \in Nat /\ DOMAIN conns = 1..Len(conns)
      /\ \A c \in 1..Len(conns) : conns[c] \in Connections
  BY DEF TypeInv
<1>2. CASE conns' = conns
  BY <1>1, <1>2 DEF Of
<1>3. ASSUME NEW D \in SUBSET Int, conns' = Closed(D)
      PROVE  /\ conns' \in Seq(Connections) /\ Len(conns') = Len(conns)
             /\ \A c \in 1..Len(conns) :
                  conns'[c] = IF c \in D THEN [conns[c] EXCEPT !.open = FALSE] ELSE conns[c]
  <2>1. /\ conns' = [c \in 1..Len(conns) |-> IF c \in D THEN [conns[c] EXCEPT !.open = FALSE] ELSE conns[c]]
    BY <1>1, <1>3 DEF Closed
  <2>2. \A c \in 1..Len(conns) : conns'[c] = IF c \in D THEN [conns[c] EXCEPT !.open = FALSE] ELSE conns[c]
    BY <2>1
  <2>3. \A c \in 1..Len(conns) : conns'[c] \in Connections
    BY <1>1, <2>2 DEF Connections
  <2>4. conns' \in [1..Len(conns) -> Connections]
    BY <2>1, <2>3
  <2>5. conns' \in Seq(Connections)
    BY <1>1, <2>4
  <2> QED BY <1>1, <2>1, <2>2, <2>5
<1>4. CASE \E C \in SUBSET Int : (\A c \in C : Of(c, x)) /\ conns' = Closed(C)
  <2>1. PICK D \in SUBSET Int : (\A c \in D : Of(c, x)) /\ conns' = Closed(D)
    BY <1>4
  <2>2. /\ conns' \in Seq(Connections) /\ Len(conns') = Len(conns)
        /\ \A c \in 1..Len(conns) :
             conns'[c] = IF c \in D THEN [conns[c] EXCEPT !.open = FALSE] ELSE conns[c]
    BY <1>3, <2>1
  <2>3. \A c \in 1..Len(conns) : c \in D => conns[c].of = x
    BY <1>1, <2>1, Constants DEF Of
  <2>4. \A c \in 1..Len(conns) :
          /\ conns'[c].of = conns[c].of /\ conns'[c].env = conns[c].env /\ conns'[c].tools = conns[c].tools
          /\ conns'[c].open => conns[c].open
          /\ conns[c].of # x => conns'[c].open = conns[c].open
          /\ conns'[c].by = conns[c].by
    BY <1>1, <2>2, <2>3 DEF Connections
  <2>5. DOMAIN conns' = 1..Len(conns)
    BY <2>2
  <2> QED BY <1>1, <2>2, <2>4, <2>5 DEF Of
<1>5. CASE \E env \in Nat, T \in SUBSET Tools, by \in Ops \cup {Free} : Connects(x, env, T, by)
  <2>1. PICK env \in Nat, T \in SUBSET Tools, by \in Ops \cup {Free} :
          conns' = Append(conns, [of |-> x, env |-> env, tools |-> T, by |-> by, open |-> TRUE])
    BY <1>5 DEF Connects
  <2> DEFINE new == [of |-> x, env |-> env, tools |-> T, by |-> by, open |-> TRUE]
  <2>2. new \in Connections /\ conns' = Append(conns, new)
    BY <2>1 DEF Connections
  <2> HIDE DEF new
  <2>3. conns' \in Seq(Connections) /\ Len(conns') = Len(conns) + 1 /\ DOMAIN conns' = 1..(Len(conns) + 1)
        /\ \A c \in 1..Len(conns) : conns'[c] = conns[c]
    BY <1>1, <2>2
  <2> QED BY <1>1, <2>3 DEF Of
<1> QED BY <1>2, <1>4, <1>5 DEF ConnsStep

\* Operation w goes on as r, with connections of x.
ClientStep(w, x, r) ==
  /\ Active(w) /\ op[w].x = x /\ op' = [op EXCEPT ![w] = r] /\ r \in OpRecords
  /\ \/ r = Off
     \/ /\ r.x = x /\ r.call = op[w].call
        /\ r.pc \notin {"off", "credSet", "credDelete", "update", "dropRead"}
  /\ UNCHANGED <<mode, proc, regVars, creds, skills, reload, unasked, raced, waived>>
  /\ UNCHANGED budgets \/ Trouble
  /\ ConnsStep(x)
  /\ servers' \in [Names -> Int] /\ tracked' \in [Names -> Nat] /\ served' \in [Names -> [Tools -> Nat]]
  /\ \A y \in Names \ {x} : servers'[y] = servers[y] /\ tracked'[y] = tracked[y] /\ served'[y] = served[y]
  /\ servers' = servers \/ mode = "api"
  /\ (tracked' = tracked /\ served' = served) \/ mode = "cli"

\* Who has the connections afterwards.
OfNext(c, x) == c = NoConn \/ (c \in DOMAIN conns' /\ conns'[c].of = x)
Passes(w, x, r) ==
  /\ tracked'[x] \in {tracked[x], NoConn, op[w].conn}
  /\ servers'[x] \in {servers[x], Absent, Reserved, op[w].conn}
  /\ r.conn \in {NoConn, op[w].conn} \/ OfNext(r.conn, x)
  /\ r.old \in {NoConn, op[w].old, tracked[x]}
  /\ r # Off => HandOf(w)'

\* Its reservation, if it has one, or had.
Reserving(w, x, r) ==
  proc # "closing" =>
    /\ r.pc \in {"connect", "store", "unreserve"} =>
         servers'[x] = Reserved /\ (HasReserved(w) \/ servers[x] # Reserved)
    /\ servers'[x] = servers[x] \/ HasReserved(w) \/ servers[x] # Reserved

\* What it replaces, and what it has replaced.
Replacing(w, x, r) ==
  /\ op[w].old \notin {NoConn, r.old} => ~conns'[op[w].old].open
  /\ tracked'[x] = tracked[x] \/ tracked[x] = NoConn \/ r.old = tracked[x]
  /\ r.pc \in {"removeStale", "closeOld"} /\ r.conn # NoConn =>
       \/ tracked'[x] = r.conn
       \/ /\ tracked'[x] = tracked[x] /\ op[w].pc \in {"removeStale", "closeOld"} /\ op[w].conn = r.conn
  /\ r.call = "load" /\ r.kind = "stdio" => r.old = NoConn
  /\ proc = "loading" /\ r.pc \in {"resolve", "dial", "offer", "swap"} =>
       tracked'[x] = tracked[x] /\ op[w].pc \in {"resolve", "dial", "offer", "swap"}

LEMMA PassesKeeps ==
  ASSUME IInv, NEW w \in Ops, NEW x \in Names, NEW r, ClientStep(w, x, r), Passes(w, x, r)
  PROVE  ConnsAreOf' /\ Hands'
<1>1. /\ op \in [Ops -> OpRecords] /\ op'[w] = r /\ (\A v \in Ops \ {w} : op'[v] = op[v]) /\ r \in OpRecords
      /\ op[w].x = x /\ TypeInv /\ ConnsAreOf
  BY DEF ClientStep, IInv, TypeInv, HandsInv
<1>2. \A y \in Names, c \in Int : Of(c, y) => OfNext(c, y)
  BY <1>1, ConnsGo DEF ClientStep, OfNext, Of
<1>3. /\ tracked \in [Names -> Nat] /\ servers \in [Names -> Int] /\ op[w].conn \in Nat /\ op[w].old \in Nat
      /\ r.conn \in Nat /\ r.old \in Nat /\ Of(op[w].conn, x) /\ Of(op[w].old, x)
  BY <1>1 DEF TypeInv, OpRecords, ConnsAreOf
<1>4. \A y \in Names : Of(NoConn, y) /\ OfNext(NoConn, y)
  BY DEF Of, OfNext
<1>5. ASSUME NEW y \in Names
      PROVE  OfNext(tracked'[y], y) /\ (servers'[y] = Reserved \/ OfNext(servers'[y], y))
  <2>1. Of(tracked[y], y) /\ (servers[y] = Reserved \/ Of(servers[y], y))
    BY <1>1 DEF ConnsAreOf
  <2>2. CASE y = x
    <3>1. OfNext(tracked'[x], x)
      BY <1>2, <1>3, <1>4, <2>1, <2>2 DEF Passes
    <3>2. servers'[x] = Reserved \/ OfNext(servers'[x], x)
      BY <1>2, <1>3, <1>4, <2>1, <2>2 DEF Passes, Absent, NoConn
    <3> QED BY <2>2, <3>1, <3>2
  <2>3. CASE y # x
    <3>1. tracked'[y] = tracked[y] /\ servers'[y] = servers[y]
      BY <2>3 DEF ClientStep
    <3> QED BY <1>2, <1>3, <2>1, <3>1
  <2> QED BY <2>2, <2>3
<1>6. ASSUME NEW v \in Ops
      PROVE  OfNext(op'[v].conn, op'[v].x) /\ OfNext(op'[v].old, op'[v].x)
  <2>1. CASE v # w
    <3>1. Of(op[v].conn, op[v].x) /\ Of(op[v].old, op[v].x) /\ op[v].conn \in Nat /\ op[v].old \in Nat
      BY <1>1 DEF ConnsAreOf, TypeInv, OpRecords
    <3>2. op[v].x \in Names \/ (op[v].conn = NoConn /\ op[v].old = NoConn)
      <4>1. CASE Active(v)
        BY <4>1 DEF IInv, Course, PlaceOf
      <4>2. CASE ~Active(v)
        BY <4>2, OffIs DEF Active, NoConn
      <4> QED BY <4>1, <4>2
    <3> QED BY <1>1, <1>2, <2>1, <3>1, <3>2 DEF OfNext
  <2>2. CASE v = w
    <3>1. CASE r = Off
      BY <1>1, <2>2, <3>1, OffIs DEF OfNext, NoConn
    <3>2. CASE r # Off
      <4>1. r.x = x /\ Of(tracked[x], x)
        BY <1>1, <3>2 DEF ClientStep, ConnsAreOf
      <4>2. OfNext(r.conn, x)
        BY <1>2, <1>3, <1>4 DEF Passes
      <4>3. OfNext(r.old, x)
        BY <1>2, <1>3, <1>4, <4>1 DEF Passes
      <4> QED BY <1>1, <2>2, <4>1, <4>2, <4>3
    <3> QED BY <3>1, <3>2
  <2> QED BY <2>1, <2>2
<1>7. Hands'
  <2>1. HandOf(w)'
    <3>1. CASE r = Off
      BY <1>1, <3>1, OffIs DEF HandOf, NoConn
    <3> QED BY <3>1 DEF Passes
  <2>2. ASSUME NEW v \in Ops \ {w} PROVE HandOf(v)'
    BY <1>1 DEF HandOf, IInv, HandsInv, Hands
  <2> QED BY <2>1, <2>2 DEF Hands
<1>8. ConnsAreOf'
  BY <1>5, <1>6 DEF ConnsAreOf, Of, OfNext
<1> QED BY <1>7, <1>8

LEMMA ReservingKeeps ==
  ASSUME IInv, NEW w \in Ops, NEW x \in Names, NEW r, ClientStep(w, x, r), Reserving(w, x, r)
  PROVE  Reservations'
<1>1. /\ op \in [Ops -> OpRecords] /\ op'[w] = r /\ (\A v \in Ops \ {w} : op'[v] = op[v]) /\ r \in OpRecords
      /\ op[w].x = x /\ proc' = proc /\ Reservations
  BY DEF ClientStep, IInv, TypeInv, HandsInv
<1> SUFFICES ASSUME proc # "closing" PROVE Reservations'
  BY <1>1 DEF Reservations
<1>2. HasReserved(w)' => r.x = x /\ servers'[x] = Reserved /\ (HasReserved(w) \/ servers[x] # Reserved)
  BY <1>1, OffIs DEF HasReserved, Reserving, ClientStep
<1>3. ASSUME NEW v \in Ops \ {w}, HasReserved(v)'
      PROVE  /\ HasReserved(v) /\ op'[v] = op[v] /\ servers[op[v].x] = Reserved /\ servers'[op[v].x] = Reserved
             /\ op[v].x = x => ~HasReserved(w)
  <2>1. HasReserved(v) /\ op'[v] = op[v]
    BY <1>1, <1>3 DEF HasReserved
  <2>2. servers[op[v].x] = Reserved /\ (op[v].x = x => ~HasReserved(w))
    BY <1>1, <2>1 DEF Reservations
  <2>3. op[v].x \in Names
    <3>1. Active(v)
      BY <2>1, OffIs DEF HasReserved, Active
    <3> QED BY <3>1 DEF IInv, Course, PlaceOf
  <2>4. servers'[op[v].x] = Reserved
    BY <2>2, <2>3 DEF Reserving, ClientStep
  <2> QED BY <2>1, <2>2, <2>4
<1>4. ASSUME NEW v \in Ops, HasReserved(v)'
      PROVE  servers'[op'[v].x] = Reserved
  BY <1>1, <1>2, <1>3, <1>4
<1>5. ASSUME NEW v \in Ops, NEW u \in Ops, HasReserved(v)', HasReserved(u)', op'[v].x = op'[u].x
      PROVE  v = u
  <2>1. CASE v # w /\ u # w
    BY <1>1, <1>3, <1>5, <2>1 DEF Reservations
  <2>2. CASE v = w /\ u # w
    BY <1>1, <1>2, <1>3, <1>5, <2>2
  <2>3. CASE v # w /\ u = w
    BY <1>1, <1>2, <1>3, <1>5, <2>3
  <2> QED BY <2>1, <2>2, <2>3
<1> QED BY <1>4, <1>5 DEF Reservations

LEMMA ReplacingKeeps ==
  ASSUME IInv, NEW w \in Ops, NEW x \in Names, NEW r, ClientStep(w, x, r), Replacing(w, x, r)
  PROVE  Succeeded' /\ NothingToReplace'
<1>1. /\ op \in [Ops -> OpRecords] /\ op'[w] = r /\ (\A v \in Ops \ {w} : op'[v] = op[v]) /\ r \in OpRecords
      /\ op[w].x = x /\ proc' = proc /\ mode' = mode /\ Succeeded /\ NothingToReplace /\ TypeInv /\ ConnsAreOf
      /\ \A y \in Names \ {x} : tracked'[y] = tracked[y]
  BY DEF ClientStep, IInv, TypeInv, HandsInv
<1>2. \A c \in 1..Len(conns) : conns'[c].open => conns[c].open
  BY <1>1, ConnsGo DEF ClientStep
<1>3. DOMAIN conns = 1..Len(conns)
  BY <1>1 DEF TypeInv
\* What has succeeded a connection still does.
<1>4. ASSUME NEW v \in Ops, op[v].pc \in {"removeStale", "closeOld"}, op[v].conn # NoConn,
             v = w => tracked'[x] = tracked[x]
      PROVE  \/ ~conns'[op[v].conn].open \/ tracked'[op[v].x] = op[v].conn
             \/ \E u \in Ops \ {v} : op'[u].old = op[v].conn
  <2>1. op[v].x \in Names
    <3>1. Active(v)
      BY <1>4, OffIs DEF Active
    <3> QED BY <3>1 DEF IInv, Course, PlaceOf
  <2>2. op[v].conn \in 1..Len(conns)
    BY <1>1, <1>3, <1>4 DEF ConnsAreOf, Of
  <2>3. CASE ~conns[op[v].conn].open
    BY <1>2, <2>2, <2>3
  <2>4. CASE tracked[op[v].x] = op[v].conn
    <3>1. CASE tracked'[op[v].x] = tracked[op[v].x]
      BY <2>4, <3>1
    <3>2. CASE tracked'[op[v].x] # tracked[op[v].x]
      <4>1. op[v].x = x /\ v # w
        BY <1>1, <1>4, <2>1, <3>2
      <4>2. r.old = op[v].conn
        BY <1>4, <2>4, <3>2, <4>1 DEF Replacing
      <4> QED BY <1>1, <4>1, <4>2
    <3> QED BY <3>1, <3>2
  <2>5. CASE \E u \in Ops \ {v} : op[u].old = op[v].conn
    <3>1. PICK u \in Ops \ {v} : op[u].old = op[v].conn
      BY <2>5
    <3>2. CASE u # w
      BY <1>1, <3>1, <3>2
    <3>3. CASE u = w
      <4>1. r.old = op[v].conn \/ ~conns'[op[v].conn].open
        BY <1>4, <3>1, <3>3 DEF Replacing
      <4> QED BY <1>1, <3>1, <3>3, <4>1
    <3> QED BY <3>2, <3>3
  <2> QED BY <1>1, <1>4, <2>3, <2>4, <2>5 DEF Succeeded
<1>5. ASSUME NEW v \in Ops, op'[v].pc \in {"removeStale", "closeOld"}, op'[v].conn # NoConn
      PROVE  \/ ~conns'[op'[v].conn].open \/ tracked'[op'[v].x] = op'[v].conn
             \/ \E u \in Ops \ {v} : op'[u].old = op'[v].conn
  <2>1. CASE v # w
    BY <1>1, <1>4, <1>5, <2>1
  <2>2. CASE v = w
    <3>1. r.x = x /\ op'[v] = r
      BY <1>1, <1>5, <2>2, OffIs DEF ClientStep
    <3>2. CASE tracked'[x] = r.conn
      BY <3>1, <3>2
    <3>3. CASE tracked'[x] = tracked[x] /\ op[w].pc \in {"removeStale", "closeOld"} /\ op[w].conn = r.conn
      BY <1>1, <1>4, <1>5, <2>2, <3>1, <3>3
    <3> QED BY <1>5, <3>1, <3>2, <3>3 DEF Replacing
  <2> QED BY <2>1, <2>2
<1>6. Succeeded'
  BY <1>5 DEF Succeeded
<1>7. ASSUME NEW v \in Ops, op'[v].call = "load", op'[v].kind = "stdio"
      PROVE  op'[v].old = NoConn
  BY <1>1, <1>7 DEF NothingToReplace, Replacing
<1>8. ASSUME NEW v \in Ops, proc = "loading", op'[v].pc \in {"resolve", "dial", "offer", "swap"}
      PROVE  tracked'[op'[v].x] = NoConn
  <2>1. CASE v = w
    <3>1. r.x = x
      BY <1>1, <1>8, <2>1, OffIs DEF ClientStep
    <3> QED BY <1>1, <1>8, <2>1, <3>1 DEF NothingToReplace, Replacing
  <2>2. CASE v # w
    <3>1. op'[v] = op[v] /\ Active(v) /\ Active(w)
      BY <1>1, <1>8, <2>2, OffIs DEF Active, ClientStep
    <3>2. PlaceOf(v) /\ PlaceOf(w)
      BY <3>1 DEF IInv, Course
    <3>3. op[v].x = v /\ op[w].x = w
      BY <1>8, <3>2, PlaceIs DEF LoadAt
    <3>4. op[v].x \in Names \ {x}
      BY <1>1, <2>2, <3>2, <3>3 DEF PlaceOf
    <3> QED BY <1>1, <1>8, <3>1, <3>4 DEF NothingToReplace
  <2> QED BY <2>1, <2>2
<1>9. NothingToReplace'
  BY <1>1, <1>7, <1>8 DEF NothingToReplace
<1> QED BY <1>6, <1>9

LEMMA ClientKeeps ==
  ASSUME IInv, NEW w \in Ops, NEW x \in Names, NEW r, ClientStep(w, x, r),
         Passes(w, x, r), Reserving(w, x, r), Replacing(w, x, r),
         op'[w] = r /\ r # Off => PlaceOf(w)',
         op'[w] = r /\ Serving /\ Under(w, x) => IF r # Off THEN Under(w, x)' ELSE Calm(x)'
  PROVE  IInv'
<1>1. op \in [Ops -> OpRecords] /\ op'[w] = r /\ (\A v \in Ops \ {w} : op'[v] = op[v]) /\ r \in OpRecords
      /\ op' \in [Ops -> OpRecords] /\ TypeInv /\ ConnsStep(x)
  BY DEF ClientStep, IInv, TypeInv
<1>2. budgets' \in [calls : Nat, troubles : Nat] /\ budgets'.calls >= budgets.calls
  BY <1>1, SpendIs DEF ClientStep, Trouble, TypeInv
<1>3. /\ conns' \in Seq(Connections) /\ Len(conns) <= Len(conns')
      /\ \A c \in 1..Len(conns) :
           /\ conns'[c].of = conns[c].of /\ conns'[c].env = conns[c].env /\ conns'[c].tools = conns[c].tools
           /\ conns'[c].open => conns[c].open
           /\ conns[c].of # x => conns'[c].open = conns[c].open
  BY <1>1, ConnsGo
<1>4. TypeInv'
  BY <1>1, <1>2, <1>3 DEF TypeInv, ClientStep, regVars, credVars
<1>5. Local(w, x)
  BY <1>1, <1>2, <1>3 DEF Local, ClientStep, regVars, credVars
<1>6. Mine(w, x) /\ CredsLocal(w, x)
  BY <1>1 DEF Mine, ClientStep, CredsLocal
<1>7. Active(w)' <=> r # Off
  BY <1>1 DEF Active
<1>8. OneHolder'
  <2>1. proc # "down" /\ mode' = mode /\ proc' = proc
    BY DEF ClientStep, IInv, Course, PlaceOf
  <2>2. mode = "cli" => servers' = servers
    BY DEF ClientStep
  <2>3. mode = "api" => tracked' = tracked /\ served' = served
    BY DEF ClientStep
  <2> QED BY <2>1, <2>2, <2>3 DEF IInv, OneHolder
<1>9. HandsInv'
  BY PassesKeeps, ReservingKeeps, ReplacingKeeps DEF HandsInv
<1>10. op'[w].pc \notin {"credSet", "credDelete", "update", "dropRead"}
  BY <1>1, OffIs DEF ClientStep
<1>11. SnapshotOf(w)' /\ ValueIs(w, x)'
  BY <1>10 DEF SnapshotOf, ValueIs
<1>12. Clean(x)' => (reg[x].env => creds[x] # 0) /\ (Serving => Under(w, x))
  BY UnderNow DEF ClientStep
<1>13. reg' = reg /\ creds' = creds
  BY DEF ClientStep, regVars, credVars
<1>14. Active(w)' => PlaceOf(w)'
  BY <1>1, <1>7
<1>15. Clean(x)' => (reg'[x].env => creds'[x] # 0) /\ (Active(w)' => ValueIs(w, x)')
  BY <1>11, <1>12, <1>13
<1>16. Serving /\ Clean(x)' => IF Active(w)' THEN Under(w, x)' ELSE Calm(x)'
  BY <1>1, <1>7, <1>12
<1> QED BY <1>4, <1>5, <1>6, <1>8, <1>9, <1>11, <1>14, <1>15, <1>16, StepKeeps

-------------------------------------------------------------------------------
(* The steps of the Manager. *)

LEMMA ApiIs ==
  ASSUME IInv, NEW w \in Ops, op[w].pc \in Starting \cup {"removeServer"}
  PROVE  /\ mode = "api" /\ op[w].kind \in Mcp
         /\ op[w].call \in {"load", "add"} \/ (op[w].call = "remove" /\ op[w].pc = "removeServer")
         /\ op[w].call = "load" => op[w].pc # "removeServer"
<1>1. op[w].pc # "off" /\ mode \in {"api", "cli"}
  BY DEF Starting, IInv, TypeInv
<1>2. PlaceOf(w)
  BY <1>1, OpRead
<1> QED BY <1>1, <1>2, PlaceIs DEF LoadAt, AddAt, RemoveAt, EnvAt, Starting, Dialing, Mcp, EnvCalls

LEMMA ApiUnder ==
  ASSUME IInv, NEW w \in Ops, NEW x \in Names, mode = "api", mode' = mode, UNCHANGED <<tracked, served>>
  PROVE  /\ TrackOk(x)' /\ ToolsOk(x)' /\ EnvOk(x)'
         /\ op'[w].pc \in Starting \cup {"persist", "persistAnyway", "removeServer", "reload", "return"} =>
              (KindIs(w, x)' /\ SkillIs(w, x)' /\ ServerIs(w, x)' => Under(w, x)')
<1>1. tracked'[x] = NoConn /\ \A t \in Tools : served'[x][t] = NoConn
  BY DEF IInv, OneHolder
<1>2. TrackOk(x)' /\ ToolsOk(x)' /\ EnvOk(x)'
  BY <1>1 DEF TrackOk, ToolsOk, Served, Offers, EnvOk, Asked
<1>3. ASSUME op'[w].pc \in Starting \cup {"persist", "persistAnyway", "removeServer", "reload", "return"}
      PROVE  ToolsAre(w, x)' /\ EnvIs(w, x)'
  BY <1>2, <1>3 DEF ToolsAre, EnvIs, Starting
<1> QED BY <1>2, <1>3 DEF Under

\* A server is not started: its call returns, or goes on without it.
LEMMA UnconnectedKeeps ==
  ASSUME IInv, NEW w \in Ops, NEW x, op[w].x = x, op[w].pc \in {"reserve", "unreserve"}, Unconnected(w),
         UNCHANGED <<mode, proc, regVars, creds, skills, reload, unasked, raced, waived>>, UNCHANGED budgets,
         UNCHANGED <<conns, tracked, served>>, servers' \in [Names -> Int],
         \A y \in Names \ {x} : servers'[y] = servers[y],
         \/ servers'[x] = servers[x]
         \/ servers'[x] = Absent /\ op[w].pc = "unreserve"
  PROVE  IInv'
<1>1. op[w].pc # "off" /\ op[w].pc \notin InHand /\ op[w].pc \in Starting
  BY DEF InHand, Starting
<1>2. /\ Active(w) /\ PlaceOf(w) /\ x \in Names /\ TypeInv /\ OneHolder
      /\ op[w].conn = 0 /\ op[w].old = 0 /\ op \in [Ops -> OpRecords]
  BY <1>1, OpRead DEF IInv
<1>3. mode = "api" /\ op[w].kind \in Mcp /\ op[w].call \in {"load", "add"}
  BY <1>1, ApiIs DEF Starting
<1>4. ASSUME NEW r \in OpRecords, op' = [op EXCEPT ![w] = r], op'[w] = r,
             \/ r = Off
             \/ /\ r.x = x /\ r.conn = 0 /\ r.old = 0 /\ r.call = "add" /\ r.kind = "http"
                /\ r.pc = "persistAnyway" /\ op[w].call = "add" /\ op[w].kind = "http" /\ r # Off
      PROVE  IInv'
  <2>1. tracked \in [Names -> Nat] /\ served \in [Names -> [Tools -> Nat]]
    BY <1>2 DEF TypeInv
  <2>2. ClientStep(w, x, r)
    BY <1>2, <1>3, <1>4, <2>1 DEF ClientStep, ConnsStep
  <2>3. r.old = 0 /\ r.conn = 0 /\ r.pc \in {"off", "persistAnyway"}
    BY <1>4, OffIs
  <2>4. Passes(w, x, r)
    BY <1>2, <1>4, <2>3, Constants DEF Passes, HandOf
  <2>5. Reserving(w, x, r)
    BY <2>3 DEF Reserving, HasReserved
  <2>6. Replacing(w, x, r)
    BY <1>2, <2>3, Constants DEF Replacing
  <2>7. r # Off => PlaceOf(w)'
    <3>1. r # Off => AddAt(w)'
      BY <1>3, <1>4 DEF AddAt, Mcp
    <3> QED BY <1>2, <1>4, <3>1, PlaceGoes DEF EnvCalls
  <2>8. ASSUME Under(w, x)
        PROVE  IF r # Off THEN Under(w, x)' ELSE Calm(x)'
    <3>1. SkillIs(w, x) /\ ServerOk(x) /\ KindIs(w, x)
      BY <2>8 DEF Under, ServerIs
    <3>2. HasServer(x)' => HasServer(x) /\ servers'[x] = servers[x]
      BY DEF HasServer
    <3>3. ServerOk(x)'
      BY <3>1, <3>2 DEF ServerOk, regVars, credVars
    <3>4. x \in skills' <=> reg'[x].kind = "exec"
      BY <1>3, <3>1 DEF SkillIs, regVars, credVars
    <3>5. CASE r = Off
      BY <1>2, <1>3, <3>3, <3>4, <3>5, ApiUnder DEF Calm
    <3>6. CASE r # Off
      <4>1. KindIs(w, x)' /\ SkillIs(w, x)' /\ ServerIs(w, x)'
        BY <1>4, <3>3, <3>4, <3>6 DEF KindIs, SkillIs, ServerIs, Dialing
      <4> QED BY <1>2, <1>3, <1>4, <3>6, <4>1, ApiUnder
    <3> QED BY <3>5, <3>6
  <2> QED BY <1>2, <1>4, <2>2, <2>4, <2>5, <2>6, <2>7, <2>8, ClientKeeps
<1>5. CASE op[w].call = "add" /\ op[w].kind = "http"
  <2>1. Goto(w, "persistAnyway")
    BY <1>5 DEF Unconnected
  <2>2. PICK r \in OpRecords :
          /\ op' = [op EXCEPT ![w] = r] /\ op'[w] = r /\ r.pc = "persistAnyway" /\ r.x = x /\ r.call = "add"
          /\ r.kind = "http" /\ r.conn = 0 /\ r.old = 0 /\ r # Off
    BY <1>1, <1>5, <2>1, GotoIs DEF Places
  <2> QED BY <1>4, <1>5, <2>2
<1>6. CASE ~(op[w].call = "add" /\ op[w].kind = "http")
  BY <1>4, <1>6, ReturnIs DEF Unconnected
<1> QED BY <1>5, <1>6

LEMMA AddServerKeeps ==
  ASSUME IInv, NEW w \in Ops, NEW x, op[w].x = x, AddServer(w)
  PROVE  IInv'
<1>1. /\ op[w].pc = "reserve" /\ op[w].pc # "off" /\ op[w].pc \notin InHand /\ op[w].pc \in Starting
      /\ UNCHANGED <<mode, proc, regVars, creds, skills, reload, unasked, raced, waived>> /\ UNCHANGED budgets
  BY DEF AddServer, At, InHand, Starting, noteVars, credVars
<1>2. /\ Active(w) /\ PlaceOf(w) /\ x \in Names /\ TypeInv /\ OneHolder
      /\ op[w].conn = 0 /\ op[w].old = 0 /\ op \in [Ops -> OpRecords]
  BY <1>1, OpRead DEF IInv
<1>3. mode = "api" /\ op[w].kind \in Mcp /\ op[w].call \in {"load", "add"}
  BY <1>1, ApiIs
<1>4. ASSUME servers[x] = Absent, Reserve(x), Goto(w, "connect")
      PROVE  IInv'
  <2>1. PICK r \in OpRecords :
          /\ op' = [op EXCEPT ![w] = r] /\ op'[w] = r /\ r.pc = "connect" /\ r.x = x /\ r.call = op[w].call
          /\ r.kind = op[w].kind /\ r.conn = 0 /\ r.old = 0 /\ r # Off
    BY <1>1, <1>4, GotoIs DEF Places
  <2>2. /\ servers \in [Names -> Int] /\ tracked \in [Names -> Nat] /\ served \in [Names -> [Tools -> Nat]]
        /\ servers' = [servers EXCEPT ![x] = Reserved] /\ UNCHANGED <<conns, tracked, served>> /\ Reserved \in Int
    BY <1>2, <1>4, Constants DEF TypeInv, Reserve
  <2>3. servers' \in [Names -> Int] /\ servers'[x] = Reserved /\ \A y \in Names \ {x} : servers'[y] = servers[y]
    BY <1>2, <2>2
  <2>4. ClientStep(w, x, r)
    BY <1>1, <1>2, <1>3, <2>1, <2>2, <2>3 DEF ClientStep, ConnsStep
  <2>5. Passes(w, x, r) /\ Reserving(w, x, r) /\ Replacing(w, x, r)
    BY <1>2, <1>4, <2>1, <2>2, <2>3, Constants DEF Passes, HandOf, Reserving, Replacing
  <2>6. PlaceOf(w)'
    <3>1. op[w].call = "load" => LoadAt(w)'
      BY <1>1, <1>2, <1>3, <2>1, PlaceIs DEF LoadAt, Starting
    <3>2. op[w].call = "add" => AddAt(w)'
      BY <1>1, <1>3, <2>1 DEF AddAt, Starting, Mcp
    <3> QED BY <1>1, <1>2, <1>3, <2>1, <3>1, <3>2, PlaceGoes DEF EnvCalls
  <2>7. ASSUME Under(w, x)
        PROVE  Under(w, x)'
    <3>1. SkillIs(w, x) /\ KindIs(w, x)
      BY <2>7 DEF Under
    <3>2. ServerIs(w, x)'
      BY <2>1, <2>3 DEF ServerIs, ServerOk, HasServer
    <3>3. SkillIs(w, x)' /\ KindIs(w, x)'
      BY <1>1, <1>3, <2>1, <3>1 DEF SkillIs, KindIs, regVars, credVars, Dialing
    <3> QED BY <1>1, <1>2, <1>3, <2>1, <2>2, <3>2, <3>3, ApiUnder DEF Starting
  <2> QED BY <1>2, <2>1, <2>4, <2>5, <2>6, <2>7, ClientKeeps
<1>5. ASSUME Unconnected(w), UNCHANGED clientVars
      PROVE  IInv'
  <2>1. UNCHANGED <<conns, tracked, served, servers>> /\ servers \in [Names -> Int]
    BY <1>2, <1>5 DEF clientVars, TypeInv
  <2> QED BY <1>1, <1>5, <2>1, UnconnectedKeeps
<1> QED BY <1>4, <1>5 DEF AddServer, Named

LEMMA StartFailedKeeps ==
  ASSUME IInv, NEW w \in Ops, NEW x, op[w].x = x, StartFailed(w)
  PROVE  IInv'
<1>1. /\ op[w].pc = "unreserve" /\ op[w].pc # "off" /\ Unconnected(w) /\ Unreserve(x)
      /\ UNCHANGED <<mode, proc, regVars, creds, skills, reload, unasked, raced, waived>> /\ UNCHANGED budgets
  BY DEF StartFailed, At, noteVars, credVars, Named
<1>2. x \in Names /\ servers \in [Names -> Int] /\ Absent \in Int
  BY <1>1, OpRead, Constants DEF IInv, TypeInv
<1>3. servers' = [servers EXCEPT ![x] = IF servers[x] = Reserved THEN Absent ELSE servers[x]]
      /\ UNCHANGED <<conns, tracked, served>>
  BY <1>1 DEF Unreserve
<1>4. servers' \in [Names -> Int] /\ servers'[x] \in {servers[x], Absent}
      /\ \A y \in Names \ {x} : servers'[y] = servers[y]
  BY <1>2, <1>3
<1> QED BY <1>1, <1>3, <1>4, UnconnectedKeeps

\* A connection that is made is the last one, and the others stay as they are.
LEMMA ConnectsIs ==
  ASSUME TypeInv, NEW x \in Names, NEW env \in Nat, NEW T \in SUBSET Tools, NEW by \in Ops \cup {Free}, Connects(x, env, T, by),
         UNCHANGED <<reg, skills, mode, reload, unasked, servers, tracked, served, creds>>
  PROVE  /\ ConnsStep(x) /\ SameFor(x) /\ Len(conns) \in Nat
         /\ OfNext(Len(conns) + 1, x)
         /\ conns'[Len(conns) + 1] = [of |-> x, env |-> env, tools |-> T, by |-> by, open |-> TRUE]
         /\ ~(Len(conns) + 1 = NoConn)
<1> DEFINE new == [of |-> x, env |-> env, tools |-> T, by |-> by, open |-> TRUE]
<1>1. conns \in Seq(Connections) /\ Len(conns) \in Nat /\ conns' = Append(conns, new) /\ new \in Connections
      /\ new.of = x
  BY DEF TypeInv, Connects, Connections
<1> HIDE DEF new
<1>2. Len(conns') = Len(conns) + 1 /\ DOMAIN conns' = 1..(Len(conns) + 1) /\ conns'[Len(conns) + 1] = new
      /\ \A c \in 1..Len(conns) : conns'[c] = conns[c]
  BY <1>1
<1>3. SameFor(x)
  BY <1>1, <1>2 DEF SameFor
<1>4. OfNext(Len(conns) + 1, x) /\ ~(Len(conns) + 1 = NoConn)
  BY <1>1, <1>2, Constants DEF OfNext
<1>5. ConnsStep(x)
  BY DEF ConnsStep
<1> QED BY <1>1, <1>2, <1>3, <1>4, <1>5 DEF new

\* What is said of a name's parts, one by one.
LEMMA SameParts ==
  ASSUME TypeInv, ConnsAreOf, NEW y \in Names, SameFor(y)
  PROVE  /\ ServerOk(y) => ServerOk(y)'
         /\ TrackOk(y) => TrackOk(y)'
         /\ ToolsOk(y) => ToolsOk(y)'
         /\ EnvOk(y) => EnvOk(y)'
<1>1. tracked[y] \in Nat /\ Of(tracked[y], y) /\ tracked'[y] = tracked[y] /\ servers'[y] = servers[y]
  BY DEF TypeInv, ConnsAreOf, SameFor
<1>2. HasServer(y) => servers[y] \in Nat /\ Of(servers[y], y)
  BY Constants DEF ConnsAreOf, HasServer, Of, TypeInv
<1>3. ServerOk(y) => ServerOk(y)'
  BY <1>1, <1>2, OpensAreSame DEF ServerOk, HasServer, SameFor
<1>4. TrackOk(y) => TrackOk(y)'
  BY <1>1, OpensAreSame DEF TrackOk, SameFor
<1>5. Offers(tracked[y])' = Offers(tracked[y]) /\ Offers(NoConn)' = {} /\ Offers(NoConn) = {}
  BY <1>1, OpensAreSame DEF Offers
<1>6. ToolsOk(y) => ToolsOk(y)'
  BY <1>1, <1>5 DEF ToolsOk, Served, SameFor
<1>7. EnvOk(y) => EnvOk(y)'
  BY <1>1, OpensAreSame DEF EnvOk, Asked, Want, SameFor
<1> QED BY <1>3, <1>4, <1>6, <1>7

LEMMA StartServerKeeps ==
  ASSUME IInv, NEW w \in Ops, NEW x, op[w].x = x, StartServer(w)
  PROVE  IInv'
<1>1. /\ op[w].pc = "connect" /\ op[w].pc # "off" /\ op[w].pc \notin InHand /\ op[w].pc \in Starting
      /\ UNCHANGED <<mode, proc, regVars, creds, skills, reload, unasked, raced, waived>> /\ UNCHANGED reg
  BY DEF StartServer, At, InHand, Starting, noteVars, credVars, regVars
<1>2. /\ Active(w) /\ PlaceOf(w) /\ x \in Names /\ TypeInv /\ OneHolder /\ op[w] \in OpRecords
      /\ op[w].conn = 0 /\ op[w].old = 0 /\ op \in [Ops -> OpRecords] /\ ConnsAreOf
  BY <1>1, OpRead DEF IInv, HandsInv
<1>3. mode = "api" /\ op[w].kind \in Mcp /\ op[w].call \in {"load", "add"}
  BY <1>1, ApiIs
<1>4. op[w].call = "load" => LoadAt(w)
  BY <1>2, PlaceIs
<1>5. ASSUME NEW by \in Ops \cup {Free}, Connects(x, 0, {}, by), UNCHANGED <<servers, tracked, served>>, UNCHANGED budgets,
             op' = [op EXCEPT ![w].pc = "store", ![w].conn = Len(conns) + 1]
      PROVE  IInv'
  <2> DEFINE c == Len(conns) + 1
             r == [op[w] EXCEPT !.pc = "store", !.conn = c]
  <2>1. /\ ConnsStep(x) /\ SameFor(x) /\ Len(conns) \in Nat /\ OfNext(c, x) /\ ~(c = NoConn)
    BY <1>1, <1>2, <1>5, ConnectsIs
  <2>2. c \in Nat
    BY <2>1
  <2> HIDE DEF c
  <2>3. op' = [op EXCEPT ![w] = r] /\ r \in OpRecords /\ op'[w] = r /\ r.pc = "store" /\ r.x = x
        /\ r.call = op[w].call /\ r.kind = op[w].kind /\ r.conn = c /\ r.old = 0 /\ r # Off
    BY <1>2, <1>5, <2>2, OffIs DEF OpRecords, Places, c
  <2> HIDE DEF r
  <2>4. ClientStep(w, x, r)
    BY <1>1, <1>2, <1>3, <1>5, <2>1, <2>3 DEF ClientStep, TypeInv
  <2>5. Passes(w, x, r)
    BY <1>2, <1>5, <2>1, <2>3, Constants DEF Passes, HandOf
  <2>6. Reserving(w, x, r)
    <3>1. proc # "closing" => servers[x] = Reserved
      BY <1>1, <1>2 DEF IInv, HandsInv, Reservations, HasReserved
    <3> QED BY <1>1, <1>5, <3>1 DEF Reserving, HasReserved
  <2>7. Replacing(w, x, r)
    BY <1>2, <1>5, <2>3, Constants DEF Replacing
  <2>8. PlaceOf(w)'
    <3>1. op[w].call = "load" => LoadAt(w)'
      BY <1>1, <1>3, <1>4, <2>3 DEF LoadAt, Starting
    <3>2. op[w].call = "add" => AddAt(w)'
      BY <1>1, <1>3, <2>3 DEF AddAt, Starting, Mcp
    <3> QED BY <1>1, <1>2, <1>3, <1>5, <2>3, <3>1, <3>2, PlaceGoes DEF EnvCalls
  <2>9. ASSUME Under(w, x)
        PROVE  Under(w, x)'
    <3>1. SkillIs(w, x) /\ KindIs(w, x) /\ ServerOk(x)
      BY <1>1, <2>9 DEF Under, ServerIs
    <3>2. ServerIs(w, x)'
      BY <1>2, <2>1, <2>3, <3>1, SameParts DEF ServerIs
    <3>3. SkillIs(w, x)' /\ KindIs(w, x)'
      BY <1>1, <1>3, <2>3, <3>1 DEF SkillIs, KindIs, Dialing
    <3> QED BY <1>1, <1>2, <1>3, <1>5, <2>3, <3>2, <3>3, ApiUnder DEF Starting
  <2> QED BY <1>2, <2>3, <2>4, <2>5, <2>6, <2>7, <2>8, <2>9, ClientKeeps
<1>6. ASSUME Goto(w, "unreserve"), Trouble, UNCHANGED clientVars
      PROVE  IInv'
  <2>1. ASSUME op'[w] = [op[w] EXCEPT !.pc = "unreserve"]
        PROVE  PlaceOf(w)' /\ ValueIs(w, x)' /\ (Under(w, x) => Under(w, x)')
    <3>1. op'[w].pc = "unreserve" /\ op'[w].call = op[w].call /\ op'[w].x = x /\ op'[w].kind = op[w].kind
      BY <1>2, <2>1 DEF OpRecords
    <3>2. op[w].call = "load" => LoadAt(w)'
      BY <1>1, <1>3, <1>4, <3>1 DEF LoadAt, Starting
    <3>3. op[w].call = "add" => AddAt(w)'
      BY <1>1, <1>3, <3>1 DEF AddAt, Starting, Mcp
    <3>4. budgets.calls > 0 => budgets'.calls > 0
      BY <1>6, SpendIs DEF IInv, Trouble
    <3>5. PlaceOf(w)'
      BY <1>1, <1>2, <1>3, <3>1, <3>2, <3>3, <3>4, PlaceGoes DEF EnvCalls
    <3>6. Settling(w, x) /\ Settling(w, x)'
      BY <1>1, <3>1 DEF Settling, Plain, InHand
    <3>7. (KindIs(w, x) => KindIs(w, x)') /\ ValueIs(w, x)' /\ ~Stale(w, x)
      BY <1>1, <1>3, <3>1 DEF KindIs, ValueIs, Stale, Dialing, EnvCalls
    <3> QED BY <1>1, <1>2, <1>6, <3>1, <3>5, <3>6, <3>7, UnderGoes
  <2>2. "unreserve" \in Places \ (InHand \cup {"off", "connect", "credSet", "credDelete"})
    BY DEF Places, InHand
  <2> QED BY <1>1, <1>2, <1>6, <2>1, <2>2, GotoKeeps
<1> QED BY <1>5, <1>6 DEF StartServer, Named, NoTrouble, Called

LEMMA ServerStartedKeeps ==
  ASSUME IInv, NEW w \in Ops, NEW x, op[w].x = x, ServerStarted(w)
  PROVE  IInv'
<1> DEFINE c == op[w].conn
<1>1. /\ op[w].pc = "store" /\ op[w].pc # "off" /\ op[w].pc \in Starting /\ StoreServer(x, c)
      /\ UNCHANGED <<mode, proc, regVars, creds, skills, reload, unasked, raced, waived>> /\ UNCHANGED <<reg, budgets>>
  BY DEF ServerStarted, At, Starting, noteVars, credVars, regVars, Named
<1>2. /\ Active(w) /\ PlaceOf(w) /\ x \in Names /\ TypeInv /\ OneHolder /\ op[w] \in OpRecords
      /\ op \in [Ops -> OpRecords] /\ ConnsAreOf
  BY <1>1, OpRead DEF IInv, HandsInv
<1>3. mode = "api" /\ op[w].kind \in Mcp /\ op[w].call \in {"load", "add"}
  BY <1>1, ApiIs
<1>4. c # NoConn /\ op[w].old = NoConn /\ c \in Nat
  BY <1>1, <1>2 DEF IInv, HandsInv, Hands, HandOf, OpRecords
<1>5. /\ servers' = [servers EXCEPT ![x] = c] /\ UNCHANGED <<conns, tracked, served>>
      /\ servers \in [Names -> Int] /\ tracked \in [Names -> Nat] /\ served \in [Names -> [Tools -> Nat]]
  BY <1>1, <1>2 DEF StoreServer, TypeInv
<1>6. servers' \in [Names -> Int] /\ servers'[x] = c /\ \A y \in Names \ {x} : servers'[y] = servers[y]
  BY <1>2, <1>4, <1>5
<1>7. HasServer(x)'
  BY <1>4, <1>6, Constants DEF HasServer
<1>8. ASSUME NEW r \in OpRecords, op' = [op EXCEPT ![w] = r], op'[w] = r,
             \/ r = Off /\ op[w].call = "load"
             \/ /\ r.x = x /\ r.conn = NoConn /\ r.old = NoConn /\ r.call = "add" /\ r.kind = op[w].kind
                /\ r.pc = "persist" /\ op[w].call = "add" /\ r # Off
      PROVE  IInv'
  <2>1. r.old = NoConn /\ r.conn = NoConn /\ r.pc \in {"off", "persist"}
    BY <1>8, OffIs, Constants
  <2>2. ClientStep(w, x, r)
    BY <1>1, <1>2, <1>3, <1>5, <1>6, <1>8 DEF ClientStep, ConnsStep
  <2>3. Passes(w, x, r)
    BY <1>5, <1>6, <1>8, <2>1 DEF Passes, HandOf
  <2>4. Reserving(w, x, r)
    BY <1>1, <2>1 DEF Reserving, HasReserved
  <2>5. Replacing(w, x, r)
    BY <1>4, <1>5, <2>1 DEF Replacing
  <2>6. r # Off => PlaceOf(w)'
    <3>1. r # Off => AddAt(w)'
      BY <1>1, <1>3, <1>8 DEF AddAt, Mcp
    <3> QED BY <1>1, <1>2, <1>8, <3>1, PlaceGoes DEF EnvCalls
  <2>7. ASSUME Under(w, x)
        PROVE  IF r # Off THEN Under(w, x)' ELSE Calm(x)'
    <3>1. SkillIs(w, x) /\ KindIs(w, x)
      BY <2>7 DEF Under
    <3>3. CASE r = Off
      <4>1. op[w].call = "load" /\ reg[x].kind \in Mcp
        BY <1>3, <1>8, <3>1, <3>3 DEF KindIs
      <4>2. ServerOk(x)'
        BY <1>1, <4>1 DEF ServerOk
      <4>3. x \in skills' <=> reg'[x].kind = "exec"
        BY <1>1, <3>1, <4>1 DEF SkillIs
      <4> QED BY <1>1, <1>2, <1>3, <1>5, <3>3, <4>2, <4>3, ApiUnder DEF Calm
    <3>4. CASE r # Off
      <4>1. ServerIs(w, x)'
        BY <1>1, <1>3, <1>7, <1>8, <3>4 DEF ServerIs
      <4>2. KindIs(w, x)' /\ SkillIs(w, x)'
        BY <1>1, <1>3, <1>8, <3>1, <3>4 DEF KindIs, SkillIs, Dialing, Mcp
      <4> QED BY <1>1, <1>2, <1>3, <1>5, <1>8, <3>4, <4>1, <4>2, ApiUnder
    <3> QED BY <3>3, <3>4
  <2> QED BY <1>2, <1>8, <2>2, <2>3, <2>4, <2>5, <2>6, <2>7, ClientKeeps
<1>9. CASE op[w].call = "load"
  BY <1>8, <1>9, ReturnIs DEF ServerStarted
<1>10. CASE op[w].call # "load"
  <2> DEFINE r == [op[w] EXCEPT !.pc = "persist", !.conn = NoConn]
  <2>1. op' = [op EXCEPT ![w].pc = "persist", ![w].conn = NoConn]
    BY <1>10 DEF ServerStarted
  <2>2. op' = [op EXCEPT ![w] = r] /\ op'[w] = r
    BY <1>2, <2>1
  <2>3. r \in OpRecords /\ r.pc = "persist" /\ r.x = x /\ r.call = "add" /\ r.kind = op[w].kind
        /\ r.conn = NoConn /\ r.old = NoConn /\ r # Off
    BY <1>2, <1>3, <1>4, <1>10, OffIs, Constants DEF OpRecords, Places
  <2> HIDE DEF r
  <2> QED BY <1>3, <1>8, <1>10, <2>2, <2>3
<1> QED BY <1>9, <1>10

LEMMA StopServerKeeps ==
  ASSUME IInv, NEW w \in Ops, NEW x, op[w].x = x, StopServer(w)
  PROVE  IInv'
<1>1. /\ op[w].pc = "removeServer" /\ op[w].pc # "off" /\ op[w].pc \notin InHand /\ RemoveServer(x)
      /\ UNCHANGED <<mode, proc, regVars, creds, skills, reload, unasked, raced, waived>> /\ UNCHANGED <<reg, budgets>>
  BY DEF StopServer, At, InHand, noteVars, credVars, regVars, Named
<1>2. /\ Active(w) /\ PlaceOf(w) /\ x \in Names /\ TypeInv /\ OneHolder
      /\ op[w].conn = 0 /\ op[w].old = 0 /\ op \in [Ops -> OpRecords] /\ ConnsAreOf
  BY <1>1, OpRead DEF IInv, HandsInv
<1>3. mode = "api" /\ op[w].kind \in Mcp /\ op[w].call \in {"add", "remove"}
  BY <1>1, ApiIs
<1>4. /\ servers \in [Names -> Int] /\ tracked \in [Names -> Nat] /\ served \in [Names -> [Tools -> Nat]]
      /\ Absent \in Int
  BY <1>2, Constants DEF TypeInv
<1>5. /\ ConnsStep(x) /\ servers' \in [Names -> Int] /\ UNCHANGED <<tracked, served>> /\ ~HasServer(x)'
      /\ servers'[x] \in {servers[x], Absent} /\ (servers[x] = Reserved => servers'[x] = Reserved)
      /\ \A y \in Names \ {x} : servers'[y] = servers[y]
  <2>1. CASE HasServer(x)
    <3>1. conns' = Closed({servers[x]}) /\ servers' = [servers EXCEPT ![x] = Absent]
          /\ UNCHANGED <<tracked, served>>
      BY <1>1, <2>1 DEF RemoveServer, Close
    <3>2. Of(servers[x], x) /\ servers[x] \in Int /\ servers[x] # Reserved
      BY <1>2, <1>4, <2>1 DEF ConnsAreOf, HasServer
    <3>3. {servers[x]} \in SUBSET Int
      BY <3>2
    <3> QED BY <1>2, <1>4, <3>1, <3>2, <3>3 DEF ConnsStep, HasServer
  <2>2. CASE ~HasServer(x)
    BY <1>1, <1>4, <2>2 DEF RemoveServer, ConnsStep, HasServer
  <2> QED BY <2>1, <2>2
<1>6. ASSUME NEW r \in OpRecords, op' = [op EXCEPT ![w] = r], op'[w] = r,
             \/ r = Off /\ op[w].call = "add"
             \/ /\ r.x = x /\ r.conn = 0 /\ r.old = 0 /\ r.call = "remove" /\ r.kind = op[w].kind
                /\ r.pc = "reload" /\ op[w].call = "remove" /\ r # Off
             \/ /\ r.x = x /\ r.conn = 0 /\ r.old = 0 /\ r.call = "add" /\ r.kind = "stdio"
                /\ r.pc = "return" /\ op[w].call = "add" /\ op[w].kind = "stdio" /\ r # Off
      PROVE  IInv'
  <2>1. r.old = 0 /\ r.conn = 0 /\ r.pc \in {"off", "reload", "return"}
    BY <1>6, OffIs
  <2>2. ClientStep(w, x, r)
    BY <1>1, <1>2, <1>3, <1>4, <1>5, <1>6 DEF ClientStep
  <2>3. Passes(w, x, r)
    BY <1>2, <1>5, <1>6, <2>1, Constants DEF Passes, HandOf
  <2>4. Reserving(w, x, r)
    BY <1>5, <2>1 DEF Reserving
  <2>5. Replacing(w, x, r)
    BY <1>2, <1>5, <2>1, Constants DEF Replacing
  <2>6. r # Off => PlaceOf(w)'
    <3>1. r # Off /\ op[w].call = "remove" => RemoveAt(w)'
      BY <1>1, <1>3, <1>6 DEF RemoveAt
    <3>2. r # Off /\ op[w].call = "add" => AddAt(w)'
      BY <1>1, <1>3, <1>6 DEF AddAt, Mcp
    <3> QED BY <1>1, <1>2, <1>6, <3>1, <3>2, PlaceGoes DEF EnvCalls
  <2>7. ASSUME Under(w, x)
        PROVE  IF r # Off THEN Under(w, x)' ELSE Calm(x)'
    <3>1. SkillIs(w, x) /\ KindIs(w, x)
      BY <2>7 DEF Under
    <3>2. x \in skills' <=> reg'[x].kind = "exec"
      BY <1>1, <3>1 DEF SkillIs
    <3>3. ServerOk(x)'
      BY <1>5 DEF ServerOk
    <3>4. CASE r = Off
      BY <1>1, <1>2, <1>3, <1>5, <3>2, <3>3, <3>4, ApiUnder DEF Calm
    <3>5. CASE r # Off
      <4>1. KindIs(w, x)' /\ SkillIs(w, x)' /\ ServerIs(w, x)'
        BY <1>1, <1>6, <3>1, <3>2, <3>3, <3>5 DEF KindIs, SkillIs, ServerIs, Dialing
      <4> QED BY <1>1, <1>2, <1>3, <1>5, <1>6, <3>5, <4>1, ApiUnder
    <3> QED BY <3>4, <3>5
  <2> QED BY <1>2, <1>6, <2>2, <2>3, <2>4, <2>5, <2>6, <2>7, ClientKeeps
<1>7. CASE op[w].call = "remove"
  <2>1. Goto(w, "reload")
    BY <1>7 DEF StopServer
  <2>2. PICK r \in OpRecords :
          /\ op' = [op EXCEPT ![w] = r] /\ op'[w] = r /\ r.pc = "reload" /\ r.x = x /\ r.call = "remove"
          /\ r.kind = op[w].kind /\ r.conn = 0 /\ r.old = 0 /\ r # Off
    BY <1>1, <1>7, <2>1, GotoIs DEF Places
  <2> QED BY <1>6, <1>7, <2>2
<1>8. CASE op[w].call = "add" /\ Return(w)
  BY <1>6, <1>8, ReturnIs
<1>9. CASE op[w].call = "add" /\ op[w].kind = "stdio" /\ Goto(w, "return")
  <2>1. PICK r \in OpRecords :
          /\ op' = [op EXCEPT ![w] = r] /\ op'[w] = r /\ r.pc = "return" /\ r.x = x /\ r.call = "add"
          /\ r.kind = "stdio" /\ r.conn = 0 /\ r.old = 0 /\ r # Off
    BY <1>1, <1>9, GotoIs DEF Places
  <2> QED BY <1>6, <1>9, <2>1
<1> QED BY <1>3, <1>7, <1>8, <1>9 DEF StopServer, Finish, Called

\* The call returns, and what it started ends with it.
LEMMA CallReturnsKeeps ==
  ASSUME IInv, NEW w \in Ops, NEW x, op[w].x = x, CallReturns(w)
  PROVE  IInv'
<1> DEFINE C == {c \in DOMAIN conns : conns[c].of = x /\ conns[c].by = w}
<1>1. /\ op[w].pc = "return" /\ op[w].pc # "off" /\ op[w].pc \notin InHand /\ Return(w) /\ conns' = Closed(C)
      /\ UNCHANGED <<mode, proc, regVars, creds, skills, reload, unasked, raced, waived>> /\ UNCHANGED <<reg, budgets>>
      /\ UNCHANGED <<servers, tracked, served>>
  BY DEF CallReturns, At, InHand, Close, noteVars, credVars, regVars, Named
<1>2. /\ Active(w) /\ PlaceOf(w) /\ x \in Names /\ TypeInv /\ OneHolder
      /\ op[w].conn = 0 /\ op[w].old = 0 /\ op \in [Ops -> OpRecords] /\ ConnsAreOf
  BY <1>1, OpRead DEF IInv, HandsInv
<1>3. mode = "api" /\ op[w].kind = "stdio" /\ op[w].call = "add"
  BY <1>1, <1>2, PlaceIs DEF LoadAt, AddAt, RemoveAt, EnvAt, Starting, Dialing, Mcp, EnvCalls, TypeInv
<1>4. Off \in OpRecords /\ op' = [op EXCEPT ![w] = Off] /\ op'[w] = Off /\ Off.conn = 0 /\ Off.old = 0
      /\ Off.pc = "off" /\ Off.call = "none"
  BY <1>1, OffIs, ReturnIs
<1>5. /\ servers \in [Names -> Int] /\ tracked \in [Names -> Nat] /\ served \in [Names -> [Tools -> Nat]]
  BY <1>2 DEF TypeInv
<1>6. ConnsStep(x)
  <2>1. \A c \in C : Of(c, x) /\ c \in Int
    BY <1>2 DEF Of, TypeInv
  <2> HIDE DEF C
  <2> QED BY <1>1, <2>1 DEF ConnsStep
<1> HIDE DEF C
<1>7. ClientStep(w, x, Off)
  BY <1>1, <1>2, <1>3, <1>4, <1>5, <1>6 DEF ClientStep
<1>8. Passes(w, x, Off) /\ Reserving(w, x, Off) /\ Replacing(w, x, Off)
  BY <1>1, <1>2, <1>4, Constants DEF Passes, Reserving, Replacing
<1>9. ASSUME Under(w, x) PROVE Calm(x)'
  <2>1. SkillIs(w, x) /\ ServerOk(x)
    BY <1>1, <1>9 DEF Under, ServerIs
  <2>2. ServerOk(x)' /\ (x \in skills' <=> reg'[x].kind = "exec")
    BY <1>1, <1>3, <2>1 DEF SkillIs, ServerOk, HasServer
  <2> QED BY <1>1, <1>2, <1>3, <2>2, ApiUnder DEF Calm
<1> QED BY <1>2, <1>4, <1>7, <1>8, <1>9, ClientKeeps

-------------------------------------------------------------------------------
(* The steps of the hot-reloader. *)

Replaces == {"dial", "offer", "swap", "removeStale", "closeOld"}

LEMMA CliIs ==
  ASSUME IInv, NEW w \in Ops, op[w].pc \in Replaces \cup {"take", "removeTools"}
  PROVE  /\ mode = "cli" /\ op[w].kind \in Mcp /\ PlaceOf(w) /\ Active(w) /\ op[w].x \in Names
         /\ op[w].pc \in {"take", "removeTools"} => op[w].call = "remove"
         /\ op[w].call = "remove" => op[w].pc \in {"take", "removeTools", "closeOld"}
<1>1. op[w].pc # "off" /\ mode \in {"api", "cli"}
  BY DEF Replaces, IInv, TypeInv
<1>2. PlaceOf(w) /\ Active(w) /\ op[w].x \in Names
  BY <1>1, OpRead
<1> QED BY <1>1, <1>2, PlaceIs DEF LoadAt, AddAt, RemoveAt, EnvAt, Starting, Dialing, Replaces, Mcp, EnvCalls

LEMMA CliPlace ==
  ASSUME IInv, NEW w \in Ops, op[w].pc \in Replaces, op[w].call # "remove", op'[w].pc \in Replaces,
         UNCHANGED <<mode, proc>>, budgets'.calls = budgets.calls,
         op'[w].x = op[w].x, op'[w].call = op[w].call, op'[w].kind = op[w].kind
  PROVE  PlaceOf(w)'
<1>1. mode = "cli" /\ op[w].kind \in Mcp /\ PlaceOf(w)
  BY CliIs
<1>2. (op[w].call = "load" => LoadAt(w)) /\ (op[w].call = "again" => op[w].kind = "http")
  BY <1>1, PlaceIs
<1>3. op[w].call = "load" => LoadAt(w)'
  BY <1>1, <1>2 DEF LoadAt, Dialing, Replaces
<1>4. op[w].call = "add" => AddAt(w)'
  BY <1>1 DEF AddAt, Dialing, Replaces, Mcp
<1>5. op[w].call \in EnvCalls => EnvAt(w)'
  BY <1>1 DEF EnvAt, Dialing, Replaces
<1> QED BY <1>1, <1>2, <1>3, <1>4, <1>5, PlaceGoes DEF Dialing, Replaces

\* The kind of a server that is connected is the registry's.
LEMMA CliKind ==
  ASSUME IInv, NEW w \in Ops, op[w].pc \in Replaces, op[w].call # "remove", NEW x \in Names, op[w].x = x,
         Under(w, x)
  PROVE  reg[x].kind = op[w].kind /\ reg[x].kind \in Mcp /\ (x \in skills <=> reg[x].kind = "exec")
<1>1. op[w].kind \in Mcp /\ PlaceOf(w) /\ op[w].kind # "exec"
  BY CliIs DEF Mcp
<1>2. op[w].call \in {"load", "add", "again", "set", "unset"}
  BY <1>1, PlaceIs
<1>3. KindIs(w, x) /\ SkillIs(w, x)
  BY DEF Under
<1>4. reg[x].kind = op[w].kind
  <2>1. op[w].call = "add" => reg[x] = Entry(op[w].kind)
    BY <1>3 DEF KindIs, Dialing, Replaces
  <2>2. op[w].call # "add" => reg[x].kind = op[w].kind
    BY <1>2, <1>3 DEF KindIs
  <2> QED BY <2>1, <2>2 DEF Entry
<1> QED BY <1>1, <1>3, <1>4 DEF SkillIs, Replaces

\* The tools and the environment are what is to be shown of a step between two such places.
LEMMA CliUnder ==
  ASSUME IInv, NEW w \in Ops, op[w].pc \in Replaces, op[w].call # "remove", NEW x \in Names, op[w].x = x,
         Under(w, x), op'[w].pc \in Replaces, op'[w].x = op[w].x, op'[w].call = op[w].call,
         op'[w].kind = op[w].kind, UNCHANGED <<mode, reg, skills, servers>>,
         ToolsAre(w, x)', EnvIs(w, x)'
  PROVE  Under(w, x)'
<1>1. op[w].kind \in Mcp /\ PlaceOf(w) /\ mode = "cli"
  BY CliIs
<1>2. KindIs(w, x)'
  BY <1>1 DEF Under, KindIs, Replaces, Dialing
<1>3. SkillIs(w, x)'
  BY CliKind, <1>1 DEF SkillIs, Replaces, Mcp
<1>4. ~HasServer(x)'
  BY <1>1 DEF IInv, OneHolder, HasServer
<1>5. ServerIs(w, x)'
  BY <1>4 DEF ServerIs, ServerOk, Replaces
<1> QED BY <1>2, <1>3, <1>5 DEF Under

LEMMA DialKeeps ==
  ASSUME IInv, NEW w \in Ops, NEW x, op[w].x = x, Dial(w)
  PROVE  IInv'
<1>1. /\ op[w].pc = "dial" /\ op[w].pc # "off" /\ op[w].pc \notin InHand /\ op[w].pc \in Replaces
      /\ UNCHANGED <<mode, proc, regVars, creds, skills, reload, unasked, raced, waived>> /\ UNCHANGED <<reg, noteVars>>
  BY DEF Dial, At, InHand, Replaces, noteVars, credVars, regVars
<1>2. /\ Active(w) /\ PlaceOf(w) /\ x \in Names /\ TypeInv /\ OneHolder /\ op[w] \in OpRecords
      /\ op[w].conn = 0 /\ op[w].old = 0 /\ op \in [Ops -> OpRecords] /\ ConnsAreOf
  BY <1>1, OpRead DEF IInv, HandsInv
<1>3. mode = "cli" /\ op[w].kind \in Mcp /\ op[w].call # "remove"
  BY <1>1, CliIs
<1>4. ASSUME NEW T \in SUBSET Tools, Connects(x, op[w].env, T, Free), UNCHANGED <<servers, tracked, served>>,
             UNCHANGED budgets,
             op' = [op EXCEPT ![w].pc = "offer", ![w].conn = Len(conns) + 1, ![w].todo = T]
      PROVE  IInv'
  <2>0. PICK c \in Nat : c = Len(conns) + 1
    BY <1>2 DEF TypeInv
  <2> DEFINE r == [op[w] EXCEPT !.pc = "offer", !.conn = c, !.todo = T]
  <2>1. /\ ConnsStep(x) /\ SameFor(x) /\ Len(conns) \in Nat /\ OfNext(c, x) /\ ~(c = NoConn)
        /\ conns'[c] = [of |-> x, env |-> op[w].env, tools |-> T, by |-> Free, open |-> TRUE]
    <3>1. op[w].env \in Nat
      BY <1>2 DEF OpRecords
    <3> QED BY <1>1, <1>2, <1>4, <2>0, <3>1, ConnectsIs
  <2>2. conns'[c].open /\ conns'[c].env = op[w].env /\ conns'[c].tools = T
    BY <2>1
  <2>3. tracked[x] # c
    BY <1>2, <2>0, <2>1 DEF ConnsAreOf, Of, TypeInv, NoConn
  <2>4. op' = [op EXCEPT ![w] = r] /\ r \in OpRecords /\ op'[w] = r /\ r.pc = "offer" /\ r.x = x
        /\ r.call = op[w].call /\ r.kind = op[w].kind /\ r.conn = c /\ r.old = 0 /\ r.todo = T /\ r # Off
    BY <1>2, <1>4, <2>0, OffIs DEF OpRecords, Places
  <2> HIDE DEF r
  <2>5. ClientStep(w, x, r)
    BY <1>1, <1>2, <1>3, <1>4, <2>1, <2>4 DEF ClientStep, TypeInv
  <2>6. Passes(w, x, r) /\ Reserving(w, x, r)
    BY <1>2, <1>4, <2>1, <2>4, Constants DEF Passes, HandOf, Reserving
  <2>7. Replacing(w, x, r)
    BY <1>1, <1>2, <1>4, <2>4, Constants DEF Replacing
  <2>8. PlaceOf(w)'
    BY <1>1, <1>3, <1>4, <2>4, CliPlace DEF Replaces
  <2>9. ASSUME Under(w, x)
        PROVE  Under(w, x)'
    <3>1. TrackOk(x) /\ ToolsOk(x) /\ EnvIs(w, x)
      BY <1>1, <2>9 DEF Under, ToolsAre
    <3>2. TrackOk(x)'
      BY <1>2, <2>1, <3>1, SameParts
    <3>3. ToolsAre(w, x)'
      <4>1. Open(c)' /\ Offers(c)' = T
        BY <2>1, <2>2 DEF Open, Offers
      <4>2. Offers(tracked[x])' = Offers(tracked[x]) /\ tracked' = tracked /\ served' = served
        BY <1>2, <1>4, <2>1, OpensAreSame DEF TypeInv, ConnsAreOf
      <4>3. Served(x, c, {}, tracked[x])'
        BY <3>1, <4>2 DEF ToolsOk, Served, Offers
      <4>4. Served(x, c, Offers(c) \ T, tracked[x])'
        BY <4>1, <4>3 DEF Served
      <4> QED BY <1>4, <2>3, <2>4, <3>2, <4>1, <4>2, <4>4 DEF ToolsAre
    <3>4. EnvIs(w, x)'
      <4>1. Stale(w, x)' \/ EnvOk(x)'
        BY <1>1, <1>2, <2>1, <2>4, <3>1, SameParts DEF EnvIs, Stale, EnvCalls
      <4>2. Want(x)' = Want(x)
        BY <1>1 DEF Want
      <4> QED BY <1>1, <2>2, <2>4, <3>1, <4>1, <4>2 DEF EnvIs
    <3> QED BY <1>1, <1>2, <1>3, <1>4, <2>4, <2>9, <3>3, <3>4, CliUnder DEF Replaces
  <2> QED BY <1>2, <2>4, <2>5, <2>6, <2>7, <2>8, <2>9, ClientKeeps
<1>5. ASSUME NotConnected(w), Trouble, UNCHANGED clientVars
      PROVE  IInv'
  BY <1>1, <1>3, <1>5, NotConnectedKeeps
<1> QED BY <1>4, <1>5 DEF Dial, Named, NoTrouble

LEMMA OfferKeeps ==
  ASSUME IInv, NEW w \in Ops, NEW x, op[w].x = x, Offer(w)
  PROVE  IInv'
<1>1. /\ op[w].pc = "offer" /\ op[w].pc # "off" /\ op[w].pc \in Replaces
      /\ UNCHANGED <<mode, proc, regVars, creds, skills, reload, unasked, raced, waived>> /\ UNCHANGED <<reg, budgets>>
  BY DEF Offer, At, Replaces, noteVars, credVars, regVars
<1>2. /\ Active(w) /\ PlaceOf(w) /\ x \in Names /\ TypeInv /\ OneHolder /\ op[w] \in OpRecords
      /\ op \in [Ops -> OpRecords] /\ ConnsAreOf
  BY <1>1, OpRead DEF IInv, HandsInv
<1>3. mode = "cli" /\ op[w].kind \in Mcp /\ op[w].call # "remove"
  BY <1>1, CliIs
<1>4. PICK c \in Nat : c = op[w].conn /\ c # NoConn /\ op[w].old = NoConn
  BY <1>1, <1>2 DEF IInv, HandsInv, Hands, HandOf, OpRecords
<1>5. PICK t \in op[w].todo :
        /\ RegisterProxyTool(x, t, op[w].conn)
        /\ op' = [op EXCEPT ![w].todo = @ \ {t}, ![w].pc = IF op[w].todo = {t} THEN "swap" ELSE @]
  BY DEF Offer, Named
<1>0. PICK left : left = op[w].todo \ {t}
  OBVIOUS
<1> DEFINE p == IF op[w].todo = {t} THEN "swap" ELSE "offer"
           r == [op[w] EXCEPT !.todo = left, !.pc = p]
<1>6. p \in {"swap", "offer"} /\ (p = "swap" => left = {}) /\ left \subseteq Tools /\ t \in Tools
  BY <1>0, <1>2 DEF OpRecords
<1>7. op' = [op EXCEPT ![w] = r] /\ op'[w] = r
  BY <1>0, <1>1, <1>2, <1>5
<1> HIDE DEF p
<1>8. /\ r \in OpRecords /\ r.pc = p /\ r.x = x /\ r.call = op[w].call /\ r.kind = op[w].kind /\ r.conn = c
      /\ r.old = NoConn /\ r.todo = left /\ r # Off
  BY <1>2, <1>4, <1>6, OffIs DEF OpRecords, Places
<1> HIDE DEF r
<1>9. /\ served \in [Names -> [Tools -> Nat]] /\ tracked \in [Names -> Nat] /\ servers \in [Names -> Int]
      /\ served' = [served EXCEPT ![x][t] = c] /\ UNCHANGED <<conns, servers, tracked>>
  BY <1>2, <1>4, <1>5 DEF TypeInv, RegisterProxyTool
<1>10. /\ served' \in [Names -> [Tools -> Nat]] /\ \A y \in Names \ {x} : served'[y] = served[y]
       /\ \A u \in Tools : served'[x][u] = IF u = t THEN c ELSE served[x][u]
  BY <1>2, <1>4, <1>6, <1>9
<1>11. ClientStep(w, x, r)
  BY <1>1, <1>2, <1>3, <1>6, <1>7, <1>8, <1>9, <1>10 DEF ClientStep, ConnsStep
<1>12. Passes(w, x, r) /\ Reserving(w, x, r)
  BY <1>4, <1>6, <1>7, <1>8, <1>9 DEF Passes, HandOf, Reserving
<1>13. Replacing(w, x, r)
  BY <1>1, <1>4, <1>6, <1>8, <1>9 DEF Replacing
<1>14. PlaceOf(w)'
  BY <1>1, <1>3, <1>6, <1>7, <1>8, CliPlace DEF Replaces
<1>15. ASSUME Under(w, x)
       PROVE  Under(w, x)'
  <2>1. /\ TrackOk(x) /\ Open(c) /\ c # tracked[x] /\ op[w].todo \subseteq Offers(c)
        /\ Served(x, c, Offers(c) \ op[w].todo, tracked[x]) /\ EnvIs(w, x)
    BY <1>1, <1>4, <1>15 DEF Under, ToolsAre
  <2>2. \A d : Open(d)' = Open(d) /\ Offers(d)' = Offers(d)
    BY <1>9 DEF Open, Offers
  <2>3. \A u \in Tools : u \in Offers(c) \ left <=> u = t \/ u \in Offers(c) \ op[w].todo
    BY <1>0, <2>1
  <2>4. ToolsAre(w, x)'
    <3>1. Served(x, c, Offers(c) \ left, tracked[x])'
      BY <1>9, <1>10, <2>1, <2>2, <2>3 DEF Served
    <3>2. TrackOk(x)'
      BY <1>1, <1>9, <2>1, <2>2 DEF TrackOk
    <3>3. left \subseteq Offers(c)
      BY <1>0, <2>1
    <3> QED BY <1>6, <1>7, <1>8, <1>9, <2>1, <2>2, <3>1, <3>2, <3>3 DEF ToolsAre
  <2>5. EnvIs(w, x)'
    <3>1. Want(x)' = Want(x) /\ (EnvOk(x) => EnvOk(x)') /\ (Stale(w, x) => Stale(w, x)')
      BY <1>1, <1>6, <1>7, <1>8, <1>9 DEF Want, EnvOk, Asked, Stale, EnvCalls
    <3> QED BY <1>1, <1>4, <1>6, <1>7, <1>8, <1>9, <2>1, <3>1 DEF EnvIs
  <2> QED BY <1>1, <1>2, <1>3, <1>6, <1>7, <1>8, <1>9, <1>15, <2>4, <2>5, CliUnder DEF Replaces
<1> QED BY <1>2, <1>7, <1>8, <1>11, <1>12, <1>13, <1>14, <1>15, ClientKeeps

LEMMA SwapKeeps ==
  ASSUME IInv, NEW w \in Ops, NEW x, op[w].x = x, Swap(w)
  PROVE  IInv'
<1> DEFINE c == op[w].conn
           r == [op[w] EXCEPT !.pc = "removeStale", !.old = tracked[x]]
<1>1. /\ op[w].pc = "swap" /\ op[w].pc # "off" /\ op[w].pc \in Replaces /\ Track(x, c)
      /\ UNCHANGED <<mode, proc, regVars, creds, skills, reload, unasked, raced, waived>> /\ UNCHANGED <<reg, budgets>>
      /\ op' = [op EXCEPT ![w] = r]
  BY DEF Swap, At, Replaces, noteVars, credVars, regVars, Named
<1>2. /\ Active(w) /\ PlaceOf(w) /\ x \in Names /\ TypeInv /\ OneHolder /\ op[w] \in OpRecords
      /\ op \in [Ops -> OpRecords] /\ ConnsAreOf
  BY <1>1, OpRead DEF IInv, HandsInv
<1>3. mode = "cli" /\ op[w].kind \in Mcp /\ op[w].call # "remove"
  BY <1>1, CliIs
<1>4. c # NoConn /\ op[w].old = NoConn /\ c \in Nat
  BY <1>1, <1>2 DEF IInv, HandsInv, Hands, HandOf, OpRecords
<1>5. /\ served \in [Names -> [Tools -> Nat]] /\ tracked \in [Names -> Nat] /\ servers \in [Names -> Int]
      /\ tracked' = [tracked EXCEPT ![x] = c] /\ UNCHANGED <<conns, servers, served>>
  BY <1>1, <1>2 DEF TypeInv, Track
<1>6. /\ tracked' \in [Names -> Nat] /\ \A y \in Names \ {x} : tracked'[y] = tracked[y]
      /\ tracked'[x] = c
  BY <1>2, <1>4, <1>5
<1>7. /\ r \in OpRecords /\ r.pc = "removeStale" /\ r.x = x /\ r.call = op[w].call /\ r.kind = op[w].kind
      /\ r.conn = c /\ r.old = tracked[x] /\ r # Off /\ op'[w] = r
  BY <1>1, <1>2, <1>5, OffIs DEF OpRecords, Places
<1> HIDE DEF r
<1>8. ClientStep(w, x, r)
  BY <1>1, <1>2, <1>3, <1>5, <1>6, <1>7 DEF ClientStep, ConnsStep
<1>9. Passes(w, x, r) /\ Reserving(w, x, r)
  BY <1>4, <1>5, <1>6, <1>7 DEF Passes, HandOf, Reserving
\* At a start there is nothing to replace.
<1>10. op[w].call = "load" /\ op[w].kind = "stdio" => tracked[x] = NoConn
  <2>1. op[w].call = "load" /\ op[w].kind = "stdio" => proc = "loading"
    BY <1>1, <1>2, <1>3, PlaceIs DEF LoadAt, PlaceOf, IInv, OneHolder, TypeInv
  <2> QED BY <1>1, <2>1 DEF IInv, HandsInv, NothingToReplace
<1>11. Replacing(w, x, r)
  BY <1>4, <1>6, <1>7, <1>10 DEF Replacing
<1>12. PlaceOf(w)'
  BY <1>1, <1>3, <1>7, CliPlace DEF Replaces
<1>13. ASSUME Under(w, x)
       PROVE  Under(w, x)'
  <2>1. /\ Open(c) /\ c # tracked[x] /\ op[w].todo = {}
        /\ Served(x, c, Offers(c) \ op[w].todo, tracked[x]) /\ EnvIs(w, x)
    BY <1>1, <1>13 DEF Under, ToolsAre
  <2>2. \A d : Open(d)' = Open(d) /\ Offers(d)' = Offers(d)
    BY <1>5 DEF Open, Offers
  <2>3. reg[x].kind \in Mcp
    BY <1>1, <1>2, <1>3, <1>13, CliKind
  <2>4. Served(x, c, Offers(c), tracked[x])
    BY <2>1 DEF Served
  <2>5. ToolsAre(w, x)'
    <3>1. TrackOk(x)'
      BY <1>1, <1>6, <2>1, <2>2, <2>3 DEF TrackOk
    <3> QED BY <1>5, <1>6, <1>7, <2>1, <2>2, <2>4, <3>1 DEF ToolsAre, Served
  <2>6. EnvIs(w, x)'
    <3>1. EnvOk(x)'
      BY <1>1, <1>5, <1>6, <2>1 DEF EnvIs, EnvOk, Asked, Want
    <3> QED BY <1>7, <3>1 DEF EnvIs
  <2> QED BY <1>1, <1>2, <1>3, <1>5, <1>7, <1>13, <2>5, <2>6, CliUnder DEF Replaces
<1> QED BY <1>2, <1>7, <1>8, <1>9, <1>11, <1>12, <1>13, ClientKeeps

LEMMA RemoveStaleKeeps ==
  ASSUME IInv, NEW w \in Ops, NEW x, op[w].x = x, RemoveStale(w)
  PROVE  IInv'
<1> DEFINE r == [op[w] EXCEPT !.pc = "closeOld"]
<1>1. /\ op[w].pc \in {"removeStale", "removeTools"} /\ op[w].pc # "off"
      /\ RemoveTools(x, Offers(op[w].old) \ Offers(op[w].conn))
      /\ UNCHANGED <<mode, proc, regVars, creds, skills, reload, unasked, raced, waived>> /\ UNCHANGED <<reg, budgets>>
      /\ op' = [op EXCEPT ![w] = r]
  BY DEF RemoveStale, Goto, noteVars, credVars, regVars, Named
<1>2. /\ Active(w) /\ PlaceOf(w) /\ x \in Names /\ TypeInv /\ OneHolder /\ op[w] \in OpRecords
      /\ op \in [Ops -> OpRecords] /\ ConnsAreOf
  BY <1>1, OpRead DEF IInv, HandsInv
<1>3. mode = "cli" /\ op[w].kind \in Mcp /\ (op[w].call = "remove" <=> op[w].pc = "removeTools")
  BY <1>1, CliIs DEF Replaces
<1>4. PICK c \in Nat, o \in Nat : c = op[w].conn /\ o = op[w].old
  BY <1>2 DEF OpRecords
<1>5. c # NoConn <=> op[w].pc = "removeStale"
  BY <1>1, <1>4 DEF IInv, HandsInv, Hands, HandOf
<1>6. /\ served \in [Names -> [Tools -> Nat]] /\ tracked \in [Names -> Nat] /\ servers \in [Names -> Int]
      /\ UNCHANGED <<conns, servers, tracked>>
      /\ served' = [served EXCEPT ![x] = [t \in Tools |-> IF t \in Offers(o) \ Offers(c) THEN NoConn ELSE served[x][t]]]
  BY <1>1, <1>2, <1>4 DEF TypeInv, RemoveTools
<1>7. /\ served' \in [Names -> [Tools -> Nat]] /\ \A y \in Names \ {x} : served'[y] = served[y]
      /\ \A t \in Tools : served'[x][t] = IF t \in Offers(o) \ Offers(c) THEN NoConn ELSE served[x][t]
  BY <1>2, <1>6, Constants
<1>8. /\ r \in OpRecords /\ r.pc = "closeOld" /\ r.x = x /\ r.call = op[w].call /\ r.kind = op[w].kind
      /\ r.conn = c /\ r.old = o /\ r # Off /\ op'[w] = r
  BY <1>1, <1>2, <1>4, OffIs DEF OpRecords, Places
<1> HIDE DEF r
<1>9. ClientStep(w, x, r)
  BY <1>1, <1>2, <1>3, <1>6, <1>7, <1>8 DEF ClientStep, ConnsStep
<1>10. Passes(w, x, r) /\ Reserving(w, x, r)
  BY <1>1, <1>3, <1>4, <1>5, <1>6, <1>8 DEF Passes, HandOf, Reserving
<1>11. Replacing(w, x, r)
  <2>1. op[w].call = "load" /\ op[w].kind = "stdio" => o = NoConn
    BY <1>4 DEF IInv, HandsInv, NothingToReplace
  <2> QED BY <1>4, <1>5, <1>6, <1>8, <2>1 DEF Replacing
<1>12. \A d : Open(d)' = Open(d) /\ Offers(d)' = Offers(d)
  BY <1>6 DEF Open, Offers
<1>13. CASE op[w].pc = "removeStale"
  <2>1. op[w].pc \in Replaces /\ op'[w].pc \in Replaces /\ op[w].call # "remove"
    BY <1>3, <1>8, <1>13 DEF Replaces
  <2>2. PlaceOf(w)'
    BY <1>1, <1>8, <2>1, CliPlace
  <2>3. ASSUME Under(w, x)
        PROVE  Under(w, x)'
    <3>1. TrackOk(x) /\ tracked[x] = c /\ o # c /\ Served(x, c, Offers(c), o) /\ EnvIs(w, x)
      BY <1>4, <1>13, <2>3 DEF Under, ToolsAre
    <3>2. TrackOk(x)'
      BY <1>1, <1>6, <1>12, <3>1 DEF TrackOk
    <3>3. ToolsOk(x)'
      BY <1>6, <1>7, <1>12, <3>1 DEF ToolsOk, Served, Offers
    <3>4. ToolsAre(w, x)'
      BY <1>6, <1>8, <3>1, <3>2, <3>3 DEF ToolsAre
    <3>5. EnvIs(w, x)'
      <4>1. EnvOk(x)
        BY <1>13, <3>1 DEF EnvIs, Stale
      <4>2. EnvOk(x)'
        BY <1>1, <1>6, <4>1 DEF EnvOk, Asked, Want
      <4> QED BY <1>8, <4>2 DEF EnvIs
    <3> QED BY <1>1, <1>2, <1>6, <1>8, <2>1, <2>3, <3>4, <3>5, CliUnder
  <2> QED BY <1>2, <1>8, <1>9, <1>10, <1>11, <2>2, <2>3, ClientKeeps
<1>14. CASE op[w].pc = "removeTools"
  <2>1. op[w].call = "remove" /\ c = NoConn
    BY <1>3, <1>5, <1>14
  <2>2. PlaceOf(w)'
    <3>1. RemoveAt(w)'
      BY <1>1, <1>3, <1>8 DEF RemoveAt
    <3> QED BY <1>1, <1>2, <1>8, <2>1, <3>1, PlaceGoes DEF EnvCalls
  <2>3. ASSUME Under(w, x)
        PROVE  Under(w, x)'
    <3>1. tracked[x] = NoConn /\ Served(x, o, Offers(o), NoConn) /\ reg[x] = None
      BY <1>4, <1>14, <2>1, <2>3 DEF Under, ToolsAre, KindIs
    <3>2. SkillIs(w, x)
      BY <2>3 DEF Under
    <3>3. KindIs(w, x)' /\ SkillIs(w, x)'
      BY <1>1, <1>8, <1>14, <2>1, <3>1, <3>2 DEF KindIs, SkillIs
    <3>4. ServerIs(w, x)'
      BY <1>2, <1>3, <1>6, <1>8 DEF ServerIs, OneHolder, ServerOk, HasServer
    <3>5. TrackOk(x)' /\ EnvOk(x)'
      BY <1>6, <3>1 DEF TrackOk, EnvOk, Asked
    <3>6. ToolsOk(x)'
      BY <1>6, <1>7, <2>1, <3>1 DEF ToolsOk, Served, Offers
    <3>7. ToolsAre(w, x)' /\ EnvIs(w, x)'
      BY <1>6, <1>8, <2>1, <3>1, <3>5, <3>6 DEF ToolsAre, EnvIs
    <3> QED BY <3>3, <3>4, <3>7 DEF Under
  <2> QED BY <1>2, <1>8, <1>9, <1>10, <1>11, <2>2, <2>3, ClientKeeps
<1> QED BY <1>1, <1>13, <1>14

LEMMA DisconnectKeeps ==
  ASSUME IInv, NEW w \in Ops, NEW x, op[w].x = x, Disconnect(w)
  PROVE  IInv'
<1> DEFINE r == [op[w] EXCEPT !.pc = "removeTools", !.old = tracked[x]]
<1>1. /\ op[w].pc = "take" /\ op[w].pc # "off" /\ op[w].pc \notin InHand /\ Track(x, NoConn)
      /\ UNCHANGED <<mode, proc, regVars, creds, skills, reload, unasked, raced, waived>> /\ UNCHANGED <<reg, budgets>>
      /\ op' = [op EXCEPT ![w] = r]
  BY DEF Disconnect, At, InHand, noteVars, credVars, regVars, Named
<1>2. /\ Active(w) /\ PlaceOf(w) /\ x \in Names /\ TypeInv /\ OneHolder /\ op[w] \in OpRecords
      /\ op \in [Ops -> OpRecords] /\ ConnsAreOf /\ op[w].conn = 0 /\ op[w].old = 0
  BY <1>1, OpRead DEF IInv, HandsInv
<1>3. mode = "cli" /\ op[w].kind \in Mcp /\ op[w].call = "remove"
  BY <1>1, CliIs
<1>4. /\ served \in [Names -> [Tools -> Nat]] /\ tracked \in [Names -> Nat] /\ servers \in [Names -> Int]
      /\ tracked' = [tracked EXCEPT ![x] = NoConn] /\ UNCHANGED <<conns, servers, served>> /\ NoConn \in Nat
  BY <1>1, <1>2, Constants DEF TypeInv, Track
<1>5. /\ tracked' \in [Names -> Nat] /\ \A y \in Names \ {x} : tracked'[y] = tracked[y]
      /\ tracked'[x] = NoConn
  BY <1>2, <1>4
<1>6. /\ r \in OpRecords /\ r.pc = "removeTools" /\ r.x = x /\ r.call = "remove" /\ r.kind = op[w].kind
      /\ r.conn = 0 /\ r.old = tracked[x] /\ r # Off /\ op'[w] = r
  BY <1>1, <1>2, <1>3, <1>4, OffIs DEF OpRecords, Places
<1> HIDE DEF r
<1>7. ClientStep(w, x, r)
  BY <1>1, <1>2, <1>3, <1>4, <1>5, <1>6 DEF ClientStep, ConnsStep
<1>8. Passes(w, x, r) /\ Reserving(w, x, r) /\ Replacing(w, x, r)
  BY <1>2, <1>4, <1>5, <1>6, Constants DEF Passes, HandOf, Reserving, Replacing
<1>9. PlaceOf(w)'
  <2>1. RemoveAt(w)'
    BY <1>1, <1>3, <1>6 DEF RemoveAt
  <2> QED BY <1>1, <1>2, <1>3, <1>6, <2>1, PlaceGoes DEF EnvCalls
<1>10. ASSUME Under(w, x)
       PROVE  Under(w, x)'
  <2>1. ToolsOk(x) /\ SkillIs(w, x) /\ reg[x] = None
    BY <1>1, <1>3, <1>10 DEF Under, ToolsAre, KindIs
  <2>2. KindIs(w, x)' /\ SkillIs(w, x)'
    BY <1>1, <1>3, <1>6, <2>1 DEF KindIs, SkillIs
  <2>3. ServerIs(w, x)'
    BY <1>2, <1>3, <1>4, <1>6 DEF ServerIs, OneHolder, ServerOk, HasServer
  <2>4. ToolsAre(w, x)'
    BY <1>4, <1>5, <1>6, <2>1 DEF ToolsAre, ToolsOk, Served, Offers
  <2>5. EnvIs(w, x)'
    BY <1>5, <1>6 DEF EnvIs, EnvOk, Asked
  <2> QED BY <2>2, <2>3, <2>4, <2>5 DEF Under
<1> QED BY <1>2, <1>6, <1>7, <1>8, <1>9, <1>10, ClientKeeps

LEMMA ClosedIs ==
  ASSUME TypeInv, NEW o \in Nat, conns' \in {conns, Closed({o})}
  PROVE  /\ \A d \in 1..Len(conns) :
              /\ conns'[d].env = conns[d].env /\ conns'[d].tools = conns[d].tools
              /\ d # o => conns'[d].open = conns[d].open
         /\ conns' = Closed({o}) /\ o \in 1..Len(conns) => ~conns'[o].open
<1>1. conns \in Seq(Connections) /\ DOMAIN conns = 1..Len(conns)
      /\ \A d \in 1..Len(conns) : conns[d] \in Connections
  BY DEF TypeInv
<1>2. CASE conns' = Closed({o})
  <2>1. \A d \in 1..Len(conns) : conns'[d] = IF d = o THEN [conns[d] EXCEPT !.open = FALSE] ELSE conns[d]
    BY <1>1, <1>2 DEF Closed
  <2> QED BY <1>1, <2>1 DEF Connections
<1>3. CASE conns' = conns /\ conns' # Closed({o})
  BY <1>3
<1> QED BY <1>2, <1>3

LEMMA CloseReplacedKeeps ==
  ASSUME IInv, NEW w \in Ops, NEW x, op[w].x = x, CloseReplaced(w)
  PROVE  IInv'
<1>1. /\ op[w].pc = "closeOld" /\ op[w].pc # "off"
      /\ UNCHANGED <<mode, proc, regVars, creds, skills, reload, unasked, raced, waived>> /\ UNCHANGED <<reg, budgets>>
      /\ IF op[w].call = "load" /\ op[w].kind = "stdio" THEN UNCHANGED clientVars ELSE CloseOld(op[w].old)
  BY DEF CloseReplaced, At, noteVars, credVars, regVars
<1>2. /\ Active(w) /\ PlaceOf(w) /\ x \in Names /\ TypeInv /\ OneHolder /\ op[w] \in OpRecords
      /\ op \in [Ops -> OpRecords] /\ ConnsAreOf
  BY <1>1, OpRead DEF IInv, HandsInv
<1>3. mode = "cli" /\ op[w].kind \in Mcp /\ op[w].call \in {"load", "add", "again", "remove", "set", "unset"}
  BY <1>1, <1>2, CliIs, PlaceIs DEF Replaces
<1>4. PICK c \in Nat, o \in Nat : c = op[w].conn /\ o = op[w].old
  BY <1>2 DEF OpRecords
<1>5. op[w].call = "load" /\ op[w].kind = "stdio" => o = NoConn
  BY <1>4 DEF IInv, HandsInv, NothingToReplace
<1>6. /\ served \in [Names -> [Tools -> Nat]] /\ tracked \in [Names -> Nat] /\ servers \in [Names -> Int]
      /\ UNCHANGED <<servers, tracked, served>> /\ conns' \in {conns, Closed({o})}
      /\ o # NoConn => conns' = Closed({o})
  BY <1>1, <1>2, <1>4, <1>5 DEF TypeInv, CloseOld, Close, clientVars
<1>7. Of(o, x) /\ ConnsStep(x)
  <2>1. Of(o, x) /\ o \in Int
    BY <1>2, <1>4 DEF ConnsAreOf
  <2>2. CASE conns' = Closed({o})
    <3>1. {o} \in SUBSET Int /\ \A c2 \in {o} : Of(c2, x)
      BY <2>1
    <3> QED BY <2>2, <3>1 DEF ConnsStep
  <2>3. CASE conns' = conns
    BY <2>1, <2>3 DEF ConnsStep
  <2> QED BY <1>6, <2>1, <2>2, <2>3
<1>8. /\ \A d \in 1..Len(conns) :
           /\ conns'[d].env = conns[d].env /\ conns'[d].tools = conns[d].tools
           /\ d # o => conns'[d].open = conns[d].open
      /\ o # NoConn => ~conns'[o].open
  <2>1. o # NoConn => o \in 1..Len(conns)
    BY <1>2, <1>7 DEF Of, TypeInv
  <2> QED BY <1>2, <1>6, <2>1, ClosedIs
\* What is said of the tools and the environment is of a connection that stays.
<1>9. ASSUME Under(w, x)
      PROVE  /\ TrackOk(x)' /\ ToolsOk(x)' /\ EnvOk(x)' /\ ServerOk(x)'
             /\ x \in skills' <=> reg'[x].kind = "exec"
  <2>1. TrackOk(x) /\ tracked[x] = c /\ o \in {NoConn} \cup (Nat \ {c}) /\ ToolsOk(x) /\ SkillIs(w, x)
    BY <1>1, <1>4, <1>9 DEF Under, ToolsAre
  <2>2. EnvOk(x)
    BY <1>1, <1>9 DEF Under, EnvIs, Stale
  <2>3. c # NoConn => c \in 1..Len(conns) /\ c # o
    BY <1>2, <2>1 DEF ConnsAreOf, Of, TypeInv
  <2>4. Offers(c)' = Offers(c) /\ Open(c)' = Open(c) /\ (c # NoConn => conns'[c].env = conns[c].env)
    BY <1>8, <2>3 DEF Offers, Open
  <2>5. TrackOk(x)'
    BY <1>1, <1>6, <2>1, <2>4 DEF TrackOk
  <2>6. ToolsOk(x)'
    BY <1>6, <2>1, <2>4 DEF ToolsOk, Served, Offers
  <2>7. EnvOk(x)'
    BY <1>1, <1>6, <2>1, <2>2, <2>4 DEF EnvOk, Asked, Want
  <2>8. ServerOk(x)'
    BY <1>2, <1>3, <1>6 DEF OneHolder, ServerOk, HasServer
  <2> QED BY <1>1, <2>1, <2>5, <2>6, <2>7, <2>8 DEF SkillIs
<1>10. ASSUME NEW r \in OpRecords, op' = [op EXCEPT ![w] = r], op'[w] = r,
              \/ r = Off
              \/ /\ r.x = x /\ r.conn = 0 /\ r.old = 0 /\ r.call = "add" /\ r.kind = "none"
                 /\ r.pc = "reload" /\ op[w].call = "add" /\ r # Off
       PROVE  IInv'
  <2>1. r.old = 0 /\ r.conn = 0 /\ r.pc \in {"off", "reload"}
    BY <1>10, OffIs
  <2>2. ClientStep(w, x, r)
    BY <1>1, <1>2, <1>3, <1>6, <1>7, <1>10 DEF ClientStep
  <2>3. Passes(w, x, r)
    BY <1>6, <1>10, <2>1, Constants DEF Passes, HandOf
  <2>4. Reserving(w, x, r)
    BY <1>6, <2>1 DEF Reserving
  <2>5. Replacing(w, x, r)
    BY <1>4, <1>6, <1>8, <2>1, Constants DEF Replacing
  <2>6. r # Off => PlaceOf(w)'
    <3>1. r # Off => AddAt(w)'
      BY <1>10 DEF AddAt
    <3> QED BY <1>1, <1>2, <1>10, <3>1, PlaceGoes DEF EnvCalls
  <2>7. ASSUME Under(w, x)
        PROVE  IF r # Off THEN Under(w, x)' ELSE Calm(x)'
    <3>1. CASE r = Off
      BY <1>9, <2>7, <3>1 DEF Calm
    <3>2. CASE r # Off
      <4>1. KindIs(w, x)' /\ SkillIs(w, x)' /\ EnvIs(w, x)' /\ Plain(w)'
        BY <1>9, <1>10, <2>7, <3>2 DEF KindIs, SkillIs, EnvIs, Dialing, Plain, InHand
      <4> QED BY <1>2, <1>9, <2>7, <3>2, <4>1, PlainNext
    <3> QED BY <3>1, <3>2
  <2> QED BY <1>2, <1>10, <2>2, <2>3, <2>4, <2>5, <2>6, <2>7, ClientKeeps
<1>11. CASE op[w].call = "add"
  <2> DEFINE r == [Off EXCEPT !.pc = "reload", !.call = "add", !.x = x]
  <2>1. op' = [op EXCEPT ![w] = r] /\ op'[w] = r
    BY <1>2, <1>11 DEF CloseReplaced
  <2>2. /\ r \in OpRecords /\ r.pc = "reload" /\ r.x = x /\ r.conn = 0 /\ r.old = 0 /\ r.call = "add"
        /\ r.kind = "none" /\ r # Off
    BY <1>2, OffIs, Constants DEF OpRecords, Places
  <2> HIDE DEF r
  <2> QED BY <1>10, <1>11, <2>1, <2>2
<1>12. CASE op[w].call # "add"
  BY <1>10, <1>12, ReturnIs DEF CloseReplaced
<1> QED BY <1>11, <1>12

-------------------------------------------------------------------------------
(* Processes start and end. *)

\* The file is the registry, but for a process that could not read it and has written
\* nothing since; what it says refers to values that are there.
HasValues == \A x \in Names : Clean(x) /\ disk[x].env => creds[x] # 0
Unread == (\A x \in Names : ~Has(x)) /\ (\A w \in Ops : op[w].call \notin EnvCalls)
DiskInv == disk \in [Names -> Entries] /\ (disk = reg \/ Unread) /\ HasValues

\* No process: nothing is under way and nothing runs.
Down ==
  /\ proc = "down" /\ op = [w \in Ops |-> Off] /\ skills = {}
  /\ conns = <<>> /\ servers = [x \in Names |-> Absent] /\ tracked = [x \in Names |-> NoConn]
  /\ served = [x \in Names |-> [t \in Tools |-> NoConn]]

DownOk ==
  /\ Down /\ mode \in {"api", "cli"} /\ reg \in [Names -> Entries] /\ creds \in [Names -> Nat]
  /\ reload \in BOOLEAN /\ raced \subseteq Names /\ waived \subseteq Names
  /\ budgets \in [calls : Nat, troubles : Nat]
  /\ \A x \in Names : Clean(x) /\ reg[x].env => creds[x] # 0

LEMMA DownHolds == DownOk => IInv
<1> SUFFICES ASSUME Down, mode \in {"api", "cli"}, reg \in [Names -> Entries],
                    creds \in [Names -> Nat], reload \in BOOLEAN, raced \subseteq Names, waived \subseteq Names,
                    budgets \in [calls : Nat, troubles : Nat],
                    \A x \in Names : Clean(x) /\ reg[x].env => creds[x] # 0
             PROVE  IInv
  BY DEF DownOk
<1>1. \A w \in Ops : op[w] = Off /\ ~Active(w)
  BY DEF Down, Active
<1>2. /\ \A x \in Names : servers[x] = Absent /\ tracked[x] = NoConn /\ \A t \in Tools : served[x][t] = NoConn
      /\ conns \in Seq(Connections)
  BY DEF Down
<1>3. TypeInv
  BY OffIs, Constants DEF TypeInv, Down
<1>4. Course /\ OneHolder /\ Alone
  BY <1>1, <1>2 DEF Course, OneHolder, Alone, Down
<1>5. HandsInv
  <2>1. ConnsAreOf
    BY <1>1, <1>2, OffIs, Constants DEF ConnsAreOf, Of
  <2>2. Hands /\ Reservations /\ Succeeded /\ NothingToReplace
    BY <1>1, <1>2, OffIs, Constants DEF Hands, HandOf, Reservations, HasReserved, Succeeded, NothingToReplace
  <2> QED BY <2>1, <2>2 DEF HandsInv
<1>6. Snapshots /\ RefersToValue
  BY <1>1, OffIs DEF Snapshots, SnapshotOf, RefersToValue
<1>7. UpToDate
  BY DEF UpToDate, Serving, Down
<1> QED BY <1>3, <1>4, <1>5, <1>6, <1>7 DEF IInv

LEMMA InitHolds == Init => IInv
<1> SUFFICES ASSUME Init PROVE IInv
  OBVIOUS
<1>1. /\ Down /\ mode \in {"api", "cli"} /\ reload = FALSE
      /\ budgets = [calls |-> 0, troubles |-> 0] /\ raced = {} /\ waived = {} /\ reg = disk
      /\ creds = [x \in Names |-> IF disk[x].env THEN MaxCalls + 1 ELSE 0]
  BY DEF Init, ClientsInit, Down
<1>2. disk \in [Names -> Entries]
  <2>1. ASSUME NEW x \in Names, NEW e \in Left(x)
        PROVE  e \in Entries
    <3>1. CASE x \in DOMAIN Defaults
      <4>1. e = Entry(Defaults[x]) \/ e = None
        BY <2>1, <3>1 DEF Left
      <4>2. Defaults[x] \in AllKinds
        BY <3>1, ExtensionsAssumption DEF ExtensionsAssumption, AllKinds, Mcp
      <4> QED BY <4>1, <4>2, EntriesAre
    <3>2. CASE x \notin DOMAIN Defaults
      <4>1. \A kind \in Kinds : kind \in AllKinds
        BY ExtensionsAssumption DEF ExtensionsAssumption, AllKinds, Mcp
      <4>2. CASE e = None \/ \E kind \in Kinds : e = Entry(kind)
        BY <4>1, <4>2, EntriesAre
      <4>3. CASE e \in [kind : Kinds \cap {"stdio"}, env : {TRUE}]
        BY <4>1, <4>3 DEF Entries
      <4> QED BY <2>1, <3>2, <4>2, <4>3 DEF Left
    <3> QED BY <3>1, <3>2
  <2>2. disk \in [Names -> UNION {Left(x) : x \in Names}] /\ \A x \in Names : disk[x] \in Left(x)
    BY DEF Init
  <2>3. \A x \in Names : disk[x] \in Entries
    BY <2>1, <2>2
  <2> QED BY <2>2, <2>3
<1>3. creds \in [Names -> Nat] /\ \A x \in Names : reg[x].env => creds[x] # 0
  BY <1>1, Constants
<1>4. budgets \in [calls : Nat, troubles : Nat]
  BY <1>1
<1> QED BY <1>1, <1>2, <1>3, <1>4, DownHolds DEF DownOk

LEMMA ProcessEndsKeeps ==
  ASSUME IInv, ProcessEnds, budgets' \in [calls : Nat, troubles : Nat], reload' \in BOOLEAN
  PROVE  IInv'
<1>1. Down' /\ UNCHANGED <<mode, reg, disk, creds, raced, waived>>
  BY DEF ProcessEnds, EndOfProcess, Down, regVars, credVars, noteVars
<1>2. /\ mode' \in {"api", "cli"} /\ reg' \in [Names -> Entries] /\ creds' \in [Names -> Nat]
      /\ raced' \subseteq Names /\ waived' \subseteq Names
      /\ \A x \in Names : Clean(x)' /\ reg'[x].env => creds'[x] # 0
  BY <1>1 DEF IInv, TypeInv, RefersToValue, Clean
<1>3. DownOk'
  BY <1>1, <1>2 DEF DownOk
<1> QED BY <1>3, DownHolds, PTL

LEMMA EndKeeps ==
  ASSUME IInv, Respawn \/ Crash
  PROVE  IInv'
<1>1. ProcessEnds /\ reload' \in BOOLEAN
  BY DEF Respawn, Crash, IInv, TypeInv
<1>2. budgets' \in [calls : Nat, troubles : Nat]
  BY SpendIs DEF Respawn, Crash, Trouble, IInv, TypeInv
<1> QED BY <1>1, <1>2, ProcessEndsKeeps

LEMMA BootKeeps ==
  ASSUME IInv, DiskInv, Boot
  PROVE  IInv'
<1> DEFINE L(w) == [Off EXCEPT !.pc = IF mode = "api" THEN "reserve" ELSE "resolve",
                              !.call = "load", !.x = w, !.kind = reg'[w].kind, !.tries = MaxRetries]
<1>1. /\ proc = "down" /\ proc' = "loading" /\ mode' = mode /\ creds' = creds /\ UNCHANGED <<reload, unasked>>
      /\ raced' = raced /\ waived' = waived /\ UNCHANGED clientVars
      /\ skills' = {x \in Names : reg'[x].kind = "exec"}
      /\ op' = [w \in Ops |-> IF w \in Names /\ reg'[w].kind \in Mcp THEN L(w) ELSE Off]
  BY DEF Boot, Loaders, noteVars, credVars
<1>2. PICK got \in SUBSET {x \in DOMAIN Defaults : mode = "api"}, read \in BOOLEAN :
        /\ reg' = EnsureDefaults(IF read THEN disk ELSE [x \in Names |-> None], got)
        /\ UNCHANGED budgets \/ Trouble
  BY DEF Boot, NoTrouble
<1>3. /\ mode \in {"api", "cli"} /\ TypeInv /\ disk \in [Names -> Entries]
      /\ conns = <<>>
      /\ \A x \in Names : servers[x] = Absent /\ tracked[x] = NoConn /\ \A t \in Tools : served[x][t] = NoConn
  BY <1>1 DEF IInv, TypeInv, OneHolder, DiskInv
<1>4. /\ reg' \in [Names -> Entries] /\ budgets' \in [calls : Nat, troubles : Nat]
      /\ \A x \in Names : reg'[x].env => disk[x].env
  <2> DEFINE r == IF read THEN disk ELSE [x \in Names |-> None]
  <2>1. reg' = [x \in Names |-> IF x \in got /\ r[x] = None THEN Entry(Defaults[x]) ELSE r[x]]
    BY <1>2 DEF EnsureDefaults
  <2>2. \A x \in Names : r[x] \in Entries /\ (r[x].env => disk[x].env)
    BY <1>3, EntriesAre
  <2> HIDE DEF r
  <2>3. ASSUME NEW x \in Names
        PROVE  reg'[x] \in Entries /\ (reg'[x].env => disk[x].env)
    <3>1. CASE x \in got /\ r[x] = None
      <4>1. Defaults[x] \in AllKinds
        BY <3>1, ExtensionsAssumption DEF ExtensionsAssumption, AllKinds, Mcp
      <4>2. reg'[x] = Entry(Defaults[x])
        BY <2>1, <3>1
      <4> QED BY <4>1, <4>2, EntriesAre
    <3>2. CASE ~(x \in got /\ r[x] = None)
      BY <2>1, <2>2, <3>2
    <3> QED BY <3>1, <3>2
  <2>4. budgets' \in [calls : Nat, troubles : Nat]
    BY <1>2, <1>3, SpendIs DEF TypeInv, Trouble
  <2> QED BY <2>1, <2>3, <2>4
\* An operation is off, or the connect of an extension that is a server.
<1>5. ASSUME NEW w \in Ops
      PROVE  \/ op'[w] = Off
             \/ /\ w \in Names /\ reg'[w].kind \in Mcp /\ op'[w] \in OpRecords /\ op'[w] # Off
                /\ op'[w].x = w /\ op'[w].call = "load" /\ op'[w].kind = reg'[w].kind
                /\ op'[w].pc = (IF mode = "api" THEN "reserve" ELSE "resolve")
                /\ op'[w].conn = NoConn /\ op'[w].old = NoConn
  <2>1. CASE w \in Names /\ reg'[w].kind \in Mcp
    <3>1. op'[w] = L(w)
      BY <1>1, <2>1
    <3>2. reg'[w].kind \in AllKinds /\ MaxRetries \in Int /\ Off \in OpRecords
      BY <1>4, <2>1, OffIs, Constants DEF Entries
    <3>3. /\ L(w) \in OpRecords /\ L(w).x = w /\ L(w).call = "load" /\ L(w).kind = reg'[w].kind
          /\ L(w).pc = (IF mode = "api" THEN "reserve" ELSE "resolve")
          /\ L(w).conn = NoConn /\ L(w).old = NoConn /\ L(w) # Off
      BY <2>1, <3>2, OffIs, Constants DEF OpRecords, Places
    <3> HIDE DEF L
    <3> QED BY <2>1, <3>1, <3>3
  <2>2. CASE ~(w \in Names /\ reg'[w].kind \in Mcp)
    BY <1>1, <2>2
  <2> QED BY <2>1, <2>2
<1> HIDE DEF L
<1>6. op' \in [Ops -> OpRecords]
  <2>1. \A w \in Ops : op'[w] \in OpRecords
    BY <1>5, OffIs, Constants
  <2> QED BY <1>1, <2>1
<1>7. TypeInv'
  BY <1>1, <1>3, <1>4, <1>6 DEF TypeInv, clientVars
<1>8. Course'
  <2>1. ASSUME NEW w \in Ops, Active(w)' PROVE PlaceOf(w)'
    <3>1. op'[w] # Off
      BY <2>1 DEF Active
    <3>2. LoadAt(w)'
      BY <1>1, <1>3, <1>5, <3>1 DEF LoadAt, Loaders, Starting, Dialing
    <3>3. op'[w].x \in Names /\ op'[w].call = "load" /\ proc' # "down"
      BY <1>1, <1>5, <3>1
    <3> QED BY <3>2, <3>3 DEF PlaceOf, EnvCalls
  <2> QED BY <2>1 DEF Course
<1>9. /\ conns' = conns /\ servers' = servers /\ tracked' = tracked /\ served' = served
  BY <1>1 DEF clientVars
<1>10. OneHolder'
  BY <1>1, <1>3, <1>9 DEF OneHolder
<1>11. HandsInv'
  <2>1. \A w \in Ops : op'[w].conn = NoConn /\ op'[w].old = NoConn /\ op'[w].pc \in {"off", "reserve", "resolve"}
    BY <1>5, OffIs, Constants
  <2>2. ConnsAreOf'
    BY <1>3, <1>9, <2>1 DEF ConnsAreOf, Of, Absent, NoConn
  <2>3. Hands' /\ Reservations' /\ Succeeded'
    BY <2>1 DEF Hands, HandOf, Reservations, HasReserved, Succeeded
  <2>4. NothingToReplace'
    <3>1. \A w \in Ops : op'[w].pc = "resolve" => op'[w].x \in Names
      BY <1>5, OffIs
    <3> QED BY <1>3, <1>9, <2>1, <3>1 DEF NothingToReplace
  <2> QED BY <2>2, <2>3, <2>4 DEF HandsInv
<1>12. Alone'
  BY <1>5, OffIs DEF Alone, Active, EnvCalls
<1>13. Snapshots'
  BY <1>5, OffIs DEF Snapshots, SnapshotOf
<1>14. RefersToValue'
  <2>1. \A w \in Ops : ValueIs(w, op[w].x)'
    BY <1>5, OffIs DEF ValueIs
  <2>2. \A x \in Names : Clean(x)' /\ reg'[x].env => creds'[x] # 0
    BY <1>1, <1>4 DEF DiskInv, HasValues, Clean
  <2> QED BY <2>1, <2>2 DEF RefersToValue
<1>15. UpToDate'
  <2>1. ASSUME NEW x \in Names
        PROVE  /\ (x \in skills' <=> reg'[x].kind = "exec") /\ ServerOk(x)' /\ TrackOk(x)' /\ ToolsOk(x)'
               /\ EnvOk(x)'
    <3>1. x \in skills' <=> reg'[x].kind = "exec"
      BY <1>1
    <3>2. ServerOk(x)'
      BY <1>3, <1>9 DEF ServerOk, HasServer
    <3>3. TrackOk(x)' /\ ToolsOk(x)' /\ EnvOk(x)'
      BY <1>3, <1>9 DEF TrackOk, ToolsOk, Served, Offers, EnvOk, Asked
    <3> QED BY <3>1, <3>2, <3>3
  <2>2. ASSUME NEW x \in Names, NEW w \in Ops, Active(w)', op'[w].x = x
        PROVE  Under(w, x)'
    <3>1. /\ op'[w].call = "load" /\ op'[w].kind = reg'[x].kind /\ reg'[x].kind \in Mcp
          /\ op'[w].pc \in {"reserve", "resolve"}
      BY <1>5, <2>2 DEF Active
    <3>2. KindIs(w, x)' /\ SkillIs(w, x)'
      BY <2>1, <3>1 DEF KindIs, SkillIs, Mcp
    <3>3. EnvIs(w, x)' /\ Plain(w)'
      BY <2>1, <3>1 DEF EnvIs, Plain, InHand
    <3> QED BY <2>1, <3>2, <3>3, PlainNext
  <2> QED BY <2>1, <2>2 DEF UpToDate, Calm
<1> QED BY <1>7, <1>8, <1>10, <1>11, <1>12, <1>13, <1>14, <1>15 DEF IInv

\* A process that goes on to another stage.
LEMMA StageKeeps ==
  ASSUME IInv, UNCHANGED <<mode, reg, disk, creds, op, reload, unasked, raced, waived>>, skills' = skills,
         budgets' \in [calls : Nat, troubles : Nat], budgets'.calls >= budgets.calls,
         TypeInv', OneHolder', HandsInv', UpToDate',
         proc # "down" /\ proc' \in {"serving", "closing"},
         \A w \in Ops : op[w].call = "load" /\ Active(w) => LoadAt(w)'
  PROVE  IInv'
<1>1. Course'
  <2>1. ASSUME NEW w \in Ops, Active(w) PROVE PlaceOf(w)'
    <3>1. PlaceOf(w) /\ (budgets.calls > 0 => budgets'.calls > 0) /\ (op[w].call = "load" => LoadAt(w)')
      BY <2>1 DEF IInv, Course, TypeInv
    <3> QED BY <3>1 DEF PlaceOf, AddAt, RemoveAt, EnvAt
  <2> QED BY <2>1 DEF Course, Active
<1>2. Alone' /\ Snapshots' /\ RefersToValue'
  BY DEF IInv, Alone, Active, Snapshots, SnapshotOf, RefersToValue, Clean, ValueIs
<1> QED BY <1>1, <1>2 DEF IInv

LEMMA ServeKeeps ==
  ASSUME IInv, Serve
  PROVE  IInv'
<1>1. /\ proc = "loading" /\ proc' = "serving" /\ ~Loading /\ UNCHANGED <<mode, reg, disk, creds, op, reload, unasked, raced, waived>>
      /\ skills' = skills /\ budgets' = budgets /\ UNCHANGED <<conns, servers, tracked, served>>
  BY DEF Serve, clientVars, regVars, credVars, noteVars
<1>2. TypeInv'
  BY <1>1 DEF IInv, TypeInv
<1>3. OneHolder'
  BY <1>1 DEF IInv, OneHolder
<1>4. HandsInv'
  BY <1>1 DEF IInv, HandsInv, ConnsAreOf, Of, Hands, HandOf, Reservations, HasReserved, Succeeded, NothingToReplace
<1>5. UpToDate'
  <2>1. TypeInv /\ ConnsAreOf /\ Serving
    BY <1>1 DEF IInv, HandsInv, Serving
  <2>2. \A y \in Names : SameFor(y)
    BY <1>1, <2>1 DEF SameFor, TypeInv
  <2>3. ASSUME NEW y \in Names, Clean(y)'
        PROVE  /\ (\A w \in Ops : Active(w)' => op'[w].x # y) => Calm(y)'
               /\ \A w \in Ops : Active(w)' /\ op'[w].x = y => Under(w, y)'
    <3>1. Clean(y) /\ op' = op
      BY <1>1, <2>3 DEF Clean
    <3>2. \A w \in Ops : Active(w)' = Active(w)
      BY <3>1 DEF Active
    <3>3. /\ (\A w \in Ops : Active(w) => op[w].x # y) => Calm(y)
          /\ \A w \in Ops : Active(w) /\ op[w].x = y => Under(w, y)
      BY <2>1, <3>1 DEF IInv, UpToDate
    <3>4. Calm(y) => Calm(y)'
      BY <2>1, <2>2, SameKeepsCalm
    <3>5. \A w \in Ops : op[w].x = y /\ Under(w, y) => Under(w, y)'
      BY <2>1, <2>2, <3>1, SameKeepsUnder
    <3> QED BY <3>1, <3>2, <3>3, <3>4, <3>5
  <2> QED BY <2>3 DEF UpToDate
<1>6. ASSUME NEW w \in Ops, op[w].call = "load", Active(w) PROVE LoadAt(w)'
  <2>1. LoadAt(w) /\ op[w].pc # "off"
    BY <1>6, ActiveIs, PlaceIs DEF IInv, Course
  <2>2. op[w].pc = "retry"
    BY <1>1, <2>1 DEF Loading, LoadAt
  <2>3. mode = "cli" /\ op[w].kind = "http"
    BY <2>1, <2>2 DEF LoadAt, Starting, IInv, TypeInv
  <2> QED BY <1>1, <2>1, <2>3 DEF LoadAt
<1>7. budgets' \in [calls : Nat, troubles : Nat] /\ budgets'.calls >= budgets.calls
  BY <1>1 DEF IInv, TypeInv
<1> QED BY <1>1, <1>2, <1>3, <1>4, <1>5, <1>6, <1>7, StageKeeps

LEMMA StopKeeps ==
  ASSUME IInv, Stop
  PROVE  IInv'
<1> DEFINE C == {servers[x] : x \in {y \in Names : HasServer(y)}}
<1>1. /\ proc = "serving" /\ proc' = "closing" /\ mode = "api" /\ Trouble
      /\ UNCHANGED <<mode, reg, disk, creds, op, reload, unasked, raced, waived>>
      /\ skills' = skills /\ UNCHANGED <<tracked, served>>
      /\ conns' = Closed(C) /\ servers' = [x \in Names |-> Absent]
  BY DEF Stop, Shutdown, Close, regVars, credVars, noteVars
<1> HIDE DEF C
<1>2. TypeInv /\ conns \in Seq(Connections) /\ DOMAIN conns = 1..Len(conns) /\ Len(conns) \in Nat
      /\ \A c \in 1..Len(conns) : conns[c] \in Connections
  BY DEF IInv, TypeInv
<1>3. /\ conns' = [c \in 1..Len(conns) |-> IF c \in C THEN [conns[c] EXCEPT !.open = FALSE] ELSE conns[c]]
  BY <1>1, <1>2 DEF Closed
<1>4. \A c \in 1..Len(conns) : /\ conns'[c] \in Connections /\ conns'[c].of = conns[c].of
                               /\ (conns'[c].open => conns[c].open)
  BY <1>2, <1>3 DEF Connections
<1>5. conns' \in Seq(Connections) /\ DOMAIN conns' = 1..Len(conns)
  <2>1. conns' \in [1..Len(conns) -> Connections]
    BY <1>3, <1>4
  <2> QED BY <1>2, <1>3, <2>1
<1>6. budgets' \in [calls : Nat, troubles : Nat] /\ budgets'.calls >= budgets.calls
  BY <1>1, <1>2, SpendIs DEF Trouble, TypeInv
<1>7. TypeInv'
  BY <1>1, <1>2, <1>5, <1>6, Constants DEF TypeInv
<1>8. OneHolder'
  BY <1>1 DEF IInv, OneHolder
<1>9. HandsInv'
  <2>1. ConnsAreOf'
    BY <1>1, <1>2, <1>4, <1>5 DEF IInv, HandsInv, ConnsAreOf, Of, Absent, NoConn
  <2>2. Hands' /\ Reservations' /\ NothingToReplace'
    BY <1>1 DEF IInv, HandsInv, Hands, HandOf, Reservations, NothingToReplace
  <2>3. Succeeded'
    BY <1>1, <1>2, <1>4 DEF IInv, HandsInv, Succeeded, ConnsAreOf, Of
  <2> QED BY <2>1, <2>2, <2>3 DEF HandsInv
<1>10. UpToDate'
  BY <1>1 DEF UpToDate, Serving
<1>11. ASSUME NEW w \in Ops, op[w].call = "load", Active(w) PROVE LoadAt(w)'
  <2>1. LoadAt(w)
    BY <1>11, PlaceIs DEF IInv, Course
  <2> QED BY <1>1, <2>1 DEF LoadAt
<1> QED BY <1>1, <1>6, <1>7, <1>8, <1>9, <1>10, <1>11, StageKeeps

LEMMA CallKeeps ==
  ASSUME IInv, NEW w \in Ops, Call(w)
  PROVE  IInv'
  BY AddExtensionKeeps, OtherCallsKeep DEF Call

LEMMA ApiStepKeeps ==
  ASSUME IInv, NEW w \in Ops, ApiStep(w)
  PROVE  IInv'
  BY AddServerKeeps, StartServerKeeps, ServerStartedKeeps, StartFailedKeeps, StopServerKeeps,
     PersistAnywayKeeps, CallReturnsKeeps DEF ApiStep

LEMMA RegistryStepKeeps ==
  ASSUME IInv, NEW w \in Ops, RegistryStep(w)
  PROVE  IInv'
  BY PersistKeeps, UnpersistKeeps, UpdateEntryKeeps, RegisterKeeps, UnregisterKeeps DEF RegistryStep

LEMMA EnvStepKeeps ==
  ASSUME IInv, NEW w \in Ops, EnvStep(w)
  PROVE  IInv'
  BY CredReadKeeps, CredSetKeeps, CredDeleteKeeps DEF EnvStep

LEMMA ReloaderStepKeeps ==
  ASSUME IInv, NEW w \in Ops, ReloaderStep(w)
  PROVE  IInv'
  BY ResolveKeeps, DialKeeps, OfferKeeps, SwapKeeps, RemoveStaleKeeps, CloseReplacedKeeps,
     DisconnectKeeps, AutoStartKeeps, RequestReloadKeeps, RetryKeeps DEF ReloaderStep

LEMMA StutterKeeps ==
  ASSUME IInv, UNCHANGED vars
  PROVE  IInv'
<1>1. /\ UNCHANGED <<mode, proc, reg, disk, creds, skills, op, reload, unasked, budgets, raced, waived>>
      /\ UNCHANGED <<conns, servers, tracked, served>>
  BY DEF vars, clientVars, regVars, credVars, noteVars
<1>2. TypeInv' /\ Course' /\ OneHolder'
  BY <1>1 DEF IInv, TypeInv, Course, Active, PlaceOf, LoadAt, AddAt, RemoveAt, EnvAt, OneHolder
<1>3. HandsInv'
  BY <1>1 DEF IInv, HandsInv, ConnsAreOf, Of, Hands, HandOf, Reservations, HasReserved, Succeeded, NothingToReplace
<1>4. Alone' /\ Snapshots' /\ RefersToValue'
  BY <1>1 DEF IInv, Alone, Active, Snapshots, SnapshotOf, RefersToValue, Clean, ValueIs
<1>5. UpToDate'
  <2>1. TypeInv /\ ConnsAreOf
    BY DEF IInv, HandsInv
  <2>2. \A y \in Names : SameFor(y)
    BY <1>1, <2>1 DEF SameFor, TypeInv
  <2>3. ASSUME NEW y \in Names, Clean(y)', Serving'
        PROVE  /\ (\A w \in Ops : Active(w)' => op'[w].x # y) => Calm(y)'
               /\ \A w \in Ops : Active(w)' /\ op'[w].x = y => Under(w, y)'
    <3>1. Clean(y) /\ Serving /\ op' = op /\ \A w \in Ops : Active(w)' = Active(w)
      BY <1>1, <2>3 DEF Clean, Serving, Active
    <3>2. /\ (\A w \in Ops : Active(w) => op[w].x # y) => Calm(y)
          /\ \A w \in Ops : Active(w) /\ op[w].x = y => Under(w, y)
      BY <3>1 DEF IInv, UpToDate
    <3>3. Calm(y) => Calm(y)'
      BY <2>1, <2>2, SameKeepsCalm
    <3>4. \A w \in Ops : op[w].x = y /\ Under(w, y) => Under(w, y)'
      BY <2>1, <2>2, <3>1, SameKeepsUnder
    <3> QED BY <3>1, <3>2, <3>3, <3>4
  <2> QED BY <2>3 DEF UpToDate
<1> QED BY <1>2, <1>3, <1>4, <1>5 DEF IInv

LEMMA NextKeeps ==
  ASSUME IInv, DiskInv, [Next]_vars
  PROVE  IInv'
<1>1. CASE Boot \/ Serve \/ Respawn \/ Crash \/ Stop
  BY <1>1, BootKeeps, ServeKeeps, EndKeeps, StopKeeps
<1>2. ASSUME NEW w \in Ops, Call(w) \/ ApiStep(w) \/ RegistryStep(w) \/ EnvStep(w) \/ ReloaderStep(w)
      PROVE  IInv'
  BY <1>2, CallKeeps, ApiStepKeeps, RegistryStepKeeps, EnvStepKeeps, ReloaderStepKeeps
<1>3. CASE UNCHANGED vars
  BY <1>3, StutterKeeps
<1> QED BY <1>1, <1>2, <1>3 DEF Next

\* Where a call is after its old connection was closed.
LEMMA AfterClose ==
  ASSUME op \in [Ops -> OpRecords], NEW w \in Ops, CloseReplaced(w)
  PROVE  /\ op'[w].pc \in {"reload", "off"} /\ op'[w].call \in {"add", "none"} /\ op'[w].old = 0
         /\ \A v \in Ops \ {w} : op'[v] = op[v]
<1> DEFINE r == [Off EXCEPT !.pc = "reload", !.call = "add", !.x = op[w].x]
<1>1. r.pc = "reload" /\ r.call = "add" /\ r.old = 0
  BY DEF Off, NoConn
<1> HIDE DEF r
<1>2. op' = [op EXCEPT ![w] = r] \/ op' = [op EXCEPT ![w] = Off]
  BY DEF CloseReplaced, Return, r
<1> QED BY <1>1, <1>2, OffIs

-------------------------------------------------------------------------------
(* The registry's file. *)

LEMMA DiskWritten ==
  ASSUME IInv', disk' = reg'
  PROVE  DiskInv'
  BY DEF IInv, TypeInv, RefersToValue, DiskInv, HasValues

LEMMA DiskLeft ==
  ASSUME DiskInv, IInv', UNCHANGED regVars, raced \subseteq raced', waived \subseteq waived',
         creds' = creds \/ \E w \in Ops : op[w].call \in EnvCalls,
         \A w \in Ops : op'[w].call \in EnvCalls => op[w].call \in EnvCalls \/ \E x \in Names : Has(x)
  PROVE  DiskInv'
<1>1. CASE disk = reg
  BY <1>1, DiskWritten DEF regVars
<1>2. CASE Unread
  <2>1. Unread' /\ creds' = creds /\ disk' = disk
    BY <1>2 DEF Unread, Has, regVars
  <2> QED BY <2>1 DEF DiskInv, HasValues, Clean
<1> QED BY <1>1, <1>2 DEF DiskInv

\* A step of operation w that leaves the registry alone.
LEMMA DiskOfOther ==
  ASSUME IInv, DiskInv, IInv', NEW w \in Ops, UNCHANGED regVars, UNCHANGED creds \/ op[w].call \in EnvCalls,
         raced \subseteq raced', waived \subseteq waived', \A v \in Ops \ {w} : op'[v] = op[v],
         op'[w].call \in EnvCalls => op[w].call \in EnvCalls \/ \E x \in Names : Has(x)
  PROVE  DiskInv'
<1>1. \A v \in Ops : op'[v].call \in EnvCalls => op[v].call \in EnvCalls \/ \E x \in Names : Has(x)
  OBVIOUS
<1> QED BY <1>1, DiskLeft

LEMMA DiskOfBoot ==
  ASSUME IInv, DiskInv, IInv', Boot
  PROVE  DiskInv'
<1>1. PICK got \in SUBSET {x \in DOMAIN Defaults : mode = "api"}, read \in BOOLEAN : \E r :
        /\ r = IF read THEN disk ELSE [x \in Names |-> None]
        /\ reg' = EnsureDefaults(r, got) /\ disk' = IF reg' = r THEN disk ELSE reg'
  BY DEF Boot
<1>0. PICK r : /\ r = IF read THEN disk ELSE [x \in Names |-> None]
               /\ reg' = EnsureDefaults(r, got) /\ disk' = IF reg' = r THEN disk ELSE reg'
  BY <1>1
<1>2. UNCHANGED <<creds, raced, waived>>
  BY DEF Boot, credVars, noteVars
<1>3. CASE disk' = reg'
  BY <1>3, DiskWritten
<1>4. CASE disk' # reg'
  <2>1. reg' = [x \in Names |-> None] /\ disk' = disk
    BY <1>0, <1>4
  <2>2. \A x \in Names : reg'[x].kind = "none"
    BY <2>1, EntriesAre
  <2>3. \A w \in Ops : op'[w] = Off
    BY <2>2 DEF Boot, Loaders, Mcp
  <2>4. Unread'
    BY <2>1, <2>3, OffIs DEF Unread, Has, EnvCalls
  <2> QED BY <1>2, <2>1, <2>4 DEF DiskInv, HasValues, Clean
<1> QED BY <1>3, <1>4

LEMMA DiskOfRegistryStep ==
  ASSUME IInv, DiskInv, IInv', NEW w \in Ops, RegistryStep(w) \/ PersistAnyway(w)
  PROVE  DiskInv'
<1>1. disk' = reg' \/ UNCHANGED regVars
  <2>2. CASE Persist(w) \/ PersistAnyway(w)
    BY <2>2 DEF Persist, PersistAnyway, Through, Refused, Add, Persists
  <2>3. CASE Unpersist(w)
    BY <2>3 DEF Unpersist, Through, Refused, Remove, Persists
  <2>4. CASE UpdateEntry(w)
    BY <2>4 DEF UpdateEntry, Through, Refused, Update, Persists
  <2>5. CASE Register(w) \/ Unregister(w)
    BY <2>5 DEF Register, Unregister
  <2> QED BY <2>2, <2>3, <2>4, <2>5 DEF RegistryStep
<1>2. UNCHANGED creds /\ raced \subseteq raced' /\ waived \subseteq waived'
  BY DEF RegistryStep, Persist, Unpersist, UpdateEntry, Register, Unregister, PersistAnyway, credVars, noteVars
<1>3. (\A v \in Ops \ {w} : op'[v] = op[v]) /\ op'[w].call \in {op[w].call, "none"}
  <2>1. op \in [Ops -> OpRecords] /\ op[w] \in OpRecords
    BY DEF IInv, TypeInv
  <2>2. (\E p \in Places : Goto(w, p)) \/ Return(w)
    BY DEF RegistryStep, Persist, Unpersist, UpdateEntry, Register, Unregister, PersistAnyway, Places
  <2> QED BY <2>1, <2>2, OffIs DEF Goto, Return, OpRecords
<1>4. op'[w].call \in EnvCalls => op[w].call \in EnvCalls
  BY <1>3 DEF EnvCalls
<1> QED BY <1>1, <1>2, <1>3, <1>4, DiskWritten, DiskOfOther

LEMMA DiskOfOtherStep ==
  ASSUME IInv, DiskInv, IInv', NEW w \in Ops, EnvStep(w) \/ ReloaderStep(w) \/ ApiStep(w), ~PersistAnyway(w)
  PROVE  DiskInv'
<1>1. op \in [Ops -> OpRecords] /\ op[w] \in OpRecords
  BY DEF IInv, TypeInv
<1>2. CASE EnvStep(w)
  <2>1. UNCHANGED <<regVars, raced, waived>> /\ op[w].pc \in {"credRead", "dropRead", "credSet", "credDelete"}
    BY <1>2 DEF EnvStep, CredRead, CredSet, CredDelete, noteVars, At
  <2>2. op[w].call \in EnvCalls
    <3>1. PlaceOf(w)
      BY <2>1, OpRead
    <3> QED BY <2>1, <3>1, PlaceIs DEF LoadAt, AddAt, RemoveAt, Dialing, Starting, Mcp, EnvCalls
  <2>3. \A v \in Ops \ {w} : op'[v] = op[v]
    BY <1>1, <1>2 DEF EnvStep, CredRead, CredSet, CredDelete, Dropped, Goto, Return
  <2> QED BY <2>1, <2>2, <2>3, DiskOfOther
<1>3. CASE ReloaderStep(w)
  <2>1. UNCHANGED <<regVars, creds, raced, waived>>
    BY <1>3 DEF ReloaderStep, Resolve, Dial, Offer, Swap, RemoveStale, CloseReplaced, Disconnect, AutoStart,
         RequestReload, Retry, noteVars, credVars
  <2>2. (\A v \in Ops \ {w} : op'[v] = op[v]) /\ op'[w].call \in {op[w].call, "none", "again", "add"}
    <3>1. CASE Resolve(w) \/ Dial(w) \/ AutoStart(w) \/ RequestReload(w) \/ Retry(w)
      BY <1>1, <3>1, OffIs DEF Resolve, EnvChange, ResolveEnv, Dial, AutoStart, RequestReload, Retry, Finish,
           NotConnected, Goto, Return, OpRecords
    <3>2. CASE Offer(w) \/ Swap(w) \/ RemoveStale(w) \/ CloseReplaced(w) \/ Disconnect(w)
      <4>1. CASE Offer(w) \/ Swap(w) \/ RemoveStale(w) \/ Disconnect(w)
        BY <1>1, <4>1 DEF Offer, Swap, RemoveStale, Disconnect, Goto, OpRecords
      <4>2. CASE CloseReplaced(w)
        BY <1>1, <4>2, AfterClose
      <4> QED BY <3>2, <4>1, <4>2
    <3> QED BY <1>3, <3>1, <3>2 DEF ReloaderStep
  <2> QED BY <2>1, <2>2, DiskOfOther DEF EnvCalls
<1>4. CASE ApiStep(w)
  <2>1. UNCHANGED <<regVars, creds, raced, waived>>
    BY <1>4 DEF ApiStep, AddServer, StartServer, ServerStarted, StartFailed, StopServer, CallReturns,
         noteVars, credVars
  <2>2. (\A v \in Ops \ {w} : op'[v] = op[v]) /\ op'[w].call \in {op[w].call, "none"}
    BY <1>1, <1>4, OffIs DEF ApiStep, AddServer, StartServer, ServerStarted, StartFailed, StopServer, CallReturns,
         Unconnected, Finish, Goto, Return, OpRecords
  <2> QED BY <2>1, <2>2, DiskOfOther DEF EnvCalls
<1> QED BY <1>2, <1>3, <1>4

LEMMA DiskKeeps ==
  ASSUME IInv, DiskInv, IInv', [Next]_vars
  PROVE  DiskInv'
<1>1. CASE Boot
  BY <1>1, DiskOfBoot
<1>2. CASE Serve \/ Respawn \/ Crash \/ Stop \/ UNCHANGED vars
  <2>1. UNCHANGED <<regVars, creds, raced, waived>> /\ (op' = op \/ op' = [w \in Ops |-> Off])
    BY <1>2 DEF Serve, Respawn, Crash, Stop, ProcessEnds, vars, regVars, credVars, noteVars
  <2>2. \A w \in Ops : op'[w].call \in EnvCalls => op[w].call \in EnvCalls
    BY <2>1, OffIs DEF EnvCalls
  <2> QED BY <2>1, <2>2, DiskLeft
<1>3. ASSUME NEW w \in Ops, Call(w)
      PROVE  DiskInv'
  <2>1. UNCHANGED <<regVars, creds>> /\ raced \subseteq raced' /\ waived \subseteq waived'
    BY <1>3 DEF Call, AddExtension, RemoveExtension, SetExtensionEnv, UnsetExtensionEnv, Begin, credVars
  <2>2. op \in [Ops -> OpRecords]
    BY DEF IInv, TypeInv
  <2>3. \A v \in Ops \ {w} : op'[v] = op[v]
    BY <1>3, <2>2 DEF Call, AddExtension, RemoveExtension, SetExtensionEnv, UnsetExtensionEnv, Begin
  <2>4. ASSUME ~\E x \in Names : Has(x)
        PROVE  op'[w].call \notin EnvCalls
    <3>1. PICK x \in Names, kind \in Kinds : AddExtension(w, x, kind)
      BY <1>3, <2>4 DEF Call, RemoveExtension, SetExtensionEnv, UnsetExtensionEnv
    <3>2. op'[w].call = "add"
      BY <2>2, <3>1 DEF AddExtension, Begin, Off
    <3> QED BY <3>2 DEF EnvCalls
  <2> QED BY <2>1, <2>3, <2>4, DiskOfOther
<1>4. ASSUME NEW w \in Ops, ApiStep(w) \/ RegistryStep(w) \/ EnvStep(w) \/ ReloaderStep(w)
      PROVE  DiskInv'
  BY <1>4, DiskOfRegistryStep, DiskOfOtherStep
<1> QED BY <1>1, <1>2, <1>3, <1>4 DEF Next

-------------------------------------------------------------------------------
(* What is held runs. *)

\* A connection that only the end of a call may close runs, or that call has ended.
Sound(c) == Open(c) \/ (c # NoConn /\ conns[c].by # Free)
Handed(w) == op[w].pc \in {"store", "offer", "swap"}

ServersLive == \A x \in Names : HasServer(x) => Sound(servers[x])
TrackedLive == \A x \in Names : tracked[x] # NoConn => Open(tracked[x])
HandedLive == \A w \in Ops : Handed(w) => Sound(op[w].conn) /\ (op[w].pc # "store" => Open(op[w].conn))
\* A connection that is to be put somewhere is one call's only.
HandedApart ==
  \A w \in Ops : Handed(w) =>
    /\ \A x \in Names : op[w].conn \notin {servers[x], tracked[x]}
    /\ \A v \in Ops : op[v].old # op[w].conn
    /\ \A v \in Ops \ {w} : Handed(v) => op[v].conn # op[w].conn
OldApart == \A w \in Ops, x \in Names : op[w].old # NoConn => op[w].old # tracked[x]
Live == ServersLive /\ TrackedLive /\ HandedLive /\ HandedApart /\ OldApart

LEMMA ConnFacts ==
  ASSUME IInv
  PROVE  /\ conns \in Seq(Connections) /\ Len(conns) \in Nat /\ DOMAIN conns = 1..Len(conns)
         /\ \A c \in 1..Len(conns) : conns[c] \in Connections
         /\ servers \in [Names -> Int] /\ tracked \in [Names -> Nat]
         /\ \A x \in Names : /\ tracked[x] = 0 \/ (tracked[x] \in 1..Len(conns) /\ conns[tracked[x]].of = x)
                             /\ servers[x] \in {0, -1} \/ (servers[x] \in 1..Len(conns) /\ conns[servers[x]].of = x)
         /\ op \in [Ops -> OpRecords]
         /\ \A w \in Ops :
              /\ op[w].conn = 0 \/ (op[w].conn \in 1..Len(conns) /\ conns[op[w].conn].of = op[w].x)
              /\ op[w].old = 0 \/ (op[w].old \in 1..Len(conns) /\ conns[op[w].old].of = op[w].x)
              /\ Handed(w) => op[w].conn \in 1..Len(conns) /\ op[w].old = 0 /\ op[w].x \in Names
              /\ op[w].pc \notin InHand => op[w].conn = 0 /\ op[w].old = 0
<1>1. TypeInv /\ ConnsAreOf /\ Hands
  BY DEF IInv, HandsInv
<1>2. \A w \in Ops : op[w].pc # "off" => op[w].x \in Names
  BY OpRead
<1>3. Len(conns) \in Nat /\ DOMAIN conns = 1..Len(conns) /\ \A c \in 1..Len(conns) : conns[c] \in Connections
  BY <1>1 DEF TypeInv
<1>4. \A w \in Ops : /\ Handed(w) => op[w].conn # 0 /\ op[w].old = 0 /\ op[w].x \in Names
                     /\ op[w].pc \notin InHand => op[w].conn = 0 /\ op[w].old = 0
  BY <1>1, <1>2, Constants DEF Hands, HandOf, Handed, InHand
<1> QED BY <1>1, <1>3, <1>4, Constants DEF TypeInv, ConnsAreOf, Of

\* The connections and who tracks them stay; at most a reservation comes or goes.
LEMMA LiveQuiet ==
  ASSUME IInv, Live, UNCHANGED <<conns, tracked>>,
         \A x \in Names : servers'[x] = servers[x] \/ servers'[x] \in {0, -1},
         \A w \in Ops : Handed(w)' => /\ Handed(w) /\ op'[w].conn = op[w].conn
                                      /\ op'[w].pc # "store" => op[w].pc # "store",
         \A w \in Ops : op'[w].old \in {op[w].old, 0}
  PROVE  Live'
<1>1. \A c : Open(c)' = Open(c) /\ Sound(c)' = Sound(c)
  BY DEF Open, Sound
<1>2. ServersLive' /\ TrackedLive'
  BY <1>1, Constants DEF Live, ServersLive, TrackedLive, HasServer
<1>3. HandedLive'
  BY <1>1 DEF Live, HandedLive
<1>4. HandedApart'
  <2> SUFFICES ASSUME NEW w \in Ops, Handed(w)'
               PROVE  /\ \A x \in Names : op'[w].conn \notin {servers'[x], tracked'[x]}
                      /\ \A v \in Ops : op'[v].old # op'[w].conn
                      /\ \A v \in Ops \ {w} : Handed(v)' => op'[v].conn # op'[w].conn
    BY DEF HandedApart
  <2>1. Handed(w) /\ op'[w].conn = op[w].conn /\ op[w].conn \in 1..Len(conns) /\ Len(conns) \in Nat
    BY ConnFacts
  <2> QED BY <2>1 DEF Live, HandedApart
<1>5. OldApart'
  BY Constants DEF Live, OldApart
<1> QED BY <1>2, <1>3, <1>4, <1>5 DEF Live

\* A step of an operation that has no connection in hand, before or after.
LEMMA LivePlain ==
  ASSUME IInv, IInv', Live, NEW w \in Ops, UNCHANGED <<conns, tracked>>,
         \A x \in Names : servers'[x] = servers[x] \/ servers'[x] \in {0, -1},
         \A v \in Ops \ {w} : op'[v] = op[v], op'[w].pc \notin InHand
  PROVE  Live'
<1>1. op'[w].old = 0 /\ ~Handed(w)'
  <2>1. op'[w].old # NoConn => op'[w].pc \in {"removeStale", "removeTools", "closeOld"}
    BY DEF IInv, HandsInv, Hands, HandOf
  <2> QED BY <2>1, Constants DEF Handed, InHand
<1>2. \A v \in Ops : Handed(v)' => /\ Handed(v) /\ op'[v].conn = op[v].conn
                                   /\ op'[v].pc # "store" => op[v].pc # "store"
  BY <1>1 DEF Handed
<1>3. \A v \in Ops : op'[v].old \in {op[v].old, 0}
  BY <1>1
<1> QED BY <1>2, <1>3, LiveQuiet

LEMMA LiveOfQuietSteps ==
  ASSUME IInv, IInv', Live, NEW w \in Ops,
         \/ Call(w) \/ RegistryStep(w) \/ EnvStep(w) \/ PersistAnyway(w)
         \/ Resolve(w) \/ AutoStart(w) \/ RequestReload(w) \/ Retry(w)
  PROVE  Live'
<1>1. op \in [Ops -> OpRecords]
  BY DEF IInv, TypeInv
<1>2. CASE Call(w)
  <2>1. UNCHANGED clientVars /\ (\A v \in Ops \ {w} : op'[v] = op[v]) /\ op'[w].pc \notin InHand
    <3>1. PICK call, x, kind, pc : Begin(w, call, x, kind, pc) /\ pc \notin InHand
      BY <1>2 DEF Call, AddExtension, RemoveExtension, SetExtensionEnv, UnsetExtensionEnv, InHand
    <3>2. op'[w] = [Off EXCEPT !.pc = pc, !.call = call, !.x = x, !.kind = kind]
      BY <1>1, <3>1 DEF Begin
    <3> QED BY <1>1, <3>1, <3>2 DEF Begin, Off
  <2> QED BY <2>1, LivePlain DEF clientVars
<1>3. CASE RegistryStep(w) \/ PersistAnyway(w)
  <2>1. UNCHANGED clientVars /\ ((\E p \in Places \ InHand : Goto(w, p)) \/ Return(w))
    BY <1>3 DEF RegistryStep, Persist, Unpersist, UpdateEntry, Register, Unregister, PersistAnyway, Places, InHand
  <2>2. (\A v \in Ops \ {w} : op'[v] = op[v]) /\ op'[w].pc \notin InHand
    BY <1>1, <2>1, OffIs DEF Goto, Return, OpRecords, InHand
  <2> QED BY <2>1, <2>2, LivePlain DEF clientVars
<1>4. CASE EnvStep(w)
  <2>1. UNCHANGED clientVars /\ (\A v \in Ops \ {w} : op'[v] = op[v]) /\ op'[w].pc \notin InHand
    BY <1>1, <1>4, OffIs DEF EnvStep, CredRead, CredSet, CredDelete, Dropped, InHand, Goto, Return, OpRecords
  <2> QED BY <2>1, LivePlain DEF clientVars
<1>5. CASE Resolve(w)
  <2>1. UNCHANGED clientVars /\ (\A v \in Ops \ {w} : op'[v] = op[v]) /\ op'[w].pc \notin InHand
    BY <1>1, <1>5, OffIs DEF Resolve, EnvChange, ResolveEnv, NotConnected, InHand, Goto, Return, OpRecords
  <2> QED BY <2>1, LivePlain DEF clientVars
<1>6. CASE AutoStart(w) \/ RequestReload(w) \/ Retry(w)
  <2>1. UNCHANGED clientVars /\ (\A v \in Ops \ {w} : op'[v] = op[v]) /\ op'[w].pc \notin InHand
    BY <1>1, <1>6, OffIs DEF AutoStart, RequestReload, Retry, Finish, InHand, Goto, Return, OpRecords
  <2> QED BY <2>1, LivePlain DEF clientVars
<1> QED BY <1>2, <1>3, <1>4, <1>5, <1>6

\* Connections are closed, none of those that are tracked or to be put somewhere.
LEMMA LiveCloses ==
  ASSUME IInv, Live, NEW C \in SUBSET Int, conns' = Closed(C), tracked' = tracked,
         \A x \in Names : /\ servers'[x] = servers[x] \/ servers'[x] \in {0, -1}
                          /\ HasServer(x)' => servers[x] \notin C \/ conns[servers[x]].by # Free,
         \A x \in Names : tracked[x] \notin C,
         \A w \in Ops : Handed(w) => op[w].conn \notin C \/ (op[w].pc = "store" /\ conns[op[w].conn].by # Free),
         \A w \in Ops : Handed(w)' => op'[w] = op[w],
         \A w \in Ops : op'[w].old \in {op[w].old, 0}
  PROVE  Live'
<1>1. /\ Len(conns) \in Nat /\ DOMAIN conns = 1..Len(conns)
      /\ \A c \in 1..Len(conns) : conns'[c].by = conns[c].by /\ (c \notin C => conns'[c].open = conns[c].open)
  <2>1. \A c \in 1..Len(conns) : conns[c] \in Connections
    BY ConnFacts
  <2> QED BY <2>1, ConnFacts DEF Closed, Connections
<1>2. \A c \in 1..Len(conns) : /\ Sound(c) /\ (c \notin C \/ conns[c].by # Free) => Sound(c)'
                               /\ Open(c) /\ c \notin C => Open(c)'
  BY <1>1 DEF Sound, Open
<1>3. ServersLive'
  <2> SUFFICES ASSUME NEW x \in Names, HasServer(x)' PROVE Sound(servers[x])' /\ servers'[x] = servers[x]
    BY DEF ServersLive, Sound, Open
  <2>1. servers'[x] = servers[x] /\ HasServer(x)
    BY Constants DEF HasServer
  <2>2. servers[x] \in 1..Len(conns) /\ Sound(servers[x])
    BY <2>1, ConnFacts, Constants DEF HasServer, Live, ServersLive
  <2> QED BY <1>2, <2>1, <2>2
<1>4. TrackedLive'
  <2> SUFFICES ASSUME NEW x \in Names, tracked[x] # NoConn PROVE Open(tracked[x])'
    BY DEF TrackedLive, Open
  <2>1. tracked[x] \in 1..Len(conns) /\ Open(tracked[x])
    BY ConnFacts, Constants DEF Live, TrackedLive
  <2> QED BY <1>2, <2>1
<1>5. HandedLive'
  <2> SUFFICES ASSUME NEW w \in Ops, Handed(w)'
               PROVE  Sound(op[w].conn)' /\ (op[w].pc # "store" => Open(op[w].conn)') /\ op'[w] = op[w]
    BY DEF HandedLive, Sound, Open
  <2>1. op'[w] = op[w] /\ Handed(w)
    BY DEF Handed
  <2>2. op[w].conn \in 1..Len(conns) /\ Sound(op[w].conn) /\ (op[w].pc # "store" => Open(op[w].conn))
    BY <2>1, ConnFacts DEF Live, HandedLive
  <2> QED BY <1>2, <2>1, <2>2
<1>6. HandedApart'
  <2> SUFFICES ASSUME NEW w \in Ops, Handed(w)'
               PROVE  /\ \A x \in Names : op'[w].conn \notin {servers'[x], tracked'[x]}
                      /\ \A v \in Ops : op'[v].old # op'[w].conn
                      /\ \A v \in Ops \ {w} : Handed(v)' => op'[v].conn # op'[w].conn
    BY DEF HandedApart
  <2>1. op'[w] = op[w] /\ Handed(w) /\ op[w].conn \in 1..Len(conns)
    BY ConnFacts DEF Handed
  <2>2. \A v \in Ops : Handed(v)' => Handed(v) /\ op'[v] = op[v]
    BY DEF Handed
  <2> QED BY <1>1, <2>1, <2>2 DEF Live, HandedApart
<1>7. OldApart'
  BY Constants DEF Live, OldApart
<1> QED BY <1>3, <1>4, <1>5, <1>6, <1>7 DEF Live

\* A connection is made, and operation w has it in hand.
LEMMA LiveConnects ==
  ASSUME IInv, Live, NEW w \in Ops, NEW x \in Names, NEW env, NEW T, NEW by, Connects(x, env, T, by),
         UNCHANGED <<servers, tracked>>, \A v \in Ops \ {w} : op'[v] = op[v],
         op'[w].conn = Len(conns) + 1, op'[w].old = 0
  PROVE  Live'
<1> DEFINE new == [of |-> x, env |-> env, tools |-> T, by |-> by, open |-> TRUE]
<1>0. PICK n : n = Len(conns) + 1
  OBVIOUS
<1>1. conns' = Append(conns, new) /\ new.open
  BY DEF Connects
<1> HIDE DEF new
<1>2. conns \in Seq(Connections \cup {new}) /\ new \in Connections \cup {new} /\ Len(conns) \in Nat
  BY ConnFacts
<1>3. conns'[n] = new /\ \A c \in 1..Len(conns) : conns'[c] = conns[c]
  BY <1>0, <1>1, <1>2
<1>4. Open(n)' /\ Sound(n)'
  BY <1>0, <1>1, <1>2, <1>3, Constants DEF Open, Sound
<1>5. \A c \in 1..Len(conns) : (Open(c) => Open(c)') /\ (Sound(c) => Sound(c)')
  BY <1>3 DEF Open, Sound
<1>6. n \in Nat /\ n # 0 /\ n # -1 /\ n \notin 1..Len(conns)
  BY <1>0, <1>2
<1>7. op'[w].conn = n
  BY <1>0
<1>8. ServersLive' /\ TrackedLive'
  <2>1. ASSUME NEW y \in Names, HasServer(y) PROVE servers[y] \in 1..Len(conns) /\ Sound(servers[y])
    BY <2>1, ConnFacts, Constants DEF HasServer, Live, ServersLive
  <2>2. ASSUME NEW y \in Names, tracked[y] # NoConn PROVE tracked[y] \in 1..Len(conns) /\ Open(tracked[y])
    BY <2>2, ConnFacts, Constants DEF Live, TrackedLive
  <2>3. ServersLive'
    BY <1>5, <2>1 DEF ServersLive, HasServer, Sound, Open
  <2>4. TrackedLive'
    BY <1>5, <2>2 DEF TrackedLive, Open
  <2> QED BY <2>3, <2>4
<1>9. HandedLive'
  <2>1. ASSUME NEW v \in Ops, Handed(v)', v # w
        PROVE  Sound(op[v].conn)' /\ (op'[v].pc # "store" => Open(op[v].conn)')
    <3>1. op'[v] = op[v] /\ Handed(v) /\ op[v].conn \in 1..Len(conns)
      BY <2>1, ConnFacts DEF Handed
    <3> QED BY <1>5, <3>1 DEF Live, HandedLive
  <2>2. Sound(op[w].conn)' /\ Open(op[w].conn)'
    BY <1>4, <1>7 DEF Sound, Open
  <2> QED BY <2>1, <2>2 DEF HandedLive, Sound, Open
<1>10. HandedApart'
  <2>1. /\ \A y \in Names : n \notin {servers[y], tracked[y]}
        /\ \A v \in Ops : n \notin {op[v].old, op[v].conn}
    BY <1>6, ConnFacts
  <2>2. ASSUME NEW v \in Ops, Handed(v)', v # w
        PROVE  Handed(v) /\ op'[v] = op[v] /\ op[v].conn \in 1..Len(conns) /\ op[v].conn # 0
    BY <1>2, <2>2, ConnFacts DEF Handed
  <2>3. \A v \in Ops : op'[v].old \in {op[v].old, 0}
    OBVIOUS
  <2>4. ASSUME NEW v \in Ops, Handed(v)'
        PROVE  /\ \A y \in Names : op'[v].conn \notin {servers'[y], tracked'[y]}
               /\ \A u \in Ops : op'[u].old # op'[v].conn
               /\ \A u \in Ops \ {v} : Handed(u)' => op'[u].conn # op'[v].conn
    <3>1. CASE v = w
      BY <1>6, <1>7, <2>1, <2>3, <3>1
    <3>2. CASE v # w
      BY <1>7, <2>1, <2>2, <2>3, <2>4, <3>2 DEF Live, HandedApart
    <3> QED BY <3>1, <3>2
  <2> QED BY <2>4 DEF HandedApart
<1>11. OldApart'
  BY Constants DEF Live, OldApart
<1> QED BY <1>8, <1>9, <1>10, <1>11 DEF Live

LEMMA LiveOfApi ==
  ASSUME IInv, IInv', Live, NEW w \in Ops, ApiStep(w), ~PersistAnyway(w)
  PROVE  Live'
<1> DEFINE x == op[w].x
<1>1. op[w].pc \in Starting \cup {"removeServer", "return"} /\ op[w].pc # "off"
  BY DEF ApiStep, AddServer, StartServer, ServerStarted, StartFailed, StopServer, CallReturns, At, Starting
<1>2. /\ x \in Names /\ op \in [Ops -> OpRecords] /\ op[w] \in OpRecords /\ op[w].old = 0
      /\ servers \in [Names -> Int]
      /\ Len(conns) \in Nat /\ DOMAIN conns = 1..Len(conns)
  <2>1. op[w].old = 0
    BY <1>1, ConnFacts DEF Starting, InHand, Handed
  <2> QED BY <1>1, <2>1, OpRead, ConnFacts
<1>3. mode = "api" /\ (\A y \in Names : tracked[y] = NoConn)
      /\ \A v \in Ops : Handed(v) => op[v].pc = "store"
  <2>1. mode = "api"
    <3>1. CASE op[w].pc \in Starting \cup {"removeServer"}
      BY <3>1, ApiIs
    <3>2. CASE op[w].pc = "return"
      <4>1. PlaceOf(w)
        BY <1>1, OpRead
      <4> QED BY <3>2, <4>1, PlaceIs DEF LoadAt, AddAt, RemoveAt, EnvAt, Starting, Dialing, Mcp, EnvCalls
    <3> QED BY <1>1, <3>1, <3>2
  <2>2. \A v \in Ops : op[v].pc \in {"offer", "swap"} => mode = "cli"
    BY CliIs DEF Replaces
  <2> QED BY <2>1, <2>2 DEF IInv, OneHolder, Handed
<1>4. \A v \in Ops \ {w} : op'[v] = op[v]
  BY <1>2 DEF ApiStep, AddServer, StartServer, ServerStarted, StartFailed, StopServer, CallReturns, Unconnected,
       Finish, Goto, Return
<1>5. CASE AddServer(w) \/ StartFailed(w)
  <2>1. UNCHANGED <<conns, tracked>> /\ \A y \in Names : servers'[y] = servers[y] \/ servers'[y] \in {0, -1}
    BY <1>2, <1>5, Constants DEF AddServer, StartFailed, Reserve, Unreserve, clientVars
  <2>2. op'[w].pc \notin InHand
    BY <1>2, <1>5, OffIs DEF AddServer, StartFailed, Unconnected, Goto, Return, InHand, OpRecords
  <2> QED BY <1>4, <2>1, <2>2, LivePlain
<1>6. CASE StartServer(w)
  <2>1. CASE Goto(w, "unreserve") /\ UNCHANGED clientVars
    <3>1. op'[w].pc \notin InHand
      BY <1>2, <2>1 DEF Goto, InHand, OpRecords
    <3> QED BY <1>4, <2>1, <3>1, LivePlain DEF clientVars
  <2>2. ASSUME NEW by, Connects(x, 0, {}, by), UNCHANGED <<servers, tracked>>,
               op' = [op EXCEPT ![w].pc = "store", ![w].conn = Len(conns) + 1]
        PROVE  Live'
    <3>1. op'[w].conn = Len(conns) + 1 /\ op'[w].old = 0
      BY <1>2, <2>2 DEF OpRecords
    <3> QED BY <1>2, <1>4, <2>2, <3>1, LiveConnects
  <2> QED BY <1>6, <2>1, <2>2 DEF StartServer, Named
\* What was started is put in the place that was reserved for it.
<1>7. CASE ServerStarted(w)
  <2>1. /\ conns' = conns /\ tracked' = tracked /\ Handed(w) /\ op[w].conn \in 1..Len(conns)
        /\ servers' = [servers EXCEPT ![x] = op[w].conn]
    BY <1>7, ConnFacts DEF ServerStarted, StoreServer, Named, At, Handed
  <2>2. op'[w].pc \notin InHand
    BY <1>2, <1>7, OffIs DEF ServerStarted, Return, InHand, OpRecords
  <2>3. op'[w].old = 0 /\ ~Handed(w)'
    BY <1>2, <1>7, <2>2, OffIs DEF ServerStarted, Return, OpRecords, Handed, InHand
  <2>4. \A c : Sound(c)' = Sound(c) /\ Open(c)' = Open(c)
    BY <2>1 DEF Sound, Open
  <2>5. ServersLive' /\ TrackedLive'
    BY <1>2, <1>3, <2>1, <2>4 DEF Live, ServersLive, HandedLive, TrackedLive, HasServer
  <2>6. ASSUME NEW v \in Ops, Handed(v)'
        PROVE  v # w /\ op'[v] = op[v] /\ Handed(v)
    BY <1>4, <2>3, <2>6 DEF Handed
  <2>7. HandedLive'
    BY <2>4, <2>6 DEF Live, HandedLive
  <2>8. HandedApart'
    <3> SUFFICES ASSUME NEW v \in Ops, Handed(v)'
                 PROVE  /\ \A y \in Names : op'[v].conn \notin {servers'[y], tracked'[y]}
                        /\ \A u \in Ops : op'[u].old # op'[v].conn
                        /\ \A u \in Ops \ {v} : Handed(u)' => op'[u].conn # op'[v].conn
      BY DEF HandedApart
    <3>1. v # w /\ op'[v] = op[v] /\ Handed(v) /\ op[v].conn \in 1..Len(conns) /\ op[v].conn # op[w].conn
      BY <2>1, <2>6, ConnFacts DEF Live, HandedApart
    <3> QED BY <1>2, <1>4, <2>1, <2>3, <2>6, <3>1 DEF Live, HandedApart
  <2>9. OldApart'
    BY <1>4, <2>1, <2>3, Constants DEF Live, OldApart
  <2> QED BY <2>5, <2>7, <2>8, <2>9 DEF Live
<1>8. CASE StopServer(w)
  <2>1. op'[w].pc \notin InHand /\ op'[w].old = 0 /\ ~Handed(w)'
    BY <1>2, <1>8, OffIs DEF StopServer, Finish, Goto, Return, InHand, OpRecords, Handed
  <2>2. CASE ~HasServer(x)
    <3>1. UNCHANGED <<conns, servers, tracked>>
      BY <1>8, <2>2 DEF StopServer, RemoveServer, Named
    <3> QED BY <1>4, <2>1, <3>1, LivePlain
  <2>3. CASE HasServer(x)
    <3>1. conns' = Closed({servers[x]}) /\ servers' = [servers EXCEPT ![x] = Absent] /\ tracked' = tracked
      BY <1>8, <2>3 DEF StopServer, RemoveServer, Named, Close
    <3>2. {servers[x]} \in SUBSET Int /\ servers[x] # 0 /\ servers[x] \in 1..Len(conns) /\ conns[servers[x]].of = x
      BY <1>2, <2>3, ConnFacts, Constants DEF HasServer
    <3>3. ASSUME NEW y \in Names
          PROVE  /\ servers'[y] = servers[y] \/ servers'[y] \in {0, -1}
                 /\ HasServer(y)' => servers[y] \notin {servers[x]}
                 /\ tracked[y] \notin {servers[x]}
      <4>1. HasServer(y)' => y # x /\ servers'[y] = servers[y]
        BY <1>2, <3>1 DEF HasServer
      <4>2. HasServer(y)' => servers[y] \in 1..Len(conns) /\ conns[servers[y]].of = y
        BY <4>1, ConnFacts, Constants DEF HasServer
      <4> QED BY <1>2, <1>3, <3>1, <3>2, <4>1, <4>2, Constants
    <3>4. ASSUME NEW v \in Ops
          PROVE  /\ Handed(v) => op[v].conn \notin {servers[x]}
                 /\ Handed(v)' => op'[v] = op[v]
                 /\ op'[v].old \in {op[v].old, 0}
      BY <1>2, <1>4, <2>1 DEF Live, HandedApart, Handed
    <3> QED BY <3>1, <3>2, <3>3, <3>4, LiveCloses
  <2> QED BY <2>2, <2>3
\* A call ends those that it has started, and is known to.
<1>9. CASE CallReturns(w)
  <2> DEFINE C == {c \in DOMAIN conns : conns[c].of = x /\ conns[c].by = w}
  <2>1. conns' = Closed(C) /\ UNCHANGED <<servers, tracked>> /\ op'[w] = Off
    BY <1>2, <1>9 DEF CallReturns, Named, Close, Return
  <2>2. C \in SUBSET Int /\ \A c \in C : conns[c].by # Free
    BY <1>2, ExtensionsAssumption DEF ExtensionsAssumption
  <2>3. \A y \in Names : tracked[y] \notin C
    BY <1>2, <1>3, Constants
  <2> HIDE DEF C
  <2>4. \A y \in Names : HasServer(y)' => servers[y] \notin C \/ conns[servers[y]].by # Free
    BY <2>2
  <2>5. \A v \in Ops : Handed(v) => op[v].conn \notin C \/ (op[v].pc = "store" /\ conns[op[v].conn].by # Free)
    BY <1>3, <2>2
  <2>6. \A v \in Ops : (Handed(v)' => op'[v] = op[v]) /\ op'[v].old \in {op[v].old, 0}
    BY <1>4, <2>1, OffIs DEF Handed
  <2> QED BY <2>1, <2>2, <2>3, <2>4, <2>5, <2>6, LiveCloses
<1> QED BY <1>5, <1>6, <1>7, <1>8, <1>9 DEF ApiStep

LEMMA LiveOfReloader ==
  ASSUME IInv, IInv', Live, NEW w \in Ops,
         Dial(w) \/ Offer(w) \/ Swap(w) \/ RemoveStale(w) \/ Disconnect(w) \/ CloseReplaced(w)
  PROVE  Live'
<1> DEFINE x == op[w].x
<1>1. op[w].pc \in Replaces \cup {"take", "removeTools"} /\ op[w].pc # "off"
  BY DEF Dial, Offer, Swap, RemoveStale, Disconnect, CloseReplaced, At, Replaces
<1>2. /\ x \in Names /\ op \in [Ops -> OpRecords] /\ op[w] \in OpRecords /\ mode = "cli"
      /\ tracked \in [Names -> Nat] /\ \A y \in Names : servers[y] = 0
      /\ Len(conns) \in Nat /\ DOMAIN conns = 1..Len(conns)
  BY <1>1, CliIs, ConnFacts, Constants DEF IInv, OneHolder
<1>3. \A v \in Ops \ {w} : op'[v] = op[v]
  BY <1>2 DEF Dial, NotConnected, Offer, Swap, RemoveStale, Disconnect, CloseReplaced, Goto, Return
<1>4. CASE Dial(w)
  <2>1. op[w].old = 0
    BY <1>2, <1>4, ConnFacts DEF Dial, At, InHand
  <2>2. CASE NotConnected(w) /\ UNCHANGED clientVars
    <3>1. op'[w].pc \notin InHand
      BY <1>2, <2>2, OffIs DEF NotConnected, Goto, Return, InHand, OpRecords
    <3> QED BY <1>3, <2>2, <3>1, LivePlain DEF clientVars
  <2>3. ASSUME NEW T \in SUBSET Tools, Connects(x, op[w].env, T, Free), UNCHANGED <<servers, tracked>>,
               op' = [op EXCEPT ![w].pc = "offer", ![w].conn = Len(conns) + 1, ![w].todo = T]
        PROVE  Live'
    <3>1. op'[w].conn = Len(conns) + 1 /\ op'[w].old = 0
      BY <1>2, <2>1, <2>3 DEF OpRecords
    <3> QED BY <1>2, <1>3, <2>3, <3>1, LiveConnects
  <2> QED BY <1>4, <2>2, <2>3 DEF Dial, Named
<1>5. CASE Offer(w) \/ RemoveStale(w)
  <2>1. UNCHANGED <<conns, servers, tracked>>
    <3>1. CASE Offer(w)
      BY <3>1 DEF Offer, RegisterProxyTool
    <3>2. CASE RemoveStale(w)
      BY <3>2 DEF RemoveStale, RemoveTools
    <3> QED BY <1>5, <3>1, <3>2
  <2>2. /\ op'[w].conn = op[w].conn /\ op'[w].old = op[w].old
        /\ Handed(w)' => Handed(w) /\ op[w].pc # "store"
    <3>1. CASE Offer(w)
      BY <1>2, <3>1 DEF Offer, OpRecords, At, Handed
    <3>2. CASE RemoveStale(w)
      BY <1>2, <3>2 DEF RemoveStale, Goto, OpRecords, Handed
    <3> QED BY <1>5, <3>1, <3>2
  <2>3. \A v \in Ops : Handed(v)' => /\ Handed(v) /\ op'[v].conn = op[v].conn
                                     /\ op'[v].pc # "store" => op[v].pc # "store"
    BY <1>3, <2>2 DEF Handed
  <2>4. \A v \in Ops : op'[v].old \in {op[v].old, 0}
    BY <1>3, <2>2
  <2> QED BY <2>1, <2>3, <2>4, LiveQuiet
\* What was tracked is in hand afterwards, to be closed, and tracked nowhere.
<1>6. CASE Swap(w) \/ Disconnect(w)
  <2> DEFINE c == IF op[w].pc = "swap" THEN op[w].conn ELSE 0
  <2>1. /\ conns' = conns /\ servers' = servers /\ tracked' = [tracked EXCEPT ![x] = c]
        /\ op'[w].old = tracked[x] /\ ~Handed(w)'
    <3>1. CASE Swap(w)
      <4>1. op[w].pc = "swap" /\ Track(x, op[w].conn)
        BY <3>1 DEF Swap, At, Named
      <4>2. op'[w].pc = "removeStale" /\ op'[w].old = tracked[x]
        BY <1>2, <3>1 DEF Swap, Named, OpRecords
      <4> QED BY <4>1, <4>2 DEF Track, Handed
    <3>2. CASE Disconnect(w)
      <4>1. op[w].pc = "take" /\ Track(x, 0)
        BY <3>2, Constants DEF Disconnect, At, Named
      <4>2. op'[w].pc = "removeTools" /\ op'[w].old = tracked[x]
        BY <1>2, <3>2 DEF Disconnect, Named, OpRecords
      <4> QED BY <4>1, <4>2 DEF Track, Handed
    <3> QED BY <1>6, <3>1, <3>2
  <2>2. op[w].pc = "swap" => Handed(w) /\ c = op[w].conn /\ c \in 1..Len(conns) /\ conns[c].of = x
    BY <1>2, ConnFacts DEF Handed
  <2>3. op[w].pc # "swap" => c = 0
    OBVIOUS
  <2>4. c # 0 => /\ Open(c) /\ (\A v \in Ops : op[v].old # c) /\ (\A y \in Names : tracked[y] # c)
                 /\ \A v \in Ops \ {w} : Handed(v) => op[v].conn # c
    BY <2>2, <2>3 DEF Live, HandedLive, HandedApart
  <2> HIDE DEF c
  <2>5. c \in Nat
    BY <1>2, <2>2, <2>3
  <2>6. tracked'[x] = c /\ \A y \in Names \ {x} : tracked'[y] = tracked[y]
    BY <1>2, <2>1
  <2>7. \A d : Sound(d)' = Sound(d) /\ Open(d)' = Open(d)
    BY <2>1 DEF Sound, Open
  <2>8. ServersLive' /\ TrackedLive'
    BY <2>1, <2>4, <2>6, <2>7, Constants DEF Live, ServersLive, TrackedLive, HasServer
  <2>9. ASSUME NEW v \in Ops, Handed(v)'
        PROVE  v # w /\ op'[v] = op[v] /\ Handed(v) /\ op[v].conn \in 1..Len(conns)
    BY <1>3, <2>1, <2>9, ConnFacts DEF Handed
  <2>10. HandedLive'
    BY <2>7, <2>9 DEF Live, HandedLive
  <2>11. HandedApart'
    <3> SUFFICES ASSUME NEW v \in Ops, Handed(v)'
                 PROVE  /\ \A y \in Names : op'[v].conn \notin {servers'[y], tracked'[y]}
                        /\ \A u \in Ops : op'[u].old # op'[v].conn
                        /\ \A u \in Ops \ {v} : Handed(u)' => op'[u].conn # op'[v].conn
      BY DEF HandedApart
    <3>1. v # w /\ op'[v] = op[v] /\ Handed(v) /\ op[v].conn \in 1..Len(conns) /\ op[v].conn # 0
      BY <1>2, <2>9
    <3>2. op[v].conn # c
      BY <2>4, <3>1
    <3>3. \A y \in Names : op[v].conn \notin {servers[y], tracked[y]}
      BY <3>1 DEF Live, HandedApart
    <3>4. \A u \in Ops : op'[u].old # op[v].conn
      BY <1>2, <1>3, <2>1, <3>1, <3>3 DEF Live, HandedApart
    <3> QED BY <2>1, <2>6, <2>9, <3>1, <3>2, <3>3, <3>4 DEF Live, HandedApart
  <2>12. OldApart'
    <3> SUFFICES ASSUME NEW v \in Ops, NEW y \in Names, op'[v].old # 0 PROVE op'[v].old # tracked'[y]
      BY Constants DEF OldApart
    <3>1. CASE v # w
      BY <1>3, <2>4, <2>6, <3>1, Constants DEF Live, OldApart
    <3>2. CASE v = w
      <4>1. tracked[x] # c /\ (y # x /\ tracked[y] # 0 => conns[tracked[y]].of = y) /\ conns[tracked[x]].of = x
        BY <1>2, <2>1, <2>4, <3>2, ConnFacts
      <4> QED BY <1>2, <2>1, <2>6, <3>2, <4>1
    <3> QED BY <3>1, <3>2
  <2> QED BY <2>8, <2>10, <2>11, <2>12 DEF Live
<1>7. CASE CloseReplaced(w)
  <2>1. op'[w].pc \notin InHand /\ op'[w].old = 0 /\ ~Handed(w)'
    BY <1>2, <1>7, AfterClose DEF InHand, Handed
  <2>2. CASE UNCHANGED clientVars
    BY <1>3, <2>1, <2>2, LivePlain DEF clientVars
  <2>3. CASE CloseOld(op[w].old)
    <3>1. conns' = Closed({op[w].old}) /\ UNCHANGED <<servers, tracked>> /\ op[w].old \in Int
      BY <1>2, <2>3 DEF CloseOld, Close, OpRecords
    <3>2. CASE op[w].old = 0
      <4>1. conns' = conns
        <5>1. conns \in Seq(Connections) /\ DOMAIN conns = 1..Len(conns)
          BY ConnFacts
        <5>2. conns' = [c \in DOMAIN conns |-> conns[c]]
          BY <1>2, <3>1, <3>2 DEF Closed
        <5> QED BY <5>1, <5>2
      <4> QED BY <1>3, <2>1, <3>1, <4>1, LivePlain
    <3>3. CASE op[w].old # 0
      <4>1. \A y \in Names : tracked[y] \notin {op[w].old} /\ ~HasServer(y)' /\ servers'[y] = servers[y]
        BY <1>2, <3>1, <3>3, Constants DEF Live, OldApart, HasServer
      <4>2. \A v \in Ops : /\ Handed(v) => op[v].conn \notin {op[w].old}
                           /\ Handed(v)' => op'[v] = op[v]
                           /\ op'[v].old \in {op[v].old, 0}
        BY <1>3, <2>1 DEF Live, HandedApart, Handed
      <4>3. {op[w].old} \in SUBSET Int
        BY <3>1
      <4> QED BY <3>1, <4>1, <4>2, <4>3, LiveCloses
    <3> QED BY <3>2, <3>3
  <2> QED BY <1>7, <2>2, <2>3 DEF CloseReplaced
<1> QED BY <1>4, <1>5, <1>6, <1>7

\* Nothing runs and nothing is in hand.
Empty ==
  /\ \A x \in Names : servers[x] = 0 /\ tracked[x] = 0
  /\ \A w \in Ops : ~Handed(w) /\ op[w].old = 0
LEMMA LiveEmpty == Empty => Live
  BY Constants DEF Empty, Live, ServersLive, TrackedLive, HandedLive, HandedApart, OldApart, HasServer

LEMMA LiveOfStages ==
  ASSUME IInv, IInv', Live, Boot \/ Serve \/ Respawn \/ Crash \/ Stop \/ UNCHANGED vars
  PROVE  Live'
<1>1. CASE Boot
  <2>1. \A x \in Names : servers'[x] = 0 /\ tracked'[x] = 0
    BY <1>1, Constants DEF Boot, clientVars, IInv, OneHolder
  <2>2. \A w \in Ops : ~Handed(w)' /\ op'[w].old = 0
    BY <1>1, OffIs, Constants DEF Boot, Handed, Off
  <2>3. Empty'
    BY <2>1, <2>2 DEF Empty
  <2> QED BY <2>3, LiveEmpty, PTL
<1>2. CASE Respawn \/ Crash
  <2>1. \A x \in Names : servers'[x] = 0 /\ tracked'[x] = 0
    BY <1>2, Constants DEF Respawn, Crash, ProcessEnds, EndOfProcess
  <2>2. \A w \in Ops : ~Handed(w)' /\ op'[w].old = 0
    BY <1>2, OffIs DEF Respawn, Crash, ProcessEnds, Handed
  <2>3. Empty'
    BY <2>1, <2>2 DEF Empty
  <2> QED BY <2>3, LiveEmpty, PTL
<1>3. CASE Serve \/ UNCHANGED vars
  <2>1. UNCHANGED <<conns, tracked, servers, op>>
    BY <1>3 DEF Serve, vars, clientVars
  <2> QED BY <2>1, LiveQuiet DEF Handed
<1>4. CASE Stop
  <2> DEFINE C == {servers[x] : x \in {y \in Names : HasServer(y)}}
  <2>1. /\ conns' = Closed(C) /\ UNCHANGED <<tracked, op>> /\ \A x \in Names : servers'[x] = 0
    BY <1>4, Constants DEF Stop, Shutdown, Close
  <2>2. C \in SUBSET Int
    BY ConnFacts
  <2>3. \A x \in Names : tracked[x] \notin C
    BY <1>4, Constants DEF Stop, IInv, OneHolder, HasServer
  <2>4. \A w \in Ops : Handed(w) => op[w].conn \notin C
    BY DEF Live, HandedApart
  <2> HIDE DEF C
  <2>5. \A x \in Names : ~HasServer(x)'
    BY <2>1, Constants DEF HasServer
  <2> QED BY <2>1, <2>2, <2>3, <2>4, <2>5, LiveCloses
<1> QED BY <1>1, <1>2, <1>3, <1>4

LEMMA LiveKept ==
  ASSUME IInv, IInv', Live, [Next]_vars
  PROVE  Live'
<1>1. CASE Boot \/ Serve \/ Respawn \/ Crash \/ Stop \/ UNCHANGED vars
  BY <1>1, LiveOfStages
<1>2. ASSUME NEW w \in Ops, Call(w) \/ ApiStep(w) \/ RegistryStep(w) \/ EnvStep(w) \/ ReloaderStep(w)
      PROVE  Live'
  BY <1>2, LiveOfQuietSteps, LiveOfApi, LiveOfReloader DEF ReloaderStep
<1> QED BY <1>1, <1>2 DEF Next

\* The inductive invariant: every call is at a place its kind, its process and its code have,
\* a connection is in hand only where it is put somewhere, of a name on which no calls
\* overlapped the registry, the skills, the server and its environment agree as far as the
\* call that works on it has come, and what anybody holds runs, whatever overlapped.
THEOREM Invariance == Spec => [](IInv /\ DiskInv /\ Live)
<1>1. Init => IInv /\ DiskInv /\ Live
  <2>1. ASSUME Init PROVE DiskInv
    <3>1. IInv /\ reg = disk
      BY <2>1, InitHolds DEF Init
    <3> QED BY <3>1 DEF IInv, TypeInv, RefersToValue, DiskInv, HasValues
  <2>2. ASSUME Init PROVE Live
    BY <2>2, LiveEmpty, OffIs, Constants DEF Init, ClientsInit, Handed, Empty
  <2> QED BY <2>1, <2>2, InitHolds
<1>2. IInv /\ DiskInv /\ Live /\ [Next]_vars => (IInv /\ DiskInv /\ Live)'
  BY NextKeeps, DiskKeeps, LiveKept
<1> QED BY <1>1, <1>2, PTL DEF Spec

-------------------------------------------------------------------------------
(* What the names are said to have. *)

\* No call under way for a name: none is named by it.
LEMMA QuietIsCalm ==
  ASSUME IInv, NEW x \in Names \ (raced \cup waived), Quiet(x)
  PROVE  Calm(x)
<1>1. Serving /\ Clean(x) /\ \A w \in Ops : Active(w) => op[w].x # x
  BY DEF Quiet, Serving, Clean
<1> QED BY <1>1 DEF IInv, UpToDate

LEMMA RunsWhatIsRegisteredHolds == IInv /\ Live => RunsWhatIsRegistered
<1> SUFFICES ASSUME IInv, Live PROVE RunsWhatIsRegistered
  OBVIOUS
<1>1. ASSUME NEW x \in Names
      PROVE  /\ HasServer(x) => Open(servers[x]) \/ conns[servers[x]].by # Free
             /\ tracked[x] # NoConn => Open(tracked[x])
  BY DEF Live, ServersLive, TrackedLive, Sound
<1>2. ASSUME NEW x \in Names \ (raced \cup waived), Quiet(x)
      PROVE  /\ x \in skills <=> reg[x].kind = "exec"
             /\ HasServer(x) \/ tracked[x] # NoConn => reg[x].kind \in Mcp
             /\ \A t \in Tools : served[x][t] = IF t \in Offers(tracked[x]) THEN tracked[x] ELSE NoConn
  <2>1. (x \in skills <=> reg[x].kind = "exec") /\ ServerOk(x) /\ TrackOk(x) /\ ToolsOk(x)
    BY <1>2, QuietIsCalm DEF Calm
  <2>2. \A t \in Tools : served[x][t] = IF t \in Offers(tracked[x]) THEN tracked[x] ELSE NoConn
    BY <2>1 DEF ToolsOk, Served, Offers
  <2> QED BY <2>1, <2>2 DEF ServerOk, TrackOk
<1> QED BY <1>1, <1>2 DEF RunsWhatIsRegistered

LEMMA EnvReachesServerHolds == IInv /\ DiskInv => EnvReachesServer
<1> SUFFICES ASSUME IInv, DiskInv, NEW x \in Names \ (raced \cup waived)
             PROVE  /\ disk[x].env => creds[x] # 0
                    /\ mode = "cli" /\ Quiet(x) /\ reg[x].kind = "stdio" /\ tracked[x] # NoConn =>
                         reload \/ x \in unasked \/ conns[tracked[x]].env = (IF reg[x].env THEN creds[x] ELSE 0)
  BY DEF EnvReachesServer
<1>1. disk[x].env => creds[x] # 0
  BY DEF DiskInv, HasValues, Clean
<1>2. Quiet(x) => EnvOk(x)
  BY QuietIsCalm DEF Calm
<1> QED BY <1>1, <1>2 DEF EnvOk, Asked, Want

\* What the Manager or the hot-reloader holds runs, unless it ended with the call that started
\* it, on every name and however the calls overlap; and whenever no call on an extension is
\* under way (AddExtension, RemoveExtension, a connection of the hot-reloader or of the
\* Manager), and none overlapped another on it, what runs is what the registry says.
THEOREM RunsWhatIsRegisteredAlways == Spec => []RunsWhatIsRegistered
  BY Invariance, RunsWhatIsRegisteredHolds, PTL

\* An entry never refers to a value that was not stored, however writes of the registry fail
\* and processes end, so that it is missing only where a write cut the store's file short; and
\* a value that set_extension_env stored is that of the server that runs, or a reload will
\* bring it, unless the flag for it could not be set.
THEOREM EnvReachesServerAlways == Spec => []EnvReachesServer
  BY Invariance, EnvReachesServerHolds, PTL

-------------------------------------------------------------------------------
(* Nobody loses a connection.  This needs what the invariant says of the hands that *)
(* connections pass through, and is a step of its own.                     *)

\* What operation w and its name have after the step.
Has0(c, w, x) == c \in {op[w].conn, op[w].old, tracked[x], servers[x]}

LEMMA StepLosesNone ==
  ASSUME IInv, NoSessionLost, NEW w \in Ops, NEW x \in Names, proc' = proc,
         \A v \in Ops \ {w} : op'[v] = op[v],
         \A y \in Names \ {x} : servers'[y] = servers[y] /\ tracked'[y] = tracked[y],
         proc # "closing" => \A c \in DOMAIN conns' : conns'[c].open =>
           \/ Has0(c, w, x)'
           \/ \E v \in Ops \ {w} : op[v].old = c
           \/ c \in DOMAIN conns /\ conns[c].open /\ ~Has0(c, w, x)
  PROVE  NoSessionLost'
<1> SUFFICES ASSUME proc # "closing", NEW c \in DOMAIN conns', conns'[c].open
             PROVE  \/ \E y \in Names : c \in {tracked'[y], servers'[y]}
                    \/ \E v \in Ops : c \in {op'[v].conn, op'[v].old}
  BY DEF NoSessionLost
<1>1. CASE Has0(c, w, x)'
  BY <1>1 DEF Has0
<1>2. CASE \E v \in Ops \ {w} : op[v].old = c
  BY <1>2
<1>3. CASE c \in DOMAIN conns /\ conns[c].open /\ ~Has0(c, w, x)
  <2>1. \/ \E y \in Names : c \in {tracked[y], servers[y]}
        \/ \E v \in Ops : c \in {op[v].conn, op[v].old}
    BY <1>3 DEF NoSessionLost
  <2>2. ASSUME NEW y \in Names, c \in {tracked[y], servers[y]}
        PROVE  c \in {tracked'[y], servers'[y]}
    BY <1>3, <2>2 DEF Has0
  <2>3. ASSUME NEW v \in Ops, c \in {op[v].conn, op[v].old}
        PROVE  c \in {op'[v].conn, op'[v].old}
    BY <1>3, <2>3 DEF Has0
  <2> QED BY <2>1, <2>2, <2>3
<1> QED BY <1>1, <1>2, <1>3

\* A step without connections, of an operation that has none.
LEMMA QuietLosesNone ==
  ASSUME IInv, NoSessionLost, NEW w \in Ops, op[w].pc \notin InHand, proc' = proc, UNCHANGED clientVars,
         \A v \in Ops \ {w} : op'[v] = op[v]
  PROVE  NoSessionLost'
<1>1. op[w].conn = 0 /\ op[w].old = 0 /\ DOMAIN conns = 1..Len(conns)
  BY OpRead DEF IInv, TypeInv
<1>2. UNCHANGED <<conns, servers, tracked>>
  BY DEF clientVars
<1> SUFFICES ASSUME proc # "closing", NEW c \in DOMAIN conns, conns[c].open
             PROVE  \/ \E y \in Names : c \in {tracked[y], servers[y]}
                    \/ \E v \in Ops : c \in {op'[v].conn, op'[v].old}
  BY <1>2 DEF NoSessionLost
<1>3. c # 0
  BY <1>1
<1>4. ASSUME NEW v \in Ops, c \in {op[v].conn, op[v].old}
      PROVE  c \in {op'[v].conn, op'[v].old}
  BY <1>1, <1>3, <1>4
<1> QED BY <1>4 DEF NoSessionLost

LEMMA QuietSteps ==
  ASSUME IInv, NoSessionLost, NEW w \in Ops,
         \/ Call(w) \/ RegistryStep(w) \/ EnvStep(w) \/ PersistAnyway(w)
         \/ Resolve(w) \/ AutoStart(w) \/ RequestReload(w) \/ Retry(w)
  PROVE  NoSessionLost'
<1>1. op \in [Ops -> OpRecords]
  BY DEF IInv, TypeInv
<1>2. CASE Call(w)
  <2>1. op[w].pc \notin InHand /\ proc' = proc /\ UNCHANGED clientVars /\ \A v \in Ops \ {w} : op'[v] = op[v]
    BY <1>1, <1>2, OffIs DEF Call, AddExtension, RemoveExtension, SetExtensionEnv, UnsetExtensionEnv, Begin, InHand
  <2> QED BY <2>1, QuietLosesNone
<1>3. CASE RegistryStep(w) \/ PersistAnyway(w)
  <2>1. op[w].pc \notin InHand /\ proc' = proc /\ UNCHANGED clientVars
    BY <1>3 DEF RegistryStep, Persist, Unpersist, UpdateEntry, Register, Unregister, PersistAnyway, At, InHand
  <2>2. \A v \in Ops \ {w} : op'[v] = op[v]
    BY <1>1, <1>3 DEF RegistryStep, Persist, Unpersist, UpdateEntry, Register, Unregister, PersistAnyway, Goto, Return
  <2> QED BY <2>1, <2>2, QuietLosesNone
<1>4. CASE EnvStep(w)
  <2>1. op[w].pc \notin InHand /\ proc' = proc /\ UNCHANGED clientVars /\ \A v \in Ops \ {w} : op'[v] = op[v]
    BY <1>1, <1>4 DEF EnvStep, CredRead, CredSet, CredDelete, Dropped, At, InHand, Goto, Return
  <2> QED BY <2>1, QuietLosesNone
<1>5. CASE Resolve(w)
  <2>1. op[w].pc \notin InHand /\ proc' = proc /\ UNCHANGED clientVars
    BY <1>5 DEF Resolve, At, InHand
  <2>2. \A v \in Ops \ {w} : op'[v] = op[v]
    BY <1>1, <1>5 DEF Resolve, EnvChange, ResolveEnv, NotConnected, Goto, Return
  <2> QED BY <2>1, <2>2, QuietLosesNone
<1>6. CASE AutoStart(w) \/ RequestReload(w) \/ Retry(w)
  <2>1. op[w].pc \notin InHand /\ proc' = proc /\ UNCHANGED clientVars /\ \A v \in Ops \ {w} : op'[v] = op[v]
    BY <1>1, <1>6 DEF AutoStart, RequestReload, Finish, Retry, At, InHand, Goto, Return
  <2> QED BY <2>1, QuietLosesNone
<1> QED BY <1>2, <1>3, <1>4, <1>5, <1>6

\* The daemon's steps: the Manager has a connection before the call lets it go.
LEMMA ApiLosesNone ==
  ASSUME IInv, NoSessionLost, NEW w \in Ops, NEW x, op[w].x = x,
         AddServer(w) \/ StartServer(w) \/ ServerStarted(w) \/ StartFailed(w) \/ StopServer(w) \/ CallReturns(w)
  PROVE  NoSessionLost'
<1>1. /\ op[w].pc \in {"reserve", "connect", "store", "unreserve", "removeServer", "return"} /\ proc' = proc
      /\ tracked' = tracked
  BY DEF AddServer, StartServer, ServerStarted, StartFailed, StopServer, CallReturns, At, Reserve, StoreServer,
         Unreserve, RemoveServer, clientVars
<1>2. \A v \in Ops \ {w} : op'[v] = op[v]
  BY DEF IInv, TypeInv, AddServer, StartServer, ServerStarted, StartFailed, StopServer, CallReturns, Unconnected,
         Finish, Goto, Return
<1>3. /\ x \in Names /\ TypeInv /\ op[w] \in OpRecords /\ op \in [Ops -> OpRecords] /\ op[w].old = 0
      /\ op[w].pc # "store" => op[w].conn = 0
      /\ Len(conns) \in Nat /\ DOMAIN conns = 1..Len(conns) /\ servers \in [Names -> Int]
  <2>1. op[w].pc # "off"
    BY <1>1
  <2>2. HandOf(w) /\ TypeInv
    BY DEF IInv, HandsInv, Hands
  <2>3. op[w].old = 0 /\ (op[w].pc # "store" => op[w].conn = 0)
    BY <1>1, <2>2, Constants DEF HandOf
  <2> QED BY <2>1, <2>2, <2>3, OpRead DEF TypeInv
<1>4. \A y \in Names \ {x} : servers'[y] = servers[y] /\ tracked'[y] = tracked[y]
  BY <1>1, <1>3 DEF AddServer, StartServer, ServerStarted, StartFailed, StopServer, CallReturns, Reserve, StoreServer,
       Unreserve, RemoveServer, clientVars, Named
<1>5. ASSUME proc # "closing", NEW c \in DOMAIN conns', conns'[c].open
      PROVE  Has0(c, w, x)' \/ (c \in DOMAIN conns /\ conns[c].open /\ ~Has0(c, w, x))
  <2>1. CASE AddServer(w) \/ StartFailed(w)
    <3>1. conns' = conns /\ (servers'[x] = servers[x] \/ servers[x] \in {Absent, Reserved}) /\ op[w].conn = 0
      BY <1>1, <1>3, <2>1 DEF AddServer, StartFailed, Reserve, Unreserve, clientVars, Named, At
    <3>2. c # 0 /\ c # -1
      BY <1>3, <3>1
    <3> QED BY <1>1, <1>3, <1>5, <3>1, <3>2, Constants DEF Has0
  <2>2. CASE StartServer(w)
    <3>1. op[w].conn = 0 /\ servers' = servers
      BY <1>3, <2>2 DEF StartServer, clientVars, At
    <3>2. CASE conns' = conns
      BY <1>1, <1>3, <1>5, <3>1, <3>2 DEF Has0
    <3>3. ASSUME NEW by, Connects(x, 0, {}, by),
                 op' = [op EXCEPT ![w].pc = "store", ![w].conn = Len(conns) + 1]
          PROVE  Has0(c, w, x)' \/ (c \in DOMAIN conns /\ conns[c].open /\ ~Has0(c, w, x))
      <4>1. op'[w].conn = Len(conns) + 1
        BY <1>3, <3>3 DEF OpRecords
      <4>2. PICK new : conns' = Append(conns, new)
        BY <3>3 DEF Connects
      <4>3. c = Len(conns) + 1 \/ (c \in DOMAIN conns /\ conns'[c] = conns[c])
        <5>1. conns \in Seq(Connections \cup {new}) /\ new \in Connections \cup {new}
          BY <1>3 DEF TypeInv
        <5>2. DOMAIN conns' = 1..(Len(conns) + 1) /\ \A d \in 1..Len(conns) : conns'[d] = conns[d]
          BY <4>2, <5>1
        <5> QED BY <1>3, <5>2
      <4> QED BY <1>1, <1>3, <1>5, <3>1, <4>1, <4>3 DEF Has0
    <3> QED BY <2>2, <3>2, <3>3 DEF StartServer, Named, clientVars
  <2>3. CASE ServerStarted(w)
    <3>1. conns' = conns /\ servers'[x] = op[w].conn
      BY <1>3, <2>3 DEF ServerStarted, StoreServer, Named
    <3>2. servers[x] = Reserved
      BY <1>5, <2>3 DEF IInv, HandsInv, Reservations, HasReserved, ServerStarted, At
    <3>3. c # -1 /\ c # 0
      BY <1>3, <3>1
    <3> QED BY <1>1, <1>3, <1>5, <3>1, <3>2, <3>3, Constants DEF Has0
  <2>4. CASE StopServer(w)
    <3>1. op[w].conn = 0
      BY <1>3, <2>4 DEF StopServer, At
    <3>2. CASE HasServer(x)
      <4>1. conns' = Closed({servers[x]})
        BY <2>4, <3>2 DEF StopServer, RemoveServer, Close, Named
      <4>2. c \in DOMAIN conns /\ conns'[c] = IF c \in {servers[x]} THEN [conns[c] EXCEPT !.open = FALSE] ELSE conns[c]
        BY <4>1 DEF Closed
      <4>3. conns[c] \in Connections
        BY <1>3, <4>2 DEF TypeInv
      <4>4. c # servers[x] /\ conns[c].open
        BY <1>5, <4>2, <4>3 DEF Connections
      <4> QED BY <1>1, <1>3, <3>1, <4>2, <4>4 DEF Has0
    <3>3. CASE ~HasServer(x)
      <4>1. conns' = conns /\ servers' = servers
        BY <2>4, <3>3 DEF StopServer, RemoveServer, Named
      <4> QED BY <1>1, <1>3, <1>5, <3>1, <4>1 DEF Has0
    <3> QED BY <3>2, <3>3
  <2>5. CASE CallReturns(w)
    <3>1. op[w].conn = 0 /\ op'[w] = Off /\ servers' = servers
      BY <1>3, <2>5 DEF CallReturns, At, Return
    <3>2. c \in DOMAIN conns /\ conns[c].open
      <4>1. PICK C : conns' = Closed(C)
        BY <2>5 DEF CallReturns, Close
      <4>2. c \in DOMAIN conns /\ conns'[c] = IF c \in C THEN [conns[c] EXCEPT !.open = FALSE] ELSE conns[c]
        BY <4>1 DEF Closed
      <4>3. conns[c] \in Connections
        BY <1>3, <4>2 DEF TypeInv
      <4> QED BY <1>5, <4>2, <4>3 DEF Connections
    <3> QED BY <1>1, <1>3, <3>1, <3>2 DEF Has0
  <2> QED BY <2>1, <2>2, <2>3, <2>4, <2>5
<1> QED BY <1>1, <1>2, <1>3, <1>4, <1>5, StepLosesNone

\* The hot-reloader's: what a call takes out it has in hand until it has closed it, and
\* what it has put in is somebody's.
LEMMA ReloaderLosesNone ==
  ASSUME IInv, NoSessionLost, NEW w \in Ops, NEW x, op[w].x = x,
         Dial(w) \/ Offer(w) \/ Swap(w) \/ RemoveStale(w) \/ Disconnect(w)
  PROVE  NoSessionLost'
<1>1. /\ op[w].pc \in {"dial", "offer", "swap", "removeStale", "removeTools", "take"} /\ proc' = proc
      /\ servers' = servers
  BY DEF Dial, Offer, Swap, RemoveStale, Disconnect, At, RegisterProxyTool, Track, RemoveTools, clientVars
<1>2. \A v \in Ops \ {w} : op'[v] = op[v]
  BY DEF IInv, TypeInv, Dial, NotConnected, Offer, Swap, RemoveStale, Disconnect, Goto, Return
<1>3. /\ x \in Names /\ TypeInv /\ op[w] \in OpRecords /\ op \in [Ops -> OpRecords]
      /\ op[w].pc \in {"dial", "take", "swap"} => op[w].old = 0
      /\ op[w].pc \in {"dial", "take"} => op[w].conn = 0
      /\ Len(conns) \in Nat /\ DOMAIN conns = 1..Len(conns) /\ tracked \in [Names -> Nat]
  <2>1. op[w].pc # "off"
    BY <1>1
  <2>2. HandOf(w) /\ TypeInv
    BY DEF IInv, HandsInv, Hands
  <2>3. /\ op[w].pc \in {"dial", "take", "swap"} => op[w].old = 0
        /\ op[w].pc \in {"dial", "take"} => op[w].conn = 0
    BY <2>2, Constants DEF HandOf
  <2> QED BY <2>1, <2>2, <2>3, OpRead DEF TypeInv
<1>4. \A y \in Names \ {x} : servers'[y] = servers[y] /\ tracked'[y] = tracked[y]
  BY <1>1, <1>3 DEF Dial, Offer, Swap, RemoveStale, Disconnect, RegisterProxyTool, Track, RemoveTools, clientVars, Named
<1>5. ASSUME NEW c \in DOMAIN conns', conns'[c].open
      PROVE  Has0(c, w, x)' \/ (c \in DOMAIN conns /\ conns[c].open /\ ~Has0(c, w, x))
  <2>1. CASE Dial(w)
    <3>1. op[w].conn = 0 /\ op[w].old = 0 /\ tracked' = tracked
      BY <1>3, <2>1 DEF Dial, clientVars, At
    <3>2. CASE conns' = conns
      BY <1>1, <1>3, <1>5, <3>1, <3>2 DEF Has0
    <3>3. ASSUME NEW T \in SUBSET Tools, Connects(x, op[w].env, T, Free),
                 op' = [op EXCEPT ![w].pc = "offer", ![w].conn = Len(conns) + 1, ![w].todo = T]
          PROVE  Has0(c, w, x)' \/ (c \in DOMAIN conns /\ conns[c].open /\ ~Has0(c, w, x))
      <4>1. op'[w].conn = Len(conns) + 1
        BY <1>3, <3>3 DEF OpRecords
      <4>2. PICK new : conns' = Append(conns, new)
        BY <3>3 DEF Connects
      <4>3. c = Len(conns) + 1 \/ (c \in DOMAIN conns /\ conns'[c] = conns[c])
        <5>1. conns \in Seq(Connections \cup {new}) /\ new \in Connections \cup {new}
          BY <1>3 DEF TypeInv
        <5>2. DOMAIN conns' = 1..(Len(conns) + 1) /\ \A d \in 1..Len(conns) : conns'[d] = conns[d]
          BY <4>2, <5>1
        <5> QED BY <1>3, <5>2
      <4> QED BY <1>1, <1>3, <1>5, <3>1, <4>1, <4>3 DEF Has0
    <3> QED BY <2>1, <3>2, <3>3 DEF Dial, Named, clientVars
  <2>2. CASE Offer(w) \/ RemoveStale(w)
    <3>1. conns' = conns /\ tracked' = tracked
      BY <2>2 DEF Offer, RemoveStale, RegisterProxyTool, RemoveTools
    <3>2. op'[w].conn = op[w].conn /\ op'[w].old = op[w].old
      BY <1>3, <2>2 DEF Offer, RemoveStale, Goto, OpRecords
    <3> QED BY <1>1, <1>5, <3>1, <3>2 DEF Has0
  <2>3. CASE Swap(w) \/ Disconnect(w)
    <3>1. conns' = conns /\ c # 0
      BY <1>3, <2>3 DEF Swap, Disconnect, Track
    <3>2. op'[w].conn = op[w].conn /\ op'[w].old = tracked[x] /\ op[w].old = 0
      BY <1>3, <2>3 DEF Swap, Disconnect, Named, OpRecords, At
    <3> QED BY <1>1, <1>5, <3>1, <3>2 DEF Has0
  <2> QED BY <2>1, <2>2, <2>3
<1> QED BY <1>1, <1>2, <1>3, <1>4, <1>5, StepLosesNone

LEMMA CloseReplacedLosesNone ==
  ASSUME IInv, NoSessionLost, NEW w \in Ops, NEW x, op[w].x = x, CloseReplaced(w)
  PROVE  NoSessionLost'
<1>1. op[w].pc = "closeOld" /\ proc' = proc /\ servers' = servers /\ tracked' = tracked
  BY DEF CloseReplaced, At, CloseOld, clientVars
<1>2. \A v \in Ops \ {w} : op'[v] = op[v]
  BY DEF IInv, TypeInv, CloseReplaced, Return
<1>3. /\ x \in Names /\ TypeInv /\ op[w] \in OpRecords /\ ConnsAreOf /\ Succeeded
      /\ DOMAIN conns = 1..Len(conns) /\ \A c \in 1..Len(conns) : conns[c] \in Connections
  <2>1. op[w].pc # "off"
    BY <1>1
  <2> QED BY <2>1, OpRead DEF IInv, TypeInv, HandsInv
<1>4. op[w].call = "load" /\ op[w].kind = "stdio" => op[w].old = NoConn
  BY DEF IInv, HandsInv, NothingToReplace
<1>5. ASSUME NEW c \in DOMAIN conns', conns'[c].open
      PROVE  \/ Has0(c, w, x)'
             \/ \E v \in Ops \ {w} : op[v].old = c
             \/ c \in DOMAIN conns /\ conns[c].open /\ ~Has0(c, w, x)
  <2>1. c \in DOMAIN conns /\ conns[c].open /\ c # op[w].old
    <3>1. CASE op[w].call = "load" /\ op[w].kind = "stdio"
      <4>1. conns' = conns
        BY <3>1 DEF CloseReplaced, clientVars
      <4> QED BY <1>3, <1>4, <1>5, <3>1, <4>1, Constants
    <3>2. CASE ~(op[w].call = "load" /\ op[w].kind = "stdio")
      <4>1. conns' = Closed({op[w].old})
        BY <3>2 DEF CloseReplaced, CloseOld, Close
      <4>2. c \in DOMAIN conns /\ conns'[c] = IF c \in {op[w].old} THEN [conns[c] EXCEPT !.open = FALSE] ELSE conns[c]
        BY <4>1 DEF Closed
      <4>3. conns[c] \in Connections
        BY <1>3, <4>2
      <4> QED BY <1>5, <4>2, <4>3 DEF Connections
    <3> QED BY <3>1, <3>2
  <2>2. CASE c = op[w].conn
    <3>1. op[w].conn # NoConn
      BY <1>3, <2>1, <2>2, Constants
    <3>2. tracked[x] = c \/ \E v \in Ops \ {w} : op[v].old = c
      BY <1>1, <2>1, <2>2, <3>1 DEF IInv, HandsInv, Succeeded
    <3> QED BY <1>1, <3>2 DEF Has0
  <2>3. CASE c # op[w].conn
    BY <1>1, <2>1, <2>3 DEF Has0
  <2> QED BY <2>2, <2>3
<1> QED BY <1>1, <1>2, <1>3, <1>5, StepLosesNone

LEMMA StagesLoseNone ==
  ASSUME IInv, NoSessionLost, Boot \/ Serve \/ Respawn \/ Crash \/ Stop
  PROVE  NoSessionLost'
<1>1. CASE Boot
  <2>1. conns' = <<>>
    BY <1>1 DEF Boot, clientVars, IInv, OneHolder
  <2> QED BY <2>1 DEF NoSessionLost
<1>2. CASE Serve
  BY <1>2 DEF Serve, clientVars, NoSessionLost
<1>3. CASE Respawn \/ Crash
  <2>1. conns' = <<>>
    BY <1>3 DEF Respawn, Crash, ProcessEnds, EndOfProcess
  <2> QED BY <2>1 DEF NoSessionLost
<1>4. CASE Stop
  BY <1>4 DEF Stop, NoSessionLost
<1> QED BY <1>1, <1>2, <1>3, <1>4

\* However calls, starts and stops interleave, a connection that is open has its holder in
\* the manager, in the hot-reloader or in a call that has not finished: none is dropped
\* unclosed.
THEOREM NoSessionIsLost == Spec => []NoSessionLost
<1>1. Init => NoSessionLost
  BY DEF Init, ClientsInit, NoSessionLost
<1>2. ASSUME IInv, NoSessionLost, [Next]_vars
      PROVE  NoSessionLost'
  <2>1. CASE Boot \/ Serve \/ Respawn \/ Crash \/ Stop
    BY <1>2, <2>1, StagesLoseNone
  <2>2. ASSUME NEW w \in Ops, Call(w) \/ ApiStep(w) \/ RegistryStep(w) \/ EnvStep(w) \/ ReloaderStep(w)
        PROVE  NoSessionLost'
    BY <1>2, <2>2, QuietSteps, ApiLosesNone, ReloaderLosesNone, CloseReplacedLosesNone DEF ApiStep, ReloaderStep
  <2>3. CASE UNCHANGED vars
    BY <1>2, <2>3 DEF vars, clientVars, NoSessionLost
  <2> QED BY <1>2, <2>1, <2>2, <2>3 DEF Next
<1> QED BY <1>1, <1>2, Invariance, PTL DEF Spec
-------------------------------------------------------------------------------
(* The skill collections. *)

FsEvents == [op : {"write", "remove", "create"}, dir : Dirs]
Tomls == {Collections!NoToml} \cup [name : SkillNames, ok : BOOLEAN, contents : Nat]
LoadedSkills == {Collections!NoSkill} \cup [dir : Dirs, contents : Nat]

LoaderType ==
  /\ dirs \subseteq Dirs /\ executable \subseteq dirs /\ watched \subseteq dirs
  /\ toml \in [Dirs -> Tomls] /\ \A d \in Dirs : toml[d] # Collections!NoToml => d \in dirs
  /\ events \in Seq(FsEvents)
  /\ step \in {Collections!Idle} \cup [pc : {"add", "load"}, dir : Dirs]
  /\ collection \in [SkillNames -> LoadedSkills]
  /\ phase \in {"loading", "adding", "watching", "stopped"} /\ pending \subseteq Dirs
  /\ edits \in Nat /\ unseen \subseteq Dirs /\ clash \in BOOLEAN

\* The events that wait and tell of a directory: none, the last, one that unregisters.
Untold(d) == \A i \in DOMAIN events : events[i].dir # d
LastTold(d, o) ==
  \E i \in DOMAIN events :
    /\ events[i].dir = d /\ events[i].op = o
    /\ \A j \in DOMAIN events : j > i => events[j].dir # d
Fixes(d) == \E i \in DOMAIN events : events[i].dir = d /\ events[i].op # "create"

\* What is loaded from a directory: nothing that a load would not replace, and what it says.
Loadable(d) == \A n \in Collections!From(d) : Collections!Ok(d) /\ toml[d].name = n
Loaded(d) ==
  /\ Loadable(d)
  /\ Collections!Ok(d) => collection[toml[d].name] = [dir |-> d, contents |-> toml[d].contents]

\* No name belongs to two directories, as long as none clashed.
NamesApart ==
  /\ \A d, e \in Dirs : d # e /\ toml[d] # Collections!NoToml =>
       toml[d].name \notin {e, toml[e].name} \cup Collections!From(e)
  /\ \A d, e \in Dirs : d # e => e \notin Collections!From(d)

\* A directory whose changes were told: it is loaded, or it will be, since it has still to be
\* visited by the start, or an event or the step in progress will bring it up to date.
Started(d) ==
  /\ phase = "loading" => IF d \in pending THEN Collections!From(d) = {} ELSE Loaded(d)
  /\ phase = "adding" => IF d \in dirs \ watched THEN d \in pending /\ Loaded(d)
                         ELSE Fixes(d) \/ Loaded(d)
Followed(d) ==
  phase = "watching" =>
    /\ d \in dirs \ watched => \/ LastTold(d, "create")
                               \/ Untold(d) /\ step = [pc |-> "add", dir |-> d]
    /\ Fixes(d) \/ Loadable(d)
    /\ Untold(d) /\ step.dir # d => Loaded(d)
Told(d) ==
  d \notin unseen =>
    /\ \A m, n \in Collections!From(d) : m = n
    /\ Started(d) /\ Followed(d)
    /\ phase # "loading" /\ LastTold(d, "remove") => toml[d] = Collections!NoToml

LoaderInv ==
  /\ LoaderType
  /\ phase = "loading" => watched = {} /\ events = <<>>
  /\ phase \in {"loading", "adding"} => step = Collections!Idle
  /\ phase # "stopped" /\ ~clash => NamesApart /\ \A d \in Dirs : Told(d)

-------------------------------------------------------------------------------
(* The queue of events. *)

LEMMA NoneIsNone == "none" \notin Dirs /\ "none" \notin SkillNames
  BY SkillsAssumption

\* An event is added.
LEMMA EventAdded ==
  ASSUME LoaderType, NEW d \in Dirs, NEW o \in {"write", "remove", "create"},
         events' = Append(events, [op |-> o, dir |-> d])
  PROVE  /\ events' \in Seq(FsEvents) /\ ~Untold(d)'
         /\ \A p \in {"write", "remove", "create"} : LastTold(d, p)' => p = o
         /\ LastTold(d, o)' /\ (Fixes(d)' <=> Fixes(d) \/ o # "create")
         /\ \A e \in Dirs \ {d} :
              /\ (Untold(e)' <=> Untold(e)) /\ (Fixes(e)' <=> Fixes(e))
              /\ \A p \in {"write", "remove", "create"} : LastTold(e, p)' <=> LastTold(e, p)
<1> DEFINE v == [op |-> o, dir |-> d]
<1>1. v \in FsEvents /\ events \in Seq(FsEvents)
  BY DEF LoaderType, FsEvents
<1>2. /\ events' \in Seq(FsEvents) /\ Len(events) \in Nat
      /\ DOMAIN events = 1..Len(events) /\ DOMAIN events' = 1..(Len(events) + 1)
      /\ events'[Len(events) + 1] = v /\ \A i \in 1..Len(events) : events'[i] = events[i]
  BY <1>1
<1>3. v.op = o /\ v.dir = d
  OBVIOUS
<1> HIDE DEF v
<1>4. Fixes(d)' <=> Fixes(d) \/ o # "create"
  BY <1>2, <1>3 DEF Fixes
<1>5. LastTold(d, o)' /\ ~Untold(d)'
  BY <1>2, <1>3 DEF LastTold, Untold
<1>6. ASSUME NEW p \in {"write", "remove", "create"}, LastTold(d, p)' PROVE p = o
  BY <1>2, <1>3, <1>6 DEF LastTold
<1>7. ASSUME NEW e \in Dirs \ {d}
      PROVE  /\ (Untold(e)' <=> Untold(e)) /\ (Fixes(e)' <=> Fixes(e))
             /\ \A p \in {"write", "remove", "create"} : LastTold(e, p)' <=> LastTold(e, p)
  <2>1. Untold(e)' <=> Untold(e)
    BY <1>2, <1>3, <1>7 DEF Untold
  <2>2. Fixes(e)' <=> Fixes(e)
    BY <1>2, <1>3, <1>7 DEF Fixes
  <2>3. ASSUME NEW p \in {"write", "remove", "create"} PROVE LastTold(e, p)' <=> LastTold(e, p)
    BY <1>2, <1>3, <1>7 DEF LastTold
  <2> QED BY <2>1, <2>2, <2>3
<1> QED BY <1>2, <1>4, <1>5, <1>6, <1>7

\* The first event is taken.
LEMMA EventTaken ==
  ASSUME LoaderType, events # <<>>, events' = Tail(events), NEW d, d = Head(events).dir,
         NEW o, o = Head(events).op
  PROVE  /\ d \in Dirs /\ events' \in Seq(FsEvents) /\ ~Untold(d)
         /\ Fixes(d) => Fixes(d)' \/ o # "create"
         /\ Untold(d)' => LastTold(d, o)
         /\ \A p \in {"write", "remove", "create"} :
              /\ LastTold(d, p)' => LastTold(d, p)
              /\ LastTold(d, p) => LastTold(d, p)' \/ (Untold(d)' /\ o = p)
         /\ \A e \in Dirs \ {d} :
              /\ (Untold(e)' <=> Untold(e)) /\ (Fixes(e)' <=> Fixes(e))
              /\ \A p \in {"write", "remove", "create"} : LastTold(e, p)' <=> LastTold(e, p)
<1> DEFINE v == Head(events)
<1> DEFINE k == Len(events)
<1>1. /\ v \in FsEvents /\ events' \in Seq(FsEvents) /\ k \in Nat /\ k > 0
      /\ DOMAIN events = 1..k /\ DOMAIN events' = 1..(k - 1) /\ events[1] = v
  BY DEF LoaderType
<1>2. \A i \in 1..(k - 1) : events'[i] = events[i + 1]
  BY DEF LoaderType
<1>3. \A i \in 1..k : i # 1 => i - 1 \in 1..(k - 1) /\ events[i] = events'[i - 1]
  <2> SUFFICES ASSUME NEW i \in 1..k, i # 1 PROVE i - 1 \in 1..(k - 1) /\ events[i] = events'[i - 1]
    OBVIOUS
  <2>1. i - 1 \in 1..(k - 1) /\ (i - 1) + 1 = i
    BY <1>1
  <2> QED BY <1>2, <2>1
<1>4. d \in Dirs /\ d = v.dir /\ o = v.op
  BY <1>1 DEF FsEvents
<1> HIDE DEF v, k
<1>5. ~Untold(d)
  BY <1>1, <1>4 DEF Untold
<1>6. Fixes(d) => Fixes(d)' \/ o # "create"
  <2> SUFFICES ASSUME NEW i \in 1..k, events[i].dir = d, events[i].op # "create", o = "create"
               PROVE  Fixes(d)'
    BY <1>1 DEF Fixes
  <2>1. i - 1 \in 1..(k - 1) /\ events[i] = events'[i - 1]
    BY <1>1, <1>3
  <2> QED BY <1>1, <2>1 DEF Fixes
<1>7. Untold(d)' => LastTold(d, o)
  <2> SUFFICES ASSUME Untold(d)' PROVE LastTold(d, o)
    OBVIOUS
  <2>1. \A i \in 1..k : i # 1 => events[i].dir # d
    BY <1>1, <1>3 DEF Untold
  <2>2. 1 \in 1..k /\ events[1].dir = d /\ events[1].op = o /\ \A j \in 1..k : j > 1 => j # 1
    BY <1>1, <1>4
  <2> QED BY <1>1, <2>1, <2>2 DEF LastTold
<1>8. ASSUME NEW p \in {"write", "remove", "create"}, NEW e \in Dirs, LastTold(e, p)' PROVE LastTold(e, p)
  <2>1. PICK i \in 1..(k - 1) : /\ events'[i].dir = e /\ events'[i].op = p
                               /\ \A j \in 1..(k - 1) : j > i => events'[j].dir # e
    BY <1>1, <1>8 DEF LastTold
  <2>2. i + 1 \in 1..k /\ events[i + 1].dir = e /\ events[i + 1].op = p
    BY <1>1, <1>2, <2>1
  <2>3. ASSUME NEW j \in 1..k, j > i + 1 PROVE events[j].dir # e
    <3>1. j # 1 /\ j - 1 > i
      BY <1>1, <2>1, <2>3
    <3>2. j - 1 \in 1..(k - 1) /\ events[j] = events'[j - 1]
      BY <1>3, <3>1
    <3> QED BY <2>1, <3>1, <3>2
  <2> QED BY <1>1, <2>2, <2>3 DEF LastTold
<1>9. ASSUME NEW p \in {"write", "remove", "create"}, NEW e \in Dirs, LastTold(e, p)
      PROVE  LastTold(e, p)' \/ (Untold(e)' /\ o = p /\ e = d)
  <2>1. PICK i \in 1..k : /\ events[i].dir = e /\ events[i].op = p
                          /\ \A j \in 1..k : j > i => events[j].dir # e
    BY <1>1, <1>9 DEF LastTold
  <2>2. CASE i = 1
    <3>1. \A j \in 1..(k - 1) : events'[j].dir # e
      BY <1>1, <1>2, <2>1, <2>2
    <3> QED BY <1>1, <1>4, <2>1, <2>2, <3>1 DEF Untold
  <2>3. CASE i # 1
    <3>1. i - 1 \in 1..(k - 1) /\ events'[i - 1] = events[i]
      BY <1>1, <1>3, <2>1, <2>3
    <3>2. \A j \in 1..(k - 1) : j > i - 1 => events'[j].dir # e
      BY <1>1, <1>2, <2>1, <2>3
    <3> QED BY <1>1, <2>1, <3>1, <3>2 DEF LastTold
  <2> QED BY <2>2, <2>3
<1>10. ASSUME NEW e \in Dirs \ {d}
       PROVE  (Untold(e)' <=> Untold(e)) /\ (Fixes(e)' <=> Fixes(e))
  <2>1. events[1].dir # e
    BY <1>1, <1>4
  <2>2. \A i \in 1..(k - 1) : i + 1 \in 1..k /\ events[i + 1] = events'[i]
    BY <1>1, <1>2
  <2>3. Untold(e)' <=> Untold(e)
    <3>1. CASE Untold(e)
      BY <1>1, <2>2, <3>1 DEF Untold
    <3>2. CASE Untold(e)'
      BY <1>1, <1>3, <2>1, <3>2 DEF Untold
    <3> QED BY <3>1, <3>2
  <2>4. Fixes(e)' => Fixes(e)
    BY <1>1, <2>2 DEF Fixes
  <2>5. Fixes(e) => Fixes(e)'
    <3> SUFFICES ASSUME NEW i \in 1..k, events[i].dir = e, events[i].op # "create" PROVE Fixes(e)'
      BY <1>1 DEF Fixes
    <3>1. i - 1 \in 1..(k - 1) /\ events[i] = events'[i - 1]
      BY <1>3, <2>1
    <3> QED BY <1>1, <3>1 DEF Fixes
  <2> QED BY <2>3, <2>4, <2>5
<1>11. \A e \in Dirs \ {d}, p \in {"write", "remove", "create"} : LastTold(e, p)' <=> LastTold(e, p)
  BY <1>8, <1>9
<1>12. \A p \in {"write", "remove", "create"} :
         /\ LastTold(d, p)' => LastTold(d, p)
         /\ LastTold(d, p) => LastTold(d, p)' \/ (Untold(d)' /\ o = p)
  BY <1>4, <1>8, <1>9
<1>13. ASSUME NEW e \in Dirs \ {d}
       PROVE  /\ (Untold(e)' <=> Untold(e)) /\ (Fixes(e)' <=> Fixes(e))
              /\ \A p \in {"write", "remove", "create"} : LastTold(e, p)' <=> LastTold(e, p)
  BY <1>10, <1>11
<1> QED BY <1>1, <1>4, <1>5, <1>6, <1>7, <1>12, <1>13
-------------------------------------------------------------------------------
(* The changes of the files. *)

\* A step that does nothing to a directory leaves what is said of it.
Same(e) ==
  /\ toml'[e] = toml[e]
  /\ e \in executable' <=> e \in executable
  /\ e \in dirs' <=> e \in dirs
  /\ e \in watched' <=> e \in watched
  /\ e \in pending' <=> e \in pending
  /\ e \in unseen' <=> e \in unseen
  /\ \A n \in SkillNames : collection[n].dir = e \/ collection'[n].dir = e => collection'[n] = collection[n]
  /\ Untold(e)' <=> Untold(e)
  /\ Fixes(e)' <=> Fixes(e)
  /\ \A p \in {"write", "remove", "create"} : LastTold(e, p)' <=> LastTold(e, p)
  /\ step' = step \/ (step.dir # e /\ step'.dir # e)

LEMMA SameTold ==
  ASSUME LoaderType, NEW e \in Dirs, Same(e), phase' = phase, Told(e) PROVE Told(e)'
<1>1. Collections!From(e)' = Collections!From(e)
  BY DEF Same, Collections!From
<1>2. Collections!Ok(e)' <=> Collections!Ok(e)
  BY DEF Same, Collections!Ok
<1>3. Collections!Ok(e) => toml[e].name \in SkillNames
  BY DEF Collections!Ok, Collections!NoToml, LoaderType, Tomls
<1>4. Loadable(e)' <=> Loadable(e)
  BY <1>1, <1>2 DEF Loadable, Same
<1>5. Loaded(e)' <=> Loaded(e)
  BY <1>2, <1>3, <1>4 DEF Loaded, Same
<1>6. Started(e) => Started(e)'
  BY <1>1, <1>5 DEF Started, Same
<1>7. Followed(e) => Followed(e)'
  BY <1>4, <1>5 DEF Followed, Same
<1> QED BY <1>1, <1>6, <1>7 DEF Told, Same

\* What an edit changes, and what it leaves alone.
OnlyOf(d) ==
  /\ \A e \in Dirs \ {d} :
       /\ toml'[e] = toml[e]
       /\ e \in executable' <=> e \in executable
       /\ e \in dirs' <=> e \in dirs
       /\ e \in watched' <=> e \in watched
       /\ e \in unseen' <=> e \in unseen
  /\ UNCHANGED <<step, collection, phase, pending>>
  /\ \/ UNCHANGED events
     \/ \E o \in {"write", "remove", "create"} : events' = Append(events, [op |-> o, dir |-> d])

LEMMA FileEditKeeps ==
  ASSUME LoaderInv, NEW d \in Dirs, LoaderType', OnlyOf(d), clash => clash',
         phase = "loading" => watched' = {} /\ events' = <<>>,
         phase # "stopped" /\ ~clash' => NamesApart' /\ Told(d)'
  PROVE  LoaderInv'
<1>1. ASSUME NEW e \in Dirs \ {d} PROVE Same(e)
  <2>1. /\ Untold(e)' <=> Untold(e)
        /\ Fixes(e)' <=> Fixes(e)
        /\ \A p \in {"write", "remove", "create"} : LastTold(e, p)' <=> LastTold(e, p)
    <3>1. CASE UNCHANGED events
      BY <3>1 DEF Untold, Fixes, LastTold
    <3>2. ASSUME NEW o \in {"write", "remove", "create"}, events' = Append(events, [op |-> o, dir |-> d])
          PROVE  /\ Untold(e)' <=> Untold(e)
                 /\ Fixes(e)' <=> Fixes(e)
                 /\ \A p \in {"write", "remove", "create"} : LastTold(e, p)' <=> LastTold(e, p)
      BY <3>2, EventAdded DEF LoaderInv
    <3> QED BY <3>1, <3>2 DEF OnlyOf
  <2> QED BY <2>1 DEF Same, OnlyOf
<1>2. ASSUME phase' # "stopped", ~clash', NEW e \in Dirs PROVE Told(e)'
  <2>1. CASE e = d
    BY <1>2, <2>1 DEF OnlyOf
  <2>2. CASE e # d
    <3>1. Told(e) /\ Same(e) /\ phase' = phase /\ LoaderType
      BY <1>1, <1>2, <2>2 DEF LoaderInv, OnlyOf
    <3> QED BY <3>1, SameTold
  <2> QED BY <2>1, <2>2
<1> QED BY <1>2 DEF LoaderInv, OnlyOf

\* A name that clashes with none.
LEMMA NewName ==
  ASSUME LoaderType, NamesApart, NEW d \in Dirs, NEW v \in Tomls, toml' = [toml EXCEPT ![d] = v],
         UNCHANGED collection, v # Collections!NoToml => ~Collections!Clashes(d, v.name)
  PROVE  NamesApart'
<1>1. \A e \in Dirs : Collections!From(e)' = Collections!From(e)
  BY DEF Collections!From
<1>2. toml'[d] = v /\ \A e \in Dirs : e # d => toml'[e] = toml[e]
  BY DEF LoaderType
<1>3. \A e \in Dirs : toml[e] # Collections!NoToml => toml[e].name \in SkillNames
  BY DEF LoaderType, Tomls
<1>4. v = Collections!NoToml => v.name = "none" /\ "none" \notin SkillNames
  BY NoneIsNone DEF Collections!NoToml
<1>5. v # Collections!NoToml =>
        \A e \in Dirs \ {d} : v.name \notin {e, toml[e].name} \cup Collections!From(e)
  BY DEF Collections!Clashes, Collections!From
<1>6. ASSUME NEW a \in Dirs, NEW e \in Dirs, a # e, toml'[a] # Collections!NoToml
      PROVE  toml'[a].name \notin {e, toml'[e].name} \cup Collections!From(e)'
  <2>1. CASE a = d
    BY <1>1, <1>2, <1>5, <1>6, <2>1
  <2>2. CASE e = d
    <3>1. toml[a] # Collections!NoToml /\ toml'[a] = toml[a] /\ toml[a].name \notin {d} \cup Collections!From(d)
      BY <1>2, <1>6, <2>2 DEF NamesApart
    <3>2. toml[a].name # v.name
      BY <1>3, <1>4, <1>5, <1>6, <2>2, <3>1
    <3> QED BY <1>1, <1>2, <2>2, <3>1, <3>2
  <2>3. CASE a # d /\ e # d
    BY <1>1, <1>2, <1>6, <2>3 DEF NamesApart
  <2> QED BY <2>1, <2>2, <2>3
<1> QED BY <1>1, <1>6 DEF NamesApart
LEMMA OneLast ==
  ASSUME LoaderType, NEW d \in Dirs, NEW p, LastTold(d, p)
  PROVE  ~Untold(d) /\ \A q : LastTold(d, q) => p = q
<1>1. DOMAIN events = 1..Len(events) /\ Len(events) \in Nat
  BY DEF LoaderType
<1>2. PICK i \in DOMAIN events : /\ events[i].dir = d /\ events[i].op = p
                                 /\ \A j \in DOMAIN events : j > i => events[j].dir # d
  BY DEF LastTold
<1>3. ASSUME NEW q, LastTold(d, q) PROVE p = q
  <2>1. PICK k \in DOMAIN events : /\ events[k].dir = d /\ events[k].op = q
                                   /\ \A j \in DOMAIN events : j > k => events[j].dir # d
    BY <1>3 DEF LastTold
  <2>2. k = i
    BY <1>1, <1>2, <2>1
  <2> QED BY <1>2, <2>1, <2>2
<1> QED BY <1>2, <1>3 DEF Untold

LEMMA NoTomlIsNotOk ==
  ASSUME NEW d, toml[d] = Collections!NoToml PROVE ~Collections!Ok(d)
BY DEF Collections!Ok, Collections!NoToml

LEMMA WriteKeeps ==
  ASSUME LoaderInv, NEW d \in Dirs, Collections!WriteToml(d) PROVE LoaderInv'
<1>1. PICK n \in SkillNames, ok \in BOOLEAN :
        /\ toml' = [toml EXCEPT ![d] = [name |-> n, ok |-> ok, contents |-> edits']]
        /\ clash' = (clash \/ Collections!Clashes(d, n))
  BY DEF Collections!WriteToml
<1> DEFINE v == [name |-> n, ok |-> ok, contents |-> edits']
<1>2. /\ d \in dirs /\ edits' = edits + 1 /\ edits' \in Nat
      /\ UNCHANGED <<dirs, executable, watched, step, collection, phase, pending>>
      /\ events' = IF d \in watched THEN Append(events, [op |-> "write", dir |-> d]) ELSE events
      /\ unseen' = IF Collections!Missed(d) THEN unseen \cup {d}
                   ELSE IF d \in watched /\ \A a, b \in Collections!From(d) : a = b THEN unseen \ {d} ELSE unseen
  BY DEF Collections!WriteToml, Collections!Edit, Collections!Tell, LoaderInv, LoaderType
<1>3. LoaderType /\ v \in Tomls
  BY <1>2 DEF Tomls, LoaderInv
<1>4. d \in watched => /\ events' \in Seq(FsEvents) /\ ~Untold(d)' /\ Fixes(d)'
                       /\ \A p \in {"write", "remove", "create"} : LastTold(d, p)' => p = "write"
  BY <1>2, <1>3, EventAdded
<1>5. LoaderType'
  <2>1. events' \in Seq(FsEvents) /\ unseen' \subseteq Dirs /\ clash' \in BOOLEAN
    BY <1>1, <1>2, <1>3, <1>4 DEF LoaderType
  <2>2. toml' \in [Dirs -> Tomls] /\ \A e \in Dirs : toml'[e] # Collections!NoToml => e \in dirs'
    BY <1>1, <1>2, <1>3 DEF LoaderType
  <2> QED BY <1>2, <1>3, <2>1, <2>2 DEF LoaderType
<1>6. OnlyOf(d)
  BY <1>1, <1>2, <1>3 DEF OnlyOf, LoaderType
<1>7. phase = "loading" => watched' = {} /\ events' = <<>>
  BY <1>2 DEF LoaderInv
<1>8. ASSUME phase # "stopped", ~clash' PROVE NamesApart' /\ Told(d)'
  <2>1. NamesApart /\ Told(d)
    BY <1>1, <1>8 DEF LoaderInv
  <2>2. NamesApart'
    BY <1>1, <1>2, <1>3, <1>8, <2>1, NewName
  <2>3. Collections!From(d)' = Collections!From(d)
    BY <1>2 DEF Collections!From
  <2>4. ASSUME d \notin unseen', d \in watched PROVE Told(d)'
    <3>1. \A a, b \in Collections!From(d) : a = b
      BY <1>2, <2>1, <2>4 DEF Told, Collections!Missed
    <3>2. Started(d)' /\ Followed(d)'
      BY <1>2, <1>4, <2>4 DEF Started, Followed, LoaderInv
    <3> QED BY <1>4, <2>3, <2>4, <3>1, <3>2 DEF Told
  <2>5. ASSUME d \notin unseen', d \notin watched PROVE Told(d)'
    <3>1. ~Collections!Missed(d) /\ d \notin unseen /\ events' = events
      BY <1>2, <2>5
    <3>2. /\ Collections!From(d) = {} /\ phase # "adding"
          /\ phase = "loading" => d \in pending
      BY <2>5, <3>1 DEF Collections!Missed
    <3>3. Loadable(d)' /\ Started(d)'
      BY <1>2, <2>3, <3>2 DEF Loadable, Started
    <3>4. phase = "watching" => LastTold(d, "create") \/ (Untold(d) /\ step = [pc |-> "add", dir |-> d])
      BY <1>2, <2>1, <2>5, <3>1 DEF Told, Followed
    <3>5. phase = "watching" => ~(Untold(d) /\ step.dir # d) /\ ~LastTold(d, "remove")
      BY <1>3, <3>4, OneLast
    <3>6. /\ Untold(d)' <=> Untold(d)
          /\ \A p : LastTold(d, p)' <=> LastTold(d, p)
      BY <3>1 DEF Untold, LastTold
    <3>7. Followed(d)'
      BY <1>2, <3>3, <3>4, <3>5, <3>6 DEF Followed
    <3>8. phase \in {"loading", "watching"}
      BY <1>3, <1>8, <3>2 DEF LoaderType
    <3> QED BY <1>2, <2>3, <3>2, <3>3, <3>5, <3>6, <3>7, <3>8 DEF Told
  <2> QED BY <2>2, <2>4, <2>5 DEF Told
<1> QED BY <1>1, <1>5, <1>6, <1>7, <1>8, FileEditKeeps

LEMMA RemoveKeeps ==
  ASSUME LoaderInv, NEW d \in Dirs, Collections!RemoveToml(d) PROVE LoaderInv'
<1>1. /\ toml' = [toml EXCEPT ![d] = Collections!NoToml]
      /\ edits' = edits + 1 /\ edits' \in Nat
      /\ UNCHANGED <<dirs, executable, watched, step, collection, phase, pending, clash>>
      /\ events' = IF d \in watched THEN Append(events, [op |-> "remove", dir |-> d]) ELSE events
      /\ unseen' = IF Collections!Missed(d) THEN unseen \cup {d} ELSE unseen
  BY DEF Collections!RemoveToml, Collections!Edit, Collections!Tell, LoaderInv, LoaderType
<1>2. d \in dirs
  BY DEF Collections!RemoveToml, LoaderInv, LoaderType
<1>3. LoaderType /\ Collections!NoToml \in Tomls
  BY DEF Tomls, LoaderInv
<1>4. toml'[d] = Collections!NoToml
  BY <1>1, <1>3 DEF LoaderType
<1>5. d \in watched => /\ events' \in Seq(FsEvents) /\ ~Untold(d)' /\ Fixes(d)'
  BY <1>1, <1>3, EventAdded
<1>6. LoaderType'
  <2>1. events' \in Seq(FsEvents) /\ unseen' \subseteq Dirs
    BY <1>1, <1>3, <1>5 DEF LoaderType
  <2>2. toml' \in [Dirs -> Tomls] /\ \A e \in Dirs : toml'[e] # Collections!NoToml => e \in dirs'
    BY <1>1, <1>2, <1>3 DEF LoaderType
  <2> QED BY <1>1, <1>3, <2>1, <2>2 DEF LoaderType
<1>7. OnlyOf(d)
  BY <1>1, <1>3 DEF OnlyOf, LoaderType
<1>8. phase = "loading" => watched' = {} /\ events' = <<>>
  BY <1>1 DEF LoaderInv
<1>9. ASSUME phase # "stopped", ~clash' PROVE NamesApart' /\ Told(d)'
  <2>1. NamesApart /\ Told(d)
    BY <1>1, <1>9 DEF LoaderInv
  <2>2. NamesApart'
    BY <1>1, <1>3, <2>1, NewName
  <2>3. Collections!From(d)' = Collections!From(d)
    BY <1>1 DEF Collections!From
  <2>4. ASSUME d \notin unseen', d \in watched PROVE Told(d)'
    <3>1. \A a, b \in Collections!From(d) : a = b
      BY <1>1, <2>1, <2>4 DEF Told
    <3>2. Started(d)' /\ Followed(d)'
      BY <1>1, <1>5, <2>4 DEF Started, Followed, LoaderInv
    <3> QED BY <1>4, <2>3, <2>4, <3>1, <3>2 DEF Told
  <2>5. ASSUME d \notin unseen', d \notin watched PROVE Told(d)'
    <3>1. ~Collections!Missed(d) /\ d \notin unseen /\ events' = events
      BY <1>1, <2>5
    <3>2. /\ Collections!From(d) = {} /\ phase # "adding"
          /\ phase = "loading" => d \in pending
      BY <2>5, <3>1 DEF Collections!Missed
    <3>3. Loadable(d)' /\ Started(d)'
      BY <1>1, <2>3, <3>2 DEF Loadable, Started
    <3>4. phase = "watching" => LastTold(d, "create") \/ (Untold(d) /\ step = [pc |-> "add", dir |-> d])
      BY <1>1, <1>2, <2>1, <2>5, <3>1 DEF Told, Followed
    <3>5. phase = "watching" => ~(Untold(d) /\ step.dir # d)
      BY <1>3, <3>4, OneLast
    <3>6. /\ Untold(d)' <=> Untold(d)
          /\ \A p : LastTold(d, p)' <=> LastTold(d, p)
      BY <3>1 DEF Untold, LastTold
    <3>7. Followed(d)'
      BY <1>1, <3>3, <3>4, <3>5, <3>6 DEF Followed
    <3> QED BY <1>1, <1>4, <2>3, <3>2, <3>3, <3>7 DEF Told
  <2> QED BY <2>2, <2>4, <2>5 DEF Told
<1> QED BY <1>1, <1>6, <1>7, <1>8, <1>9, FileEditKeeps
LEMMA TomlMoveKeeps ==
  ASSUME LoaderInv, NEW d \in Dirs, Collections!MoveToml(d) PROVE LoaderInv'
<1>1. /\ toml' = [toml EXCEPT ![d] = Collections!NoToml]
      /\ edits' = edits + 1 /\ edits' \in Nat /\ unseen' = unseen \cup {d}
      /\ UNCHANGED <<dirs, executable, watched, events, step, collection, phase, pending, clash>>
  BY DEF Collections!MoveToml, Collections!Edit, LoaderInv, LoaderType
<1>2. LoaderType /\ Collections!NoToml \in Tomls
  BY DEF Tomls, LoaderInv
<1>3. toml' \in [Dirs -> Tomls] /\ \A e \in Dirs : toml'[e] # Collections!NoToml => e \in dirs'
  BY <1>1, <1>2 DEF LoaderType
<1>4. LoaderType'
  BY <1>1, <1>2, <1>3 DEF LoaderType
<1>5. OnlyOf(d)
  BY <1>1, <1>2 DEF OnlyOf, LoaderType
<1>6. ASSUME phase # "stopped", ~clash' PROVE NamesApart' /\ Told(d)'
  BY <1>1, <1>2, <1>6, NewName DEF LoaderInv, Told
<1> QED BY <1>1, <1>4, <1>5, <1>6, FileEditKeeps DEF LoaderInv

LEMMA CommandKeeps ==
  ASSUME LoaderInv, NEW d \in Dirs, Collections!PutCommand(d) PROVE LoaderInv'
<1>1. /\ d \in dirs /\ executable' = executable \cup {d}
      /\ edits' = edits + 1 /\ edits' \in Nat
      /\ unseen' = IF toml[d] # Collections!NoToml THEN unseen \cup {d} ELSE unseen
      /\ UNCHANGED <<dirs, toml, watched, events, step, collection, phase, pending, clash>>
  BY DEF Collections!PutCommand, Collections!Edit, LoaderInv, LoaderType
<1>2. LoaderType /\ LoaderType'
  BY <1>1 DEF LoaderInv, LoaderType
<1>3. OnlyOf(d)
  BY <1>1, <1>2 DEF OnlyOf, LoaderType
<1>4. ASSUME phase # "stopped", ~clash' PROVE NamesApart' /\ Told(d)'
  <2>1. NamesApart /\ Told(d)
    BY <1>1, <1>4 DEF LoaderInv
  <2>2. \A e \in Dirs : Collections!From(e)' = Collections!From(e)
    BY <1>1 DEF Collections!From
  <2>3. NamesApart'
    BY <1>1, <2>1, <2>2 DEF NamesApart
  <2>4. ASSUME d \notin unseen' PROVE Told(d)'
    <3>1. d \notin unseen /\ toml[d] = Collections!NoToml /\ toml'[d] = Collections!NoToml
      BY <1>1, <2>4
    <3>2. ~Collections!Ok(d) /\ ~Collections!Ok(d)'
      BY <3>1 DEF Collections!Ok, Collections!NoToml
    <3>3. (Loadable(d)' <=> Loadable(d)) /\ (Loaded(d)' <=> Loaded(d))
      BY <2>2, <3>2 DEF Loadable, Loaded
    <3>4. /\ Untold(d)' <=> Untold(d)
          /\ Fixes(d)' <=> Fixes(d)
          /\ \A p : LastTold(d, p)' <=> LastTold(d, p)
      BY <1>1 DEF Untold, Fixes, LastTold
    <3>5. Started(d)' /\ Followed(d)'
      BY <1>1, <2>1, <2>2, <3>1, <3>3, <3>4 DEF Told, Started, Followed
    <3> QED BY <1>1, <2>1, <2>2, <3>1, <3>4, <3>5 DEF Told
  <2> QED BY <2>3, <2>4 DEF Told
<1> QED BY <1>1, <1>2, <1>3, <1>4, FileEditKeeps DEF LoaderInv

LEMMA MakeKeeps ==
  ASSUME LoaderInv, NEW d \in Dirs, Collections!MakeDir(d) PROVE LoaderInv'
<1>1. /\ d \notin dirs /\ dirs' = dirs \cup {d} /\ edits' = edits + 1 /\ edits' \in Nat
      /\ events' = IF phase = "watching" THEN Append(events, [op |-> "create", dir |-> d]) ELSE events
      /\ unseen' = IF phase = "watching" THEN unseen ELSE unseen \cup {d}
      /\ UNCHANGED <<watched, step, collection, phase, pending>>
  BY DEF Collections!MakeDir, Collections!Edit, LoaderInv, LoaderType
<1>2. LoaderType
  BY DEF LoaderInv
<1>3. d \notin watched /\ toml[d] = Collections!NoToml /\ ~Collections!Ok(d)
  BY <1>1, <1>2, NoTomlIsNotOk DEF LoaderType
<1>4. \/ UNCHANGED <<toml, executable, clash>>
      \/ \E n \in SkillNames :
           /\ toml' = [toml EXCEPT ![d] = [name |-> n, ok |-> TRUE, contents |-> edits']]
           /\ executable' = executable \cup {d}
           /\ clash' = (clash \/ Collections!Clashes(d, n))
  BY DEF Collections!MakeDir
<1>5. phase = "watching" => /\ events' \in Seq(FsEvents) /\ ~Untold(d)' /\ LastTold(d, "create")'
                            /\ Fixes(d) => Fixes(d)'
                            /\ \A p \in {"write", "remove", "create"} : LastTold(d, p)' => p = "create"
  BY <1>1, <1>2, EventAdded
<1>6. /\ toml' \in [Dirs -> Tomls] /\ clash' \in BOOLEAN /\ (clash => clash')
      /\ executable \subseteq executable' /\ executable' \subseteq executable \cup {d}
      /\ \A e \in Dirs \ {d} : toml'[e] = toml[e]
  <2>1. CASE UNCHANGED <<toml, executable, clash>>
    BY <1>2, <2>1 DEF LoaderType
  <2>2. ASSUME NEW n \in SkillNames,
               toml' = [toml EXCEPT ![d] = [name |-> n, ok |-> TRUE, contents |-> edits']],
               executable' = executable \cup {d}, clash' = (clash \/ Collections!Clashes(d, n))
        PROVE  /\ toml' \in [Dirs -> Tomls] /\ clash' \in BOOLEAN /\ (clash => clash')
               /\ executable \subseteq executable' /\ executable' \subseteq executable \cup {d}
               /\ \A e \in Dirs \ {d} : toml'[e] = toml[e]
    <3>1. [name |-> n, ok |-> TRUE, contents |-> edits'] \in Tomls
      BY <1>1, <2>2 DEF Tomls
    <3> QED BY <1>2, <2>2, <3>1 DEF LoaderType
  <2> QED BY <1>4, <2>1, <2>2
<1>7. LoaderType'
  <2>1. events' \in Seq(FsEvents) /\ unseen' \subseteq Dirs
    BY <1>1, <1>2, <1>5 DEF LoaderType
  <2>2. /\ dirs' \subseteq Dirs /\ executable' \subseteq dirs' /\ watched' \subseteq dirs'
        /\ \A e \in Dirs : toml'[e] # Collections!NoToml => e \in dirs'
    BY <1>1, <1>2, <1>6 DEF LoaderType
  <2> QED BY <1>1, <1>2, <1>6, <2>1, <2>2 DEF LoaderType
<1>8. OnlyOf(d)
  BY <1>1, <1>2, <1>6 DEF OnlyOf, LoaderType
<1>9. ASSUME phase # "stopped", ~clash' PROVE NamesApart' /\ Told(d)'
  <2>1. NamesApart /\ Told(d)
    BY <1>6, <1>9 DEF LoaderInv
  <2>2. \A e \in Dirs : Collections!From(e)' = Collections!From(e)
    BY <1>1 DEF Collections!From
  <2>3. NamesApart'
    <3>1. CASE UNCHANGED <<toml, executable, clash>>
      BY <2>1, <2>2, <3>1 DEF NamesApart
    <3>2. ASSUME NEW n \in SkillNames,
                 toml' = [toml EXCEPT ![d] = [name |-> n, ok |-> TRUE, contents |-> edits']],
                 ~Collections!Clashes(d, n)
          PROVE  NamesApart'
      <4> DEFINE v == [name |-> n, ok |-> TRUE, contents |-> edits']
      <4>1. v \in Tomls /\ v.name = n
        BY <1>1 DEF Tomls
      <4> HIDE DEF v
      <4>2. toml' = [toml EXCEPT ![d] = v]
        BY <3>2 DEF v
      <4> QED BY <1>1, <1>2, <2>1, <3>2, <4>1, <4>2, NewName
    <3> QED BY <1>4, <1>9, <3>1, <3>2
  <2>4. ASSUME d \notin unseen' PROVE Told(d)'
    <3>1. phase = "watching" /\ d \notin unseen
      BY <1>1, <2>4
    <3>2. Fixes(d) \/ Collections!From(d) = {}
      BY <1>3, <2>1, <3>1 DEF Told, Followed, Loadable
    <3>3. Fixes(d)' \/ Loadable(d)'
      BY <1>5, <2>2, <3>1, <3>2 DEF Loadable
    <3>4. Started(d)' /\ Followed(d)'
      BY <1>1, <1>5, <3>1, <3>3 DEF Started, Followed
    <3> QED BY <1>1, <1>5, <2>1, <2>2, <3>1, <3>4 DEF Told
  <2> QED BY <2>3, <2>4 DEF Told
<1> QED BY <1>1, <1>6, <1>7, <1>8, <1>9, FileEditKeeps DEF LoaderInv

LEMMA UnmakeKeeps ==
  ASSUME LoaderInv, NEW d \in Dirs, Collections!RemoveDir(d) PROVE LoaderInv'
<1>1. /\ toml[d] = Collections!NoToml /\ edits' = edits + 1 /\ edits' \in Nat
      /\ dirs' = dirs \ {d} /\ executable' = executable \ {d} /\ watched' = watched \ {d}
      /\ UNCHANGED <<toml, events, step, collection, phase, pending, unseen, clash>>
  BY DEF Collections!RemoveDir, Collections!Edit, LoaderInv, LoaderType
<1>2. LoaderType /\ LoaderType'
  BY <1>1 DEF LoaderInv, LoaderType
<1>3. OnlyOf(d)
  BY <1>1, <1>2 DEF OnlyOf, LoaderType
<1>4. ASSUME phase # "stopped", ~clash' PROVE NamesApart' /\ Told(d)'
  <2>1. NamesApart /\ Told(d)
    BY <1>1, <1>4 DEF LoaderInv
  <2>2. \A e \in Dirs : Collections!From(e)' = Collections!From(e)
    BY <1>1 DEF Collections!From
  <2>3. NamesApart'
    BY <1>1, <2>1, <2>2 DEF NamesApart
  <2>4. ASSUME d \notin unseen' PROVE Told(d)'
    <3>1. d \notin unseen /\ toml'[d] = Collections!NoToml
      BY <1>1, <2>4
    <3>2. ~Collections!Ok(d) /\ ~Collections!Ok(d)'
      BY <1>1, <3>1 DEF Collections!Ok, Collections!NoToml
    <3>3. (Loadable(d)' <=> Loadable(d)) /\ (Loaded(d)' <=> Loaded(d))
      BY <2>2, <3>2 DEF Loadable, Loaded
    <3>4. /\ Untold(d)' <=> Untold(d)
          /\ Fixes(d)' <=> Fixes(d)
          /\ \A p : LastTold(d, p)' <=> LastTold(d, p)
      BY <1>1 DEF Untold, Fixes, LastTold
    <3>5. d \notin dirs'
      BY <1>1
    <3>6. Started(d)' /\ Followed(d)'
      BY <1>1, <2>1, <2>2, <3>1, <3>3, <3>4, <3>5 DEF Told, Started, Followed
    <3> QED BY <1>1, <2>1, <2>2, <3>1, <3>4, <3>6 DEF Told
  <2> QED BY <2>3, <2>4 DEF Told
<1> QED BY <1>1, <1>2, <1>3, <1>4, FileEditKeeps DEF LoaderInv
-------------------------------------------------------------------------------
(* The steps of the loader. *)

LEMMA LoadStepKeeps ==
  ASSUME LoaderInv, NEW d \in Dirs, LoaderType', UNCHANGED <<phase, clash>>,
         phase = "loading" => watched' = {} /\ events' = <<>>,
         phase \in {"loading", "adding"} => step' = Collections!Idle,
         phase # "stopped" /\ ~clash => NamesApart' /\ Told(d)' /\ \A e \in Dirs \ {d} : Same(e)
  PROVE  LoaderInv'
<1>1. ASSUME phase' # "stopped", ~clash', NEW e \in Dirs PROVE Told(e)'
  <2>1. CASE e = d
    BY <1>1, <2>1
  <2>2. CASE e # d
    <3>1. Told(e) /\ Same(e) /\ phase' = phase /\ LoaderType
      BY <1>1, <2>2 DEF LoaderInv
    <3> QED BY <3>1, SameTold
  <2> QED BY <2>1, <2>2
<1> QED BY <1>1 DEF LoaderInv

\* A load registers the skill of the file, and takes no other directory's.
LEMMA LoadGives ==
  ASSUME LoaderType, NEW d \in Dirs, Collections!loadSkill(d)
  PROVE  /\ collection' \in [SkillNames -> LoadedSkills]
         /\ Collections!Ok(d) =>
              /\ toml[d] # Collections!NoToml /\ toml[d].name \in SkillNames
              /\ collection'[toml[d].name] = [dir |-> d, contents |-> toml[d].contents]
              /\ Collections!From(d)' = Collections!From(d) \cup {toml[d].name}
         /\ ~Collections!Ok(d) => collection' = collection
         /\ NamesApart => \A e \in Dirs \ {d}, n \in SkillNames :
              collection[n].dir = e \/ collection'[n].dir = e => collection'[n] = collection[n]
         /\ NamesApart /\ toml' = toml => NamesApart'
<1>1. ASSUME Collections!Ok(d)
      PROVE  /\ toml[d] # Collections!NoToml /\ toml[d].name \in SkillNames
             /\ [dir |-> d, contents |-> toml[d].contents] \in LoadedSkills
  BY <1>1 DEF Collections!Ok, Collections!NoToml, LoaderType, Tomls, LoadedSkills
<1>2. ASSUME Collections!Ok(d)
      PROVE  /\ collection' = [collection EXCEPT ![toml[d].name] = [dir |-> d, contents |-> toml[d].contents]]
             /\ collection' \in [SkillNames -> LoadedSkills]
             /\ collection'[toml[d].name] = [dir |-> d, contents |-> toml[d].contents]
             /\ \A n \in SkillNames : n # toml[d].name => collection'[n] = collection[n]
  BY <1>1, <1>2 DEF Collections!loadSkill, LoaderType
<1>3. Collections!Ok(d) => Collections!From(d)' = Collections!From(d) \cup {toml[d].name}
  <2> SUFFICES ASSUME Collections!Ok(d) PROVE Collections!From(d)' = Collections!From(d) \cup {toml[d].name}
    OBVIOUS
  <2>1. collection'[toml[d].name].dir = d
    BY <1>2
  <2> QED BY <1>1, <1>2, <2>1 DEF Collections!From
<1>4. ~Collections!Ok(d) => collection' = collection
  BY DEF Collections!loadSkill
<1>5. ASSUME NamesApart, NEW e \in Dirs \ {d}, NEW n \in SkillNames,
             collection[n].dir = e \/ collection'[n].dir = e
      PROVE  collection'[n] = collection[n]
  <2>1. ASSUME Collections!Ok(d), n = toml[d].name PROVE FALSE
    <3>1. collection'[n].dir = d /\ n \notin Collections!From(e)
      BY <1>1, <1>2, <1>5, <2>1 DEF NamesApart
    <3> QED BY <1>5, <3>1 DEF Collections!From
  <2> QED BY <1>2, <1>4, <2>1
<1>6. ASSUME NamesApart, toml' = toml PROVE NamesApart'
  <2>1. \A e \in Dirs \ {d} : Collections!From(e)' = Collections!From(e)
    BY <1>5, <1>6 DEF Collections!From
  <2>2. \A n \in Collections!From(d)' : n \in Collections!From(d) \/ (Collections!Ok(d) /\ n = toml[d].name)
    BY <1>3, <1>4 DEF Collections!From
  <2>3. ASSUME NEW a \in Dirs, NEW e \in Dirs, a # e
        PROVE  /\ toml[a] # Collections!NoToml => toml[a].name \notin Collections!From(e)'
               /\ e \notin Collections!From(a)'
    <3>1. toml[a] # Collections!NoToml => toml[a].name \notin Collections!From(e)'
      BY <1>1, <1>6, <2>1, <2>2, <2>3 DEF NamesApart
    <3>2. e \notin Collections!From(a)'
      BY <1>1, <1>6, <2>1, <2>2, <2>3 DEF NamesApart
    <3> QED BY <3>1, <3>2
  <2> QED BY <1>6, <2>3 DEF NamesApart
<1> QED BY <1>1, <1>2, <1>3, <1>4, <1>5, <1>6 DEF LoaderType

\* The one skill of a directory is unregistered, and no other directory's.
LEMMA UnregisterGives ==
  ASSUME LoaderType, NamesApart, NEW d \in Dirs, Collections!unregisterSkill(d)
  PROVE  /\ (\A m, n \in Collections!From(d) : m = n) => Collections!From(d)' = {}
         /\ \A e \in Dirs \ {d}, n \in SkillNames :
              collection[n].dir = e \/ collection'[n].dir = e => collection'[n] = collection[n]
         /\ toml' = toml => NamesApart'
<1>1. PICK n \in Collections!NameIn(d) : collection' = [collection EXCEPT ![n] = Collections!NoSkill]
  BY DEF Collections!unregisterSkill
<1>2. Collections!NoSkill.dir = "none" /\ \A e \in Dirs : e # "none"
  BY NoneIsNone DEF Collections!NoSkill
<1>3. \A m \in SkillNames : collection'[m] = IF m = n THEN Collections!NoSkill ELSE collection[m]
  BY <1>1 DEF LoaderType
<1>4. \A e \in Dirs \ {d} : n \notin Collections!From(e)
  BY <1>1 DEF Collections!NameIn, NamesApart, Collections!From
<1>5. \A e \in Dirs : Collections!From(e)' = Collections!From(e) \ {n}
  BY <1>2, <1>3 DEF Collections!From
<1>6. (\A a, b \in Collections!From(d) : a = b) => Collections!From(d)' = {}
  BY <1>1, <1>5 DEF Collections!NameIn
<1>7. \A e \in Dirs \ {d}, m \in SkillNames :
        collection[m].dir = e \/ collection'[m].dir = e => collection'[m] = collection[m]
  BY <1>2, <1>3, <1>4 DEF Collections!From
<1>8. toml' = toml => NamesApart'
  BY <1>5 DEF NamesApart
<1> QED BY <1>6, <1>7, <1>8

\* Whatever is unregistered.
LEMMA UnregisterTyped ==
  ASSUME LoaderType, NEW d \in Dirs, Collections!unregisterSkill(d)
  PROVE  collection' \in [SkillNames -> LoadedSkills]
BY DEF LoaderType, LoadedSkills, Collections!unregisterSkill
LEMMA UntoldNotFixed ==
  ASSUME NEW d, Untold(d) PROVE ~Fixes(d) /\ \A p : ~LastTold(d, p)
BY DEF Untold, Fixes, LastTold

LEMMA LoadAllKeeps ==
  ASSUME LoaderInv, Collections!LoadAll PROVE LoaderInv'
<1>1. /\ phase = "loading" /\ watched = {} /\ events = <<>> /\ step = Collections!Idle /\ LoaderType
      /\ UNCHANGED <<dirs, toml, executable, watched, events, step, edits, unseen, clash>>
  BY DEF Collections!LoadAll, LoaderInv
<1>2. \A e \in Dirs : (Untold(e)' <=> Untold(e)) /\ (Fixes(e)' <=> Fixes(e))
                      /\ \A p : LastTold(e, p)' <=> LastTold(e, p)
  BY <1>1 DEF Untold, Fixes, LastTold
<1>3. ASSUME NEW d \in pending, Collections!loadSkill(d), pending' = pending \ {d}, phase' = phase
      PROVE  LoaderInv'
  <2>1. d \in Dirs
    BY <1>1 DEF LoaderType
  <2>2. LoaderType'
    BY <1>1, <1>3, <2>1, LoadGives DEF LoaderType
  <2>3. ASSUME ~clash PROVE NamesApart' /\ Told(d)' /\ \A e \in Dirs \ {d} : Same(e)
    <3>1. NamesApart /\ Told(d)
      BY <1>1, <2>1, <2>3 DEF LoaderInv
    <3>2. NamesApart' /\ \A e \in Dirs \ {d} : Same(e)
      BY <1>1, <1>2, <1>3, <2>1, <3>1, LoadGives DEF Same
    <3>3. ASSUME d \notin unseen PROVE Told(d)'
      <4>1. Collections!From(d) = {}
        BY <1>1, <1>3, <3>1, <3>3 DEF Told, Started
      <4>2. Loaded(d)' /\ \A a, b \in Collections!From(d)' : a = b
        <5>1. CASE Collections!Ok(d)
          <6>1. Collections!Ok(d)' /\ Collections!From(d)' = {toml[d].name}
            BY <1>1, <1>3, <2>1, <4>1, <5>1, LoadGives DEF Collections!Ok
          <6> QED BY <1>1, <1>3, <2>1, <5>1, <6>1, LoadGives DEF Loaded, Loadable
        <5>2. CASE ~Collections!Ok(d)
          <6>1. ~Collections!Ok(d)' /\ Collections!From(d)' = {}
            BY <1>1, <1>3, <2>1, <4>1, <5>2, LoadGives DEF Collections!Ok, Collections!From
          <6> QED BY <6>1 DEF Loaded, Loadable
        <5> QED BY <5>1, <5>2
      <4> QED BY <1>1, <1>3, <4>2 DEF Told, Started, Followed
    <3> QED BY <1>1, <3>2, <3>3 DEF Told
  <2> QED BY <1>1, <1>3, <2>1, <2>2, <2>3, LoadStepKeeps
<1>4. ASSUME pending = {}, phase' = "adding", pending' = dirs, collection' = collection
      PROVE  LoaderInv'
  <2>1. LoaderType'
    BY <1>1, <1>4 DEF LoaderType
  <2>2. ASSUME ~clash PROVE NamesApart' /\ \A e \in Dirs : Told(e)'
    <3>1. NamesApart /\ \A e \in Dirs : Told(e)
      BY <1>1, <2>2 DEF LoaderInv
    <3>2. \A e \in Dirs : Collections!From(e)' = Collections!From(e) /\ (Loaded(e)' <=> Loaded(e))
      BY <1>1, <1>4 DEF Collections!From, Loaded, Loadable, Collections!Ok
    <3>3. NamesApart'
      BY <1>1, <3>1, <3>2 DEF NamesApart
    <3>4. ASSUME NEW e \in Dirs, e \notin unseen PROVE Told(e)'
      <4>1. Loaded(e) /\ \A a, b \in Collections!From(e) : a = b
        BY <1>1, <1>4, <3>1, <3>4 DEF Told, Started
      <4>2. Started(e)' /\ Followed(e)'
        BY <1>1, <1>4, <3>2, <4>1 DEF Started, Followed
      <4>3. ~LastTold(e, "remove")'
        BY <1>1, <1>2 DEF LastTold
      <4> QED BY <1>1, <3>2, <4>1, <4>2, <4>3 DEF Told
    <3> QED BY <1>1, <3>3, <3>4 DEF Told
  <2> QED BY <1>1, <1>4, <2>1, <2>2 DEF LoaderInv
<1> QED BY <1>3, <1>4 DEF Collections!LoadAll

LEMMA WatchKeeps ==
  ASSUME LoaderInv, Collections!WatchForChanges PROVE LoaderInv'
<1>1. /\ phase = "adding" /\ step = Collections!Idle /\ LoaderType
      /\ UNCHANGED <<dirs, toml, executable, events, step, collection, edits, unseen, clash>>
  BY DEF Collections!WatchForChanges, LoaderInv
<1>2. \A e \in Dirs : (Untold(e)' <=> Untold(e)) /\ (Fixes(e)' <=> Fixes(e))
                      /\ \A p : LastTold(e, p)' <=> LastTold(e, p)
  BY <1>1 DEF Untold, Fixes, LastTold
<1>3. \A e \in Dirs : /\ Collections!From(e)' = Collections!From(e)
                      /\ (Loaded(e)' <=> Loaded(e)) /\ (Loadable(e)' <=> Loadable(e))
  BY <1>1 DEF Collections!From, Loaded, Loadable, Collections!Ok
<1>4. ASSUME NEW d \in pending, watched' = watched \cup ({d} \cap dirs), pending' = pending \ {d},
             phase' = phase
      PROVE  LoaderInv'
  <2>1. d \in Dirs /\ LoaderType'
    BY <1>1, <1>4 DEF LoaderType
  <2>2. ASSUME ~clash PROVE NamesApart' /\ Told(d)' /\ \A e \in Dirs \ {d} : Same(e)
    <3>1. NamesApart /\ Told(d)
      BY <1>1, <2>1, <2>2 DEF LoaderInv
    <3>2. NamesApart'
      BY <1>1, <1>3, <3>1 DEF NamesApart
    <3>3. \A e \in Dirs \ {d} : Same(e)
      BY <1>1, <1>2, <1>4 DEF Same
    <3>4. ASSUME d \notin unseen PROVE Told(d)'
      <4>1. Started(d)' /\ Followed(d)'
        BY <1>1, <1>2, <1>3, <1>4, <2>1, <3>1, <3>4 DEF Told, Started, Followed
      <4> QED BY <1>1, <1>2, <1>3, <1>4, <2>1, <3>1, <3>4, <4>1 DEF Told
    <3> QED BY <1>1, <3>2, <3>3, <3>4 DEF Told
  <2> QED BY <1>1, <1>4, <2>1, <2>2, LoadStepKeeps
<1>5. ASSUME pending = {}, phase' = "watching", UNCHANGED <<watched, pending>> PROVE LoaderInv'
  <2>1. LoaderType'
    BY <1>1, <1>5 DEF LoaderType
  <2>2. ASSUME ~clash PROVE NamesApart' /\ \A e \in Dirs : Told(e)'
    <3>1. NamesApart /\ \A e \in Dirs : Told(e)
      BY <1>1, <2>2 DEF LoaderInv
    <3>2. NamesApart'
      BY <1>1, <1>3, <3>1 DEF NamesApart
    <3>3. ASSUME NEW e \in Dirs, e \notin unseen PROVE Told(e)'
      <4>1. e \notin dirs \ watched /\ (Fixes(e) \/ Loaded(e))
        BY <1>1, <1>5, <3>1, <3>3 DEF Told, Started
      <4>2. Untold(e) => Loaded(e)
        BY <4>1, UntoldNotFixed
      <4>3. Started(e)' /\ Followed(e)'
        BY <1>1, <1>2, <1>3, <1>5, <4>1, <4>2 DEF Started, Followed, Loaded
      <4> QED BY <1>1, <1>2, <1>3, <3>1, <3>3, <4>3 DEF Told
    <3> QED BY <1>1, <3>2, <3>3 DEF Told
  <2> QED BY <1>1, <1>5, <2>1, <2>2 DEF LoaderInv
<1> QED BY <1>4, <1>5 DEF Collections!WatchForChanges

\* Shutdown unregisters everything.
LEMMA ShutdownKeeps ==
  ASSUME LoaderInv, Collections!Shutdown PROVE LoaderInv'
<1>1. collection' \in [SkillNames -> LoadedSkills]
  BY DEF Collections!Shutdown, LoadedSkills
<1> QED BY <1>1 DEF Collections!Shutdown, LoaderInv, LoaderType
\* What the goroutine finds when it takes an event.
LEMMA TookGives ==
  ASSUME LoaderInv, NEW o \in {"write", "remove", "create"}, Collections!Took(o), events' = Tail(events),
         NEW d, d = Collections!Subject
  PROVE  /\ phase = "watching" /\ step = Collections!Idle /\ events # <<>> /\ LoaderType
         /\ d \in Dirs /\ events' \in Seq(FsEvents) /\ ~Untold(d)
         /\ Fixes(d) => Fixes(d)' \/ o # "create"
         /\ Untold(d)' => LastTold(d, o)
         /\ \A p \in {"write", "remove", "create"} :
              /\ LastTold(d, p)' => LastTold(d, p)
              /\ LastTold(d, p) => LastTold(d, p)' \/ (Untold(d)' /\ o = p)
         /\ \A e \in Dirs \ {d} :
              /\ (Untold(e)' <=> Untold(e)) /\ (Fixes(e)' <=> Fixes(e))
              /\ \A p \in {"write", "remove", "create"} : LastTold(e, p)' <=> LastTold(e, p)
<1>1. /\ phase = "watching" /\ events # <<>> /\ o = Head(events).op /\ d = Head(events).dir
      /\ LoaderType /\ step.pc = "idle"
  BY DEF Collections!Took, Collections!At, Collections!Subject, LoaderInv
<1>2. step = Collections!Idle
  BY <1>1 DEF LoaderType, Collections!Idle
<1> QED BY <1>1, <1>2, EventTaken

LEMMA ChangedKeeps ==
  ASSUME LoaderInv, Collections!Changed PROVE LoaderInv'
<1>0. PICK d : d = Collections!Subject
  OBVIOUS
<1>1. /\ Collections!Took("write") /\ events' = Tail(events)
      /\ Collections!unregisterSkill(d) /\ step' = [pc |-> "load", dir |-> d]
      /\ UNCHANGED <<dirs, toml, executable, watched, phase, pending, edits, unseen, clash>>
  BY <1>0 DEF Collections!Changed
<1>2. /\ phase = "watching" /\ step = Collections!Idle /\ LoaderType
      /\ d \in Dirs /\ events' \in Seq(FsEvents) /\ ~Untold(d)
      /\ \A p \in {"write", "remove", "create"} :
           /\ LastTold(d, p)' => LastTold(d, p)
           /\ LastTold(d, p) => LastTold(d, p)' \/ p = "write"
      /\ \A e \in Dirs \ {d} :
           /\ (Untold(e)' <=> Untold(e)) /\ (Fixes(e)' <=> Fixes(e))
           /\ \A p \in {"write", "remove", "create"} : LastTold(e, p)' <=> LastTold(e, p)
  BY <1>0, <1>1, TookGives
<1>3. LoaderType'
  BY <1>1, <1>2, UnregisterTyped DEF LoaderType
<1>4. ASSUME ~clash PROVE NamesApart' /\ Told(d)' /\ \A e \in Dirs \ {d} : Same(e)
  <2>1. NamesApart /\ Told(d)
    BY <1>2, <1>4 DEF LoaderInv
  <2>2. NamesApart' /\ \A e \in Dirs \ {d}, n \in SkillNames :
          collection[n].dir = e \/ collection'[n].dir = e => collection'[n] = collection[n]
    BY <1>1, <1>2, <2>1, UnregisterGives
  <2>3. \A e \in Dirs \ {d} : step.dir # e /\ step'.dir # e
    BY <1>1, <1>2, NoneIsNone DEF Collections!Idle
  <2>4. \A e \in Dirs \ {d} : Same(e)
    BY <1>1, <1>2, <2>2, <2>3 DEF Same
  <2>5. ASSUME d \notin unseen PROVE Told(d)'
    <3>1. Collections!From(d)' = {}
      BY <1>1, <1>2, <2>1, <2>5, UnregisterGives DEF Told
    <3>2. d \in dirs \ watched => LastTold(d, "create")
      BY <1>2, <2>1, <2>5 DEF Told, Followed
    <3>3. Started(d)' /\ Followed(d)'
      BY <1>1, <1>2, <3>1, <3>2 DEF Started, Followed, Loadable
    <3> QED BY <1>1, <1>2, <2>1, <2>5, <3>1, <3>3 DEF Told
  <2> QED BY <1>1, <2>2, <2>4, <2>5 DEF Told
<1> QED BY <1>1, <1>2, <1>3, <1>4, LoadStepKeeps

LEMMA RemovedKeeps ==
  ASSUME LoaderInv, Collections!Removed PROVE LoaderInv'
<1>0. PICK d : d = Collections!Subject
  OBVIOUS
<1>1. /\ Collections!Took("remove") /\ events' = Tail(events) /\ Collections!unregisterSkill(d)
      /\ UNCHANGED <<dirs, toml, executable, watched, step, phase, pending, edits, unseen, clash>>
  BY <1>0 DEF Collections!Removed
<1>2. /\ phase = "watching" /\ step = Collections!Idle /\ LoaderType
      /\ d \in Dirs /\ events' \in Seq(FsEvents) /\ ~Untold(d)
      /\ Untold(d)' => LastTold(d, "remove")
      /\ \A p \in {"write", "remove", "create"} :
           /\ LastTold(d, p)' => LastTold(d, p)
           /\ LastTold(d, p) => LastTold(d, p)' \/ p = "remove"
      /\ \A e \in Dirs \ {d} :
           /\ (Untold(e)' <=> Untold(e)) /\ (Fixes(e)' <=> Fixes(e))
           /\ \A p \in {"write", "remove", "create"} : LastTold(e, p)' <=> LastTold(e, p)
  BY <1>0, <1>1, TookGives
<1>3. LoaderType'
  BY <1>1, <1>2, UnregisterTyped DEF LoaderType
<1>4. ASSUME ~clash PROVE NamesApart' /\ Told(d)' /\ \A e \in Dirs \ {d} : Same(e)
  <2>1. NamesApart /\ Told(d)
    BY <1>2, <1>4 DEF LoaderInv
  <2>2. NamesApart' /\ \A e \in Dirs \ {d}, n \in SkillNames :
          collection[n].dir = e \/ collection'[n].dir = e => collection'[n] = collection[n]
    BY <1>1, <1>2, <2>1, UnregisterGives
  <2>3. \A e \in Dirs \ {d} : Same(e)
    BY <1>1, <1>2, <2>2 DEF Same
  <2>4. ASSUME d \notin unseen PROVE Told(d)'
    <3>1. Collections!From(d)' = {}
      BY <1>1, <1>2, <2>1, <2>4, UnregisterGives DEF Told
    <3>2. d \in dirs \ watched => LastTold(d, "create")
      BY <1>2, <2>1, <2>4 DEF Told, Followed
    <3>3. LastTold(d, "remove") => toml[d] = Collections!NoToml /\ toml'[d] = Collections!NoToml
      BY <1>1, <1>2, <2>1, <2>4 DEF Told
    <3>4. Untold(d)' => ~Collections!Ok(d)'
      BY <1>2, <3>3 DEF Collections!Ok, Collections!NoToml
    <3>5. Started(d)' /\ Followed(d)'
      BY <1>1, <1>2, <3>1, <3>2, <3>4 DEF Started, Followed, Loadable, Loaded
    <3> QED BY <1>1, <1>2, <2>4, <3>1, <3>3, <3>5 DEF Told
  <2> QED BY <1>1, <2>2, <2>3, <2>4 DEF Told
<1> QED BY <1>1, <1>2, <1>3, <1>4, LoadStepKeeps

LEMMA CreatedKeeps ==
  ASSUME LoaderInv, Collections!Created PROVE LoaderInv'
<1>0. PICK d : d = Collections!Subject
  OBVIOUS
<1>1. /\ Collections!Took("create") /\ events' = Tail(events)
      /\ step' = IF d \in dirs THEN [pc |-> "add", dir |-> d] ELSE Collections!Idle
      /\ UNCHANGED <<dirs, toml, executable, watched, collection, phase, pending, edits, unseen, clash>>
  BY <1>0 DEF Collections!Created, Collections!Then
<1>2. /\ phase = "watching" /\ step = Collections!Idle /\ LoaderType
      /\ d \in Dirs /\ events' \in Seq(FsEvents) /\ ~Untold(d)
      /\ Fixes(d) => Fixes(d)'
      /\ Untold(d)' => LastTold(d, "create")
      /\ \A p \in {"write", "remove", "create"} :
           /\ LastTold(d, p)' => LastTold(d, p)
           /\ LastTold(d, p) => LastTold(d, p)' \/ (Untold(d)' /\ p = "create")
      /\ \A e \in Dirs \ {d} :
           /\ (Untold(e)' <=> Untold(e)) /\ (Fixes(e)' <=> Fixes(e))
           /\ \A p \in {"write", "remove", "create"} : LastTold(e, p)' <=> LastTold(e, p)
  BY <1>0, <1>1, TookGives
<1>3. LoaderType'
  BY <1>1, <1>2 DEF LoaderType
<1>4. ASSUME ~clash PROVE NamesApart' /\ Told(d)' /\ \A e \in Dirs \ {d} : Same(e)
  <2>1. NamesApart /\ Told(d)
    BY <1>2, <1>4 DEF LoaderInv
  <2>2. \A e \in Dirs : Collections!From(e)' = Collections!From(e)
    BY <1>1 DEF Collections!From
  <2>3. \A e \in Dirs \ {d} : step.dir # e /\ step'.dir # e
    BY <1>1, <1>2, NoneIsNone DEF Collections!Idle
  <2>4. NamesApart' /\ \A e \in Dirs \ {d} : Same(e)
    <3>1. NamesApart'
      BY <1>1, <2>1, <2>2 DEF NamesApart
    <3>2. \A e \in Dirs \ {d} : Same(e)
      BY <1>1, <1>2, <2>3 DEF Same
    <3> QED BY <3>1, <3>2
  <2>5. ASSUME d \notin unseen PROVE Told(d)'
    <3>1. d \in dirs \ watched => LastTold(d, "create")
      BY <1>2, <2>1, <2>5 DEF Told, Followed
    <3>2. Fixes(d) \/ Loadable(d)
      BY <1>2, <2>1, <2>5 DEF Told, Followed
    <3>3. Loadable(d)' <=> Loadable(d)
      BY <1>1, <1>2, <2>2 DEF Loadable, Collections!Ok
    <3>4. Untold(d)' => ~Fixes(d)'
      BY DEF Untold, Fixes
    <3>5. d \notin dirs => ~Collections!Ok(d)' /\ (Loadable(d) => Loaded(d)')
      BY <1>1, <1>2, <3>3 DEF LoaderType, Collections!Ok, Loaded
    <3>6. Untold(d)' /\ step'.dir # d => Loaded(d)'
      BY <1>1, <1>2, <3>2, <3>4, <3>5
    <3>7. Started(d)' /\ Followed(d)'
      BY <1>1, <1>2, <3>1, <3>2, <3>3, <3>6 DEF Started, Followed
    <3> QED BY <1>1, <1>2, <2>1, <2>2, <2>5, <3>7 DEF Told
  <2> QED BY <1>1, <2>4, <2>5 DEF Told
<1> QED BY <1>1, <1>2, <1>3, <1>4, LoadStepKeeps

LEMMA AddKeeps ==
  ASSUME LoaderInv, Collections!Add PROVE LoaderInv'
<1>1. PICK d \in Dirs : step = [pc |-> "add", dir |-> d]
  BY DEF Collections!Add, Collections!At, Collections!Idle, LoaderInv, LoaderType
<1>2. /\ LoaderType /\ step' = [pc |-> "load", dir |-> d] /\ watched' = watched \cup ({d} \cap dirs)
      /\ UNCHANGED <<dirs, toml, executable, events, collection, phase, pending, edits, unseen, clash>>
  BY <1>1 DEF Collections!Add, Collections!Goto, Collections!Then, LoaderInv
<1>3. phase \notin {"loading", "adding"}
  BY <1>1 DEF LoaderInv, Collections!Idle
<1>4. LoaderType'
  BY <1>2 DEF LoaderType
<1>5. ASSUME phase # "stopped", ~clash PROVE NamesApart' /\ Told(d)' /\ \A e \in Dirs \ {d} : Same(e)
  <2>1. NamesApart /\ Told(d)
    BY <1>5 DEF LoaderInv
  <2>2. \A e \in Dirs : /\ Collections!From(e)' = Collections!From(e)
                        /\ (Untold(e)' <=> Untold(e)) /\ (Fixes(e)' <=> Fixes(e))
                        /\ \A p : LastTold(e, p)' <=> LastTold(e, p)
    BY <1>2 DEF Collections!From, Untold, Fixes, LastTold
  <2>3. \A e \in Dirs \ {d} : Same(e)
    BY <1>1, <1>2, <2>2 DEF Same
  <2>4. NamesApart'
    BY <1>2, <2>1, <2>2 DEF NamesApart
  <2>5. ASSUME d \notin unseen PROVE Told(d)'
    <3>1. Loadable(d)' <=> Loadable(d)
      BY <1>2, <2>2 DEF Loadable, Collections!Ok
    <3>2. Started(d)' /\ Followed(d)'
      BY <1>2, <1>3, <2>1, <2>2, <2>5, <3>1 DEF Told, Started, Followed
    <3> QED BY <1>2, <2>1, <2>2, <2>5, <3>2 DEF Told
  <2> QED BY <1>2, <2>3, <2>4, <2>5 DEF Told
<1> QED BY <1>2, <1>3, <1>4, <1>5, LoadStepKeeps

LEMMA LoadKeeps ==
  ASSUME LoaderInv, Collections!Load PROVE LoaderInv'
<1>1. PICK d \in Dirs : step = [pc |-> "load", dir |-> d]
  BY DEF Collections!Load, Collections!At, Collections!Idle, LoaderInv, LoaderType
<1>2. /\ LoaderType /\ step' = Collections!Idle /\ Collections!loadSkill(d)
      /\ unseen' = IF Collections!Ok(d) /\ Collections!From(d) \ {toml[d].name} # {}
                   THEN unseen \cup {d} ELSE unseen
      /\ UNCHANGED <<dirs, toml, executable, watched, events, phase, pending, edits, clash>>
  BY <1>1 DEF Collections!Load, Collections!Goto, Collections!Then, LoaderInv
<1>3. phase \notin {"loading", "adding"}
  BY <1>1 DEF LoaderInv, Collections!Idle
<1>4. LoaderType'
  BY <1>2, LoadGives DEF LoaderType
<1>5. ASSUME phase # "stopped", ~clash PROVE NamesApart' /\ Told(d)' /\ \A e \in Dirs \ {d} : Same(e)
  <2>1. NamesApart /\ Told(d) /\ phase = "watching"
    BY <1>2, <1>3, <1>5 DEF LoaderInv, LoaderType
  <2>2. \A e \in Dirs : /\ (Untold(e)' <=> Untold(e)) /\ (Fixes(e)' <=> Fixes(e))
                        /\ \A p : LastTold(e, p)' <=> LastTold(e, p)
    BY <1>2 DEF Untold, Fixes, LastTold
  <2>3. \A e \in Dirs \ {d} : step.dir # e /\ step'.dir # e
    BY <1>1, <1>2, NoneIsNone DEF Collections!Idle
  <2>4. NamesApart' /\ \A e \in Dirs \ {d} : Same(e)
    BY <1>2, <2>1, <2>2, <2>3, LoadGives DEF Same
  <2>5. ASSUME d \notin unseen' PROVE Told(d)'
    <3>1. d \notin unseen /\ (Collections!Ok(d) => Collections!From(d) \subseteq {toml[d].name})
      BY <1>2, <2>5
    <3>2. d \in dirs \ watched => LastTold(d, "create")
      BY <1>1, <2>1, <3>1 DEF Told, Followed
    <3>3. CASE Collections!Ok(d)
      <4>1. Collections!Ok(d)' /\ Collections!From(d)' = {toml[d].name}
        BY <1>2, <3>1, <3>3, LoadGives DEF Collections!Ok
      <4>2. Loaded(d)'
        BY <1>2, <3>3, <4>1, LoadGives DEF Loaded, Loadable
      <4>3. Started(d)' /\ Followed(d)'
        BY <1>2, <2>1, <2>2, <3>2, <4>2 DEF Started, Followed, Loaded
      <4> QED BY <1>2, <2>1, <2>2, <3>1, <4>1, <4>3 DEF Told
    <3>4. CASE ~Collections!Ok(d)
      <4>1. collection' = collection /\ ~Collections!Ok(d)' /\ Collections!From(d)' = Collections!From(d)
        BY <1>2, <3>4, LoadGives DEF Collections!Ok, Collections!From
      <4>2. (Loadable(d) => Loaded(d)') /\ (Loadable(d)' <=> Loadable(d))
        BY <3>4, <4>1 DEF Loaded, Loadable
      <4>3. Fixes(d) \/ Loadable(d)
        BY <2>1, <3>1 DEF Told, Followed
      <4>4. Untold(d) => ~Fixes(d)
        BY DEF Untold, Fixes
      <4>5. Started(d)' /\ Followed(d)'
        BY <1>2, <2>1, <2>2, <3>2, <4>2, <4>3, <4>4 DEF Started, Followed
      <4> QED BY <1>2, <2>1, <2>2, <3>1, <4>1, <4>5 DEF Told
    <3> QED BY <3>3, <3>4
  <2> QED BY <2>4, <2>5 DEF Told
<1> QED BY <1>2, <1>3, <1>4, <1>5, LoadStepKeeps
-------------------------------------------------------------------------------
LEMMA LoaderStarts == SkillsInit => LoaderInv
<1> SUFFICES ASSUME SkillsInit PROVE LoaderInv
  OBVIOUS
<1>1. Collections!LoaderInit
  BY DEF SkillsInit, NoCollections
<1>2. LoaderType
  <2>0. {TRUE} \subseteq BOOLEAN /\ {0} \subseteq Nat
    OBVIOUS
  <2>1. toml \in [Dirs -> Tomls] /\ \A d \in Dirs : toml[d] # Collections!NoToml => d \in dirs
    BY <1>1, <2>0 DEF Collections!LoaderInit, Tomls
  <2>2. collection \in [SkillNames -> LoadedSkills]
    BY <1>1 DEF Collections!LoaderInit, LoadedSkills
  <2>3. events \in Seq(FsEvents) /\ edits \in Nat
    BY <1>1 DEF Collections!LoaderInit
  <2>4. /\ dirs \subseteq Dirs /\ executable \subseteq dirs /\ watched \subseteq dirs
        /\ pending \subseteq Dirs /\ unseen \subseteq Dirs
    BY <1>1 DEF Collections!LoaderInit
  <2>5. step = Collections!Idle /\ phase = "loading" /\ clash = FALSE
    BY <1>1 DEF Collections!LoaderInit
  <2> QED BY <2>1, <2>2, <2>3, <2>4, <2>5 DEF LoaderType
<1>3. \A d \in Dirs : Collections!From(d) = {}
  BY <1>1, NoneIsNone DEF Collections!LoaderInit, Collections!From, Collections!NoSkill
<1>4. NamesApart
  BY <1>1, <1>3 DEF Collections!LoaderInit, NamesApart
<1>5. ASSUME NEW d \in Dirs PROVE Told(d)
  <2>1. d \notin pending => ~Collections!Ok(d)
    BY <1>1, <1>2, NoTomlIsNotOk DEF Collections!LoaderInit, LoaderType
  <2>2. Started(d) /\ Followed(d)
    BY <1>1, <1>3, <2>1 DEF Collections!LoaderInit, Started, Followed, Loaded, Loadable
  <2> QED BY <1>1, <1>3, <2>2 DEF Collections!LoaderInit, Told
<1> QED BY <1>1, <1>2, <1>4, <1>5 DEF Collections!LoaderInit, LoaderInv

LEMMA LoaderStutters ==
  ASSUME LoaderInv, UNCHANGED collectionVars PROVE LoaderInv'
BY DEF collectionVars, LoaderInv, LoaderType, NamesApart, Told, Started, Followed, Loaded, Loadable,
       LastTold, Untold, Fixes, Collections!From, Collections!Ok

LEMMA LoaderInvKept ==
  LoaderInv /\ [ExtensionHalf \/ CollectionHalf]_<<half, vars, collectionVars>> => LoaderInv'
<1> SUFFICES ASSUME LoaderInv, [ExtensionHalf \/ CollectionHalf]_<<half, vars, collectionVars>>
             PROVE  LoaderInv'
  OBVIOUS
<1>1. CASE UNCHANGED collectionVars
  BY <1>1, LoaderStutters
<1>2. CASE Collections!LoaderNext
  <2>1. ASSUME NEW d \in Dirs, Collections!WriteToml(d) PROVE LoaderInv'
    BY <2>1, WriteKeeps
  <2>2. ASSUME NEW d \in Dirs, Collections!RemoveToml(d) PROVE LoaderInv'
    BY <2>2, RemoveKeeps
  <2>3. ASSUME NEW d \in Dirs, Collections!MoveToml(d) PROVE LoaderInv'
    BY <2>3, TomlMoveKeeps
  <2>4. ASSUME NEW d \in Dirs, Collections!PutCommand(d) PROVE LoaderInv'
    BY <2>4, CommandKeeps
  <2>5. ASSUME NEW d \in Dirs, Collections!MakeDir(d) PROVE LoaderInv'
    BY <2>5, MakeKeeps
  <2>6. ASSUME NEW d \in Dirs, Collections!RemoveDir(d) PROVE LoaderInv'
    BY <2>6, UnmakeKeeps
  <2> QED BY <1>2, <2>1, <2>2, <2>3, <2>4, <2>5, <2>6, LoadAllKeeps, WatchKeeps, ChangedKeeps,
             RemovedKeeps, CreatedKeeps, AddKeeps, LoadKeeps, ShutdownKeeps DEF Collections!LoaderNext
<1> QED BY <1>1, <1>2 DEF ExtensionHalf, CollectionHalf

\* Once the events have been worked off, exactly the skills of the files can be called,
\* whatever the user did to them, except where nothing told of a change or names clash.
THEOREM SkillsAreThoseOfTheFiles == SkillsSpec => []SettledIsLoaded
<1>1. LoaderInv => SettledIsLoaded
  <2> SUFFICES ASSUME LoaderInv, phase = "watching", events = <<>>, step.pc = "idle", ~clash,
                      NEW d \in Dirs \ unseen, NEW n \in SkillNames
               PROVE  IF Collections!Ok(d) /\ toml[d].name = n
                      THEN collection[n] = [dir |-> d, contents |-> toml[d].contents]
                      ELSE collection[n].dir # d
    BY DEF SettledIsLoaded, Collections!SettledIsLoaded, Collections!At
  <2>1. Untold(d) /\ step = Collections!Idle /\ Told(d)
    BY DEF LoaderInv, LoaderType, Untold, Collections!Idle
  <2>2. Loaded(d)
    BY <2>1, NoneIsNone DEF Told, Followed, Collections!Idle
  <2> QED BY <2>2 DEF Loaded, Loadable, Collections!From
<1> QED BY <1>1, LoaderStarts, LoaderInvKept, PTL DEF SkillsSpec
===============================================================================
