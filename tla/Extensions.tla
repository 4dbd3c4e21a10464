------------------------------ MODULE Extensions ------------------------------
(***************************************************************************)
(* Runtime extensions: the registry of internal/extension/extension.go with *)
(* its file, the calls of internal/extension/skills.go that add, remove and *)
(* configure one, and what a process makes of the registry when it starts. *)
(* Two kinds of process run this code: the daemon, whose Manager holds the *)
(* servers (mode "api"), and the skills server that the Claude CLI starts for a *)
(* chat, with a hot-reloader and no Manager (mode "cli").  The registry's lock *)
(* covers one operation on it, and calls run at the same time: the model   *)
(* context protocol's server answers each in a goroutine of its own.       *)
(*                                                                         *)
(* An extension is its kind and whether its environment refers to a value of *)
(* the credential store.  What an add refuses before it changes anything (a *)
(* name of config.toml, an http server without an image) is not a call here. *)
(***************************************************************************)
EXTENDS McpClients

CONSTANTS
  Callers,     \* calls of a skill that may be under way at the same time
  Kinds,       \* what is added: "stdio" and "http" servers, "exec" skills, "prompt" files
  Defaults,    \* the kinds of the extensions the program installs, by name
  MaxCalls,    \* bound: calls
  MaxTroubles, \* bound: connections refused, writes failed, processes that end by themselves
  MaxRetries   \* connects in the background for an http server that was not there

Loaders == Names  \* the connect of each extension at start
Ops == Callers \cup Loaders

ASSUME ExtensionsAssumption ==
  /\ {MaxCalls, MaxTroubles, MaxRetries} \subseteq Nat
  /\ DOMAIN Defaults \subseteq Names
  /\ Kinds \cup {Defaults[x] : x \in DOMAIN Defaults} \subseteq {"stdio", "http", "exec", "prompt"}
  /\ Callers \cap Loaders = {} /\ Free \notin Ops

VARIABLES
  mode,     \* "api" or "cli"
  proc,     \* the process: "down", "loading", "serving" or "closing"
  reg,      \* Registry.extensions
  disk,     \* extensions.json
  creds,    \* credentials.enc as last written: which value of an extension's variable, 0 for none
  torn,     \* a later write has left that file cut short: nothing can be read of it
  skills,   \* the exec skills of the skill registry
  op,       \* the calls and connects under way
  reload,   \* .curlycatclaw-reload-needed
  budgets,  \* calls and troubles so far
  raced,    \* history: names on which two operations overlapped
  waived,   \* history: names whose loss is the code's known doing
  unasked   \* history: names for which this process failed to set the reload flag

regVars == <<reg, disk>>
credVars == <<creds, torn>>
noteVars == <<raced, waived, unasked>>
vars == <<clientVars, mode, proc, regVars, credVars, skills, op, reload, budgets, noteVars>>

Off == [pc |-> "off", call |-> "none", x |-> "none", kind |-> "none", env |-> 0,
        conn |-> NoConn, old |-> NoConn, todo |-> {}, snap |-> [x \in Names |-> 0], tries |-> 0]
None == [kind |-> "none", env |-> FALSE]
Mcp == {"stdio", "http"}

\* What earlier processes have left: with an extension's reference, its value.

Entry(kind) == [kind |-> kind, env |-> FALSE]
Left(x) ==
  IF x \in DOMAIN Defaults THEN {Entry(Defaults[x])} \cup (IF mode = "api" THEN {None} ELSE {})
  ELSE {None} \cup {Entry(kind) : kind \in Kinds} \cup [kind : Kinds \cap {"stdio"}, env : {TRUE}]

Init ==
  /\ ClientsInit
  /\ mode \in {"api", "cli"} /\ proc = "down"
  /\ disk \in {f \in [Names -> UNION {Left(x) : x \in Names}] : \A x \in Names : f[x] \in Left(x)}
  /\ reg = disk /\ torn = FALSE
  /\ creds = [x \in Names |-> IF disk[x].env THEN MaxCalls + 1 ELSE 0]
  /\ skills = {} /\ op = [w \in Ops |-> Off] /\ reload = FALSE
  /\ budgets = [calls |-> 0, troubles |-> 0]
  /\ raced = {} /\ waived = {} /\ unasked = {}

Spend(b) == budgets' = [budgets EXCEPT ![b] = @ + 1]
Trouble == budgets.troubles < MaxTroubles /\ Spend("troubles")
NoTrouble == UNCHANGED budgets
At(w, pc) == op[w].pc = pc
Goto(w, pc) == op' = [op EXCEPT ![w].pc = pc]
Return(w) == op' = [op EXCEPT ![w] = Off]
Named(w) == op[w].x
Quiet(x) == proc = "serving" /\ \A w \in Ops : op[w].x # x

-------------------------------------------------------------------------------
\* The registry.  An operation writes the whole map to a new file and renames it;
\* when that fails the map is put back.

Persists(r) == reg' = r /\ disk' = r
Has(x) == reg[x] # None

Add(x, e) == ~Has(x) /\ Persists([reg EXCEPT ![x] = e])
Remove(x) == Has(x) /\ Persists([reg EXCEPT ![x] = None])
Update(x, ref) == Has(x) /\ Persists([reg EXCEPT ![x].env = ref])

\* Operation A on x has gone through, or it has not: no such name, a name taken,
\* or a write that failed.

Through(A) == A /\ NoTrouble
Refused(may) == UNCHANGED regVars /\ (IF may THEN Trouble ELSE NoTrouble)

-------------------------------------------------------------------------------
\* The start of a process.  Both kinds read the registry, register its exec skills and
\* connect its servers, the daemon one after the other, the skills server all at once.
\* The daemon installs the extensions that are missing, as far as it gets their files:
\* over the others, when the file could not be read and its registry is empty.  A skills
\* server goes without extensions then, as one that is down here does.

EnsureDefaults(r, got) ==
  [x \in Names |-> IF x \in got /\ r[x] = None THEN Entry(Defaults[x]) ELSE r[x]]

Boot ==
  /\ proc = "down" /\ proc' = "loading"
  /\ \E got \in SUBSET {x \in DOMAIN Defaults : mode = "api"}, read \in BOOLEAN :
       LET r == IF read THEN disk ELSE [x \in Names |-> None] IN
       /\ IF read THEN NoTrouble ELSE mode = "api" /\ Trouble
       /\ reg' = EnsureDefaults(r, got) /\ disk' = IF reg' = r THEN disk ELSE reg'
  /\ skills' = {x \in Names : reg'[x].kind = "exec"}
  /\ op' = [w \in Ops |-> IF w \in Loaders /\ reg'[w].kind \in Mcp
      THEN [Off EXCEPT !.pc = IF mode = "api" THEN "reserve" ELSE "resolve",
                       !.call = "load", !.x = w, !.kind = reg'[w].kind, !.tries = MaxRetries]
      ELSE Off]
  /\ UNCHANGED <<clientVars, mode, credVars, reload, noteVars>>

Loading == \E w \in Loaders : op[w].pc \notin {"off", "retry"}

Serve ==
  /\ proc = "loading" /\ ~Loading /\ proc' = "serving"
  /\ UNCHANGED <<clientVars, mode, regVars, credVars, skills, op, reload, budgets, noteVars>>

\* retryHTTPExtensions: one after the other, with the entry read at start.

Retry(w) ==
  /\ At(w, "retry") /\ proc = "serving" /\ ~Loading
  /\ op' = [op EXCEPT ![w].pc = "resolve", ![w].tries = @ - 1]
  /\ UNCHANGED <<clientVars, mode, proc, regVars, credVars, skills, reload, budgets, noteVars>>

\* A message finds the reload flag and has the CLI started anew, and with it the
\* skills server; or the process crashes.  That may cut a write of the credentials
\* short: it is made in place.

Writing(w) == op[w].pc \in {"credSet", "credDelete"}

ProcessEnds ==
  /\ proc # "down" /\ proc' = "down"
  /\ EndOfProcess /\ skills' = {} /\ op' = [w \in Ops |-> Off] /\ unasked' = {}
  /\ torn' = torn \/ (torn' = TRUE /\ \E w \in Ops : Writing(w))
  /\ UNCHANGED <<mode, regVars, creds, raced, waived>>

Respawn ==
  /\ mode = "cli" /\ reload /\ reload' = FALSE
  /\ ProcessEnds /\ UNCHANGED budgets

Crash ==
  /\ Trouble
  /\ ProcessEnds /\ UNCHANGED reload

\* The daemon stops: calls that wait for a server's start go on.

Stop ==
  /\ mode = "api" /\ proc = "serving" /\ proc' = "closing"
  /\ Trouble
  /\ Shutdown
  /\ UNCHANGED <<mode, regVars, credVars, skills, op, reload, noteVars>>

-------------------------------------------------------------------------------
\* The calls.  The name of an extension and what else a call reads of its entry when
\* it begins is what it goes by until it ends.

EnvCalls == {"set", "unset"}
Overlap(w, call, x) ==
  {y \in Names : \E v \in Ops \ {w} : op[v] # Off /\
    \/ op[v].x = x /\ y = x
    \/ op[v].call \in EnvCalls /\ call \in EnvCalls /\ y \in {x, op[v].x}}

Begin(w, call, x, kind, pc) ==
  /\ proc = "serving" /\ w \in Callers /\ op[w] = Off
  /\ budgets.calls < MaxCalls /\ Spend("calls")
  /\ op' = [op EXCEPT ![w] = [Off EXCEPT !.pc = pc, !.call = call, !.x = x, !.kind = kind]]
  /\ raced' = raced \cup Overlap(w, call, x)
  /\ UNCHANGED <<clientVars, mode, proc, regVars, credVars, skills, reload, unasked>>

\* add_extension.  The daemon starts the server and then persists, the skills server
\* the other way round; an exec skill is registered first.

AddExtension(w, x, kind) ==
  /\ Begin(w, "add", x, kind, CASE kind = "exec" -> "register"
                                [] kind = "prompt" -> "persist"
                                [] OTHER -> IF mode = "api" THEN "reserve" ELSE "persist")
  /\ waived' = waived \cup (IF kind = "exec" /\ reg[x].kind = "exec" THEN {x} ELSE {})

\* remove_extension finds the extension, and that it is not one of the program's own.

RemoveExtension(w, x) ==
  /\ Has(x) /\ x \notin DOMAIN Defaults
  /\ Begin(w, "remove", x, reg[x].kind, "unpersist")
  /\ UNCHANGED waived

SetExtensionEnv(w, x) ==
  Has(x) /\ Begin(w, "set", x, reg[x].kind, "credRead") /\ UNCHANGED waived
UnsetExtensionEnv(w, x) ==
  Has(x) /\ Begin(w, "unset", x, reg[x].kind, "update") /\ UNCHANGED waived

-------------------------------------------------------------------------------
\* AddServer, step by step.  An http server that does not answer, or whose name
\* is taken, is persisted all the same, whatever comes of that.  A stdio server is
\* started under the context it is given, which for a call ends when the call does,
\* and the server with it, although the Manager goes on listing its tools.

Unconnected(w) ==
  IF op[w].call = "add" /\ op[w].kind = "http" THEN Goto(w, "persistAnyway") ELSE Return(w)

Called(w) == mode = "api" /\ op[w].call = "add" /\ op[w].kind = "stdio"
Finish(w) == IF Called(w) THEN Goto(w, "return") ELSE Return(w)

CallReturns(w) ==
  /\ At(w, "return") /\ Return(w)
  /\ Close({c \in DOMAIN conns : conns[c].of = Named(w) /\ conns[c].by = w})
  /\ UNCHANGED <<servers, tracked, served, mode, proc, regVars, credVars, skills, reload, budgets, noteVars>>

AddServer(w) ==
  /\ At(w, "reserve") /\ LET x == Named(w) IN
       IF servers[x] = Absent THEN Reserve(x) /\ Goto(w, "connect")
       ELSE Unconnected(w) /\ UNCHANGED clientVars
  /\ UNCHANGED <<mode, proc, regVars, credVars, skills, reload, budgets, noteVars>>

StartServer(w) ==
  /\ At(w, "connect")
  /\ \/ /\ Connects(Named(w), 0, {}, IF Called(w) THEN w ELSE Free)
        /\ UNCHANGED <<servers, tracked, served>>
        /\ op' = [op EXCEPT ![w].pc = "store", ![w].conn = Len(conns) + 1]
        /\ NoTrouble
     \/ Goto(w, "unreserve") /\ Trouble /\ UNCHANGED clientVars
  /\ UNCHANGED <<mode, proc, regVars, credVars, skills, reload, noteVars>>

ServerStarted(w) ==
  /\ At(w, "store") /\ StoreServer(Named(w), op[w].conn)
  /\ IF op[w].call = "load" THEN Return(w)
     ELSE op' = [op EXCEPT ![w].pc = "persist", ![w].conn = NoConn]
  /\ UNCHANGED <<mode, proc, regVars, credVars, skills, reload, budgets, noteVars>>

StartFailed(w) ==
  /\ At(w, "unreserve") /\ Unreserve(Named(w)) /\ Unconnected(w)
  /\ UNCHANGED <<mode, proc, regVars, credVars, skills, reload, budgets, noteVars>>

-------------------------------------------------------------------------------
\* The registry's part of an add, and what is taken back when it fails.

Persist(w) ==
  /\ At(w, "persist") /\ LET x == Named(w) kind == op[w].kind IN
       \/ /\ Through(Add(x, Entry(kind)))
          /\ CASE kind \notin Mcp -> Return(w)
               [] kind \in Mcp -> Goto(w, IF mode = "api" THEN "reload" ELSE "resolve")
       \/ /\ Refused(~Has(x))
          /\ IF kind = "exec" THEN Goto(w, "unregister")
             ELSE IF kind \in Mcp /\ mode = "api" THEN Goto(w, "removeServer") ELSE Return(w)
  /\ UNCHANGED <<clientVars, mode, proc, credVars, skills, reload, noteVars>>

PersistAnyway(w) ==
  /\ At(w, "persistAnyway") /\ LET x == Named(w) IN
       Through(Add(x, Entry(op[w].kind))) \/ Refused(~Has(x))
  /\ Return(w)
  /\ UNCHANGED <<clientVars, mode, proc, credVars, skills, reload, noteVars>>

Register(w) ==
  /\ At(w, "register") /\ skills' = skills \cup {Named(w)} /\ Goto(w, "persist")
  /\ UNCHANGED <<clientVars, mode, proc, regVars, credVars, reload, budgets, noteVars>>

Unregister(w) ==
  /\ At(w, "unregister") /\ skills' = skills \ {Named(w)} /\ Return(w)
  /\ UNCHANGED <<clientVars, mode, proc, regVars, credVars, reload, budgets, noteVars>>

-------------------------------------------------------------------------------
\* remove_extension: first the file, then what runs, by the kind read when it began.

Unpersist(w) ==
  /\ At(w, "unpersist") /\ LET x == Named(w) kind == op[w].kind IN
       \/ /\ Through(Remove(x))
          /\ CASE kind = "exec" -> Goto(w, "unregister")
               [] kind \in Mcp -> Goto(w, IF mode = "api" THEN "removeServer" ELSE "take")
               [] OTHER -> Return(w)
       \/ Refused(Has(x)) /\ Return(w)
  /\ UNCHANGED <<clientVars, mode, proc, credVars, skills, reload, noteVars>>

StopServer(w) ==
  /\ At(w, "removeServer") /\ RemoveServer(Named(w))
  /\ IF op[w].call = "remove" THEN Goto(w, "reload") ELSE Finish(w)
  /\ UNCHANGED <<mode, proc, regVars, credVars, skills, reload, budgets, noteVars>>

\* DisconnectAndUnregister

Disconnect(w) ==
  /\ At(w, "take") /\ Track(Named(w), NoConn)
  /\ op' = [op EXCEPT ![w].pc = "removeTools", ![w].old = tracked[Named(w)]]
  /\ UNCHANGED <<mode, proc, regVars, credVars, skills, reload, budgets, noteVars>>

-------------------------------------------------------------------------------
\* set_extension_env and unset_extension_env.  The credential store reads its file
\* and writes it again, in place and without a lock: who reads it meanwhile may find
\* it cut short, and a write that fails may leave it so.  A set stores the value
\* before the entry refers to it, an unset has the entry forget it before it deletes it.

Cut(w) == torn \/ \E v \in Ops \ {w} : Writing(v)
CredsWrite(c) == creds' = c /\ torn' = FALSE /\ NoTrouble
CredsFail == UNCHANGED creds /\ torn' \in {torn, TRUE} /\ Trouble

\* What follows the attempt to delete a value, whatever comes of it.
Dropped(w) == IF op[w].call = "set" THEN Return(w) ELSE Goto(w, "resolve")

CredRead(w) ==
  /\ op[w].pc \in {"credRead", "dropRead"}
  /\ \/ /\ ~torn /\ NoTrouble
        /\ IF At(w, "dropRead") /\ creds[Named(w)] = 0 THEN Dropped(w)
           ELSE op' = [op EXCEPT ![w].pc = IF @ = "credRead" THEN "credSet" ELSE "credDelete", ![w].snap = creds]
     \/ /\ (Cut(w) /\ NoTrouble) \/ Trouble
        /\ IF At(w, "credRead") THEN Return(w) ELSE Dropped(w)
  /\ UNCHANGED <<clientVars, mode, proc, regVars, credVars, skills, reload, noteVars>>

CredSet(w) ==
  /\ At(w, "credSet")
  /\ \/ CredsWrite([op[w].snap EXCEPT ![Named(w)] = budgets.calls]) /\ Goto(w, "update")
     \/ CredsFail /\ Return(w)
  /\ UNCHANGED <<clientVars, mode, proc, regVars, skills, reload, noteVars>>

UpdateEntry(w) ==
  /\ At(w, "update") /\ LET x == Named(w) set == op[w].call = "set" IN
       \/ /\ Through(Update(x, set)) /\ UNCHANGED waived
          /\ Goto(w, IF set THEN "resolve" ELSE "dropRead")
       \/ /\ Refused(Has(x))
          /\ IF set THEN Goto(w, "dropRead") ELSE Return(w)
          /\ waived' = waived \cup (IF set /\ reg[x].env THEN {x} ELSE {})
  /\ UNCHANGED <<clientVars, mode, proc, credVars, skills, reload, raced, unasked>>

CredDelete(w) ==
  /\ At(w, "credDelete") /\ Dropped(w)
  /\ CredsWrite([op[w].snap EXCEPT ![Named(w)] = 0]) \/ CredsFail
  /\ UNCHANGED <<clientVars, mode, proc, regVars, skills, reload, noteVars>>

\* Without the flag the CLI goes on with the tools it has.  Whether it could be set
\* is not looked at.

RequestReload(w) ==
  /\ op[w].pc \in {"reload", "reloadAndStart"}
  /\ \/ reload' = TRUE /\ NoTrouble /\ UNCHANGED unasked
     \/ Trouble /\ UNCHANGED reload /\ unasked' = unasked \cup {Named(w)}
  /\ IF At(w, "reload") THEN Finish(w) ELSE Goto(w, "autoStart")
  /\ UNCHANGED <<clientVars, mode, proc, regVars, credVars, skills, raced, waived>>

-------------------------------------------------------------------------------
\* ConnectAndRegister.  The values of a stdio server's environment are looked up,
\* then the server is started; an http server gets none of them.

\* Mutant: a server that cannot be connected with its new value is left as it is
NotConnectedQuiet(w) ==
  CASE op[w].call = "add" -> Goto(w, IF op[w].kind = "http" THEN "reloadAndStart" ELSE "reload")
    [] op[w].call = "load" /\ op[w].kind = "http" /\ op[w].tries > 0 -> Goto(w, "retry")
    [] OTHER -> Return(w)
NotConnected(w) ==
  CASE op[w].call = "add" -> Goto(w, IF op[w].kind = "http" THEN "reloadAndStart" ELSE "reload")
    [] op[w].call \in EnvCalls -> Goto(w, "reload")
    [] op[w].call = "load" /\ op[w].kind = "http" /\ op[w].tries > 0 -> Goto(w, "retry")
    [] OTHER -> Return(w)

ResolveEnv(w) ==
  LET x == Named(w)
      ref == op[w].call \notin {"add", "again"} /\ op[w].kind = "stdio" /\ reg[x].env
  IN \/ ref /\ (creds[x] = 0 \/ Cut(w)) /\ NotConnected(w)
     \/ /\ ref => creds[x] # 0 /\ ~torn
        /\ op' = [op EXCEPT ![w].pc = "dial", ![w].env = IF ref THEN creds[x] ELSE 0]

\* hotReloadEnvChange, for a call that has changed a variable: only a server is
\* connected anew, and only the hot-reloader does that.

EnvChange(w) ==
  IF op[w].kind \notin Mcp THEN Return(w)
  ELSE IF mode = "cli" /\ Has(Named(w)) THEN ResolveEnv(w) ELSE Goto(w, "reload")

Resolve(w) ==
  /\ At(w, "resolve")
  /\ IF op[w].call \in EnvCalls THEN EnvChange(w) ELSE ResolveEnv(w)
  /\ UNCHANGED <<clientVars, mode, proc, regVars, credVars, skills, reload, budgets, noteVars>>

Dial(w) ==
  /\ At(w, "dial")
  /\ \/ \E T \in SUBSET Tools \ {{}} :
          /\ Connects(Named(w), op[w].env, T, Free) /\ UNCHANGED <<servers, tracked, served>>
          /\ op' = [op EXCEPT ![w].pc = "offer", ![w].conn = Len(conns) + 1, ![w].todo = T]
          /\ NoTrouble
     \/ NotConnected(w) /\ Trouble /\ UNCHANGED clientVars
  /\ UNCHANGED <<mode, proc, regVars, credVars, skills, reload, noteVars>>

Offer(w) ==
  /\ At(w, "offer") /\ \E t \in op[w].todo :
       /\ RegisterProxyTool(Named(w), t, op[w].conn)
       /\ op' = [op EXCEPT ![w].todo = @ \ {t}, ![w].pc = IF op[w].todo = {t} THEN "swap" ELSE @]
  /\ UNCHANGED <<mode, proc, regVars, credVars, skills, reload, budgets, noteVars>>

\* Mutant: the connection that was there is forgotten
SwapForgets(w) ==
  /\ At(w, "swap") /\ Track(Named(w), op[w].conn)
  /\ op' = [op EXCEPT ![w].pc = "removeStale"]
  /\ UNCHANGED <<mode, proc, regVars, credVars, skills, reload, budgets, noteVars>>
Swap(w) ==
  /\ At(w, "swap") /\ Track(Named(w), op[w].conn)
  /\ op' = [op EXCEPT ![w].pc = "removeStale", ![w].old = tracked[Named(w)]]
  /\ UNCHANGED <<mode, proc, regVars, credVars, skills, reload, budgets, noteVars>>

\* Mutant: tools that the new connection offers too are taken away
RemoveReplaced(w) ==
  /\ op[w].pc \in {"removeStale", "removeTools"}
  /\ RemoveTools(Named(w), Offers(op[w].old))
  /\ Goto(w, "closeOld")
  /\ UNCHANGED <<mode, proc, regVars, credVars, skills, reload, budgets, noteVars>>
RemoveStale(w) ==
  /\ op[w].pc \in {"removeStale", "removeTools"}
  /\ RemoveTools(Named(w), Offers(op[w].old) \ Offers(op[w].conn))
  /\ Goto(w, "closeOld")
  /\ UNCHANGED <<mode, proc, regVars, credVars, skills, reload, budgets, noteVars>>

\* The stdio connects of a start throw the old connection's closer away.

CloseReplaced(w) ==
  /\ At(w, "closeOld")
  /\ IF op[w].call = "load" /\ op[w].kind = "stdio" THEN UNCHANGED clientVars ELSE CloseOld(op[w].old)
  /\ IF op[w].call = "add" THEN op' = [op EXCEPT ![w] = [Off EXCEPT !.pc = "reload", !.call = "add", !.x = op[w].x]]
     ELSE Return(w)
  /\ UNCHANGED <<mode, proc, regVars, credVars, skills, reload, budgets, noteVars>>

\* enhanceHTTPResult: with an updater beside it, the skills server has the container
\* of an http extension started and connects once more.

AutoStart(w) ==
  /\ At(w, "autoStart")
  /\ \/ op' = [op EXCEPT ![w].pc = "resolve", ![w].call = "again"]
     \/ Return(w)
  /\ UNCHANGED <<clientVars, mode, proc, regVars, credVars, skills, reload, budgets, noteVars>>

-------------------------------------------------------------------------------
Call(w) ==
  \/ \E x \in Names :
       \/ \E kind \in Kinds : AddExtension(w, x, kind)
       \/ RemoveExtension(w, x) \/ SetExtensionEnv(w, x) \/ UnsetExtensionEnv(w, x)

ApiStep(w) ==
  \/ AddServer(w) \/ StartServer(w) \/ ServerStarted(w) \/ StartFailed(w) \/ StopServer(w) \/ PersistAnyway(w)
  \/ CallReturns(w)
RegistryStep(w) == Persist(w) \/ Unpersist(w) \/ UpdateEntry(w) \/ Register(w) \/ Unregister(w)
EnvStep(w) == CredRead(w) \/ CredSet(w) \/ CredDelete(w)
ReloaderStep(w) ==
  \/ Resolve(w) \/ Dial(w) \/ Offer(w) \/ Swap(w) \/ RemoveStale(w) \/ CloseReplaced(w)
  \/ Disconnect(w) \/ AutoStart(w) \/ RequestReload(w) \/ Retry(w)

Next ==
  \/ Boot \/ Serve \/ Respawn \/ Crash \/ Stop
  \/ \E w \in Ops : Call(w) \/ ApiStep(w) \/ RegistryStep(w) \/ EnvStep(w) \/ ReloaderStep(w)

Spec == Init /\ [][Next]_vars

-------------------------------------------------------------------------------
TypeOK ==
  /\ mode \in {"api", "cli"} /\ proc \in {"down", "loading", "serving", "closing"}
  /\ \A x \in Names : /\ reg[x].kind \in Mcp \cup {"exec", "prompt", "none"} /\ reg[x].env \in BOOLEAN
                       /\ tracked[x] \in 0..Len(conns) /\ creds[x] \in 0..(MaxCalls + 1)
  /\ skills \subseteq Names /\ {reload, torn} \subseteq BOOLEAN /\ raced \cup waived \cup unasked \subseteq Names
  /\ \A w \in Ops : op[w].x \in Names \cup {"none"} /\ op[w].conn \in 0..Len(conns)

\* However the calls interleave, an open connection to a server is never lost: the
\* Manager or the hot-reloader has it, or a call that is still under way.  Otherwise
\* nothing would close it, and the server would run beside its successor (the swap
\* under the lock, mcp_server.go:743-748; the reservation, manager.go:328-338).

NoSessionLost ==
  proc # "closing" =>
    \A c \in DOMAIN conns : conns[c].open =>
      \/ \E x \in Names : c \in {tracked[x], servers[x]}
      \/ \E w \in Ops : c \in {op[w].conn, op[w].old}

\* What the Manager or the hot-reloader holds runs, however the calls overlap, but for
\* a stdio server that a call has started in the daemon: it ends when the call returns
\* (manager.go:146, actor.go:1529-1534), and its tools are listed on.  When nothing is
\* under way for an extension, what runs is what the registry says: the tools that are
\* offered are those of its one connection, and nothing is left of an extension that was
\* removed, or whose add failed half-way.  This second part leaves out a name on which
\* calls have overlapped (raced), and the two losses of the findings (waived).

RunsWhatIsRegistered ==
  /\ \A x \in Names :
       /\ HasServer(x) => Open(servers[x]) \/ conns[servers[x]].by # Free
       /\ tracked[x] # NoConn => Open(tracked[x])
  /\ \A x \in Names \ (raced \cup waived) : Quiet(x) =>
       /\ x \in skills <=> reg[x].kind = "exec"
       /\ HasServer(x) \/ tracked[x] # NoConn => reg[x].kind \in Mcp
       /\ \A t \in Tools : served[x][t] = IF t \in Offers(tracked[x]) THEN tracked[x] ELSE NoConn

\* The variables of an extension.  Its entry never refers to a value that the
\* credential store has not got (skills.go:707-709), whichever of the two writes fails or
\* the process ends between them, unless the store's file has been cut short, which
\* takes every value with it; and a value that was set reaches the server: its
\* connection was made with it, or the next message has everything connected anew,
\* unless the flag that asks for that could not be set.  Names on which calls have
\* overlapped, those about variables of any extension included, are left out (raced),
\* and so is the rollback of the findings (waived).

EnvReachesServer ==
  \A x \in Names \ (raced \cup waived) :
    /\ disk[x].env => torn \/ creds[x] # 0
    /\ mode = "cli" /\ Quiet(x) /\ reg[x].kind = "stdio" /\ tracked[x] # NoConn =>
         reload \/ x \in unasked \/ conns[tracked[x]].env = (IF reg[x].env THEN creds[x] ELSE 0)

\* "New session connects before old one closes, so tools never disappear"
\* (CHANGELOG.md:690).  Violated: two calls that change variables of one extension
\* at a time leave a tool with a connection that one of them has closed.

ToolsStayLive ==
  \A x \in Names : Quiet(x) =>
    \A t \in Tools : served[x][t] # NoConn => Open(served[x][t])
===============================================================================
