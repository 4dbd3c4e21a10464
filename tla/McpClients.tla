------------------------------ MODULE McpClients ------------------------------
(***************************************************************************)
(* The connections to MCP servers, and the two places that keep them: the  *)
(* Manager of internal/mcp/manager.go in the daemon, and the mcpHotReloader of *)
(* cmd/curlycatclaw/mcp_server.go in the skills server of a CLI subprocess,*)
(* which offers the tools of each connection as tools of its own.  This    *)
(* module gives their operations step by step, a step being what happens   *)
(* under one lock; Extensions has the calls that take the steps.           *)
(*                                                                         *)
(* A connection is its place in conns.  What a server answers, how a result is *)
(* formatted and which environment a child process inherits are left out.  *)
(***************************************************************************)
EXTENDS Integers, Sequences, FiniteSets

CONSTANTS
  Names,    \* names of servers that config.toml does not declare
  Tools,    \* names of tools a server may offer
  MaxConns  \* bound: connections made

ASSUME McpClientsAssumption == MaxConns \in Nat

VARIABLES
  conns,    \* the connections made, open or closed
  servers,  \* Manager.servers
  tracked,  \* mcpHotReloader.sessions; .tools are those of the connection
  served    \* the proxied tools of the skills server, each with its connection

clientVars == <<conns, servers, tracked, served>>

NoConn == 0
Absent == NoConn
Reserved == -1  \* a nil entry: AddServer is starting the server

ClientsInit ==
  /\ conns = <<>>
  /\ servers = [x \in Names |-> Absent]
  /\ tracked = [x \in Names |-> NoConn]
  /\ served = [x \in Names |-> [t \in Tools |-> NoConn]]

-------------------------------------------------------------------------------
\* A connection.  Each is made to one server, with the values its environment had
\* then, and offers the tools the server lists then; the Manager takes one that
\* lists none.  The process of a stdio server ends with the context it was started
\* under, which may be that of a call.

Open(c) == c # NoConn /\ conns[c].open
Offers(c) == IF c = NoConn THEN {} ELSE conns[c].tools

Free == "none"  \* no call's context: the program's own, or none at all

Connects(x, env, T, by) ==
  /\ Len(conns) < MaxConns
  /\ conns' = Append(conns, [of |-> x, env |-> env, tools |-> T, by |-> by, open |-> TRUE])

Closed(C) == [c \in DOMAIN conns |-> IF c \in C THEN [conns[c] EXCEPT !.open = FALSE] ELSE conns[c]]
Close(C) == conns' = Closed(C)

-------------------------------------------------------------------------------
\* The Manager.

\* A server whose start is still under way lists no tools and takes no calls.
HasServer(x) == servers[x] \notin {Absent, Reserved}

Reserve(x) ==
  /\ servers[x] = Absent
  /\ servers' = [servers EXCEPT ![x] = Reserved]
  /\ UNCHANGED <<conns, tracked, served>>

StoreServer(x, c) ==
  /\ servers' = [servers EXCEPT ![x] = c]
  /\ UNCHANGED <<conns, tracked, served>>

\* A start that failed gives its reservation back, unless somebody else's server
\* has got the name.

Unreserve(x) ==
  /\ servers' = [servers EXCEPT ![x] = IF @ = Reserved THEN Absent ELSE @]
  /\ UNCHANGED <<conns, tracked, served>>

\* RemoveServer refuses a name that is being added.

RemoveServer(x) ==
  /\ IF HasServer(x)
     THEN Close({servers[x]}) /\ servers' = [servers EXCEPT ![x] = Absent]
     ELSE UNCHANGED <<conns, servers>>
  /\ UNCHANGED <<tracked, served>>

Shutdown ==
  /\ Close({servers[x] : x \in {y \in Names : HasServer(y)}})
  /\ servers' = [x \in Names |-> Absent]
  /\ UNCHANGED <<tracked, served>>

-------------------------------------------------------------------------------
\* The hot-reloader.  ConnectAndRegister and ConnectHTTPAndRegister register the
\* new connection's tools one by one, over those of the old one, swap the two under
\* the lock, and only then take away the tools that are gone and close the old one.

RegisterProxyTool(x, t, c) ==
  /\ served' = [served EXCEPT ![x][t] = c]
  /\ UNCHANGED <<conns, servers, tracked>>

Track(x, c) ==
  /\ tracked' = [tracked EXCEPT ![x] = c]
  /\ UNCHANGED <<conns, servers, served>>

RemoveTools(x, S) ==
  /\ served' = [served EXCEPT ![x] = [t \in Tools |-> IF t \in S THEN NoConn ELSE @[t]]]
  /\ UNCHANGED <<conns, servers, tracked>>

CloseOld(c) == Close({c}) /\ UNCHANGED <<servers, tracked, served>>

\* The process ends, its connections with it: CloseAll, or the end of their pipes.

EndOfProcess ==
  /\ conns' = <<>>
  /\ servers' = [x \in Names |-> Absent]
  /\ tracked' = [x \in Names |-> NoConn]
  /\ served' = [x \in Names |-> [t \in Tools |-> NoConn]]
===============================================================================
