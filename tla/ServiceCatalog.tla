----------------------------- MODULE ServiceCatalog -----------------------------
(***************************************************************************)
(* The companion services of the updater sidecar: the catalog              *)
(* (cmd/curlycatclaw-updater/catalog.go), the compose overlay generated    *)
(* from it (compose_gen.go), the handlers of /v1/services (handler.go),    *)
(* which net/http runs concurrently, and their callers: the skill          *)
(* manage_service and the automatic start of an HTTP extension.            *)
(*                                                                         *)
(* The catalog is guarded by its own mutex; the overlay and its temporary  *)
(* file are guarded by nothing.  A specification is its name.  Requests    *)
(* that validation refuses change nothing and are left out.                *)
(***************************************************************************)
EXTENDS Naturals, FiniteSets, TLC

CONSTANTS
  Services,      \* names of services
  Calls,         \* bound: requests that overlap
  MaxCalls,      \* bound: requests made
  MaxRestarts    \* bound: restarts of the sidecar

VARIABLES
  catalog,       \* ServiceCatalog.services
  managed,       \* managed-services.json
  overlay,       \* the services docker-compose.managed.yml names
  overlayTmp,    \* its temporary file: what it names, or NoFile
  containers,    \* the container of a service
  calls,         \* the requests under way
  starting,      \* goroutines of handleServiceStart, per service
  callsMade, restarts,
  settled,       \* history: the last thing a caller was told of a service, with
                 \* no other request for it since or meanwhile
  loose,         \* history: services whose removal failed to stop them or met a start
  overlapped     \* history: two requests held a list for the overlay at once

catalogVars == <<catalog, managed, overlay, overlayTmp, containers, calls, starting, callsMade,
                 restarts, settled, loose, overlapped>>

NoFile == {"no file"}
NoCall == [pc |-> "idle", op |-> "none", name |-> "none", list |-> {}, auto |-> FALSE,
           shared |-> FALSE]
Busy(c) == calls[c].pc # "idle"
For(s) == {c \in Calls : Busy(c) /\ calls[c].name = s}

CatalogInit ==
  /\ catalog = {} /\ managed = {}
  /\ overlay = {} /\ overlayTmp = NoFile
  /\ containers = [s \in Services |-> "none"]
  /\ calls = [c \in Calls |-> NoCall]
  /\ starting = [s \in Services |-> 0]
  /\ callsMade = 0 /\ restarts = 0
  /\ settled = [s \in Services |-> "unknown"]
  /\ loose = {} /\ overlapped = FALSE

-----------------------------------------------------------------------------
(* Requests.  The caller waits for the answer, up to a time limit of its    *)
(* own: that the caller gave up does not stop the handler.                  *)

Registered(s) == s \in catalog

\* Requests for one service that overlap leave open which of them is last.
Accept(c, op, s, pc, auto) ==
  /\ ~Busy(c)
  /\ callsMade < MaxCalls /\ callsMade' = callsMade + 1
  /\ calls' = [d \in Calls |->
       IF d = c THEN [pc |-> pc, op |-> op, name |-> s, list |-> {}, auto |-> auto,
                      shared |-> For(s) # {}]
       ELSE [calls[d] EXCEPT !.shared = @ \/ d \in For(s)]]
  /\ settled' = [settled EXCEPT ![s] = "unknown"]

Answer(c, outcome) ==
  /\ calls' = [calls EXCEPT ![c] = NoCall]
  /\ settled' = [settled EXCEPT ![calls[c].name] =
       IF calls[c].shared \/ outcome = "error" THEN @ ELSE outcome]

Goto(c, pc) == calls' = [calls EXCEPT ![c].pc = pc] /\ UNCHANGED settled

\* Add keeps nothing of a service that it cannot write to the file.
handleRegisterService(c, s, auto) ==
  /\ ~Registered(s)
  /\ catalog' = catalog \cup {s} /\ managed' = catalog'
  /\ Accept(c, "registered", s, "list", auto)
  /\ UNCHANGED <<overlay, overlayTmp, containers, starting, restarts, loose, overlapped>>

handleRemoveService(c, s) ==
  /\ Registered(s)
  /\ Accept(c, "removed", s, "stop", FALSE)
  /\ loose' = IF starting[s] > 0 THEN loose \cup {s} ELSE loose
  /\ UNCHANGED <<catalog, managed, overlay, overlayTmp, containers, starting, restarts, overlapped>>

handleServiceStop(c, s) ==
  /\ Registered(s)
  /\ Accept(c, "stopped", s, "stop", FALSE)
  /\ UNCHANGED <<catalog, managed, overlay, overlayTmp, containers, starting, restarts, loose,
                 overlapped>>

\* The answer does not wait for the goroutine.
Start(s) ==
  /\ starting' = [starting EXCEPT ![s] = @ + 1]
  /\ loose' = IF \E c \in For(s) : calls[c].op = "removed" THEN loose \cup {s} ELSE loose

handleServiceStart(s) ==
  /\ Registered(s)
  /\ callsMade < MaxCalls /\ callsMade' = callsMade + 1
  /\ Start(s)
  /\ UNCHANGED <<catalog, managed, overlay, overlayTmp, containers, calls, restarts, settled,
                 overlapped>>

\* What is read is the catalog and docker compose ps.
handleListServices == UNCHANGED catalogVars

-----------------------------------------------------------------------------
(* docker compose, with the base file and the overlay.  Every command may   *)
(* fail, and fails for a service that the files do not name.                *)

composeServiceUp(s) ==
  /\ starting[s] > 0 /\ starting' = [starting EXCEPT ![s] = @ - 1]
  /\ \/ s \in overlay /\ containers' = [containers EXCEPT ![s] = "running"]
     \/ UNCHANGED containers
  /\ UNCHANGED <<catalog, managed, overlay, overlayTmp, calls, callsMade, restarts, settled, loose,
                 overlapped>>

Stopped(s) == IF containers[s] = "running" THEN "exited" ELSE containers[s]

\* A failure ends a stop; a removal goes on.
composeServiceStop(c) ==
  LET s == calls[c].name IN
  /\ calls[c].pc = "stop"
  /\ \/ /\ s \in overlay
        /\ containers' = [containers EXCEPT ![s] = Stopped(s)]
        /\ UNCHANGED loose
        /\ IF calls[c].op = "removed" THEN Goto(c, "rm") ELSE Answer(c, "unknown")
     \/ /\ UNCHANGED containers
        /\ IF calls[c].op = "removed"
           THEN Goto(c, "rm") /\ loose' = loose \cup {s}
           ELSE Answer(c, "error") /\ UNCHANGED loose
  /\ UNCHANGED <<catalog, managed, overlay, overlayTmp, starting, callsMade, restarts, overlapped>>

\* docker compose rm -f removes only a container that has stopped.
composeServiceRM(c) ==
  LET s == calls[c].name IN
  /\ calls[c].pc = "rm" /\ Goto(c, "remove")
  /\ \/ /\ s \in overlay
        /\ containers' = [containers EXCEPT ![s] = IF @ = "exited" THEN "none" ELSE @]
        /\ UNCHANGED loose
     \/ UNCHANGED containers /\ loose' = loose \cup {s}
  /\ UNCHANGED <<catalog, managed, overlay, overlayTmp, starting, callsMade, restarts, overlapped>>

-----------------------------------------------------------------------------
(* ServiceCatalog.Remove, All and GenerateOverlay.                          *)

Persisted(s) == catalog \ {s}

Remove(c) ==
  LET s == calls[c].name IN
  /\ calls[c].pc = "remove"
  /\ \/ /\ Registered(s)
        /\ catalog' = catalog \ {s} /\ managed' = Persisted(s)
        /\ Goto(c, "list")
     \/ UNCHANGED <<catalog, managed>> /\ Answer(c, "error")
  /\ UNCHANGED <<overlay, overlayTmp, containers, starting, callsMade, restarts, loose, overlapped>>

\* The mutex of the catalog covers All, not the use of what it returns.
Generating(c) == calls[c].pc \in {"write", "rename"}
AllBeforeAdd(c) == catalog \ {calls[c].name}
All(c) == catalog
List(c) ==
  /\ calls[c].pc = "list"
  /\ calls' = [calls EXCEPT ![c].pc = "write", ![c].list = All(c)]
  /\ overlapped' = (overlapped \/ \E d \in Calls : Generating(d))
  /\ UNCHANGED <<catalog, managed, overlay, overlayTmp, containers, starting, callsMade, restarts,
                 settled, loose>>

\* writeAtomic: all requests share one temporary file.
WriteTmp(c) ==
  /\ calls[c].pc = "write"
  /\ \/ overlayTmp' = calls[c].list /\ Goto(c, "rename")
     \/ UNCHANGED overlayTmp /\ Answer(c, "error")
  /\ UNCHANGED <<catalog, managed, overlay, containers, starting, callsMade, restarts, loose,
                 overlapped>>

\* An extension that registered its service goes on to start it.
Done(c) ==
  \/ Answer(c, calls[c].op) /\ UNCHANGED <<starting, loose>>
  \/ calls[c].auto /\ Registered(calls[c].name) /\ Start(calls[c].name) /\ Answer(c, calls[c].op)

RenameTmp(c) ==
  /\ calls[c].pc = "rename"
  /\ overlayTmp' = NoFile
  /\ \/ overlayTmp # NoFile /\ overlay' = overlayTmp /\ Done(c)
     \/ UNCHANGED <<overlay, starting, loose>> /\ Answer(c, "error")
  /\ UNCHANGED <<catalog, managed, containers, callsMade, restarts, overlapped>>

-----------------------------------------------------------------------------
\* The callback that runMCPServer gives to the extension skills: register the
\* service if there is none, start it if it does not run.
autoStarter(c, s) ==
  \/ handleRegisterService(c, s, TRUE)
  \/ containers[s] # "running" /\ handleServiceStart(s)

manage_service(c, s) ==
  \/ handleRegisterService(c, s, FALSE)
  \/ handleRemoveService(c, s)
  \/ handleServiceStart(s)
  \/ handleServiceStop(c, s)
  \/ handleListServices

\* A new process reads the file; what docker compose was doing is done or not.
LoadServiceCatalog ==
  /\ restarts < MaxRestarts /\ restarts' = restarts + 1
  /\ catalog' = managed
  /\ calls' = [c \in Calls |-> NoCall]
  /\ starting' = [s \in Services |-> 0]
  /\ \E up \in SUBSET {s \in overlay : starting[s] > 0} :
       containers' = [s \in Services |-> IF s \in up THEN "running" ELSE containers[s]]
  /\ UNCHANGED <<managed, overlay, overlayTmp, callsMade, settled, loose, overlapped>>

CallStep(c) ==
  \/ composeServiceStop(c) \/ composeServiceRM(c) \/ Remove(c)
  \/ List(c) \/ WriteTmp(c) \/ RenameTmp(c)

CatalogNext ==
  \/ \E c \in Calls, s \in Services : manage_service(c, s) \/ autoStarter(c, s)
  \/ \E c \in Calls : CallStep(c)
  \/ \E s \in Services : composeServiceUp(s)
  \/ LoadServiceCatalog

-----------------------------------------------------------------------------
CatalogTypeOK ==
  /\ catalog \subseteq Services /\ managed \subseteq Services /\ overlay \subseteq Services
  /\ overlayTmp = NoFile \/ overlayTmp \subseteq Services
  /\ containers \in [Services -> {"none", "running", "exited"}]
  /\ calls \in [Calls -> [pc : {"idle", "stop", "rm", "remove", "list", "write", "rename"},
                          op : {"registered", "removed", "stopped", "none"},
                          name : Services \cup {"none"},
                          list : SUBSET Services, auto : BOOLEAN, shared : BOOLEAN]]
  /\ starting \in [Services -> 0..MaxCalls]
  /\ settled \in [Services -> {"unknown", "registered", "removed"}]
  /\ loose \subseteq Services /\ overlapped \in BOOLEAN

\* What the sidecar answered stays true, whatever other services are added or
\* removed meanwhile, whichever of their requests fail and at whatever step the
\* sidecar dies: a service it called registered is in the catalog, in the file
\* and (unless two lists for the overlay overlapped) known to docker compose;
\* one it called removed is in none of them and leaves no container, unless
\* stopping it failed or a start of it ran into the removal.
AnswersStayTrue ==
  \A s \in Services :
    /\ settled[s] = "registered" =>
         s \in catalog \cap managed /\ (overlapped \/ s \in overlay)
    /\ settled[s] = "removed" =>
         /\ s \notin catalog \cup managed
         /\ overlapped \/ (s \notin overlay /\ (s \in loose \/ containers[s] = "none"))
=============================================================================
