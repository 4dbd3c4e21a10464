------------------------------- MODULE MCUpdater -------------------------------
(***************************************************************************)
(* The updater sidecar for TLC: its updates (Updater) and its companion    *)
(* services (ServiceCatalog).  The two halves have their own mutexes,      *)
(* files and containers: no step of one reads or changes what the other    *)
(* reads, so a property of one half holds in all interleavings of both if  *)
(* it holds in those where the other half stays at its start, and only     *)
(* these are explored.                                                     *)
(***************************************************************************)
EXTENDS Updater

VARIABLES half, catalog, managed, overlay, overlayTmp, containers, calls, starting, callsMade,
          restarts, settled, loose, overlapped
CONSTANTS Services, Calls, MaxCalls, MaxRestarts

serviceVars == <<catalog, managed, overlay, overlayTmp, containers, calls, starting, callsMade,
                 restarts, settled, loose, overlapped>>

Companions == INSTANCE ServiceCatalog

\* What the sidecar answered about a companion service stays true: see
\* ServiceCatalog.
AnswersStayTrue == Companions!AnswersStayTrue

SidecarInit == half \in {"updates", "services"} /\ Init /\ Companions!CatalogInit
UpdateHalf == half = "updates" /\ Next /\ UNCHANGED <<half, serviceVars>>
ServiceHalf == half = "services" /\ Companions!CatalogNext /\ UNCHANGED <<half, vars>>
SidecarSpec == SidecarInit /\ [][UpdateHalf \/ ServiceHalf]_<<half, vars, serviceVars>>

\* Goroutines, requests and services are interchangeable.
SidecarSymmetry == Permutations(Workers) \cup Permutations(Calls) \cup Permutations(Services)
=============================================================================
