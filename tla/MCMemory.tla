-------------------------------- MODULE MCMemory --------------------------------
(***************************************************************************)
(* What is kept of conversations besides their messages, for TLC: the      *)
(* observations extracted from them (Observations) and the summaries       *)
(* written when they are over (Summaries).  Each half has its own          *)
(* goroutines, semaphore, tables and points, and neither reads what the    *)
(* other writes: a property of one holds in all interleavings of both if it *)
(* holds in those where the other stays at its start, and only these are   *)
(* explored.                                                               *)
(***************************************************************************)
EXTENDS MCObservations

CONSTANTS Ended, Short, Summarizers, SumRetries, SumStops
VARIABLES half, expired, status, stored, indexed, job, sumRun, vector, sumBudgets, waived, deleted,
          spoilt

sumVars == <<expired, status, stored, indexed, job, sumRun, vector, sumBudgets, waived, deleted, spoilt>>

ASSUME MemoryAssumption ==
  /\ Ended \subseteq Nat /\ Short \subseteq Ended
  /\ {SumRetries, SumStops} \subseteq Nat /\ Summarizers \cap 1..(SumStops + 1) = {}

Sums == INSTANCE Summaries
  WITH Convs <- Ended, Slots <- Summarizers, MaxRetries <- SumRetries, MaxStops <- SumStops,
       run <- sumRun, budgets <- sumBudgets

\* What "done" and the index claim of a summary: see Summaries.
DoneMeansSummarized == Sums!DoneMeansSummarized
IndexedIsStored == Sums!IndexedIsStored

MemoryInit == half \in {"observations", "summaries"} /\ Init /\ Sums!Init
ObservationHalf == half = "observations" /\ Next /\ UNCHANGED <<half, sumVars>>
SummaryHalf == half = "summaries" /\ Sums!Next /\ UNCHANGED <<half, vars>>
MemorySpec == MemoryInit /\ [][ObservationHalf \/ SummaryHalf]_<<half, vars, sumVars>>
=================================================================================
