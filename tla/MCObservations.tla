----------------------------- MODULE MCObservations -----------------------------
(***************************************************************************)
(* Observations for TLC: contents and slots are alike.                    *)
(***************************************************************************)
EXTENDS Observations, TLC

First == [c \in Convs |-> IF c = "c1" THEN 0 ELSE 1]
Most == [c \in Convs |-> IF c = "c1" THEN 2 ELSE 1]
Alike == Permutations(Contents) \cup Permutations(Slots)
===============================================================================
