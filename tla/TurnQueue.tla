------------------------------ MODULE TurnQueue ------------------------------
(***************************************************************************)
(* What the session actor promises about a user's messages: they wait, at  *)
(* most one of them runs at a time, they start in the order they arrived,  *)
(* and a waiting message may be discarded but never comes back.  The Run   *)
(* loop of internal/session/actor.go is shown to implement this by         *)
(* SessionDispatch.                                                        *)
(***************************************************************************)
EXTENDS Naturals

CONSTANT MaxMsgs    \* number of messages that ever arrive, a natural

VARIABLE status     \* what has become of each message

Ids == 1..MaxMsgs

Init == status = [i \in Ids |-> "new"]

\* The next message in arrival order is accepted, or refused at the door.
Submit(i) ==
  /\ status[i] = "new"
  /\ \A j \in Ids : j < i => status[j] # "new"
  /\ \E s \in {"waiting", "discarded"} : status' = [status EXCEPT ![i] = s]

\* The longest-waiting message becomes the only running one.
Start(i) ==
  /\ status[i] = "waiting"
  /\ \A j \in Ids : /\ status[j] # "running"
                    /\ j < i => status[j] # "waiting"
  /\ status' = [status EXCEPT ![i] = "running"]

Finish(i) ==
  /\ status[i] = "running"
  /\ status' = [status EXCEPT ![i] = "finished"]

\* Waiting messages are given up: a command was answered, the queue
\* overflowed, or the user stopped everything.
Discard(S) ==
  /\ S # {}
  /\ \A i \in S : status[i] = "waiting"
  /\ status' = [i \in Ids |-> IF i \in S THEN "discarded" ELSE status[i]]

Next == \/ \E i \in Ids : Submit(i) \/ Start(i) \/ Finish(i)
        \/ \E S \in SUBSET Ids : Discard(S)

Spec == Init /\ [][Next]_status
=============================================================================
