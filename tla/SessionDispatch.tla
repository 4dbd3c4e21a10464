--------------------------- MODULE SessionDispatch ---------------------------
(***************************************************************************)
(* The event loop of the session actor (internal/session/actor.go): how    *)
(* incoming Telegram messages are queued, handed one at a time to a work   *)
(* goroutine, and abandoned by /stop.                                      *)
(*                                                                         *)
(* Messages are numbered in the order the Telegram channel puts them into  *)
(* its updates channel.  What a turn does with its message (handleMessage) *)
(* is reduced here to how it returns; the CLI subprocess that stopActive   *)
(* also removes is modelled in CliTurn, so this is the actor with          *)
(* cliMgr = nil.                                                           *)
(***************************************************************************)
EXTENDS Naturals, Sequences, Functions

CONSTANTS
  Keys,         \* the userKey pairs (user, chat) that write to the bot
  MaxPending,   \* maxPendingMsgs
  UpdatesCap,   \* capacity of the channel's updates buffer
  InboxCap,     \* capacity of the channel's inbox buffer
  MaxMsgs,      \* bound: how many messages arrive
  MaxPanics     \* bound: how often the Run loop panics

ASSUME DispatchAssumption ==
  /\ Keys # {}
  /\ MaxPending \in Nat \ {0}
  /\ UpdatesCap \in Nat \ {0}
  /\ InboxCap \in Nat \ {0}
  /\ MaxMsgs \in Nat
  /\ MaxPanics \in Nat

VARIABLES
  key,          \* who sent each message
  stop,         \* is the message "/stop" (trimmed, or with an argument)?
  arrived,      \* how many messages have arrived
  updates,      \* Channel.updates: ids not yet received by the Run loop
  loop,         \* where Run is: at its select, waiting to be restarted, gone
  panics,       \* how often it has panicked
  ctxDone,      \* the root context is cancelled
  active,       \* Actor.active: the id of the turn in flight, 0 for nil
  pendingMsgs,  \* Actor.pendingMsgs
  turn,         \* where the work goroutine of each message is
  cancelled,    \* the turns whose activeWork.cancel was called
  inbox,        \* Channel.inbox: notices on their way to Telegram
  fate          \* history: how the Run loop disposed of each message

vars == <<key, stop, arrived, updates, loop, panics, ctxDone, active,
          pendingMsgs, turn, cancelled, inbox, fate>>

Ids == 1..MaxMsgs

Notices == {"stopped", "already finished", "nothing to stop", "dropped", "sorry"}
Fates == {"none", "rejected", "dispatched", "overflow", "flushed",
          "stopped", "already finished", "nothing to stop"}

Init ==
  /\ key \in [Ids -> Keys]
  /\ stop \in [Ids -> BOOLEAN]
  /\ arrived = 0
  /\ updates = <<>>
  /\ loop = "select"
  /\ panics = 0
  /\ ctxDone = FALSE
  /\ active = 0
  /\ pendingMsgs = <<>>
  /\ turn = [i \in Ids |-> "none"]
  /\ cancelled = {}
  /\ inbox = <<>>
  /\ fate = [i \in Ids |-> "none"]

-----------------------------------------------------------------------------
(* The Telegram side: handlers put messages in, Channel.Run takes notices out. *)

ReceiveUpdate ==
  /\ arrived < MaxMsgs
  /\ Len(updates) < UpdatesCap
  /\ arrived' = arrived + 1
  /\ updates' = Append(updates, arrived + 1)
  /\ UNCHANGED <<key, stop, loop, panics, ctxDone, active, pendingMsgs, turn,
                 cancelled, inbox, fate>>

\* "updates channel full, dropping message"
DropUpdate ==
  /\ arrived < MaxMsgs
  /\ Len(updates) >= UpdatesCap
  /\ arrived' = arrived + 1
  /\ fate' = [fate EXCEPT ![arrived + 1] = "rejected"]
  /\ UNCHANGED <<key, stop, updates, loop, panics, ctxDone, active, pendingMsgs,
                 turn, cancelled, inbox>>

SendNotice ==
  /\ inbox # <<>>
  /\ inbox' = Tail(inbox)
  /\ UNCHANGED <<key, stop, arrived, updates, loop, panics, ctxDone, active,
                 pendingMsgs, turn, cancelled, fate>>

\* A send that never blocks: the notice is lost when the inbox is full.
trySend(k, text) ==
  inbox' = IF Len(inbox) < InboxCap
             THEN Append(inbox, [key |-> k, text |-> text])
             ELSE inbox

-----------------------------------------------------------------------------
(* The Run loop. *)

\* Give message m a work goroutine, or answer a /stop that finds nothing to do.
dispatchMessage(m) ==
  \/ /\ stop[m]
     /\ trySend(key[m], "nothing to stop")
     /\ active' = 0
     /\ fate' = [fate EXCEPT ![m] = "nothing to stop"]
     /\ UNCHANGED turn
  \/ /\ ~stop[m]
     /\ active' = m
     /\ turn' = [turn EXCEPT ![m] = "handling"]
     /\ fate' = [fate EXCEPT ![m] = "dispatched"]
     /\ UNCHANGED inbox

IdleUpdate ==
  /\ loop = "select"
  /\ active = 0
  /\ updates # <<>>
  /\ updates' = Tail(updates)
  /\ dispatchMessage(Head(updates))
  /\ UNCHANGED <<key, stop, arrived, loop, panics, ctxDone, pendingMsgs, cancelled>>

\* Mutant: the queue is emptied when its first message is started.
WorkDoneForgets ==
  /\ loop = "select"
  /\ active # 0
  /\ turn[active] = "done"
  /\ pendingMsgs' = <<>>
  /\ \/ pendingMsgs = <<>> /\ active' = 0 /\ UNCHANGED <<turn, inbox, fate>>
     \/ pendingMsgs # <<>> /\ dispatchMessage(Head(pendingMsgs))
  /\ UNCHANGED <<key, stop, arrived, updates, loop, panics, ctxDone, cancelled>>

\* Mutant: the newest queued message is started first.
WorkDoneNewest ==
  /\ loop = "select"
  /\ active # 0
  /\ turn[active] = "done"
  /\ \/ pendingMsgs = <<>> /\ active' = 0 /\ UNCHANGED <<pendingMsgs, turn, inbox, fate>>
     \/ /\ pendingMsgs # <<>>
        /\ pendingMsgs' = SubSeq(pendingMsgs, 1, Len(pendingMsgs) - 1)
        /\ dispatchMessage(pendingMsgs[Len(pendingMsgs)])
  /\ UNCHANGED <<key, stop, arrived, updates, loop, panics, ctxDone, cancelled>>

\* case <-a.active.done: start the next queued message, if there is one.
WorkDone ==
  /\ loop = "select"
  /\ active # 0
  /\ turn[active] = "done"
  /\ \/ /\ pendingMsgs = <<>>
        /\ active' = 0
        /\ UNCHANGED <<pendingMsgs, turn, inbox, fate>>
     \/ /\ pendingMsgs # <<>>
        /\ pendingMsgs' = Tail(pendingMsgs)
        /\ dispatchMessage(Head(pendingMsgs))
  /\ UNCHANGED <<key, stop, arrived, updates, loop, panics, ctxDone, cancelled>>

\* Mutant: /stop cancels the turn but leaves the queue behind it.
stopActiveKeepsQueue(m) ==
  /\ turn[active] # "done"
  /\ cancelled' = cancelled \cup {active}
  /\ trySend(key[m], "stopped")
  /\ fate' = [fate EXCEPT ![m] = "stopped"]
  /\ UNCHANGED pendingMsgs

\* The work may have completed just before the /stop was received.
stopActive(m) ==
  \/ /\ turn[active] = "done"
     /\ trySend(key[m], "already finished")
     /\ fate' = [fate EXCEPT ![m] = "already finished"]
     /\ UNCHANGED <<cancelled, pendingMsgs>>
  \/ /\ turn[active] # "done"
     /\ cancelled' = cancelled \cup {active}
     /\ pendingMsgs' = <<>>
     /\ trySend(key[m], "stopped")
     /\ fate' = [i \in Ids |-> IF i = m THEN "stopped"
                               ELSE IF i \in Range(pendingMsgs) THEN "flushed"
                               ELSE fate[i]]

\* Queue a message behind the turn in flight, dropping the oldest at the cap.
enqueue(m) ==
  \/ /\ Len(pendingMsgs) >= MaxPending
     /\ trySend(key[Head(pendingMsgs)], "dropped")
     /\ fate' = [fate EXCEPT ![Head(pendingMsgs)] = "overflow"]
     /\ pendingMsgs' = Append(Tail(pendingMsgs), m)
  \/ /\ Len(pendingMsgs) < MaxPending
     /\ pendingMsgs' = Append(pendingMsgs, m)
     /\ UNCHANGED <<inbox, fate>>

\* Mutant: Run waits for the work before it receives again.
BusyUpdateWaits ==
  /\ loop = "select"
  /\ active # 0
  /\ turn[active] = "done"
  /\ updates # <<>>
  /\ updates' = Tail(updates)
  /\ \/ stop[Head(updates)] /\ stopActive(Head(updates))
     \/ ~stop[Head(updates)] /\ enqueue(Head(updates)) /\ UNCHANGED cancelled
  /\ UNCHANGED <<key, stop, arrived, loop, panics, ctxDone, active, turn>>

BusyUpdate ==
  /\ loop = "select"
  /\ active # 0
  /\ updates # <<>>
  /\ updates' = Tail(updates)
  /\ \/ stop[Head(updates)] /\ stopActive(Head(updates))
     \/ ~stop[Head(updates)] /\ enqueue(Head(updates)) /\ UNCHANGED cancelled
  /\ UNCHANGED <<key, stop, arrived, loop, panics, ctxDone, active, turn>>

\* Run panics in one of its handlers; the supervisor restarts it on the same
\* Actor value after a back-off, so active and pendingMsgs outlive the panic.
Panic ==
  /\ loop = "select"
  /\ panics < MaxPanics
  /\ panics' = panics + 1
  /\ loop' = "backoff"
  /\ UNCHANGED <<key, stop, arrived, updates, ctxDone, active, pendingMsgs, turn,
                 cancelled, inbox, fate>>

\* Mutant: a restarted Run forgets the turn in flight.
RestartForgets ==
  /\ loop = "backoff"
  /\ ~ctxDone
  /\ loop' = "select"
  /\ active' = 0
  /\ UNCHANGED <<key, stop, arrived, updates, panics, ctxDone, pendingMsgs, turn,
                 cancelled, inbox, fate>>

Restart ==
  /\ loop = "backoff"
  /\ ~ctxDone
  /\ loop' = "select"
  /\ UNCHANGED <<key, stop, arrived, updates, panics, ctxDone, active, pendingMsgs,
                 turn, cancelled, inbox, fate>>

CancelRoot ==
  /\ ~ctxDone
  /\ ctxDone' = TRUE
  /\ UNCHANGED <<key, stop, arrived, updates, loop, panics, active, pendingMsgs,
                 turn, cancelled, inbox, fate>>

\* select picks among its ready cases, so Run may serve other cases first.
Exit ==
  /\ loop \in {"select", "backoff"}
  /\ ctxDone
  /\ loop' = "exited"
  /\ UNCHANGED <<key, stop, arrived, updates, panics, ctxDone, active, pendingMsgs,
                 turn, cancelled, inbox, fate>>

-----------------------------------------------------------------------------
(* The work goroutine of message i. *)

\* workCtx.Err() # nil: /stop cancelled it, or its parent is cancelled.
Cancelled(i) == ctxDone \/ i \in cancelled

workUnchanged == UNCHANGED <<key, stop, arrived, updates, loop, panics, ctxDone,
                             active, pendingMsgs, cancelled, fate>>

\* handleMessage returns; an error is reported unless the work was cancelled,
\* a panic is always reported.
HandlerReturns(i) ==
  /\ turn[i] = "handling"
  /\ \/ turn' = [turn EXCEPT ![i] = "closing"]
     \/ ~Cancelled(i) /\ turn' = [turn EXCEPT ![i] = "reporting"]
  /\ UNCHANGED inbox
  /\ workUnchanged

HandlerPanics(i) ==
  /\ turn[i] = "handling"
  /\ turn' = [turn EXCEPT ![i] = "reporting"]
  /\ UNCHANGED inbox
  /\ workUnchanged

ReportFailure(i) ==
  /\ turn[i] = "reporting"
  /\ turn' = [turn EXCEPT ![i] = "closing"]
  /\ trySend(key[i], "sorry")
  /\ workUnchanged

\* defer close(work.done)
CloseDone(i) ==
  /\ turn[i] = "closing"
  /\ turn' = [turn EXCEPT ![i] = "done"]
  /\ UNCHANGED inbox
  /\ workUnchanged

Work(i) == HandlerReturns(i) \/ HandlerPanics(i) \/ ReportFailure(i) \/ CloseDone(i)

-----------------------------------------------------------------------------
Telegram == ReceiveUpdate \/ DropUpdate \/ SendNotice
Run == IdleUpdate \/ WorkDone \/ BusyUpdate \/ Panic \/ Restart \/ CancelRoot \/ Exit

Next == Telegram \/ Run \/ \E i \in Ids : Work(i)

Spec == Init /\ [][Next]_vars

\* Go's select chooses uniformly among its ready cases, and the supervisor
\* always restarts: no case that stays ready is passed over for ever.
\* Nothing is assumed of the turns: one may hang for ever.
LoopFairness == /\ WF_vars(IdleUpdate)
                /\ WF_vars(WorkDone)
                /\ WF_vars(BusyUpdate)
                /\ WF_vars(Restart)

LoopSpec == Spec /\ LoopFairness

-----------------------------------------------------------------------------
(* Properties. *)

TypeOK ==
  /\ key \in [Ids -> Keys]
  /\ stop \in [Ids -> BOOLEAN]
  /\ arrived \in 0..MaxMsgs
  /\ updates \in Seq(Ids)
  /\ loop \in {"select", "backoff", "exited"}
  /\ panics \in 0..MaxPanics
  /\ ctxDone \in BOOLEAN
  /\ active \in 0..MaxMsgs
  /\ pendingMsgs \in Seq(Ids)
  /\ turn \in [Ids -> {"none", "handling", "reporting", "closing", "done"}]
  /\ cancelled \in SUBSET Ids
  /\ inbox \in Seq([key : Keys, text : Notices])
  /\ fate \in [Ids -> Fates]
  /\ Len(updates) <= UpdatesCap
  /\ Len(pendingMsgs) <= MaxPending
  /\ Len(inbox) <= InboxCap

Increasing(s) == \A i, j \in DOMAIN s : i < j => s[i] < s[j]

\* At most one work goroutine is alive, and it is the one Run knows of: a
\* second one would share effortOverride, lastUserMsg and the CLI process.
OneTurn == \A i \in Ids : turn[i] \notin {"none", "done"} => i = active

\* The messages that wait are exactly those Run has not disposed of: none is
\* forgotten by a restart, an overflow or a /stop, and none is served twice.
NothingLost ==
  Range(pendingMsgs) \cup Range(updates) = {i \in 1..arrived : fate[i] = "none"}

\* Pending messages precede those still in the channel, oldest first, and the
\* turn in flight precedes them all.
ArrivalOrder ==
  /\ Increasing(pendingMsgs)
  /\ Increasing(updates)
  /\ \A i \in Range(pendingMsgs), j \in Range(updates) : i < j
  /\ \A i \in Range(pendingMsgs) \cup Range(updates) : active < i

\* No message is stranded: an idle Run loop looks at updates only, and draining
\* the queue starts one message, so the queue must be empty whenever Run idles.
\* It holds because a /stop never enters the queue.
IdleQueueEmpty == active = 0 => pendingMsgs = <<>>

\* Once /stop answered "Stopped.", nothing sent before it runs on: earlier
\* messages are over, never start, or run with a cancelled context.
StopIsFinal ==
  \A s \in Ids, i \in Ids :
    fate[s] = "stopped" /\ i < s =>
      /\ i \notin Range(pendingMsgs) \cup Range(updates)
      /\ turn[i] \in {"none", "done"} \/ i \in cancelled

\* A /stop is answered even if the turn in flight never returns.
StopAnswered ==
  \A s \in Ids : (arrived >= s /\ stop[s]) ~> (fate[s] # "none" \/ ctxDone)

\* Unless some turn never returns, the queue empties again and again: every
\* message is started or given up for a stated reason, however the turns before
\* it end and even if Run panics meanwhile.
QueueDrains ==
  []<>(\A i \in Ids : turn[i] \in {"none", "done"}) =>
     []<>(ctxDone \/ \A i \in 1..arrived : fate[i] # "none")

\* Run implements the queue of turns of TurnQueue.
status == [i \in Ids |->
             IF i > arrived THEN "new"
             ELSE IF fate[i] = "none" THEN "waiting"
             ELSE IF fate[i] # "dispatched" THEN "discarded"
             ELSE IF turn[i] = "done" THEN "finished" ELSE "running"]

TQ == INSTANCE TurnQueue WITH status <- status

\* Messages start in arrival order, one at a time, and none comes back.
ImplementsTurnQueue == TQ!Spec

\* "Drop any messages queued behind the cancelled turn -- they belong to the
\* same conversation context the user just abandoned" (stopActive).
FlushStaysInConversation ==
  [][\A i \in Ids : fate[i] # "flushed" /\ fate'[i] = "flushed" =>
                     key[i] = key[active]]_vars
=============================================================================
