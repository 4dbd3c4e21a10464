------------------------ MODULE SessionDispatchProofs ------------------------
(***************************************************************************)
(* Proofs about SessionDispatch, for every number of messages, senders and *)
(* panics and every capacity of the queue and the channels.                *)
(***************************************************************************)
EXTENDS SessionDispatch, TLAPS

\* Only messages that arrived have been disposed of.
FutureUntouched == \A i \in Ids : i > arrived => fate[i] = "none"

\* A message has a work goroutine exactly if Run dispatched it, and the turn in
\* flight is one of those.
TurnsAreDispatched ==
  /\ \A i \in Ids : turn[i] # "none" <=> fate[i] = "dispatched"
  /\ active # 0 => turn[active] # "none"

\* A /stop never waits behind a turn.
NoStopQueued == \A i \in Range(pendingMsgs) : ~stop[i]

Waiting == Range(pendingMsgs) \cup Range(updates)

IInv ==
  /\ TypeOK
  /\ OneTurn
  /\ NothingLost
  /\ ArrivalOrder
  /\ IdleQueueEmpty
  /\ StopIsFinal
  /\ FutureUntouched
  /\ TurnsAreDispatched
  /\ NoStopQueued

-----------------------------------------------------------------------------
(* Increasing sequences of naturals. *)

LEMMA RangeTyped ==
  ASSUME NEW S, NEW s \in Seq(S)
  PROVE  Range(s) \subseteq S
BY DEF Range

LEMMA EmptyRange ==
  /\ Range(<<>>) = {}
  /\ Increasing(<<>>)
BY DEF Range, Increasing

LEMMA AppendIncreasing ==
  ASSUME NEW s \in Seq(Nat), NEW e \in Nat,
         Increasing(s), \A i \in Range(s) : i < e
  PROVE  /\ Range(Append(s, e)) = Range(s) \cup {e}
         /\ Increasing(Append(s, e))
<1> DEFINE t == Append(s, e)
<1>1. /\ Len(s) \in Nat
      /\ DOMAIN s = 1..Len(s)
      /\ DOMAIN t = 1..(Len(s) + 1)
      /\ \A i \in 1..Len(s) : t[i] = s[i]
      /\ t[Len(s) + 1] = e
  OBVIOUS
<1>2. Range(t) = Range(s) \cup {e}
  <2>1. ASSUME NEW i \in DOMAIN s PROVE s[i] \in Range(t)
    <3>1. i \in DOMAIN t /\ t[i] = s[i]
      BY <1>1
    <3> QED BY <3>1 DEF Range
  <2>2. e \in Range(t)
    <3>1. Len(s) + 1 \in DOMAIN t /\ t[Len(s) + 1] = e
      BY <1>1
    <3> QED BY <3>1 DEF Range
  <2>3. ASSUME NEW i \in DOMAIN t PROVE t[i] \in Range(s) \cup {e}
    <3>1. i \in DOMAIN s \/ i = Len(s) + 1
      BY <1>1
    <3> QED BY <3>1, <1>1 DEF Range
  <2> QED BY <2>1, <2>2, <2>3 DEF Range
<1>3. \A i \in DOMAIN s : s[i] < e
  BY DEF Range
<1>4. Increasing(t)
  <2> SUFFICES ASSUME NEW i \in DOMAIN t, NEW j \in DOMAIN t, i < j
               PROVE  t[i] < t[j]
    BY DEF Increasing
  <2>1. i \in DOMAIN s /\ (j \in DOMAIN s \/ j = Len(s) + 1)
    BY <1>1
  <2> QED BY <2>1, <1>1, <1>3 DEF Increasing
<1> QED BY <1>2, <1>4

LEMMA TailIncreasing ==
  ASSUME NEW s \in Seq(Nat), s # <<>>, Increasing(s)
  PROVE  /\ Head(s) \in Range(s)
         /\ Range(Tail(s)) = Range(s) \ {Head(s)}
         /\ \A i \in Range(Tail(s)) : Head(s) < i
         /\ Increasing(Tail(s))
<1>1. /\ Len(s) \in Nat \ {0}
      /\ Tail(s) \in Seq(Nat)
      /\ Head(s) = s[1]
      /\ Len(Tail(s)) = Len(s) - 1
      /\ \A i \in 1..(Len(s) - 1) : Tail(s)[i] = s[i + 1]
  OBVIOUS
<1>2. \A i \in 2..Len(s) : s[1] < s[i]
  BY <1>1 DEF Increasing
<1>3. Increasing(Tail(s))
  BY <1>1 DEF Increasing
<1>4. Range(Tail(s)) = {s[i] : i \in 2..Len(s)}
  <2>1. ASSUME NEW i \in 2..Len(s) PROVE s[i] \in Range(Tail(s))
    <3>1. i - 1 \in DOMAIN Tail(s) /\ Tail(s)[i - 1] = s[i]
      BY <1>1
    <3> QED BY <3>1 DEF Range
  <2>2. ASSUME NEW i \in DOMAIN Tail(s) PROVE Tail(s)[i] \in {s[j] : j \in 2..Len(s)}
    <3>1. i + 1 \in 2..Len(s) /\ Tail(s)[i] = s[i + 1]
      BY <1>1
    <3> QED BY <3>1
  <2> QED BY <2>1, <2>2 DEF Range
<1>5. Range(s) = {s[1]} \cup {s[i] : i \in 2..Len(s)}
  BY <1>1 DEF Range
<1>6. \A i \in 2..Len(s) : s[i] \in Nat
  OBVIOUS
<1> QED BY <1>1, <1>2, <1>3, <1>4, <1>5, <1>6

LEMMA IdsAreNats ==
  /\ Ids \subseteq Nat
  /\ \A s \in Seq(Ids) : s \in Seq(Nat) /\ Range(s) \subseteq Ids
BY DispatchAssumption DEF Ids, Range

-----------------------------------------------------------------------------
(* The invariant is inductive. *)

LEMMA SequenceTypes ==
  ASSUME NEW S
  PROVE  /\ <<>> \in Seq(S)
         /\ Len(<<>>) = 0
         /\ \A s \in Seq(S), e \in S : /\ Append(s, e) \in Seq(S)
                                      /\ Len(Append(s, e)) = Len(s) + 1
                                      /\ Len(s) \in Nat
         /\ \A s \in Seq(S) : s # <<>> => /\ Tail(s) \in Seq(S)
                                        /\ Len(Tail(s)) = Len(s) - 1
                                        /\ Len(s) \in Nat \ {0}
OBVIOUS

LEMMA InitInvariant == Init => IInv
<1> SUFFICES ASSUME Init PROVE IInv
  OBVIOUS
<1>1. TypeOK
  <2> DEFINE Notice == [key : Keys, text : Notices]
  <2>1. <<>> \in Seq(Ids) /\ <<>> \in Seq(Notice) /\ Len(<<>>) = 0
    BY SequenceTypes
  <2>2. inbox \in Seq([key : Keys, text : Notices]) /\ Len(inbox) <= InboxCap
    BY <2>1, DispatchAssumption DEF Init
  <2>3. /\ updates \in Seq(Ids) /\ Len(updates) <= UpdatesCap
        /\ pendingMsgs \in Seq(Ids) /\ Len(pendingMsgs) <= MaxPending
    BY <2>1, DispatchAssumption DEF Init
  <2>4. /\ turn \in [Ids -> {"none", "handling", "reporting", "closing", "done"}]
        /\ fate \in [Ids -> Fates]
    BY DEF Init, Fates
  <2>5. /\ arrived \in 0..MaxMsgs
        /\ active \in 0..MaxMsgs
        /\ panics \in 0..MaxPanics
    BY DispatchAssumption DEF Init
  <2>6. /\ key \in [Ids -> Keys]
        /\ stop \in [Ids -> BOOLEAN]
        /\ loop \in {"select", "backoff", "exited"}
        /\ ctxDone \in BOOLEAN
        /\ cancelled \in SUBSET Ids
    BY DEF Init
  <2> QED
    BY <2>2, <2>3, <2>4, <2>5, <2>6 DEF TypeOK
<1>2. 1..arrived = {}
  BY DEF Init
<1> QED
  BY <1>1, <1>2, EmptyRange
  DEF Init, IInv, OneTurn, NothingLost, ArrivalOrder, IdleQueueEmpty, StopIsFinal,
      FutureUntouched, TurnsAreDispatched, NoStopQueued

\* What the invariant says of the head of a nonempty sequence of waiting ids.
LEMMA UpdatesHead ==
  ASSUME IInv, updates # <<>>
  PROVE  /\ Head(updates) \in Ids
         /\ Head(updates) \in 1..arrived
         /\ fate[Head(updates)] = "none"
         /\ turn[Head(updates)] = "none"
         /\ Head(updates) \notin Range(pendingMsgs)
         /\ Range(Tail(updates)) = Range(updates) \ {Head(updates)}
         /\ \A i \in Range(Tail(updates)) : Head(updates) < i
         /\ \A i \in Range(pendingMsgs) : i < Head(updates)
         /\ active < Head(updates)
         /\ Increasing(Tail(updates))
         /\ Tail(updates) \in Seq(Ids)
         /\ Len(Tail(updates)) <= UpdatesCap
<1>1. updates \in Seq(Ids) /\ updates \in Seq(Nat)
  BY IdsAreNats DEF IInv, TypeOK
<1>2. Increasing(updates)
  BY DEF IInv, ArrivalOrder
<1>3. /\ Head(updates) \in Range(updates)
      /\ Range(Tail(updates)) = Range(updates) \ {Head(updates)}
      /\ \A i \in Range(Tail(updates)) : Head(updates) < i
      /\ Increasing(Tail(updates))
  BY <1>1, <1>2, TailIncreasing
<1>4. Head(updates) \in Ids /\ Tail(updates) \in Seq(Ids)
  BY <1>1
<1>5. Head(updates) \in 1..arrived /\ fate[Head(updates)] = "none"
  BY <1>3 DEF IInv, NothingLost
<1>6. turn[Head(updates)] = "none"
  BY <1>4, <1>5 DEF IInv, TurnsAreDispatched
<1>7. /\ \A i \in Range(pendingMsgs) : i < Head(updates)
      /\ active < Head(updates)
  BY <1>3 DEF IInv, ArrivalOrder
<1>8. Head(updates) \notin Range(pendingMsgs)
  BY <1>4, <1>7, IdsAreNats
<1>9. Len(Tail(updates)) <= UpdatesCap
  BY <1>1, DispatchAssumption DEF IInv, TypeOK
<1> QED BY <1>3, <1>4, <1>5, <1>6, <1>7, <1>8, <1>9

LEMMA PendingHead ==
  ASSUME IInv, pendingMsgs # <<>>
  PROVE  /\ Head(pendingMsgs) \in Ids
         /\ Head(pendingMsgs) \in Range(pendingMsgs)
         /\ Head(pendingMsgs) \in 1..arrived
         /\ fate[Head(pendingMsgs)] = "none"
         /\ turn[Head(pendingMsgs)] = "none"
         /\ Head(pendingMsgs) \notin Range(updates)
         /\ Range(Tail(pendingMsgs)) = Range(pendingMsgs) \ {Head(pendingMsgs)}
         /\ \A i \in Range(Tail(pendingMsgs)) : Head(pendingMsgs) < i
         /\ \A i \in Range(updates) : Head(pendingMsgs) < i
         /\ active < Head(pendingMsgs)
         /\ Increasing(Tail(pendingMsgs))
         /\ Tail(pendingMsgs) \in Seq(Ids)
         /\ Len(Tail(pendingMsgs)) = Len(pendingMsgs) - 1
<1>1. pendingMsgs \in Seq(Ids) /\ pendingMsgs \in Seq(Nat)
  BY IdsAreNats DEF IInv, TypeOK
<1>2. Increasing(pendingMsgs)
  BY DEF IInv, ArrivalOrder
<1>3. /\ Head(pendingMsgs) \in Range(pendingMsgs)
      /\ Range(Tail(pendingMsgs)) = Range(pendingMsgs) \ {Head(pendingMsgs)}
      /\ \A i \in Range(Tail(pendingMsgs)) : Head(pendingMsgs) < i
      /\ Increasing(Tail(pendingMsgs))
  BY <1>1, <1>2, TailIncreasing
<1>4. /\ Head(pendingMsgs) \in Ids
      /\ Tail(pendingMsgs) \in Seq(Ids)
      /\ Len(Tail(pendingMsgs)) = Len(pendingMsgs) - 1
  BY <1>1
<1>5. Head(pendingMsgs) \in 1..arrived /\ fate[Head(pendingMsgs)] = "none"
  BY <1>3 DEF IInv, NothingLost
<1>6. turn[Head(pendingMsgs)] = "none"
  BY <1>4, <1>5 DEF IInv, TurnsAreDispatched
<1>7. /\ \A i \in Range(updates) : Head(pendingMsgs) < i
      /\ active < Head(pendingMsgs)
  BY <1>3 DEF IInv, ArrivalOrder
<1>8. Head(pendingMsgs) \notin Range(updates)
  BY <1>4, <1>7, IdsAreNats
<1> QED BY <1>3, <1>4, <1>5, <1>6, <1>7, <1>8

LEMMA TrySendType ==
  ASSUME TypeOK, NEW k \in Keys, NEW t \in Notices, trySend(k, t)
  PROVE  inbox' \in Seq([key : Keys, text : Notices]) /\ Len(inbox') <= InboxCap
<1> DEFINE Notice == [key : Keys, text : Notices]
           n == [key |-> k, text |-> t]
<1>1. n \in Notice /\ inbox \in Seq(Notice) /\ Len(inbox) <= InboxCap
  BY DEF TypeOK
<1>2. inbox' = IF Len(inbox) < InboxCap THEN Append(inbox, n) ELSE inbox
  BY DEF trySend
<1> HIDE DEF Notice, n
<1>3. inbox' \in Seq(Notice) /\ Len(inbox') <= InboxCap
  BY <1>1, <1>2, SequenceTypes, DispatchAssumption
<1> QED BY <1>3 DEF Notice

\* Giving up a set of waiting messages keeps the books.
LEMMA DisposeStep ==
  ASSUME IInv, NEW D \in SUBSET Ids, D \subseteq Waiting,
         fate' \in [Ids -> Fates],
         \A i \in Ids \ D : fate'[i] = fate[i],
         \A i \in D : fate'[i] \notin {"none", "dispatched"},
         turn' = turn, arrived' = arrived, Waiting' = Waiting \ D
  PROVE  /\ NothingLost'
         /\ FutureUntouched'
         /\ \A i \in Ids : turn'[i] # "none" <=> fate'[i] = "dispatched"
<1>1. Waiting = {i \in 1..arrived : fate[i] = "none"} /\ 1..arrived \subseteq Ids
  BY DispatchAssumption DEF IInv, NothingLost, Waiting, TypeOK, Ids
<1>2. Waiting' = {i \in 1..arrived' : fate'[i] = "none"}
  BY <1>1
<1>3. NothingLost'
  BY <1>2 DEF NothingLost, Waiting
<1>4. FutureUntouched'
  <2>1. \A i \in Ids : i > arrived => i \notin D
    BY <1>1, IdsAreNats DEF IInv, TypeOK
  <2> QED BY <2>1 DEF IInv, FutureUntouched
<1>5. \A i \in D : turn[i] = "none"
  BY <1>1 DEF IInv, TurnsAreDispatched
<1> QED BY <1>3, <1>4, <1>5 DEF IInv, TurnsAreDispatched

\* Starting the first waiting message, once no other turn is in flight.
LEMMA StartStep ==
  ASSUME IInv, NEW m \in Waiting, m \in Ids,
         active = 0 \/ turn[active] = "done",
         \A i \in Waiting : m <= i,
         active' = m,
         turn' = [turn EXCEPT ![m] = "handling"],
         fate' = [fate EXCEPT ![m] = "dispatched"],
         arrived' = arrived, cancelled' = cancelled, Waiting' = Waiting \ {m}
  PROVE  /\ OneTurn'
         /\ NothingLost'
         /\ StopIsFinal'
         /\ FutureUntouched'
         /\ TurnsAreDispatched'
<1>1. Waiting = {i \in 1..arrived : fate[i] = "none"} /\ 1..arrived \subseteq Ids
  BY DispatchAssumption DEF IInv, NothingLost, Waiting, TypeOK, Ids
<1>2. /\ turn \in [Ids -> {"none", "handling", "reporting", "closing", "done"}]
      /\ fate \in [Ids -> Fates]
      /\ active \in 0..MaxMsgs
  BY DEF IInv, TypeOK
<1>3. OneTurn'
  <2>1. \A i \in Ids : turn[i] \in {"none", "done"}
    BY <1>2 DEF IInv, OneTurn, Ids
  <2> QED BY <2>1, <1>2 DEF OneTurn
<1>4. NothingLost'
  <2>1. Waiting' = {i \in 1..arrived' : fate'[i] = "none"}
    BY <1>1, <1>2
  <2> QED BY <2>1 DEF NothingLost, Waiting
<1>5. StopIsFinal'
  <2> SUFFICES ASSUME NEW s \in Ids, NEW i \in Ids, fate'[s] = "stopped", i < s
               PROVE  i \notin Waiting' /\ (turn'[i] \in {"none", "done"} \/ i \in cancelled')
    BY DEF StopIsFinal, Waiting
  <2>1. fate[s] = "stopped"
    BY <1>2
  <2>2. i \notin Waiting /\ (turn[i] \in {"none", "done"} \/ i \in cancelled)
    BY <2>1 DEF IInv, StopIsFinal, Waiting
  <2> QED BY <2>2, <1>2
<1>6. FutureUntouched'
  <2>1. \A i \in Ids : i > arrived => i # m
    BY <1>1, IdsAreNats DEF IInv, TypeOK
  <2> QED BY <2>1, <1>2 DEF IInv, FutureUntouched
<1>7. TurnsAreDispatched'
  BY <1>2 DEF IInv, TurnsAreDispatched
<1> QED BY <1>3, <1>4, <1>5, <1>6, <1>7

-----------------------------------------------------------------------------
(* One lemma per action of the Run loop that touches the queue. *)

LEMMA ReceiveUpdatePreserves ==
  ASSUME IInv, ReceiveUpdate
  PROVE  IInv'
<1> USE DEF ReceiveUpdate
<1>0. /\ TypeOK
      /\ arrived \in Nat /\ arrived + 1 \in Ids /\ arrived' = arrived + 1
      /\ updates \in Seq(Nat) /\ pendingMsgs \in Seq(Nat)
  BY IdsAreNats, DispatchAssumption DEF IInv, TypeOK, Ids
<1>1. \A i \in Waiting : i < arrived + 1
  BY <1>0 DEF IInv, NothingLost, Waiting
<1>2. /\ Range(updates') = Range(updates) \cup {arrived + 1}
      /\ Increasing(updates')
      /\ pendingMsgs' = pendingMsgs
  BY <1>0, <1>1, AppendIncreasing DEF IInv, ArrivalOrder, Waiting
<1>3. TypeOK'
  BY <1>0, SequenceTypes, DispatchAssumption DEF TypeOK
<1>4. NothingLost'
  <2>1. fate[arrived + 1] = "none"
    BY <1>0 DEF IInv, FutureUntouched
  <2>2. 1..(arrived + 1) = (1..arrived) \cup {arrived + 1}
    BY <1>0
  <2> QED BY <2>1, <2>2, <1>2 DEF IInv, NothingLost
<1>5. ArrivalOrder'
  <2>1. active < arrived + 1
    <3>1. CASE active = 0
      BY <3>1, <1>0
    <3>2. CASE active # 0
      <4>1. active \in Ids /\ fate[active] = "dispatched"
        BY <3>2, <1>0 DEF IInv, TurnsAreDispatched, TypeOK, Ids
      <4>2. ~(active > arrived)
        BY <4>1 DEF IInv, FutureUntouched
      <4> QED BY <4>1, <4>2, <1>0, IdsAreNats
    <3> QED BY <3>1, <3>2
  <2> QED BY <2>1, <1>1, <1>2 DEF IInv, ArrivalOrder, Waiting
<1>6. StopIsFinal'
  <2> SUFFICES ASSUME NEW s \in Ids, NEW i \in Ids, fate[s] = "stopped", i < s
               PROVE  i # arrived + 1
    BY <1>2 DEF IInv, StopIsFinal
  <2>1. ~(s > arrived)
    BY DEF IInv, FutureUntouched
  <2> QED BY <2>1, <1>0, IdsAreNats
<1>7. FutureUntouched'
  BY <1>0, IdsAreNats DEF IInv, FutureUntouched
<1> QED
  BY <1>3, <1>4, <1>5, <1>6, <1>7
  DEF IInv, OneTurn, IdleQueueEmpty, TurnsAreDispatched, NoStopQueued

LEMMA DropUpdatePreserves ==
  ASSUME IInv, DropUpdate
  PROVE  IInv'
<1> USE DEF DropUpdate
<1>0. /\ TypeOK
      /\ arrived \in Nat /\ arrived + 1 \in Ids /\ arrived' = arrived + 1
      /\ fate' \in [Ids -> Fates] /\ fate'[arrived + 1] = "rejected"
      /\ \A i \in Ids : i # arrived + 1 => fate'[i] = fate[i]
  <2>1. /\ TypeOK /\ arrived \in Nat /\ arrived + 1 \in Ids
    BY DispatchAssumption DEF IInv, TypeOK, Ids
  <2>2. fate \in [Ids -> Fates] /\ "rejected" \in Fates
    BY <2>1 DEF TypeOK, Fates
  <2> QED BY <2>1, <2>2
<1>1. fate[arrived + 1] = "none"
  BY <1>0 DEF IInv, FutureUntouched
<1>2. TypeOK'
  BY <1>0, DispatchAssumption DEF TypeOK, Ids
<1>3. NothingLost'
  <2>1. 1..(arrived + 1) = (1..arrived) \cup {arrived + 1} /\ 1..arrived \subseteq Ids
    BY <1>0, DispatchAssumption DEF Ids, TypeOK
  <2>2. \A i \in 1..arrived : i # arrived + 1
    BY <1>0
  <2> QED BY <2>1, <2>2, <1>0 DEF IInv, NothingLost
<1>4. StopIsFinal'
  BY <1>0 DEF IInv, StopIsFinal
<1>5. FutureUntouched'
  BY <1>0, IdsAreNats DEF IInv, FutureUntouched
<1>6. TurnsAreDispatched'
  BY <1>0, <1>1 DEF IInv, TurnsAreDispatched
<1> QED
  BY <1>2, <1>3, <1>4, <1>5, <1>6
  DEF IInv, OneTurn, ArrivalOrder, IdleQueueEmpty, NoStopQueued

\* The message an idle Run loop receives is the oldest one waiting.
LEMMA IdleHead ==
  ASSUME IInv, IdleUpdate
  PROVE  /\ TypeOK
         /\ Head(updates) \in Ids /\ Head(updates) \in Waiting
         /\ pendingMsgs = <<>> /\ pendingMsgs' = <<>>
         /\ Range(pendingMsgs) = {} /\ Range(pendingMsgs') = {}
         /\ Waiting' = Waiting \ {Head(updates)}
         /\ \A i \in Waiting : Head(updates) <= i
<1> USE DEF IdleUpdate
<1>1. Head(updates) \in Range(updates)
  BY TailIncreasing, IdsAreNats DEF IInv, TypeOK, ArrivalOrder
<1>2. Range(updates) \subseteq Nat
  BY IdsAreNats DEF IInv, TypeOK
<1> QED BY <1>1, <1>2, UpdatesHead, EmptyRange DEF IInv, IdleQueueEmpty, Waiting

LEMMA IdleUpdatePreserves ==
  ASSUME IInv, IdleUpdate
  PROVE  IInv'
<1> DEFINE m == Head(updates)
<1> USE DEF IdleUpdate
<1>0. /\ TypeOK
      /\ m \in Ids /\ m \in Waiting
      /\ pendingMsgs = <<>> /\ pendingMsgs' = <<>>
      /\ Range(pendingMsgs) = {} /\ Range(pendingMsgs') = {}
      /\ Waiting' = Waiting \ {m}
      /\ \A i \in Waiting : m <= i
  BY IdleHead
<1>1. /\ updates' \in Seq(Ids) /\ Len(updates') <= UpdatesCap
      /\ pendingMsgs' \in Seq(Ids) /\ Len(pendingMsgs') <= MaxPending
  BY <1>0, UpdatesHead DEF TypeOK
<1>2. CASE stop[m]
  <2>1. /\ active' = 0 /\ turn' = turn /\ trySend(key[m], "nothing to stop")
        /\ fate' = [fate EXCEPT ![m] = "nothing to stop"]
    BY <1>2 DEF dispatchMessage
  <2>2. fate' \in [Ids -> Fates]
    BY <2>1, <1>0 DEF TypeOK, Fates
  <2>3. inbox' \in Seq([key : Keys, text : Notices]) /\ Len(inbox') <= InboxCap
    BY <2>1, <1>0, TrySendType DEF TypeOK, Notices
  <2>4. TypeOK'
    BY <2>1, <2>2, <2>3, <1>0, <1>1, DispatchAssumption DEF TypeOK
  <2>5. /\ NothingLost'
        /\ FutureUntouched'
        /\ \A i \in Ids : turn'[i] # "none" <=> fate'[i] = "dispatched"
    <3>1. /\ {m} \in SUBSET Ids /\ {m} \subseteq Waiting /\ Waiting' = Waiting \ {m}
          /\ \A i \in Ids \ {m} : fate'[i] = fate[i]
          /\ \A i \in {m} : fate'[i] \notin {"none", "dispatched"}
      BY <2>1, <1>0 DEF TypeOK
    <3> HIDE DEF m
    <3> QED BY <2>1, <2>2, <3>1, DisposeStep
  <2>6. ArrivalOrder'
    BY <2>1, <1>0, UpdatesHead, EmptyRange, IdsAreNats
    DEF IInv, ArrivalOrder, Waiting
  <2>7. StopIsFinal'
    BY <2>1, <1>0 DEF IInv, StopIsFinal, TypeOK, Waiting
  <2> QED
    BY <2>1, <2>4, <2>5, <2>6, <2>7, <1>0
    DEF IInv, OneTurn, IdleQueueEmpty, TurnsAreDispatched, NoStopQueued
<1>3. CASE ~stop[m]
  <2>1. /\ active' = m /\ inbox' = inbox
        /\ turn' = [turn EXCEPT ![m] = "handling"]
        /\ fate' = [fate EXCEPT ![m] = "dispatched"]
    BY <1>3 DEF dispatchMessage
  <2>2. TypeOK'
    <3>1. /\ fate' \in [Ids -> Fates]
          /\ turn' \in [Ids -> {"none", "handling", "reporting", "closing", "done"}]
      BY <2>1, <1>0 DEF TypeOK, Fates
    <3>2. active' \in 0..MaxMsgs
      BY <2>1, <1>0, DispatchAssumption DEF Ids
    <3> QED BY <2>1, <3>1, <3>2, <1>0, <1>1 DEF TypeOK
  <2>3. OneTurn' /\ NothingLost' /\ StopIsFinal' /\ FutureUntouched' /\ TurnsAreDispatched'
    BY <2>1, <1>0, StartStep
  <2>4. ArrivalOrder'
    BY <2>1, <1>0, UpdatesHead, EmptyRange, IdsAreNats
    DEF IInv, ArrivalOrder, Waiting
  <2> QED
    BY <2>2, <2>3, <2>4, <1>0 DEF IInv, IdleQueueEmpty, NoStopQueued
<1> QED BY <1>2, <1>3

LEMMA ActiveIsId ==
  ASSUME IInv, active # 0
  PROVE  TypeOK /\ active \in Ids
<1>1. TypeOK /\ active \in 0..MaxMsgs
  BY DEF IInv, TypeOK
<1> QED BY <1>1, DispatchAssumption DEF Ids

\* The message Run starts when a turn is done is the oldest one waiting, and
\* it is no /stop.
LEMMA DoneHead ==
  ASSUME IInv, WorkDone, pendingMsgs # <<>>
  PROVE  /\ Head(pendingMsgs) \in Ids /\ Head(pendingMsgs) \in Waiting
         /\ Head(pendingMsgs) # 0 /\ ~stop[Head(pendingMsgs)]
         /\ updates' = updates /\ pendingMsgs' = Tail(pendingMsgs)
         /\ Waiting' = Waiting \ {Head(pendingMsgs)}
         /\ \A i \in Waiting : Head(pendingMsgs) <= i
<1> DEFINE m == Head(pendingMsgs)
<1>1. pendingMsgs' = Tail(pendingMsgs) /\ updates' = updates
  BY DEF WorkDone
<1>2. Range(pendingMsgs) \cup Range(updates) \subseteq Nat
  BY IdsAreNats DEF IInv, TypeOK
<1>3. /\ m \in Ids /\ m \in Range(pendingMsgs) /\ m \notin Range(updates)
      /\ Range(Tail(pendingMsgs)) = Range(pendingMsgs) \ {m}
      /\ \A i \in Range(Tail(pendingMsgs)) : m < i
      /\ \A i \in Range(updates) : m < i
  BY PendingHead
<1>4. ~stop[m] /\ m # 0
  BY <1>3, IdsAreNats DEF IInv, NoStopQueued, Ids
<1> HIDE DEF m
<1>5. /\ m \in Ids /\ m \in Waiting /\ m # 0 /\ ~stop[m]
      /\ updates' = updates /\ pendingMsgs' = Tail(pendingMsgs)
      /\ Waiting' = Waiting \ {m}
      /\ \A i \in Waiting : m <= i
  BY <1>1, <1>2, <1>3, <1>4 DEF Waiting
<1> QED BY <1>5 DEF m

LEMMA WorkDonePreserves ==
  ASSUME IInv, WorkDone
  PROVE  IInv'
<1> DEFINE m == Head(pendingMsgs)
<1>0. TypeOK /\ turn[active] = "done" /\ active \in Ids
  BY ActiveIsId DEF WorkDone
<1>1. CASE pendingMsgs = <<>>
  <2>1. /\ active' = 0
        /\ UNCHANGED <<key, stop, arrived, updates, loop, panics, ctxDone, pendingMsgs,
                       turn, cancelled, inbox, fate>>
    BY <1>1 DEF WorkDone
  <2>2. TypeOK'
    BY <2>1, <1>0, DispatchAssumption DEF TypeOK
  <2>3. OneTurn'
    BY <2>1, <1>0 DEF IInv, OneTurn
  <2>4. ArrivalOrder'
    <3>1. \A i \in Waiting : i \in Nat \ {0}
      BY <1>0, IdsAreNats DEF TypeOK, Ids, Waiting
    <3> QED BY <3>1, <2>1 DEF IInv, ArrivalOrder, Waiting
  <2> QED
    BY <2>1, <2>2, <2>3, <2>4, <1>1
    DEF IInv, NothingLost, IdleQueueEmpty, StopIsFinal, FutureUntouched,
        TurnsAreDispatched, NoStopQueued
<1>2. CASE pendingMsgs # <<>>
  <2>0. /\ m \in Ids /\ m \in Waiting /\ m # 0 /\ ~stop[m]
        /\ updates' = updates /\ pendingMsgs' = Tail(pendingMsgs)
        /\ Waiting' = Waiting \ {m}
        /\ \A i \in Waiting : m <= i
    BY <1>2, DoneHead
  <2>1. /\ active' = m /\ inbox' = inbox
        /\ turn' = [turn EXCEPT ![m] = "handling"]
        /\ fate' = [fate EXCEPT ![m] = "dispatched"]
        /\ UNCHANGED <<key, stop, arrived, updates, loop, panics, ctxDone, cancelled>>
    BY <1>2, <2>0 DEF WorkDone, dispatchMessage
  <2>2. TypeOK'
    <3>1. /\ fate' \in [Ids -> Fates]
          /\ turn' \in [Ids -> {"none", "handling", "reporting", "closing", "done"}]
      BY <2>0, <2>1, <1>0 DEF TypeOK, Fates
    <3>2. active' \in 0..MaxMsgs
      BY <2>0, <2>1, DispatchAssumption DEF Ids
    <3>3. pendingMsgs' \in Seq(Ids) /\ Len(pendingMsgs') <= MaxPending
      BY <1>0, <1>2, <2>0, SequenceTypes, DispatchAssumption DEF TypeOK
    <3> QED BY <2>1, <3>1, <3>2, <3>3, <1>0 DEF TypeOK
  <2>3. OneTurn' /\ NothingLost' /\ StopIsFinal' /\ FutureUntouched' /\ TurnsAreDispatched'
    <3> HIDE DEF m
    <3> QED BY <1>0, <2>0, <2>1, StartStep
  <2>4. ArrivalOrder'
    BY <1>2, <2>0, <2>1, PendingHead DEF IInv, ArrivalOrder
  <2>5. NoStopQueued' /\ IdleQueueEmpty'
    BY <1>2, <2>0, <2>1, PendingHead DEF IInv, NoStopQueued, IdleQueueEmpty
  <2> QED BY <2>2, <2>3, <2>4, <2>5 DEF IInv
<1> QED BY <1>1, <1>2

\* A /stop that finds the turn in flight over, or cancels it.
LEMMA StopActivePreserves ==
  ASSUME IInv, BusyUpdate, stop[Head(updates)], stopActive(Head(updates))
  PROVE  IInv'
<1> DEFINE m == Head(updates)
<1>0. /\ TypeOK /\ active \in Ids /\ active # 0 /\ active' = active /\ turn' = turn
      /\ m \in Ids /\ m \in Waiting /\ m \notin Range(pendingMsgs)
      /\ updates' = Tail(updates)
      /\ Range(updates') = Range(updates) \ {m}
      /\ updates' \in Seq(Ids) /\ Len(updates') <= UpdatesCap
      /\ UNCHANGED <<key, stop, arrived, loop, panics, ctxDone, active, turn>>
  <2>1. m \in Range(updates)
    BY TailIncreasing, IdsAreNats DEF BusyUpdate, IInv, TypeOK, ArrivalOrder
  <2>2. TypeOK /\ active \in Ids
    BY ActiveIsId DEF BusyUpdate
  <2> QED
    BY <2>1, <2>2, UpdatesHead DEF BusyUpdate, Waiting
<1>a. ArrivalOrder' /\ NoStopQueued' /\ IdleQueueEmpty' /\ OneTurn' /\ pendingMsgs' \in Seq(Ids)
      /\ Len(pendingMsgs') <= MaxPending
  <2>1. pendingMsgs' = pendingMsgs \/ pendingMsgs' = <<>>
    BY DEF stopActive
  <2>2. /\ Increasing(updates')
        /\ \A i \in Range(updates') : active < i
        /\ \A i \in Range(updates'), j \in Range(pendingMsgs) : j < i
    BY <1>0, UpdatesHead DEF BusyUpdate, IInv, ArrivalOrder
  <2>3. pendingMsgs' \in Seq(Ids) /\ Len(pendingMsgs') <= MaxPending
    <3>1. <<>> \in Seq(Ids) /\ Len(<<>>) <= MaxPending
      BY SequenceTypes, DispatchAssumption
    <3>2. pendingMsgs \in Seq(Ids) /\ Len(pendingMsgs) <= MaxPending
      BY <1>0 DEF TypeOK
    <3> QED BY <3>1, <3>2, <2>1
  <2>4. CASE pendingMsgs' = pendingMsgs
    BY <2>4, <2>2, <2>3, <1>0 DEF IInv, ArrivalOrder, NoStopQueued, IdleQueueEmpty, OneTurn
  <2>5. CASE pendingMsgs' = <<>>
    BY <2>5, <2>2, <2>3, <1>0, EmptyRange
    DEF IInv, ArrivalOrder, NoStopQueued, IdleQueueEmpty, OneTurn
  <2> QED BY <2>1, <2>4, <2>5
<1>1. CASE turn[active] = "done"
  <2>1. /\ trySend(key[m], "already finished")
        /\ fate' = [fate EXCEPT ![m] = "already finished"]
        /\ cancelled' = cancelled /\ pendingMsgs' = pendingMsgs
    BY <1>1 DEF stopActive
  <2>2. fate' \in [Ids -> Fates]
    BY <2>1, <1>0 DEF TypeOK, Fates
  <2>3. inbox' \in Seq([key : Keys, text : Notices]) /\ Len(inbox') <= InboxCap
    BY <2>1, <1>0, TrySendType DEF TypeOK, Notices
  <2>4. TypeOK'
    BY <2>1, <2>2, <2>3, <1>0, <1>a DEF TypeOK
  <2>5. /\ NothingLost'
        /\ FutureUntouched'
        /\ \A i \in Ids : turn'[i] # "none" <=> fate'[i] = "dispatched"
    <3>1. /\ {m} \in SUBSET Ids /\ {m} \subseteq Waiting /\ Waiting' = Waiting \ {m}
          /\ \A i \in Ids \ {m} : fate'[i] = fate[i]
          /\ \A i \in {m} : fate'[i] \notin {"none", "dispatched"}
      BY <2>1, <1>0 DEF TypeOK, Waiting
    <3> HIDE DEF m
    <3> QED BY <2>2, <3>1, <1>0, DisposeStep
  <2>6. StopIsFinal'
    BY <2>1, <1>0 DEF IInv, StopIsFinal, TypeOK
  <2> QED BY <2>4, <2>5, <2>6, <1>0, <1>a DEF IInv, TurnsAreDispatched
<1>2. CASE turn[active] # "done"
  <2> DEFINE D == {m} \cup Range(pendingMsgs)
  <2>1. /\ trySend(key[m], "stopped")
        /\ fate' = [i \in Ids |-> IF i = m THEN "stopped"
                                  ELSE IF i \in Range(pendingMsgs) THEN "flushed"
                                  ELSE fate[i]]
        /\ cancelled' = cancelled \cup {active} /\ pendingMsgs' = <<>>
    BY <1>2 DEF stopActive
  <2>2. fate' \in [Ids -> Fates]
    BY <2>1, <1>0 DEF TypeOK, Fates
  <2>3. inbox' \in Seq([key : Keys, text : Notices]) /\ Len(inbox') <= InboxCap
    BY <2>1, <1>0, TrySendType DEF TypeOK, Notices
  <2>4. TypeOK'
    BY <2>1, <2>2, <2>3, <1>0, <1>a DEF TypeOK
  <2>d. /\ D \in SUBSET Ids /\ D \subseteq Waiting /\ Waiting' = Waiting \ D
        /\ \A i \in Ids \ D : fate'[i] = fate[i]
        /\ \A i \in D : fate'[i] \notin {"none", "dispatched"}
    <3>1. Range(pendingMsgs) \subseteq Ids /\ Range(pendingMsgs') = {}
      BY <2>1, <1>0, IdsAreNats, EmptyRange DEF TypeOK
    <3>2. \A i \in Range(pendingMsgs) : i \notin Range(updates)
      <4>1. \A i \in Range(pendingMsgs), j \in Range(updates) : i < j
        BY DEF IInv, ArrivalOrder
      <4>2. \A i \in Ids : ~(i < i)
        BY IdsAreNats
      <4> QED BY <4>1, <4>2, <3>1
    <3> QED BY <3>1, <3>2, <2>1, <1>0 DEF Waiting
  <2>5. /\ NothingLost'
        /\ FutureUntouched'
        /\ \A i \in Ids : turn'[i] # "none" <=> fate'[i] = "dispatched"
    <3> HIDE DEF D
    <3> QED BY <2>2, <2>d, <1>0, DisposeStep
  <2>6. StopIsFinal'
    <3> SUFFICES ASSUME NEW s \in Ids, NEW i \in Ids, fate'[s] = "stopped", i < s
                 PROVE  i \notin Waiting' /\ (turn'[i] \in {"none", "done"} \/ i \in cancelled')
      BY DEF StopIsFinal, Waiting
    <3>1. CASE s = m
      <4>1. i \notin Range(updates')
        <5>1. \A j \in Range(updates') : m < j
          BY <1>0, UpdatesHead DEF BusyUpdate
        <5> QED BY <5>1, <3>1, IdsAreNats
      <4>2. i \notin Waiting'
        BY <4>1, <2>1, EmptyRange DEF Waiting
      <4>3. turn'[i] \in {"none", "done"} \/ i = active
        BY <1>0 DEF IInv, OneTurn
      <4> QED BY <4>2, <4>3, <2>1
    <3>2. CASE s # m
      <4>1. fate[s] = "stopped"
        BY <3>2, <2>1
      <4> QED BY <4>1, <2>1, <2>d, <1>0 DEF IInv, StopIsFinal, Waiting
    <3> QED BY <3>1, <3>2
  <2> QED BY <2>4, <2>5, <2>6, <1>0, <1>a DEF IInv, TurnsAreDispatched
<1> QED BY <1>1, <1>2

\* A message queued behind the turn in flight, at the cap and below it.
LEMMA EnqueuePreserves ==
  ASSUME IInv, BusyUpdate, ~stop[Head(updates)], enqueue(Head(updates)),
         cancelled' = cancelled
  PROVE  IInv'
<1> DEFINE m == Head(updates)
           h == Head(pendingMsgs)
<1>0. /\ TypeOK /\ active \in Ids /\ active # 0
      /\ m \in Ids /\ m \in Waiting /\ m \notin Range(pendingMsgs)
      /\ updates' = Tail(updates)
      /\ Range(updates') = Range(updates) \ {m}
      /\ updates' \in Seq(Ids) /\ Len(updates') <= UpdatesCap
      /\ UNCHANGED <<key, stop, arrived, loop, panics, ctxDone, active, turn>>
      /\ pendingMsgs \in Seq(Ids) /\ pendingMsgs \in Seq(Nat)
  <2>1. m \in Range(updates)
    BY TailIncreasing, IdsAreNats DEF BusyUpdate, IInv, TypeOK, ArrivalOrder
  <2>2. TypeOK /\ active \in Ids
    BY ActiveIsId DEF BusyUpdate
  <2>3. pendingMsgs \in Seq(Ids) /\ pendingMsgs \in Seq(Nat)
    BY <2>2, IdsAreNats DEF TypeOK
  <2> QED
    BY <2>1, <2>2, <2>3, UpdatesHead DEF BusyUpdate, Waiting
<1>1. /\ active < m
      /\ \A i \in Range(pendingMsgs) : i < m
      /\ \A j \in Range(updates') : m < j
      /\ \A i \in Range(pendingMsgs), j \in Range(updates') : i < j
      /\ \A i \in Range(updates') : active < i
      /\ Increasing(updates')
  BY <1>0, UpdatesHead DEF BusyUpdate, IInv, ArrivalOrder
<1>2. CASE Len(pendingMsgs) >= MaxPending
  <2>0. pendingMsgs # <<>>
    BY <1>2, SequenceTypes, DispatchAssumption
  <2>1. /\ trySend(key[h], "dropped")
        /\ fate' = [fate EXCEPT ![h] = "overflow"]
        /\ pendingMsgs' = Append(Tail(pendingMsgs), m)
    BY <1>2, <1>0, SequenceTypes, DispatchAssumption DEF enqueue
  <2>2. /\ h \in Ids /\ h \in Range(pendingMsgs)
        /\ Range(Tail(pendingMsgs)) = Range(pendingMsgs) \ {h}
        /\ Increasing(Tail(pendingMsgs)) /\ h \notin Range(updates)
        /\ Tail(pendingMsgs) \in Seq(Ids) /\ Tail(pendingMsgs) \in Seq(Nat)
        /\ Len(Tail(pendingMsgs)) = Len(pendingMsgs) - 1
    BY <2>0, PendingHead, IdsAreNats
  <2>3. /\ Range(pendingMsgs') = (Range(pendingMsgs) \ {h}) \cup {m}
        /\ Increasing(pendingMsgs')
    <3>1. \A i \in Range(Tail(pendingMsgs)) : i < m
      BY <2>2, <1>1
    <3> QED BY <3>1, <2>1, <2>2, <1>0, IdsAreNats, AppendIncreasing
  <2>4. fate' \in [Ids -> Fates]
    BY <2>1, <2>2, <1>0 DEF TypeOK, Fates
  <2>5. inbox' \in Seq([key : Keys, text : Notices]) /\ Len(inbox') <= InboxCap
    BY <2>1, <2>2, <1>0, TrySendType DEF TypeOK, Notices
  <2>6. pendingMsgs' \in Seq(Ids) /\ Len(pendingMsgs') <= MaxPending
    <3>1. Len(pendingMsgs) <= MaxPending /\ Len(pendingMsgs) \in Nat
      BY <1>0, SequenceTypes DEF TypeOK
    <3>2. Len(pendingMsgs') = Len(pendingMsgs)
      BY <2>1, <2>2, <1>0, <3>1, SequenceTypes
    <3> QED BY <3>1, <3>2, <2>1, <2>2, <1>0, SequenceTypes
  <2>7. TypeOK'
    BY <2>4, <2>5, <2>6, <1>0 DEF TypeOK
  <2>8. /\ NothingLost'
        /\ FutureUntouched'
        /\ \A i \in Ids : turn'[i] # "none" <=> fate'[i] = "dispatched"
    <3>1. /\ {h} \in SUBSET Ids /\ {h} \subseteq Waiting /\ Waiting' = Waiting \ {h}
          /\ \A i \in Ids \ {h} : fate'[i] = fate[i]
          /\ \A i \in {h} : fate'[i] \notin {"none", "dispatched"}
      BY <2>1, <2>2, <2>3, <1>0 DEF TypeOK, Waiting
    <3> HIDE DEF h, m
    <3> QED BY <2>4, <3>1, <1>0, DisposeStep
  <2>9. ArrivalOrder' /\ NoStopQueued'
    BY <1>0, <1>1, <2>3 DEF IInv, ArrivalOrder, NoStopQueued, BusyUpdate
  <2>10. StopIsFinal'
    BY <2>1, <2>2, <2>3, <1>0 DEF IInv, StopIsFinal, TypeOK, Waiting
  <2> QED
    BY <2>7, <2>8, <2>9, <2>10, <1>0 DEF IInv, OneTurn, IdleQueueEmpty, TurnsAreDispatched
<1>3. CASE ~(Len(pendingMsgs) >= MaxPending)
  <2>1. pendingMsgs' = Append(pendingMsgs, m) /\ inbox' = inbox /\ fate' = fate
    BY <1>3 DEF enqueue
  <2>2. /\ Range(pendingMsgs') = Range(pendingMsgs) \cup {m}
        /\ Increasing(pendingMsgs')
    BY <2>1, <1>0, <1>1, IdsAreNats, AppendIncreasing DEF IInv, ArrivalOrder
  <2>3. pendingMsgs' \in Seq(Ids) /\ Len(pendingMsgs') <= MaxPending
    BY <2>1, <1>3, <1>0, SequenceTypes, DispatchAssumption
  <2>4. TypeOK'
    BY <2>1, <2>3, <1>0 DEF TypeOK
  <2>5. Waiting' = Waiting
    BY <2>2, <1>0 DEF Waiting
  <2>6. ArrivalOrder' /\ NoStopQueued'
    BY <1>0, <1>1, <2>2 DEF IInv, ArrivalOrder, NoStopQueued, BusyUpdate
  <2> QED
    BY <2>1, <2>4, <2>5, <2>6, <1>0
    DEF IInv, OneTurn, NothingLost, StopIsFinal, FutureUntouched, IdleQueueEmpty,
        TurnsAreDispatched, Waiting
<1> QED BY <1>2, <1>3

\* The work goroutine moves only its own turn, and never restarts it.
LEMMA WorkPreserves ==
  ASSUME IInv, NEW i \in Ids, Work(i)
  PROVE  IInv'
<1>0. TypeOK /\ fate[i] = "dispatched"
  BY DEF IInv, TypeOK, TurnsAreDispatched, Work, HandlerReturns, HandlerPanics,
         ReportFailure, CloseDone
<1>1. /\ workUnchanged
      /\ turn[i] \notin {"none", "done"}
      /\ \E t \in {"reporting", "closing", "done"} : turn' = [turn EXCEPT ![i] = t]
  BY DEF Work, HandlerReturns, HandlerPanics, ReportFailure, CloseDone
<1>2. inbox' \in Seq([key : Keys, text : Notices]) /\ Len(inbox') <= InboxCap
  <2>1. inbox' = inbox \/ trySend(key[i], "sorry")
    BY DEF Work, HandlerReturns, HandlerPanics, ReportFailure, CloseDone
  <2>2. CASE inbox' = inbox
    BY <2>2, <1>0 DEF TypeOK
  <2>3. CASE trySend(key[i], "sorry")
    BY <2>3, <1>0, TrySendType DEF TypeOK, Notices
  <2> QED BY <2>1, <2>2, <2>3
<1>3. turn' \in [Ids -> {"none", "handling", "reporting", "closing", "done"}]
  BY <1>0, <1>1 DEF TypeOK
<1>4. TypeOK'
  BY <1>0, <1>1, <1>2, <1>3 DEF TypeOK, workUnchanged
<1>5. \A j \in Ids : /\ turn'[j] # "none" <=> turn[j] # "none"
                    /\ turn[j] \in {"none", "done"} => turn'[j] = turn[j]
  BY <1>0, <1>1 DEF TypeOK
<1>6. active # 0 => turn'[active] # "none"
  BY <1>5, <1>1, ActiveIsId DEF IInv, TurnsAreDispatched
<1> QED
  BY <1>1, <1>4, <1>5, <1>6
  DEF IInv, workUnchanged, OneTurn, NothingLost, ArrivalOrder, IdleQueueEmpty, StopIsFinal,
      FutureUntouched, TurnsAreDispatched, NoStopQueued

\* Steps that leave the messages and the turns alone.
LEMMA QuietPreserves ==
  ASSUME IInv,
         SendNotice \/ Panic \/ Restart \/ CancelRoot \/ Exit \/ UNCHANGED vars
  PROVE  IInv'
<1>1. UNCHANGED <<key, stop, arrived, updates, active, pendingMsgs, turn, cancelled, fate>>
  BY DEF SendNotice, Panic, Restart, CancelRoot, Exit, vars
<1>2. TypeOK
  BY DEF IInv
<1>3. inbox' \in Seq([key : Keys, text : Notices]) /\ Len(inbox') <= InboxCap
  <2> DEFINE Notice == [key : Keys, text : Notices]
  <2>1. inbox \in Seq(Notice) /\ Len(inbox) <= InboxCap
    BY <1>2 DEF TypeOK
  <2>2. inbox' = inbox \/ (inbox # <<>> /\ inbox' = Tail(inbox))
    BY DEF SendNotice, Panic, Restart, CancelRoot, Exit, vars
  <2> HIDE DEF Notice
  <2>3. inbox' \in Seq(Notice) /\ Len(inbox') <= InboxCap
    BY <2>1, <2>2, SequenceTypes, DispatchAssumption
  <2> QED BY <2>3 DEF Notice
<1>4. /\ loop' \in {"select", "backoff", "exited"}
      /\ panics' \in 0..MaxPanics
      /\ ctxDone' \in BOOLEAN
  <2>1. CASE Panic
    BY <2>1, <1>2, DispatchAssumption DEF Panic, TypeOK
  <2>2. CASE SendNotice \/ Restart \/ CancelRoot \/ Exit \/ UNCHANGED vars
    BY <2>2, <1>2 DEF SendNotice, Restart, CancelRoot, Exit, vars, TypeOK
  <2> QED BY <2>1, <2>2
<1>5. TypeOK'
  BY <1>1, <1>2, <1>3, <1>4 DEF TypeOK
<1> QED
  BY <1>1, <1>5
  DEF IInv, OneTurn, NothingLost, ArrivalOrder, IdleQueueEmpty, StopIsFinal,
      FutureUntouched, TurnsAreDispatched, NoStopQueued

LEMMA NextInvariant == IInv /\ [Next]_vars => IInv'
<1> SUFFICES ASSUME IInv, [Next]_vars PROVE IInv'
  OBVIOUS
<1>1. CASE ReceiveUpdate
  BY <1>1, ReceiveUpdatePreserves
<1>2. CASE DropUpdate
  BY <1>2, DropUpdatePreserves
<1>3. CASE IdleUpdate
  BY <1>3, IdleUpdatePreserves
<1>4. CASE WorkDone
  BY <1>4, WorkDonePreserves
<1>5. CASE BusyUpdate
  <2>1. CASE stop[Head(updates)] /\ stopActive(Head(updates))
    BY <1>5, <2>1, StopActivePreserves
  <2>2. CASE ~stop[Head(updates)] /\ enqueue(Head(updates)) /\ cancelled' = cancelled
    BY <1>5, <2>2, EnqueuePreserves
  <2> QED BY <1>5, <2>1, <2>2 DEF BusyUpdate
<1>6. CASE \E i \in Ids : Work(i)
  BY <1>6, WorkPreserves
<1>7. CASE SendNotice \/ Panic \/ Restart \/ CancelRoot \/ Exit \/ UNCHANGED vars
  BY <1>7, QuietPreserves
<1> QED
  BY <1>1, <1>2, <1>3, <1>4, <1>5, <1>6, <1>7 DEF Next, Telegram, Run

-----------------------------------------------------------------------------
(* The theorems. *)

\* The inductive invariant holds in every reachable state.
THEOREM Invariance == Spec => []IInv
BY InitInvariant, NextInvariant, PTL DEF Spec

\* The state of the Run loop is well typed, and its queue and channels never
\* exceed their capacities.
THEOREM TypeCorrect == Spec => []TypeOK
<1>1. IInv => TypeOK
  BY DEF IInv
<1> QED BY <1>1, Invariance, PTL

\* At most one work goroutine is alive at any time.
THEOREM TurnsAreSerialized == Spec => []OneTurn
<1>1. IInv => OneTurn
  BY DEF IInv
<1> QED BY <1>1, Invariance, PTL

\* Every message that arrived either waits or has been disposed of.
THEOREM NoMessageIsForgotten == Spec => []NothingLost
<1>1. IInv => NothingLost
  BY DEF IInv
<1> QED BY <1>1, Invariance, PTL

\* Messages wait in the order of their arrival.
THEOREM QueueIsFifo == Spec => []ArrivalOrder
<1>1. IInv => ArrivalOrder
  BY DEF IInv
<1> QED BY <1>1, Invariance, PTL

\* When no turn is in flight, no message is stranded in the queue.
THEOREM NoMessageIsStranded == Spec => []IdleQueueEmpty
<1>1. IInv => IdleQueueEmpty
  BY DEF IInv
<1> QED BY <1>1, Invariance, PTL

\* After "Stopped." no earlier message starts or runs on uncancelled.
THEOREM StopCannotBeUndone == Spec => []StopIsFinal
<1>1. IInv => StopIsFinal
  BY DEF IInv
<1> QED BY <1>1, Invariance, PTL

-----------------------------------------------------------------------------
(* The Run loop implements the abstract queue of turns. *)

\* The abstract status of each message before and after a step: only a
\* message whose fate, turn or arrival changes gets a new one.
LEMMA StatusFacts ==
  ASSUME IInv, IInv'
  PROVE  /\ TQ!Ids = Ids
         /\ status = [i \in Ids |-> status[i]] /\ status' = [i \in Ids |-> status'[i]]
         /\ \A i \in Ids :
              /\ status[i] = "new" <=> i > arrived
              /\ status'[i] = "new" <=> i > arrived'
              /\ status[i] = "waiting" <=> i \in Waiting
              /\ status'[i] = "waiting" <=> i \in Waiting'
              /\ status[i] = "running" <=> turn[i] \notin {"none", "done"}
              /\ status'[i] = "running" <=> turn'[i] \notin {"none", "done"}
              /\ status[i] = "finished" <=> turn[i] = "done"
              /\ status'[i] = "finished" <=> turn'[i] = "done"
              /\ status[i] \in {"new", "waiting", "running", "finished", "discarded"}
              /\ status'[i] \in {"new", "waiting", "running", "finished", "discarded"}
<1>1. /\ TQ!Ids = Ids
      /\ status = [i \in Ids |-> status[i]] /\ status' = [i \in Ids |-> status'[i]]
  BY DEF TQ!Ids, Ids, status
<1> SUFFICES ASSUME NEW i \in Ids
             PROVE  /\ status[i] = "new" <=> i > arrived
                    /\ status'[i] = "new" <=> i > arrived'
                    /\ status[i] = "waiting" <=> i \in Waiting
                    /\ status'[i] = "waiting" <=> i \in Waiting'
                    /\ status[i] = "running" <=> turn[i] \notin {"none", "done"}
                    /\ status'[i] = "running" <=> turn'[i] \notin {"none", "done"}
                    /\ status[i] = "finished" <=> turn[i] = "done"
                    /\ status'[i] = "finished" <=> turn'[i] = "done"
                    /\ status[i] \in {"new", "waiting", "running", "finished", "discarded"}
                    /\ status'[i] \in {"new", "waiting", "running", "finished", "discarded"}
  BY <1>1
<1>2. /\ i \in Nat \ {0} /\ arrived \in Nat /\ arrived' \in Nat
  BY DispatchAssumption DEF Ids, IInv, TypeOK
<1>3. /\ i > arrived => fate[i] = "none"
      /\ i > arrived' => fate'[i] = "none"
  BY DEF IInv, FutureUntouched
<1>4. /\ turn[i] # "none" <=> fate[i] = "dispatched"
      /\ turn'[i] # "none" <=> fate'[i] = "dispatched"
  BY DEF IInv, TurnsAreDispatched
<1>5. /\ i \in Waiting <=> (i <= arrived /\ fate[i] = "none")
      /\ i \in Waiting' <=> (i <= arrived' /\ fate'[i] = "none")
  BY <1>2 DEF IInv, NothingLost, Waiting
<1> QED BY <1>2, <1>3, <1>4, <1>5 DEF status

\* A step of the Run loop or of a work goroutine is one of the abstract queue.
LEMMA StatusStep ==
  ASSUME IInv, [Next]_vars
  PROVE  [TQ!Next]_status
<1> SUFFICES ASSUME status' # status
             PROVE  TQ!Next
  OBVIOUS
<1>0. TypeOK /\ IInv' /\ TypeOK'
  BY NextInvariant DEF IInv
<1>f. /\ TQ!Ids = Ids
      /\ status = [i \in Ids |-> status[i]] /\ status' = [i \in Ids |-> status'[i]]
  BY <1>0, StatusFacts
<1>1. CASE ReceiveUpdate \/ DropUpdate
  <2> DEFINE n == arrived + 1
  <2>1. n \in Ids /\ arrived \in Nat /\ arrived' = n /\ turn' = turn
    <3>1. n \in Ids /\ arrived \in Nat
      BY <1>1, <1>0, DispatchAssumption DEF ReceiveUpdate, DropUpdate, TypeOK, Ids
    <3> QED BY <1>1, <3>1 DEF ReceiveUpdate, DropUpdate
  <2>2. \A i \in Ids : i # n => fate'[i] = fate[i]
    BY <1>1, <1>0, <2>1 DEF ReceiveUpdate, DropUpdate, TypeOK
  <2>3. /\ status[n] = "new"
        /\ \A i \in Ids : i < n => status[i] # "new"
    BY <2>1, <1>0, StatusFacts, IdsAreNats
  <2>4. \A i \in Ids : i # n => status'[i] = status[i]
    BY <2>1, <2>2, IdsAreNats DEF status
  <2>5. turn[n] = "none" /\ status'[n] \in {"waiting", "discarded"}
    BY <2>1, <2>3, <1>0, StatusFacts, IdsAreNats
  <2>6. status' = [status EXCEPT ![n] = status'[n]]
    BY <2>4, <1>f
  <2>7. TQ!Submit(n)
    BY <2>1, <2>3, <2>5, <2>6, <1>f DEF TQ!Submit
  <2> QED BY <2>1, <2>7, <1>f DEF TQ!Next
<1>2. ASSUME NEW m \in Waiting, m \in Ids, \A i \in Waiting : m <= i,
             active = 0 \/ turn[active] = "done",
             turn' = [turn EXCEPT ![m] = "handling"],
             arrived' = arrived, Waiting' = Waiting \ {m}
      PROVE  TQ!Next
  <2>1. /\ turn'[m] = "handling"
        /\ \A i \in Ids : i # m => turn'[i] = turn[i]
    BY <1>2, <1>0 DEF TypeOK
  <2>2. \A i \in Ids : turn[i] \in {"none", "done"}
    BY <1>2, <1>0, IdsAreNats DEF IInv, OneTurn, Ids
  <2>3. /\ status[m] = "waiting" /\ status'[m] = "running"
        /\ \A j \in Ids : status[j] # "running"
    BY <1>2, <2>1, <2>2, <1>0, StatusFacts
  <2>4. \A j \in Ids : j < m => status[j] # "waiting"
    <3>1. \A j \in Waiting : ~(j < m)
      <4>1. Waiting \subseteq Nat
        BY <1>0, IdsAreNats DEF TypeOK, Waiting
      <4> QED BY <4>1, <1>2
    <3> QED BY <3>1, <1>0, StatusFacts
  <2>5. \A i \in Ids : i # m => status'[i] = status[i]
    BY <1>2, <2>1, <1>0, StatusFacts
  <2>6. status' = [status EXCEPT ![m] = "running"]
    BY <2>3, <2>5, <1>f
  <2>7. TQ!Start(m)
    BY <2>3, <2>4, <2>6, <1>f DEF TQ!Start
  <2> QED BY <1>2, <2>7, <1>f DEF TQ!Next
<1>3. ASSUME arrived' = arrived, turn' = turn,
             \A i \in Ids : fate'[i] = "none" => fate[i] = "none"
      PROVE  TQ!Next
  <2> DEFINE D == {i \in Ids : i \in Waiting /\ i \notin Waiting'}
  <2>1. Waiting' \subseteq Waiting
    <3>1. 1..arrived \subseteq Ids
      BY <1>0, DispatchAssumption DEF TypeOK, Ids
    <3> QED BY <1>3, <3>1, <1>0 DEF IInv, NothingLost, Waiting
  <2>2. \A i \in Ids : i \notin D => status'[i] = status[i]
    BY <1>3, <2>1, <1>0, StatusFacts
  <2>3. \A i \in D : status[i] = "waiting" /\ status'[i] = "discarded"
    BY <1>3, <1>0, StatusFacts
  <2> HIDE DEF D
  <2>4. status' = [i \in Ids |-> IF i \in D THEN "discarded" ELSE status[i]]
    BY <2>2, <2>3, <1>f
  <2>5. D # {}
    BY <2>4, <1>f
  <2>6. TQ!Discard(D)
    BY <2>3, <2>4, <2>5, <1>f DEF TQ!Discard
  <2>7. D \in SUBSET Ids
    BY DEF D
  <2> QED BY <2>6, <2>7, <1>f DEF TQ!Next
<1>4. CASE IdleUpdate
  <2> DEFINE m == Head(updates)
  <2>1. m \in Ids /\ m \in Waiting /\ Waiting' = Waiting \ {m} /\ \A i \in Waiting : m <= i
    BY <1>4, IdleHead
  <2>2. CASE stop[m]
    <3>1. turn' = turn /\ arrived' = arrived /\ fate' = [fate EXCEPT ![m] = "nothing to stop"]
      BY <1>4, <2>2 DEF IdleUpdate, dispatchMessage
    <3> QED BY <3>1, <2>1, <1>0, <1>3 DEF TypeOK
  <2>3. CASE ~stop[m]
    <3>1. turn' = [turn EXCEPT ![m] = "handling"] /\ arrived' = arrived /\ active = 0
      BY <1>4, <2>3 DEF IdleUpdate, dispatchMessage
    <3> HIDE DEF m
    <3> QED BY <3>1, <2>1, <1>2
  <2> QED BY <2>2, <2>3
<1>5. CASE WorkDone
  <2>1. CASE pendingMsgs = <<>>
    <3>1. arrived' = arrived /\ turn' = turn /\ fate' = fate
      BY <1>5, <2>1 DEF WorkDone
    <3> QED BY <3>1, <1>3
  <2>2. CASE pendingMsgs # <<>>
    <3> DEFINE m == Head(pendingMsgs)
    <3>1. m \in Ids /\ m \in Waiting /\ Waiting' = Waiting \ {m} /\ ~stop[m]
          /\ \A i \in Waiting : m <= i
      BY <1>5, <2>2, DoneHead
    <3>2. turn' = [turn EXCEPT ![m] = "handling"] /\ arrived' = arrived /\ turn[active] = "done"
      BY <1>5, <2>2, <3>1 DEF WorkDone, dispatchMessage
    <3> HIDE DEF m
    <3> QED BY <3>1, <3>2, <1>2
  <2> QED BY <2>1, <2>2
<1>6. CASE BusyUpdate
  <2>1. arrived' = arrived /\ turn' = turn
    BY <1>6 DEF BusyUpdate
  <2>2. \A i \in Ids : fate'[i] = "none" => fate[i] = "none"
    <3>1. CASE stopActive(Head(updates))
      BY <3>1, <1>0 DEF stopActive, TypeOK
    <3>2. CASE enqueue(Head(updates))
      BY <3>2, <1>0 DEF enqueue, TypeOK
    <3> QED BY <1>6, <3>1, <3>2 DEF BusyUpdate
  <2> QED BY <2>1, <2>2, <1>3
<1>7. ASSUME NEW i \in Ids, Work(i) PROVE TQ!Next
  <2>1. /\ arrived' = arrived /\ fate' = fate /\ turn[i] \notin {"none", "done"}
        /\ \E t \in {"reporting", "closing", "done"} : turn' = [turn EXCEPT ![i] = t]
    BY <1>7 DEF Work, HandlerReturns, HandlerPanics, ReportFailure, CloseDone, workUnchanged
  <2>2. \A j \in Ids : j # i => turn'[j] = turn[j]
    BY <2>1, <1>0 DEF TypeOK
  <2>3. turn'[i] \in {"reporting", "closing", "done"}
    BY <2>1, <1>0 DEF TypeOK
  <2>4. \A j \in Ids : j # i => status'[j] = status[j]
    BY <2>1, <2>2 DEF status
  <2>5. status[i] = "running" /\ status'[i] \in {"running", "finished"}
    BY <2>1, <2>3, <1>0, StatusFacts
  <2>6. status' = [status EXCEPT ![i] = status'[i]]
    BY <2>4, <1>f
  <2>7. status'[i] = "finished"
    BY <2>5, <2>6, <1>f
  <2>8. TQ!Finish(i)
    BY <2>5, <2>6, <2>7 DEF TQ!Finish
  <2> QED BY <2>8, <1>f DEF TQ!Next
<1>8. CASE SendNotice \/ Panic \/ Restart \/ CancelRoot \/ Exit \/ UNCHANGED vars
  <2>1. arrived' = arrived /\ turn' = turn /\ fate' = fate
    BY <1>8 DEF SendNotice, Panic, Restart, CancelRoot, Exit, vars
  <2> QED BY <2>1, <1>3
<1> QED
  BY <1>1, <1>4, <1>5, <1>6, <1>7, <1>8 DEF Next, Telegram, Run

\* Every behaviour of the Run loop is one of the abstract queue: messages start
\* in arrival order, one at a time, and a discarded message never comes back.
THEOREM RunLoopImplementsTurnQueue == Spec => ImplementsTurnQueue
<1>1. Init => TQ!Init
  <2> SUFFICES ASSUME Init PROVE status = [i \in Ids |-> "new"]
    BY DEF TQ!Init, TQ!Ids, Ids
  <2>1. \A i \in Ids : i > arrived
    BY IdsAreNats DEF Init, Ids
  <2> QED BY <2>1 DEF status
<1> QED
  BY <1>1, StatusStep, Invariance, PTL DEF Spec, ImplementsTurnQueue, TQ!Spec

=============================================================================
