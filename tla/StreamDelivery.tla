---------------------------- MODULE StreamDelivery ----------------------------
(***************************************************************************)
(* How the text of one turn reaches Telegram: the streamState of           *)
(* internal/session/actor.go, the two turn loops that drive it             *)
(* (toolUseLoop in API mode, handleWithCLI in CLI mode), the files that    *)
(* send_file queued for the end of the turn, and the side of Channel.Run   *)
(* that takes messages and documents and sends them.                       *)
(*                                                                         *)
(* Text is a sequence of numbered pieces; Limit pieces fit into one        *)
(* message.  Every non-HTML flush is a draft, since draftID is never empty *)
(* while streaming: drafts only occupy the inbox.  A file is its row id.   *)
(***************************************************************************)
EXTENDS Naturals, Sequences, SequencesExt

CONSTANTS
  MaxPieces,    \* bound: pieces of text Claude says in the turn
  Limit,        \* pieces that fit into one Telegram message (3900 runes)
  MaxRounds,    \* maxToolRounds
  InboxCap,     \* capacity of Channel.inbox
  MaxDelta,     \* bound: pieces in one delta
  MaxNoise,     \* bound: messages other actors put into the inbox
  MaxFiles      \* bound: files queued by send_file

ASSUME StreamAssumption ==
  /\ {MaxPieces, MaxRounds, InboxCap, MaxDelta, MaxNoise, MaxFiles} \subseteq Nat
  /\ Limit \in Nat \ {0}

VARIABLES
  mode,         \* "api" (toolUseLoop) or "cli" (handleWithCLI)
  streams,      \* does Claude stream deltas?  A cached CLI answer comes in the result only
  pc,           \* where the turn is
  after,        \* what follows the flush in progress
  round,        \* API rounds started
  said,         \* pieces Claude has said in this turn
  roundStart,   \* the first piece of this API round
  buf,          \* streamState.buf
  rest,         \* what onDelta keeps for the next message at an overflow
  msgID,        \* streamState.msgID: "none" (0), "lost" (-1) or "some"
  delivered,    \* streamState.delivered
  inbox,        \* Channel.inbox
  flushes,      \* number of result channels made; the last one is awaited
  result,       \* what the awaited result channel holds
  sending,      \* what Channel.Run has still to send of a message of several parts
  shown,        \* messages on the user's screen
  table,        \* the rows of pending_files
  todo,         \* files drained from the table that the turn has yet to send
  own,          \* files the tools of this turn queued
  files,        \* files queued so far
  gone,         \* files Telegram took or refused
  outcome,      \* "answered", "error" or "limit"; "" while the turn runs
  noise,
  dropped,      \* history: the inbox was full for a text or an error message
  failed,       \* history: Telegram refused a text message
  timedOut,     \* history: a flush gave up waiting for its message id
  unreadable    \* history: the table could not be read

turnVars == <<round, said, roundStart, buf, rest, msgID, delivered, outcome>>
history == <<dropped, failed, timedOut>>
fileVars == <<table, todo, own, files, gone, unreadable>>
streamVars == <<mode, streams, pc, after, turnVars, inbox, flushes, result, sending, shown,
          noise, history, fileVars>>

others == <<sending, shown, noise, fileVars>>

\* Channel.Run is between two messages.
NoMessage == [text |-> <<>>, rid |-> 0, unread |-> FALSE, refused |-> FALSE]

Pieces(a, b) == [i \in 1..(b + 1 - a) |-> a + i - 1]

StreamInit ==
  /\ mode \in {"api", "cli"}
  /\ streams \in (IF mode = "api" THEN {TRUE} ELSE BOOLEAN)
  /\ pc = "streaming" /\ after = ""
  /\ round = 1 /\ said = 0 /\ roundStart = 1
  /\ buf = <<>> /\ rest = <<>>
  /\ msgID = "none" /\ delivered = FALSE
  /\ inbox = <<>> /\ flushes = 0 /\ result = "none"
  /\ shown = <<>> /\ outcome = "" /\ noise = 0
  /\ dropped = FALSE /\ failed = FALSE /\ timedOut = FALSE /\ unreadable = FALSE
  /\ sending = NoMessage
  /\ table = {} /\ todo = {} /\ own = {} /\ files = 0 /\ gone = {}

Message(kind, text, rid) == [kind |-> kind, text |-> text, rid |-> rid]
Room == Len(inbox) < InboxCap

\* A send that never blocks; a lost text or error message is remembered.
trySend(kind, text) ==
  /\ inbox' = IF Room THEN Append(inbox, Message(kind, text, 0)) ELSE inbox
  /\ dropped' = (dropped \/ (~Room /\ kind # "tool"))

-----------------------------------------------------------------------------
(* Streaming: onDelta, onToolUse and the end of the stream. *)

Deltas == {n \in 1..MaxDelta : said + n <= MaxPieces}

\* The next delta is only accumulated, or also shown as a draft preview.
DeltaAccumulated ==
  /\ pc = "streaming"
  /\ \E n \in Deltas :
       /\ said' = said + n
       /\ buf' = IF streams THEN buf \o Pieces(said + 1, said + n) ELSE buf
  /\ Len(buf') <= Limit
  /\ \/ UNCHANGED inbox
     \/ streams /\ Room /\ inbox' = Append(inbox, Message("draft", buf', 0))
  /\ UNCHANGED <<mode, streams, pc, after, round, roundStart, rest, msgID, delivered,
                 outcome, flushes, result, others, history>>

\* splitAtBoundary: cut at a paragraph end in the second half of the message,
\* or at the limit.
Splits(text) == {<<SubSeq(text, 1, n), SubSeq(text, n + 1, Len(text))>> :
                   n \in {m \in 1..Limit : 2 * m >= Limit}}

\* The delta overflows the message: the first part is flushed as HTML.  The
\* remainder of a long delta may overflow again; that shows with the next one.
DeltaOverflows ==
  /\ pc = "streaming" /\ streams
  /\ \E n \in Deltas :
       /\ Len(buf) + n > Limit
       /\ said' = said + n
       /\ \E s \in Splits(buf \o Pieces(said + 1, said + n)) : buf' = s[1] /\ rest' = s[2]
  /\ pc' = "flush" /\ after' = "overflow"
  /\ UNCHANGED <<mode, streams, round, roundStart, msgID, delivered, outcome, inbox,
                 flushes, result, others, history>>

\* onToolUse (CLI): what was said before the tool call becomes a message.
ToolUse ==
  /\ pc = "streaming" /\ mode = "cli"
  /\ round < MaxRounds
  /\ round' = round + 1
  /\ pc' = "flush" /\ after' = "tool"
  /\ UNCHANGED <<mode, streams, said, roundStart, buf, rest, msgID, delivered, outcome,
                 inbox, flushes, result, others, history>>

\* finalFlush, once the stream ended well.
StreamEnds ==
  /\ pc = "streaming"
  /\ pc' = "flush" /\ after' = "final"
  /\ UNCHANGED <<mode, streams, turnVars, inbox, flushes, result, others, history>>

\* The stream failed, timed out or was cancelled.  msgID is 0 whenever text is
\* still streaming, so the branch that appends a notice to the message is dead
\* and the text that was only drafted is given up.
StreamFails ==
  /\ pc = "streaming"
  /\ trySend("error", <<>>)
  /\ pc' = "drain" /\ outcome' = "error"
  /\ UNCHANGED <<mode, streams, after, round, said, roundStart, buf, rest, msgID,
                 delivered, flushes, result, others, failed, timedOut>>

-----------------------------------------------------------------------------
(* flush in HTML mode.  Every caller has msgID = 0, so it sends a new message. *)

FlushNothing ==
  /\ pc = "flush" /\ buf = <<>>
  /\ pc' = "flushed"
  /\ UNCHANGED <<mode, streams, after, turnVars, inbox, flushes, result, others,
                 history>>

FlushDropped ==
  /\ pc = "flush" /\ buf # <<>> /\ ~Room
  /\ pc' = "flushed" /\ dropped' = TRUE
  /\ UNCHANGED <<mode, streams, after, turnVars, inbox, flushes, result, others,
                 failed, timedOut>>

FlushEnqueued ==
  /\ pc = "flush" /\ buf # <<>> /\ Room
  /\ flushes' = flushes + 1
  /\ inbox' = Append(inbox, Message("text", buf, flushes + 1))
  /\ delivered' = TRUE
  /\ result' = "none"
  /\ pc' = "waiting"
  /\ UNCHANGED <<mode, streams, after, round, said, roundStart, buf, rest, msgID,
                 outcome, others, history>>

\* The id arrives (0 if Telegram refused the message) ...
FlushAnswered ==
  /\ pc = "waiting" /\ result # "none"
  /\ msgID' = IF result = "id" THEN "some" ELSE "none"
  /\ sending' = [sending EXCEPT !.unread = @ /\ sending.rid # flushes]
  /\ pc' = "flushed"
  /\ UNCHANGED <<mode, streams, after, round, said, roundStart, buf, rest, delivered,
                 outcome, inbox, flushes, result, shown, noise, fileVars, history>>

\* Mutant: a flush waits for its id however long that takes.
FlushNeverTimesOut ==
  /\ pc = "waiting" /\ result = "none"
  /\ UNCHANGED streamVars

\* ... or does not within five seconds.
FlushTimesOut ==
  /\ pc = "waiting"
  /\ msgID' = "lost" /\ timedOut' = TRUE
  /\ pc' = "flushed"
  /\ UNCHANGED <<mode, streams, after, round, said, roundStart, buf, rest, delivered,
                 outcome, inbox, flushes, result, others, dropped, failed>>

\* onDelta goes on with the remainder in a new message.
AfterOverflow ==
  /\ pc = "flushed" /\ after = "overflow"
  /\ msgID' = "none" /\ buf' = rest /\ rest' = <<>>
  /\ pc' = "streaming"
  /\ UNCHANGED <<mode, streams, after, round, said, roundStart, delivered, outcome,
                 inbox, flushes, result, others, history>>

\* onToolUse: reset, then the [tool] line if the user wants to see those.
AfterTool ==
  /\ pc = "flushed" /\ after = "tool"
  /\ msgID' = "none" /\ buf' = <<>>
  /\ \/ UNCHANGED <<inbox, dropped>>
     \/ trySend("tool", <<>>)
  /\ pc' = "streaming"
  /\ UNCHANGED <<mode, streams, after, round, said, roundStart, rest, delivered, outcome,
                 flushes, result, others, failed, timedOut>>

-----------------------------------------------------------------------------
(* The end of a round. *)

\* resp.TextContent of this round (API), the accumulated fullText (CLI).
Answer == Pieces(IF mode = "api" THEN roundStart ELSE 1, said)

\* API: tool calls were requested and executed; the next round starts, unless
\* it would be one too many.
ApiToolRound ==
  /\ pc = "flushed" /\ after = "final" /\ mode = "api"
  /\ IF round < MaxRounds
       THEN /\ pc' = "streaming" /\ round' = round + 1 /\ roundStart' = said + 1
            /\ msgID' = "none" /\ buf' = <<>>
            /\ \/ UNCHANGED <<inbox, dropped>>
               \/ trySend("tool", <<>>)
            /\ UNCHANGED outcome
       ELSE /\ pc' = "drain" /\ outcome' = "limit"
            /\ trySend("error", <<>>)
            /\ UNCHANGED <<round, roundStart, msgID, buf>>
  /\ UNCHANGED <<mode, streams, after, said, rest, delivered, flushes, result, others, failed, timedOut>>

\* API: no tool calls.  Without a message id the whole answer is sent (again).
ApiAnswer ==
  /\ pc = "flushed" /\ after = "final" /\ mode = "api"
  /\ IF msgID # "some" /\ Answer # <<>>
       THEN trySend("text", Answer)
       ELSE UNCHANGED <<inbox, dropped>>
  /\ pc' = "drain" /\ outcome' = "answered"
  /\ UNCHANGED <<mode, streams, after, round, said, roundStart, buf, rest, msgID,
                 delivered, flushes, result, others, failed, timedOut>>

\* Mutant: the CLI answer is never sent outside the stream.
CliAnswerStreamOnly ==
  /\ pc = "flushed" /\ after = "final" /\ mode = "cli"
  /\ pc' = "drain" /\ outcome' = "answered"
  /\ UNCHANGED <<mode, streams, after, round, said, roundStart, buf, rest, msgID, inbox,
                 delivered, flushes, result, others, history>>

\* CLI: a text no flush delivered is sent now; if there is no text, the error
\* the CLI reported (if it did) is.
CliAnswer ==
  /\ pc = "flushed" /\ after = "final" /\ mode = "cli"
  /\ \/ /\ Answer # <<>> /\ ~delivered
        /\ trySend("text", Answer)
     \/ /\ Answer # <<>> /\ delivered
        /\ UNCHANGED <<inbox, dropped>>
     \/ /\ Answer = <<>>
        /\ UNCHANGED <<inbox, dropped>> \/ trySend("error", <<>>)
  /\ pc' = "drain" /\ outcome' = "answered"
  /\ UNCHANGED <<mode, streams, after, round, said, roundStart, buf, rest, msgID,
                 delivered, flushes, result, others, failed, timedOut>>

-----------------------------------------------------------------------------
(* Channel.Run and the other actors. *)

\* The awaited result channel gets the answer; in one given up on it stays unread.
Answered(m, r) == result' = IF m.rid = flushes /\ m.rid # 0 THEN r ELSE result

\* chunkMessage: a text that fits is one chunk, any other is cut after a
\* paragraph, or at the limit where a paragraph is longer than that.
FirstChunks(text) == IF Len(text) <= Limit THEN {Len(text)} ELSE 1..Limit
Chunks(text) == 1..(IF Len(text) < Limit THEN Len(text) ELSE Limit)

turnAndFiles == <<mode, streams, pc, after, turnVars, flushes, noise, table, own, files,
                  unreadable>>

\* The first chunk of a message; the id that comes back is that of this chunk.
ChannelSends ==
  /\ sending = NoMessage /\ inbox # <<>>
  /\ inbox' = Tail(inbox)
  /\ \E m \in {Head(inbox)} : \E n \in FirstChunks(m.text) :
       /\ shown' = IF m.kind = "text" THEN Append(shown, SubSeq(m.text, 1, n)) ELSE shown
       /\ sending' = IF n = Len(m.text) THEN NoMessage
                     ELSE [text |-> SubSeq(m.text, n + 1, Len(m.text)), rid |-> m.rid,
                           unread |-> m.rid # 0, refused |-> FALSE]
       /\ Answered(m, "id")
  /\ UNCHANGED <<turnAndFiles, todo, gone, history>>

\* Telegram refuses the first chunk, which ends the message.
ChannelFails ==
  /\ sending = NoMessage /\ inbox # <<>> /\ Head(inbox).kind = "text"
  /\ inbox' = Tail(inbox)
  /\ failed' = TRUE
  /\ Answered(Head(inbox), "zero")
  /\ UNCHANGED <<turnAndFiles, todo, gone, sending, shown, dropped, timedOut>>

NextChunk ==
  /\ sending # NoMessage /\ ~sending.refused
  /\ \E n \in Chunks(sending.text) :
       /\ shown' = Append(shown, SubSeq(sending.text, 1, n))
       /\ sending' = IF n = Len(sending.text) THEN NoMessage
                     ELSE [sending EXCEPT !.text = SubSeq(@, n + 1, Len(@))]
  /\ UNCHANGED <<turnAndFiles, todo, gone, inbox, result, history>>

\* A later chunk is refused: a second answer goes to the result channel, which
\* has room for one.
ChunkFails ==
  /\ sending # NoMessage /\ ~sending.refused
  /\ failed' = TRUE
  /\ sending' = IF sending.unread THEN [sending EXCEPT !.refused = TRUE] ELSE NoMessage
  /\ UNCHANGED <<turnAndFiles, todo, gone, inbox, result, shown, dropped, timedOut>>

SecondAnswerTaken ==
  /\ sending.refused /\ ~sending.unread
  /\ sending' = NoMessage
  /\ UNCHANGED <<turnAndFiles, todo, gone, inbox, result, shown, history>>

\* SendDocument: the turn waits for Telegram's answer, file after file.
ChannelSendsDocument ==
  /\ sending = NoMessage /\ pc = "documents" /\ todo # {}
  /\ todo' = todo \ {Min(todo)} /\ gone' = gone \cup {Min(todo)}
  /\ UNCHANGED <<turnAndFiles, inbox, result, sending, shown, history>>

\* Reminders, the supervisor and commands write to the same inbox.
OtherSends ==
  /\ noise < MaxNoise /\ Room
  /\ noise' = noise + 1
  /\ inbox' = Append(inbox, Message("other", <<>>, 0))
  /\ UNCHANGED <<mode, streams, pc, after, turnVars, flushes, result, sending, shown,
                 fileVars, history>>

-----------------------------------------------------------------------------
(* Files: the send_file of the skills server, and the end of the turn. *)

\* send_file only writes a row.  The tools of this turn run while it streams;
\* those of a scheduled task, or of a process that is being killed, at any time.
QueueFile ==
  /\ files < MaxFiles
  /\ files' = files + 1
  /\ table' = table \cup {files + 1}
  /\ own' \in {own} \cup (IF pc = "streaming" /\ mode = "cli" THEN {own \cup {files + 1}}
                          ELSE {})
  /\ UNCHANGED <<mode, streams, pc, after, turnVars, inbox, flushes, result, sending,
                 shown, noise, todo, gone, unreadable, history>>

beforeDrain == <<mode, streams, after, turnVars, inbox, flushes, result, sending, shown,
                 noise, own, files, gone, history>>

\* Mutant: every row is deleted, not only those that were read.
DeleteAll ==
  /\ pc = "delete"
  /\ table' \in {table, {}}
  /\ pc' = "documents"
  /\ UNCHANGED <<beforeDrain, todo, unreadable>>

\* drainPendingFiles, however the turn ended: the rows are read ...
DrainPendingFiles ==
  /\ pc = "drain"
  /\ \/ todo' = table /\ pc' = "delete" /\ UNCHANGED unreadable
     \/ todo' = {} /\ pc' = "returned" /\ unreadable' = TRUE
  /\ UNCHANGED <<beforeDrain, table>>

\* ... then deleted, by their ids; that this fails is not noticed.
DeleteDrained ==
  /\ pc = "delete"
  /\ table' \in {table, table \ todo}
  /\ pc' = "documents"
  /\ UNCHANGED <<beforeDrain, todo, unreadable>>

DocumentsSent ==
  /\ pc = "documents" /\ todo = {}
  /\ pc' = "returned"
  /\ UNCHANGED <<beforeDrain, table, todo, unreadable>>

-----------------------------------------------------------------------------
Stream == DeltaAccumulated \/ DeltaOverflows \/ ToolUse \/ StreamEnds \/ StreamFails
Flush == FlushNothing \/ FlushDropped \/ FlushEnqueued \/ FlushAnswered \/ FlushTimesOut
Drain == DrainPendingFiles \/ DeleteDrained \/ DocumentsSent
Turn == Stream \/ Flush \/ AfterOverflow \/ AfterTool \/ ApiToolRound \/ ApiAnswer
          \/ CliAnswer \/ Drain

Run == ChannelSends \/ ChannelFails \/ NextChunk \/ ChunkFails \/ SecondAnswerTaken
         \/ ChannelSendsDocument

StreamNext == Turn \/ Run \/ OtherSends \/ QueueFile

\* A call of Claude's API has a time limit and a flush its own: a turn takes its next
\* step.  handleWithCLI has none (actor.go:1727), so that a claude process goes on
\* talking, or dies, is assumed.  Nothing is assumed of the channel.
StreamSpec == StreamInit /\ [][StreamNext]_streamVars /\ WF_streamVars(Turn)

-----------------------------------------------------------------------------
(* Properties. *)

\* What the user sees, or will see once the channel has emptied the inbox: the
\* messages, in order, as the pieces in each.
Texts == [i \in DOMAIN inbox |-> IF inbox[i].kind = "text" THEN inbox[i].text ELSE <<>>]
Parts == shown \o <<sending.text>> \o Texts
Seen == UNION {Range(Parts[i]) : i \in DOMAIN Parts}

\* No piece is seen twice, and none before a piece that Claude said earlier.
InOrder ==
  \A i, j \in DOMAIN Parts : \A k \in DOMAIN Parts[i], l \in DOMAIN Parts[j] :
    i < j \/ (i = j /\ k < l) => Parts[i][k] < Parts[j][l]

\* What is shown stays: every text starts a message of its own (msgID is 0 when
\* it is flushed, so that nothing shown before is edited away); and an answered
\* turn shows every piece exactly once and in order, however the stream was cut
\* into messages, rounds and chunks: unless the inbox overflowed, Telegram
\* refused a chunk, or (API mode) an id came too late.  In CLI mode no piece is
\* ever shown twice or too late, whatever is lost, late or refused.
AnsweredOnceInOrder ==
  /\ pc \in {"streaming", "flush"} => msgID = "none"
  /\ outcome = "answered" /\ ~dropped /\ ~failed /\ (mode = "api" => ~timedOut) =>
       InOrder /\ Seen = 1..said
  /\ mode = "cli" => InOrder

\* "The file is delivered after your response completes": when the turn returns,
\* also after an error, Telegram has been given every file its tools queued, if
\* the table can be read; and a file that is queued while others are drained is
\* neither sent nor forgotten with them.
FilesArrive ==
  /\ pc = "returned" /\ ~unreadable => own \subseteq gone
  /\ 1..files \subseteq table \cup todo \cup gone

\* The turn ends even if the channel stops taking messages, unless it has a file
\* to hand over: SendDocument waits for the channel for as long as that takes.
TurnReturns == <>(pc = "returned" \/ (pc = "documents" /\ todo # {}))

\* "Set a sentinel to prevent duplicate new-message sends on retry" (flush).
SentinelPreventsRepeats == ~dropped /\ ~failed => IsInjective(FlattenSeq(Parts))

\* "Wait for the message ID (with timeout to avoid deadlock if channel is down)"
\* (flush): Channel.Run never waits for a turn that has given up waiting for it.
TimeoutAvoidsDeadlock ==
  sending.refused /\ sending.unread => pc = "waiting" /\ sending.rid = flushes
=============================================================================
