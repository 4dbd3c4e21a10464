------------------------- MODULE MCEmbedderMigration -------------------------
(***************************************************************************)
(* EmbedderMigration for TLC: messages and summaries in batches of two,    *)
(* the second message without text, and no summary with text before the    *)
(* third; or a whole batch of messages without any.                        *)
(***************************************************************************)
EXTENDS EmbedderMigration

Two == <<"message", "summary">>
First == [message |-> 3, summary |-> 3]
Most == [message |-> 4, summary |-> 3]
NoText == [message |-> {2}, summary |-> {1, 2}]
ToolTurns == [message |-> {1, 2}, summary |-> {}] \* a batch of calls and results
=============================================================================
