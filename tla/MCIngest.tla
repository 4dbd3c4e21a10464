------------------------------- MODULE MCIngest -------------------------------
(***************************************************************************)
(* Ingest for TLC: a mail account with two messages, or a directory with   *)
(* one note.                                                               *)
(***************************************************************************)
EXTENDS Ingest

CONSTANTS inbox, vault, m1, m2, n1
MailOrder == <<inbox>>
MailItems == [s \in {inbox} |-> {m1, m2}]
NoteOrder == <<vault>>
NoteItems == [s \in {vault} |-> {n1}]
=============================================================================
