-------------------------- MODULE MCSessionDispatch --------------------------
(***************************************************************************)
(* SessionDispatch for TLC.  Four messages against room for two in the     *)
(* queue and two in the channel: the queue fills, overflows, is drained    *)
(* and is flushed, and the Run loop panics once in the meantime.           *)
(***************************************************************************)
EXTENDS SessionDispatch

CONSTANTS alice, bob
OneKey == {alice}
TwoKeys == {alice, bob}
=============================================================================
