---------------------------- MODULE MCSourceSync ----------------------------
(* Two syncs, two consumers, one retirement, a ref that moves.             *)
EXTENDS SourceSync
=============================================================================
