---------------------------- MODULE MCLiveRunner ----------------------------
(* Small instances of LiveRunner. *)
EXTENDS LiveRunner, TLC

CONSTANTS a, b
TwoSymbols == {a, b}
=============================================================================
