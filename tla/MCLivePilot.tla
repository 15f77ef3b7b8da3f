---------------------------- MODULE MCLivePilot ----------------------------
(* Small instances of LivePilot. *)
EXTENDS LivePilot, TLC

CONSTANTS listed, other

Ready == [live |-> TRUE, execution |-> TRUE, pilot |-> TRUE, kill |-> FALSE,
          maxQuantity |-> 1, symbols |-> {listed}, types |-> {"MARKET"},
          credentials |-> "set"]

(* Settings that are ready and, each with one field changed, that are not. *)
MCSettings == {Ready, [Ready EXCEPT !.kill = TRUE], [Ready EXCEPT !.types = {}]}

Small == [symbol |-> listed, type |-> "MARKET", quantity |-> 1, fits |-> TRUE]
MCIntents == {Small, [Small EXCEPT !.type = "LIMIT"]}
=============================================================================
