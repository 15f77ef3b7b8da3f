--------------------------- MODULE OrderLifecycle ---------------------------
(***************************************************************************)
(* What the state machine is for: an order goes live only after the risk   *)
(* engine approved it, ends at most once, and keeps the way it ended.      *)
(***************************************************************************)
CONSTANT Orders

VARIABLE phase

Ends == {"filled", "cancelled", "rejected", "failed"}
Phases == {"none", "unchecked", "refused", "approved", "live"} \cup Ends

Init == phase = [o \in Orders |-> "none"]

Decide(o) ==
    /\ phase[o] = "none"
    /\ \E p \in {"unchecked", "refused", "approved"} :
           phase' = [phase EXCEPT ![o] = p]

GoLive(o) == phase[o] = "approved" /\ phase' = [phase EXCEPT ![o] = "live"]

(* One reconciliation may find the end of several orders. *)
EndSome ==
    /\ phase' \in [Orders -> Phases]
    /\ \A o \in Orders : \/ phase'[o] = phase[o]
                         \/ phase[o] = "live" /\ phase'[o] \in Ends

Next == EndSome \/ \E o \in Orders : Decide(o) \/ GoLive(o)

Spec == Init /\ [][Next]_phase
=============================================================================
