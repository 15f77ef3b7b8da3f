-------------------------- MODULE OrderManagement --------------------------
(***************************************************************************)
(* Orders as the engine keeps them: the state machine that every change of *)
(* status goes through, the in-memory ledger and the order manager.        *)
(*                                                                         *)
(* An order is identified by what creates it, so that ids are unique.  A   *)
(* status change the state machine refuses raises and changes nothing: the *)
(* actions are simply not enabled then.                                    *)
(***************************************************************************)
CONSTANTS
    Orders,         \* internal order ids, each created at most once
    None,           \* no order, no risk decision
    AllChecked      \* every intent comes with a risk engine and a snapshot;
                    \* without them no risk check is made

Statuses ==
    {"CREATED", "RISK_APPROVED", "RISK_REJECTED", "SUBMITTED", "OPEN",
     "PARTIALLY_FILLED", "FILLED", "CANCEL_REQUESTED", "CANCELLED", "REJECTED",
     "FAILED", "UNKNOWN", "RECONCILED"}

(* An order: its status, whether it carries a broker_order_id, the outcome *)
(* of the risk decision attached to it.                                    *)
Order == [status : Statuses, has_broker_id : BOOLEAN,
          risk_decision : {None, "approved", "rejected"}]

ASSUME CheckedAssumption == AllChecked \in BOOLEAN
ASSUME NoneAssumption == None \notin Order \cup {"approved", "rejected"}

VARIABLE ledger     \* OrderLedger._orders: order or None

LedgerTypeOK == ledger \in [Orders -> Order \cup {None}]

LedgerInit == ledger = [o \in Orders |-> None]

Stored(o) == ledger[o] # None
Status(o) == IF Stored(o) THEN ledger[o].status ELSE "none"

-----------------------------------------------------------------------------
(* The state machine.                                                      *)

Transitions ==
    [s \in Statuses |->
        CASE s = "CREATED" -> {"RISK_APPROVED", "RISK_REJECTED"}
          [] s = "RISK_APPROVED" -> {"SUBMITTED"}
          [] s = "RISK_REJECTED" -> {"FAILED"}
          [] s = "SUBMITTED" -> {"OPEN", "FILLED", "REJECTED", "FAILED", "UNKNOWN"}
          [] s = "OPEN" -> {"PARTIALLY_FILLED", "FILLED", "CANCEL_REQUESTED",
                            "CANCELLED", "REJECTED", "UNKNOWN"}
          [] s = "PARTIALLY_FILLED" -> {"FILLED", "CANCEL_REQUESTED",
                                        "CANCELLED", "UNKNOWN"}
          [] s = "CANCEL_REQUESTED" -> {"CANCELLED", "FILLED", "UNKNOWN"}
          [] s = "UNKNOWN" -> {"RECONCILED", "FAILED"}
          [] s = "RECONCILED" -> {"OPEN", "FILLED", "CANCELLED", "REJECTED"}
          [] OTHER -> {}]

(* Mutants of Legal: no check; orders nobody checked can be submitted; a    *)
(* pending order cannot fill at once.                                      *)
Unchecked(current, next) == TRUE
SubmitCreated(current, next) ==
    next \in Transitions[current] \/ (current = "CREATED" /\ next = "SUBMITTED")
OpensFirst(current, next) ==
    next \in Transitions[current] /\ ~(current = "SUBMITTED" /\ next = "FILLED")

Legal(current, next) == next \in Transitions[current]

(* An update of the ledger by update_order_status. *)
CanBecome(o, next) == Stored(o) /\ Legal(ledger[o].status, next)
Become(order, next) == [order EXCEPT !.status = next]

-----------------------------------------------------------------------------
(* The order manager.                                                      *)

NewOrder(status, decision) ==
    [status |-> status, has_broker_id |-> FALSE, risk_decision |-> decision]

(* create_order_from_intent, with a verdict of the risk engine. *)
CreateChecked(o) ==
    /\ ~Stored(o)
    /\ \/ ledger' = [ledger EXCEPT ![o] = NewOrder("RISK_APPROVED", "approved")]
       \/ ledger' = [ledger EXCEPT ![o] = NewOrder("RISK_REJECTED", "rejected")]

(* create_order_from_intent, without a risk engine or without a snapshot.  *)
CreateUnchecked(o) ==
    /\ ~AllChecked
    /\ ~Stored(o)
    /\ ledger' = [ledger EXCEPT ![o] = NewOrder("CREATED", None)]

(* Orders that create_order_from_intent hands to its caller. *)
Returned(o) == Status(o) \in {"CREATED", "RISK_APPROVED"}

Submit(order, id) ==
    [order EXCEPT !.status = "SUBMITTED", !.has_broker_id = @ \/ id]

(* mark_submitted, with or without the id the broker gave the order. *)
MarkSubmitted(o, id) ==
    /\ CanBecome(o, "SUBMITTED")
    /\ ledger' = [ledger EXCEPT ![o] = Submit(@, id)]

(* mark_broker_update with a status mapped from the broker's. *)
MarkBrokerUpdate(o, status) ==
    /\ CanBecome(o, status)
    /\ ledger' = [ledger EXCEPT ![o] = Become(@, status)]
=============================================================================
