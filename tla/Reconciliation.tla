--------------------------- MODULE Reconciliation ---------------------------
(***************************************************************************)
(* The order manager, the broker its orders are placed with and the        *)
(* reconciliation of the two.                                              *)
(*                                                                         *)
(* The broker is not part of the program: it accepts orders, moves them    *)
(* and sends a postback with every move.  Its id for an order is the order *)
(* itself, so has_broker_id says all there is to say of broker_order_id.   *)
(*                                                                         *)
(* The program is single-threaded: between fetching the order book and     *)
(* comparing it with the ledger nothing else changes the ledger, while the *)
(* broker goes on.                                                         *)
(*                                                                         *)
(* Faults says what may happen around the program:                         *)
(*   "cancel"   an order is cancelled: IOC or DAY validity, an operator in  *)
(*              the broker's terminal, the exchange;                       *)
(*   "strange"  the broker reports a status the mappers do not know;       *)
(*   "fetch"    the order book cannot be fetched, or holds orders that     *)
(*              cannot be mapped;                                          *)
(*   "expire"   orders of an earlier day are gone from the order book;     *)
(*   "no_id"    mark_submitted is called without the broker's id.          *)
(***************************************************************************)
EXTENDS OrderManagement, FiniteSets

CONSTANT Faults

ASSUME FaultAssumption ==
    Faults \subseteq {"cancel", "strange", "fetch", "expire", "no_id"}

(* Zerodha's statuses, one for each group the mappers treat alike. *)
BrokerStatuses ==
    {"PENDING", "OPEN", "CANCEL PENDING", "COMPLETE", "CANCELLED", "REJECTED"}
Finals == {"COMPLETE", "CANCELLED", "REJECTED"}

(* Mutants of MapStatus: an unknown status goes through as it is; a         *)
(* cancellation in progress counts as done.                                *)
PassThrough ==
    [s \in BrokerStatuses |->
        CASE s = "PENDING" -> "SUBMITTED"
          [] s = "COMPLETE" -> "FILLED"
          [] OTHER -> s]
HastyMap ==
    [s \in BrokerStatuses |->
        CASE s = "PENDING" -> "SUBMITTED"
          [] s = "OPEN" -> "OPEN"
          [] s = "COMPLETE" -> "FILLED"
          [] s = "REJECTED" -> "REJECTED"
          [] OTHER -> "CANCELLED"]

MapStatus ==
    [s \in BrokerStatuses |->
        CASE s = "PENDING" -> "SUBMITTED"
          [] s = "OPEN" -> "OPEN"
          [] s = "COMPLETE" -> "FILLED"
          [] s = "CANCELLED" -> "CANCELLED"
          [] s = "REJECTED" -> "REJECTED"
          [] OTHER -> "UNKNOWN"]

VARIABLES
    book,       \* book[o]: the broker's status of o, or None
    listed,     \* the orders in the order book of the broker's day
    inbox,      \* postbacks sent so far: <<order, status>>
    fetched,    \* the order book reconcile_orders works on, or None
    success     \* ReconciliationReport.success of the last one, or None

vars == <<ledger, book, listed, inbox, fetched, success>>

(* What was fetched: the orders that could be mapped, the others.          *)
Fetches == [orders : SUBSET (Orders \X Statuses), garbled : SUBSET Orders]

ASSUME NoneIsNone == None \notin BrokerStatuses /\ None \notin Fetches

(* Ledger, order book, what was heard and the last report keep their types *)
(* whatever the mapper is given.                                           *)
TypeOK ==
    /\ LedgerTypeOK
    /\ book \in [Orders -> BrokerStatuses \cup {None}]
    /\ listed \in SUBSET Orders
    /\ inbox \in SUBSET (Orders \X Statuses)
    /\ fetched \in Fetches \cup {None}
    /\ success \in BOOLEAN \cup {None}

Init ==
    /\ LedgerInit
    /\ book = [o \in Orders |-> None]
    /\ listed = {}
    /\ inbox = {}
    /\ fetched = None
    /\ success = None

Waiting == fetched # None

-----------------------------------------------------------------------------
(* The program's caller and the order manager.                             *)

Create(o) ==
    /\ ~Waiting
    /\ CreateChecked(o) \/ CreateUnchecked(o)
    /\ UNCHANGED <<book, listed, inbox, fetched, success>>

(* The caller places an order it was given, and tells the manager later.   *)
Place(o) ==
    /\ ~Waiting
    /\ Returned(o)
    /\ book[o] = None
    /\ book' = [book EXCEPT ![o] = "PENDING"]
    /\ listed' = listed \cup {o}
    /\ UNCHANGED <<ledger, inbox, fetched, success>>

Submitted(o) ==
    /\ ~Waiting
    /\ book[o] # None
    /\ MarkSubmitted(o, TRUE) \/ ("no_id" \in Faults /\ MarkSubmitted(o, FALSE))
    /\ UNCHANGED <<book, listed, inbox, fetched, success>>

(* Postbacks arrive in any order, late, never or twice. *)
Postback(o, status) ==
    /\ ~Waiting
    /\ <<o, status>> \in inbox
    /\ MarkBrokerUpdate(o, status)
    /\ UNCHANGED <<book, listed, inbox, fetched, success>>

-----------------------------------------------------------------------------
(* The broker.                                                             *)

BrokerMoves(o) ==
    /\ book[o] \notin Finals \cup {None}
    /\ \E s \in BrokerStatuses \ {"PENDING", book[o]} :
        /\ s = "CANCELLED" => "cancel" \in Faults
        /\ s = "CANCEL PENDING" => "strange" \in Faults
        /\ book' = [book EXCEPT ![o] = s]
        /\ inbox' = inbox \cup {<<o, MapStatus[s]>>}
    /\ UNCHANGED <<ledger, listed, fetched, success>>

(* A new day: the order book starts without the orders of the day before.  *)
Expires(o) ==
    /\ "expire" \in Faults
    /\ o \in listed
    /\ book[o] \in Finals
    /\ listed' = listed \ {o}
    /\ UNCHANGED <<ledger, book, inbox, fetched, success>>

-----------------------------------------------------------------------------
(* Reconciliation.                                                         *)

(* Fetch the order book and map its orders, one by one. *)
Fetch ==
    /\ ~Waiting
    /\ \E garbled \in IF "fetch" \in Faults THEN SUBSET listed ELSE {{}} :
        fetched' = [orders |-> {<<o, MapStatus[book[o]]>> : o \in listed \ garbled},
                    garbled |-> garbled]
    /\ UNCHANGED <<ledger, book, listed, inbox, success>>

(* A fetch that fails is an empty order book. *)
FetchFails ==
    /\ ~Waiting
    /\ "fetch" \in Faults
    /\ fetched' = [orders |-> {}, garbled |-> {}]
    /\ UNCHANGED <<ledger, book, listed, inbox, success>>

Known(o) == Stored(o) /\ ledger[o].has_broker_id

(* The status the fetched book gives for an order of the ledger. *)
Reported(o, s) == Known(o) /\ <<o, s>> \in fetched.orders
Missing(o) == Known(o) /\ \A s \in Statuses : ~Reported(o, s)
Updates(o, s) == Reported(o, s) /\ Legal(ledger[o].status, s)
Invalid(o, s) ==
    Reported(o, s) /\ s # ledger[o].status /\ ~Legal(ledger[o].status, s)

Discrepancies ==
    {<<"MISSING_IN_BROKER", o>> : o \in {p \in Orders : Missing(p)}}
    \cup {<<"STATUS_MISMATCH_UPDATED", o>> :
             o \in {p \in Orders : \E s \in Statuses : Updates(p, s)}}
    \cup {<<"INVALID_TRANSITION", o>> :
             o \in {p \in Orders : \E s \in Statuses : Invalid(p, s)}}
    \cup {<<"UNKNOWN_BROKER_ORDER", f[1]>> :
             f \in {g \in fetched.orders : ~Known(g[1])}}
    \cup {<<"MAPPING_ERROR", o>> : o \in fetched.garbled}

(* Mutant of Severe: an order the broker does not list is not severe. *)
MissingIsFine(code) == code = "INVALID_TRANSITION"

Severe(code) == code \in {"MISSING_IN_BROKER", "INVALID_TRANSITION"}

(* Compare, update where the state machine allows it, report the rest.     *)
Compare ==
    /\ Waiting
    /\ ledger' = [o \in Orders |->
                    IF \E s \in Statuses : Updates(o, s)
                    THEN Become(ledger[o], CHOOSE s \in Statuses : Updates(o, s))
                    ELSE ledger[o]]
    /\ success' = \A d \in Discrepancies : ~Severe(d[1])
    /\ fetched' = None
    /\ UNCHANGED <<book, listed, inbox>>

Next ==
    \/ \E o \in Orders : Create(o) \/ Place(o) \/ Submitted(o)
                         \/ BrokerMoves(o) \/ Expires(o)
    \/ \E o \in Orders, s \in Statuses : Postback(o, s)
    \/ Fetch \/ FetchFails \/ Compare

Spec == Init /\ [][Next]_vars

-----------------------------------------------------------------------------
(* PROPERTIES                                                              *)

(* What the ledger says has ended has ended that way at the broker: no     *)
(* late, repeated or lost postback and no stale order book makes it lie.   *)
EndsAreTrue ==
    \A o \in Orders :
        /\ Status(o) = "FILLED" => book[o] = "COMPLETE"
        /\ Status(o) = "CANCELLED" => book[o] = "CANCELLED"
        /\ Status(o) = "REJECTED" => book[o] = "REJECTED"

(* The ledger never has an order live that the risk engine did not approve *)
(* or that the broker does not have.                                       *)
LiveWasApproved ==
    \A o \in Orders :
        Status(o) \notin {"none", "CREATED", "RISK_APPROVED", "RISK_REJECTED"}
        => ledger[o].risk_decision = "approved" /\ book[o] # None

(* A reconciliation that reports success leaves every order that has a     *)
(* broker id in the status of the order book it fetched.                   *)
SuccessMeansInSync ==
    [][Waiting /\ ~Waiting' /\ success'
       => \A o \in Orders : Known(o) =>
              <<o, ledger'[o].status>> \in fetched.orders]_vars

(* Two gaps the state machine has no step across: UNKNOWN is only left for *)
(* statuses no broker reports, and CANCELLED does not follow SUBMITTED.    *)
Stuck(o, s) ==
    \/ Status(o) = "UNKNOWN"
    \/ Status(o) = "SUBMITTED" /\ s = "CANCELLED"

(* Reconciliation closes every other gap: whatever postbacks were missed,  *)
(* an order with a broker id that the fetched book lists ends up in the    *)
(* status the book gives it; a stuck one keeps the status it had.          *)
GapCloses ==
    [][Waiting /\ ~Waiting'
       => \A o \in Orders, s \in Statuses : Reported(o, s) =>
              ledger'[o].status = IF Stuck(o, s) THEN ledger[o].status ELSE s]_vars

(* The ledger implements the life cycle of OrderLifecycle. *)
PhaseOf(status) ==
    CASE status = "none" -> "none"
      [] status = "CREATED" -> "unchecked"
      [] status = "RISK_REJECTED" -> "refused"
      [] status = "RISK_APPROVED" -> "approved"
      [] status = "FILLED" -> "filled"
      [] status = "CANCELLED" -> "cancelled"
      [] status = "REJECTED" -> "rejected"
      [] status = "FAILED" -> "failed"
      [] OTHER -> "live"
Phase == [o \in Orders |-> PhaseOf(Status(o))]

Lifecycle == INSTANCE OrderLifecycle WITH phase <- Phase

(* Orders go live only after approval, end once and keep their end.        *)
ImplementsLifecycle == Lifecycle!Spec
=============================================================================
