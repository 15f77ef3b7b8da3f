------------------------ MODULE ReconciliationProofs ------------------------
(***************************************************************************)
(* What holds of the ledger for any number of orders, whatever the broker  *)
(* does and however its messages are delayed, repeated or lost.            *)
(***************************************************************************)
EXTENDS Reconciliation, TLAPS

-----------------------------------------------------------------------------
(* The tables.                                                             *)

Images == {"SUBMITTED", "OPEN", "FILLED", "CANCELLED", "REJECTED", "UNKNOWN"}
Early == {"CREATED", "RISK_APPROVED", "RISK_REJECTED"}
Live == {"SUBMITTED", "OPEN", "PARTIALLY_FILLED", "CANCEL_REQUESTED", "UNKNOWN",
         "RECONCILED"}
Over == {"FILLED", "CANCELLED", "REJECTED", "FAILED"}

LEMMA StatusKinds ==
    /\ Statuses = Early \cup Live \cup Over
    /\ Images \subseteq Statuses
BY DEF Statuses, Early, Live, Over, Images

LEMMA MapFacts ==
    ASSUME NEW s \in BrokerStatuses
    PROVE  /\ MapStatus[s] \in Images
           /\ MapStatus[s] = "FILLED" <=> s = "COMPLETE"
           /\ MapStatus[s] = "CANCELLED" <=> s = "CANCELLED"
           /\ MapStatus[s] = "REJECTED" <=> s = "REJECTED"
BY DEF MapStatus, BrokerStatuses, Images

(* What the state machine allows a status a broker can report. *)
LEMMA LegalFacts ==
    ASSUME NEW s \in Statuses, NEW t \in Statuses, Legal(s, t)
    PROVE  /\ t = "SUBMITTED" => s = "RISK_APPROVED"
           /\ t \in Images => s = "RISK_APPROVED" \/ s \in Live
           /\ s = "RISK_APPROVED" => t = "SUBMITTED"
           /\ s \in Live => t \in Live \cup Over
           /\ s \notin Over
BY DEF Legal, Transitions, Statuses, Images, Live, Over

LEMMA OrderFacts ==
    ASSUME NEW order \in Order, NEW s \in Statuses
    PROVE  /\ Become(order, s) \in Order
           /\ Become(order, s).status = s
           /\ Become(order, s).has_broker_id = order.has_broker_id
           /\ Become(order, s).risk_decision = order.risk_decision
BY DEF Order, Become

-----------------------------------------------------------------------------
(* The inductive invariant.  Everything the broker has said of an order,   *)
(* in a postback or in a fetched order book, was true and still is if it   *)
(* said that the order has ended; an order that is not live has no id.     *)

Heard(o, s) ==
    /\ s \in Images
    /\ book[o] # None
    /\ s = "FILLED" => book[o] = "COMPLETE"
    /\ s = "CANCELLED" => book[o] = "CANCELLED"
    /\ s = "REJECTED" => book[o] = "REJECTED"

OrderInv(o) ==
    Stored(o) =>
        /\ ledger[o].status \in {"RISK_APPROVED"} \cup Live \cup Over
           => ledger[o].risk_decision = "approved"
        /\ ledger[o].status \in Live \cup Over => book[o] # None
        /\ ledger[o].has_broker_id => ledger[o].status \notin Early
        /\ ledger[o].status \in Images \cap Over => Heard(o, ledger[o].status)

IInv ==
    /\ TypeOK
    /\ \A o \in Orders : OrderInv(o)
    /\ \A o \in listed : book[o] # None
    /\ \A o \in Orders, s \in Statuses : <<o, s>> \in inbox => Heard(o, s)
    /\ Waiting => \A o \in Orders, s \in Statuses :
                      <<o, s>> \in fetched.orders => Heard(o, s)

LEMMA InvImplies == IInv => TypeOK /\ EndsAreTrue /\ LiveWasApproved
<1> SUFFICES ASSUME IInv PROVE EndsAreTrue /\ LiveWasApproved
  BY DEF IInv
<1> SUFFICES ASSUME NEW o \in Orders
             PROVE  /\ Status(o) = "FILLED" => book[o] = "COMPLETE"
                    /\ Status(o) = "CANCELLED" => book[o] = "CANCELLED"
                    /\ Status(o) = "REJECTED" => book[o] = "REJECTED"
                    /\ Status(o) \notin {"none"} \cup Early
                       => ledger[o].risk_decision = "approved" /\ book[o] # None
  BY DEF EndsAreTrue, LiveWasApproved, Early
<1>1. CASE ~Stored(o)
  BY <1>1 DEF Status
<1>2. CASE Stored(o)
  <2>1. ledger[o] \in Order /\ ledger[o].status \in Early \cup Live \cup Over
    BY <1>2, StatusKinds DEF IInv, TypeOK, LedgerTypeOK, Stored, Order
  <2>2. OrderInv(o) /\ Status(o) = ledger[o].status
    BY <1>2 DEF IInv, Status
  <2> QED  BY <1>2, <2>1, <2>2 DEF OrderInv, Heard, Images, Over
<1> QED  BY <1>1, <1>2

LEMMA InitInv == Init => IInv
BY DEF Init, LedgerInit, IInv, TypeOK, LedgerTypeOK, OrderInv, Stored, Waiting

(* A status the broker has reported may be written into the ledger. *)
LEMMA HeardStatus ==
    ASSUME IInv, NEW o \in Orders, Stored(o), NEW s \in Statuses,
           Heard(o, s), Legal(ledger[o].status, s),
           NEW order, order = Become(ledger[o], s)
    PROVE  /\ order \in Order
           /\ order.risk_decision = "approved"
           /\ order.status \notin Early
           /\ Heard(o, order.status)
<1>1. ledger[o] \in Order /\ ledger[o].status \in Statuses
  BY DEF IInv, TypeOK, LedgerTypeOK, Stored, Order
<1>2. /\ order \in Order
      /\ order.status = s
      /\ order.risk_decision = ledger[o].risk_decision
  BY <1>1, OrderFacts
<1>3. ledger[o].status \in {"RISK_APPROVED"} \cup Live
  BY <1>1, LegalFacts DEF Heard
<1>4. ledger[o].risk_decision = "approved"
  BY <1>3 DEF IInv, OrderInv
<1>5. s \notin Early
  BY DEF Heard, Images, Early
<1> QED  BY <1>2, <1>4, <1>5

LEMMA CreateInv ==
    ASSUME IInv, NEW o \in Orders, Create(o)
    PROVE  IInv'
<1>1. /\ \A p \in Orders \ {o} : ledger'[p] = ledger[p]
      /\ \/ ledger'[o] = NewOrder("RISK_APPROVED", "approved")
         \/ ledger'[o] = NewOrder("RISK_REJECTED", "rejected")
         \/ ledger'[o] = NewOrder("CREATED", None)
      /\ UNCHANGED <<book, listed, inbox, fetched, success>>
  BY DEF Create, CreateChecked, CreateUnchecked, IInv, TypeOK, LedgerTypeOK
<1>2. \A q, d : q \in Statuses /\ d \in {None, "approved", "rejected"} =>
        /\ NewOrder(q, d) \in Order
        /\ NewOrder(q, d).status = q
        /\ NewOrder(q, d).risk_decision = d
        /\ NewOrder(q, d).has_broker_id = FALSE
  BY DEF NewOrder, Order
<1>3. {"RISK_APPROVED", "RISK_REJECTED", "CREATED"} \subseteq Statuses
  BY DEF Statuses
<1>4. ledger' \in [Orders -> Order \cup {None}]
  <2>1. ledger'[o] \in Order  BY <1>1, <1>2, <1>3
  <2> QED  BY <2>1, <1>1 DEF Create, CreateChecked, CreateUnchecked, IInv, TypeOK,
                             LedgerTypeOK
<1>5. ASSUME NEW p \in Orders
      PROVE  OrderInv(p)'
  <2>1. CASE p = o
    <3>1. ledger'[o].has_broker_id = FALSE
      BY <1>1, <1>2, <1>3
    <3>2. \/ ledger'[o].status = "RISK_APPROVED" /\ ledger'[o].risk_decision = "approved"
          \/ ledger'[o].status = "RISK_REJECTED"
          \/ ledger'[o].status = "CREATED"
      BY <1>1, <1>2, <1>3
    <3> QED  BY <2>1, <3>1, <3>2 DEF OrderInv, Live, Over, Images
  <2>2. CASE p # o
    BY <1>1, <2>2 DEF OrderInv, IInv, Stored, Heard
  <2> QED  BY <2>1, <2>2
<1> QED  BY <1>1, <1>4, <1>5 DEF IInv, TypeOK, LedgerTypeOK, Waiting, Heard

LEMMA PlaceInv ==
    ASSUME IInv, NEW o \in Orders, Place(o)
    PROVE  IInv'
<1>1. /\ book' \in [Orders -> BrokerStatuses \cup {None}]
      /\ \A p \in Orders : book[p] # None => book'[p] = book[p]
      /\ book'[o] # None
      /\ listed' = listed \cup {o}
      /\ UNCHANGED <<ledger, inbox, fetched, success>>
  BY NoneIsNone DEF Place, IInv, TypeOK, BrokerStatuses
<1>2. \A p \in Orders : \A s : Heard(p, s) => Heard(p, s)'
  BY <1>1 DEF Heard
<1>3. \A p \in Orders : OrderInv(p)'
  BY <1>1, <1>2 DEF OrderInv, IInv, Stored
<1> QED  BY <1>1, <1>2, <1>3 DEF IInv, TypeOK, LedgerTypeOK, Waiting

LEMMA SubmittedInv ==
    ASSUME IInv, NEW o \in Orders, Submitted(o)
    PROVE  IInv'
<1>1. PICK id \in BOOLEAN : MarkSubmitted(o, id)
  BY DEF Submitted
<1>2. book[o] # None /\ UNCHANGED <<book, listed, inbox, fetched, success>>
  BY DEF Submitted
<1>3. /\ Stored(o) /\ ledger[o] \in Order /\ ledger[o].status \in Statuses
      /\ Legal(ledger[o].status, "SUBMITTED")
  BY <1>1 DEF MarkSubmitted, CanBecome, IInv, TypeOK, LedgerTypeOK, Stored, Order
<1>4. ledger[o].status = "RISK_APPROVED"
  BY <1>3, LegalFacts DEF Statuses
<1>5. ledger[o].risk_decision = "approved"
  BY <1>3, <1>4 DEF IInv, OrderInv
<1>6. /\ \A p \in Orders \ {o} : ledger'[p] = ledger[p]
      /\ ledger'[o] = Submit(ledger[o], id)
  BY <1>1 DEF MarkSubmitted, IInv, TypeOK, LedgerTypeOK
<1>7. /\ ledger'[o] \in Order
      /\ ledger'[o].status = "SUBMITTED"
      /\ ledger'[o].risk_decision = "approved"
  BY <1>3, <1>5, <1>6 DEF Submit, Order, Statuses
<1>8. ledger' \in [Orders -> Order \cup {None}]
  BY <1>1, <1>6, <1>7 DEF MarkSubmitted, IInv, TypeOK, LedgerTypeOK
<1>9. ASSUME NEW p \in Orders
      PROVE  OrderInv(p)'
  <2>1. CASE p = o
    BY <1>2, <1>7, <2>1 DEF OrderInv, Early, Over
  <2>2. CASE p # o
    BY <1>2, <1>6, <2>2 DEF OrderInv, IInv, Stored, Heard
  <2> QED  BY <2>1, <2>2
<1> QED  BY <1>2, <1>8, <1>9 DEF IInv, TypeOK, LedgerTypeOK, Waiting, Heard

LEMMA PostbackInv ==
    ASSUME IInv, NEW o \in Orders, NEW s \in Statuses, Postback(o, s)
    PROVE  IInv'
<1>1. /\ Stored(o) /\ Legal(ledger[o].status, s) /\ Heard(o, s)
      /\ UNCHANGED <<book, listed, inbox, fetched, success>>
  BY DEF Postback, MarkBrokerUpdate, CanBecome, IInv
<1>2. /\ \A p \in Orders \ {o} : ledger'[p] = ledger[p]
      /\ ledger'[o] = Become(ledger[o], s)
  BY DEF Postback, MarkBrokerUpdate, IInv, TypeOK, LedgerTypeOK
<1>3. /\ ledger'[o] \in Order
      /\ ledger'[o].risk_decision = "approved"
      /\ ledger'[o].status \notin Early
      /\ Heard(o, ledger'[o].status)
  BY <1>1, <1>2, HeardStatus
<1>4. ledger' \in [Orders -> Order \cup {None}]
  BY <1>2, <1>3 DEF Postback, MarkBrokerUpdate, IInv, TypeOK, LedgerTypeOK
<1>5. ASSUME NEW p \in Orders
      PROVE  OrderInv(p)'
  <2>1. CASE p = o
    BY <1>1, <1>3, <2>1 DEF OrderInv, Heard
  <2>2. CASE p # o
    BY <1>1, <1>2, <2>2 DEF OrderInv, IInv, Stored, Heard
  <2> QED  BY <2>1, <2>2
<1> QED  BY <1>1, <1>4, <1>5 DEF IInv, TypeOK, LedgerTypeOK, Waiting, Heard

(* A status that is not final hides no end, and a final one never changes. *)
LEMMA BrokerInv ==
    ASSUME IInv, NEW o \in Orders, BrokerMoves(o)
    PROVE  IInv'
<1>1. PICK s \in BrokerStatuses :
        /\ book' = [book EXCEPT ![o] = s]
        /\ inbox' = inbox \cup {<<o, MapStatus[s]>>}
        /\ book[o] \notin Finals \cup {None}
        /\ UNCHANGED <<ledger, listed, fetched, success>>
  BY DEF BrokerMoves
<1>2. /\ book' \in [Orders -> BrokerStatuses \cup {None}]
      /\ \A p \in Orders \ {o} : book'[p] = book[p]
      /\ book'[o] = s /\ s # None
  BY <1>1, NoneIsNone DEF IInv, TypeOK
<1>3. \A p \in Orders : \A t : Heard(p, t) => Heard(p, t)'
  BY <1>1, <1>2 DEF Heard, Finals
<1>4. Heard(o, MapStatus[s])'
  BY <1>2, MapFacts DEF Heard
<1>5. inbox' \in SUBSET (Orders \X Statuses)
  BY <1>1, MapFacts, StatusKinds DEF IInv, TypeOK
<1>6. \A p \in Orders, t \in Statuses : <<p, t>> \in inbox' => Heard(p, t)'
  BY <1>1, <1>3, <1>4 DEF IInv
<1>7. \A p \in Orders : OrderInv(p)'
  BY <1>1, <1>2, <1>3 DEF OrderInv, IInv, Stored
<1>8. \A p \in listed' : book'[p] # None
  BY <1>1, <1>2 DEF IInv, TypeOK
<1> QED  BY <1>1, <1>2, <1>3, <1>5, <1>6, <1>7, <1>8
         DEF IInv, TypeOK, LedgerTypeOK, Waiting

LEMMA ExpiresInv ==
    ASSUME IInv, NEW o \in Orders, Expires(o)
    PROVE  IInv'
<1>1. listed' \subseteq listed /\ UNCHANGED <<ledger, book, inbox, fetched, success>>
  BY DEF Expires
<1>2. \A p \in Orders : OrderInv(p)'
  BY <1>1 DEF OrderInv, IInv, Stored, Heard
<1> QED  BY <1>1, <1>2 DEF IInv, TypeOK, LedgerTypeOK, Waiting, Heard

(* What is fetched is what the broker says at that moment. *)
LEMMA FetchInv ==
    ASSUME IInv, Fetch \/ FetchFails
    PROVE  IInv'
<1>1. PICK garbled, got :
        /\ garbled \in SUBSET listed
        /\ fetched' = [orders |-> got, garbled |-> garbled]
        /\ got = {<<o, MapStatus[book[o]]>> : o \in listed \ garbled} \/ got = {}
        /\ UNCHANGED <<ledger, book, listed, inbox, success>>
  <2>1. CASE Fetch
    BY <2>1 DEF Fetch
  <2>2. CASE FetchFails
    <3>1. {} \in SUBSET listed  OBVIOUS
    <3> QED  BY <2>2, <3>1 DEF FetchFails
  <2> QED  BY <2>1, <2>2
<1>2. \A o \in listed : o \in Orders /\ book[o] \in BrokerStatuses
  BY DEF IInv, TypeOK
<1>3. ASSUME NEW o \in Orders, NEW s \in Statuses, <<o, s>> \in got
      PROVE  Heard(o, s)
  <2>1. o \in listed /\ s = MapStatus[book[o]]
    BY <1>1, <1>3
  <2> QED  BY <1>2, <2>1, MapFacts, NoneIsNone DEF Heard
<1>4. got \in SUBSET (Orders \X Statuses) /\ garbled \in SUBSET Orders
  BY <1>1, <1>2, MapFacts, StatusKinds
<1>5. fetched' \in Fetches /\ fetched'.orders = got
  BY <1>1, <1>4 DEF Fetches
<1>6. \A p \in Orders : OrderInv(p)'
  BY <1>1 DEF OrderInv, IInv, Stored, Heard
<1> QED  BY <1>1, <1>3, <1>5, <1>6 DEF IInv, TypeOK, LedgerTypeOK, Heard

(* A comparison writes only statuses that were heard. *)
LEMMA CompareStep ==
    ASSUME IInv, Compare, NEW o \in Orders
    PROVE  \/ ledger'[o] = ledger[o]
           \/ \E s \in Statuses :
                /\ Stored(o) /\ ledger[o].has_broker_id
                /\ Heard(o, s) /\ Legal(ledger[o].status, s)
                /\ ledger'[o] = Become(ledger[o], s)
<1>1. ledger'[o] = IF \E s \in Statuses : Updates(o, s)
                   THEN Become(ledger[o], CHOOSE s \in Statuses : Updates(o, s))
                   ELSE ledger[o]
  BY DEF Compare
<1>2. CASE \E s \in Statuses : Updates(o, s)
  <2> DEFINE t == CHOOSE s \in Statuses : Updates(o, s)
  <2>1. t \in Statuses /\ Updates(o, t)
    BY <1>2
  <2>2. ledger'[o] = Become(ledger[o], t)
    BY <1>1, <1>2
  <2> HIDE DEF t
  <2>3. Heard(o, t)
    BY <2>1 DEF Updates, Reported, IInv, Compare
  <2> QED  BY <2>1, <2>2, <2>3 DEF Updates, Reported, Known
<1> QED  BY <1>1, <1>2

LEMMA CompareInv ==
    ASSUME IInv, Compare
    PROVE  IInv'
<1>1. UNCHANGED <<book, listed, inbox>> /\ fetched' = None
      /\ success' \in BOOLEAN
  BY DEF Compare
<1>2. ASSUME NEW o \in Orders
      PROVE  ledger'[o] \in Order \cup {None} /\ OrderInv(o)'
  <2>1. CASE ledger'[o] = ledger[o]
    BY <1>1, <2>1 DEF OrderInv, IInv, TypeOK, LedgerTypeOK, Stored, Heard
  <2>2. CASE ledger'[o] # ledger[o]
    <3>1. PICK s \in Statuses :
            /\ Stored(o) /\ Heard(o, s) /\ Legal(ledger[o].status, s)
            /\ ledger'[o] = Become(ledger[o], s)
      BY <2>2, CompareStep
    <3>2. /\ ledger'[o] \in Order
          /\ ledger'[o].risk_decision = "approved"
          /\ ledger'[o].status \notin Early
          /\ Heard(o, ledger'[o].status)
      BY <3>1, HeardStatus
    <3> QED  BY <1>1, <3>2 DEF OrderInv, Heard
  <2> QED  BY <2>1, <2>2
<1>3. ledger' = [o \in Orders |-> ledger'[o]]
  BY DEF Compare
<1>4. ledger' \in [Orders -> Order \cup {None}]
  BY <1>2, <1>3
<1> QED  BY <1>1, <1>2, <1>4 DEF IInv, TypeOK, LedgerTypeOK, Waiting, Heard

LEMMA StepInv == IInv /\ [Next]_vars => IInv'
<1> SUFFICES ASSUME IInv, [Next]_vars PROVE IInv'
  OBVIOUS
<1>1. CASE UNCHANGED vars
  <2>1. UNCHANGED <<ledger, book, listed, inbox, fetched, success>>
    BY <1>1 DEF vars
  <2> QED  BY <2>1 DEF IInv, TypeOK, LedgerTypeOK, OrderInv, Stored, Waiting, Heard
<1>2. CASE \E o \in Orders : Create(o) \/ Place(o) \/ Submitted(o)
                             \/ BrokerMoves(o) \/ Expires(o)
  BY <1>2, CreateInv, PlaceInv, SubmittedInv, BrokerInv, ExpiresInv
<1>3. CASE \E o \in Orders, s \in Statuses : Postback(o, s)
  BY <1>3, PostbackInv
<1>4. CASE Fetch \/ FetchFails
  BY <1>4, FetchInv
<1>5. CASE Compare
  BY <1>5, CompareInv
<1> QED  BY <1>1, <1>2, <1>3, <1>4, <1>5 DEF Next

(* Whatever the broker said of an ended order still holds, and an order    *)
(* without approval is in an early state: the invariant the others use.    *)
THEOREM Invariance == Spec => []IInv
BY InitInv, StepInv, PTL DEF Spec

(* The ledger, the order book and the messages in flight keep their types. *)
THEOREM OrderTypes == Spec => []TypeOK
BY Invariance, InvImplies, PTL

(* An order the ledger has as filled, cancelled or rejected ended that way *)
(* at the broker, however postbacks and order books were delayed or lost.  *)
THEOREM TrueEnds == Spec => []EndsAreTrue
BY Invariance, InvImplies, PTL

(* No order is live that the risk engine did not approve: the table of     *)
(* transitions offers no way around RISK_APPROVED.                         *)
THEOREM ApprovedOnly == Spec => []LiveWasApproved
BY Invariance, InvImplies, PTL

-----------------------------------------------------------------------------
(* A reconciliation that reports success.                                  *)

LEMMA OnlyCompareEnds ==
    ASSUME [Next]_vars, Waiting, ~Waiting'
    PROVE  Compare
BY DEF Next, vars, Waiting, Create, Place, Submitted, BrokerMoves, Expires, Postback,
       Fetch, FetchFails

(* Success means in sync: whatever could not be fetched, mapped or updated *)
(* makes the report fail.                                                  *)
THEOREM SuccessIsSync == Spec => SuccessMeansInSync
<1>1. ASSUME IInv, [Next]_vars, Waiting, ~Waiting', success',
             NEW o \in Orders, Known(o)
      PROVE  <<o, ledger'[o].status>> \in fetched.orders
  <2>1. Compare
    BY <1>1, OnlyCompareEnds
  <2>2. \A d \in Discrepancies : ~Severe(d[1])
    BY <1>1, <2>1 DEF Compare
  <2>3. ~Missing(o)
    <3>1. Missing(o) => <<"MISSING_IN_BROKER", o>> \in Discrepancies
      BY DEF Discrepancies
    <3> QED  BY <2>2, <3>1 DEF Severe
  <2>4. \A s \in Statuses : ~Invalid(o, s)
    <3>1. (\E s \in Statuses : Invalid(o, s))
          => <<"INVALID_TRANSITION", o>> \in Discrepancies
      BY DEF Discrepancies
    <3> QED  BY <2>2, <3>1 DEF Severe
  <2>5. ledger'[o] = IF \E s \in Statuses : Updates(o, s)
                     THEN Become(ledger[o], CHOOSE s \in Statuses : Updates(o, s))
                     ELSE ledger[o]
    BY <2>1 DEF Compare
  <2>6. CASE \E s \in Statuses : Updates(o, s)
    <3>1. PICK t \in Statuses : Updates(o, t) /\ ledger'[o] = Become(ledger[o], t)
      BY <2>5, <2>6
    <3>2. ledger[o] \in Order
      BY <1>1 DEF Known, Stored, IInv, TypeOK, LedgerTypeOK
    <3>3. ledger'[o].status = t
      BY <3>1, <3>2, OrderFacts
    <3> QED  BY <3>1, <3>3 DEF Updates, Reported
  <2>7. CASE ~ \E s \in Statuses : Updates(o, s)
    BY <1>1, <2>3, <2>4, <2>5, <2>7 DEF Missing, Invalid, Updates, Reported
  <2> QED  BY <2>6, <2>7
<1>2. IInv /\ [Next]_vars =>
        [Waiting /\ ~Waiting' /\ success'
         => \A o \in Orders : Known(o) =>
                <<o, ledger'[o].status>> \in fetched.orders]_vars
  BY <1>1
<1> QED  BY <1>2, Invariance, PTL DEF Spec, SuccessMeansInSync

-----------------------------------------------------------------------------
(* The ledger implements the life cycle of an order.                       *)

LEMMA PhaseFacts ==
    /\ \A s \in Live : PhaseOf(s) = "live"
    /\ \A s \in Over : PhaseOf(s) \in Lifecycle!Ends
    /\ \A s \in Statuses \cup {"none"} : PhaseOf(s) \in Lifecycle!Phases
    /\ PhaseOf("none") = "none" /\ PhaseOf("CREATED") = "unchecked"
    /\ PhaseOf("RISK_REJECTED") = "refused" /\ PhaseOf("RISK_APPROVED") = "approved"
BY DEF PhaseOf, Live, Over, Statuses, Lifecycle!Ends, Lifecycle!Phases

LEMMA StatusType ==
    ASSUME TypeOK, NEW o \in Orders
    PROVE  /\ Status(o) \in Statuses \cup {"none"}
           /\ Status(o) = IF Stored(o) THEN ledger[o].status ELSE "none"
BY DEF TypeOK, LedgerTypeOK, Status, Stored, Order

(* One order changes: the phases of the others stay. *)
LEMMA OnePhase ==
    ASSUME NEW o \in Orders, \A p \in Orders \ {o} : ledger'[p] = ledger[p]
    PROVE  Phase' = [Phase EXCEPT ![o] = PhaseOf(Status(o))']
BY DEF Phase, Status, Stored

LEMMA CreateDecides ==
    ASSUME IInv, NEW o \in Orders, Create(o)
    PROVE  Lifecycle!Decide(o)
<1>1. /\ \A p \in Orders \ {o} : ledger'[p] = ledger[p]
      /\ \/ ledger'[o] = NewOrder("RISK_APPROVED", "approved")
         \/ ledger'[o] = NewOrder("RISK_REJECTED", "rejected")
         \/ ledger'[o] = NewOrder("CREATED", None)
      /\ ~Stored(o)
  BY DEF Create, CreateChecked, CreateUnchecked, IInv, TypeOK, LedgerTypeOK
<1>2. \A q, d : q \in Statuses /\ d \in {None, "approved", "rejected"} =>
        NewOrder(q, d) \in Order /\ NewOrder(q, d).status = q
  BY DEF NewOrder, Order
<1>3. {"RISK_APPROVED", "RISK_REJECTED", "CREATED"} \subseteq Statuses
  BY DEF Statuses
<1>4. /\ ledger'[o] # None
      /\ ledger'[o].status \in {"RISK_APPROVED", "RISK_REJECTED", "CREATED"}
  BY <1>1, <1>2, <1>3, NoneAssumption
<1>5. PhaseOf(Status(o))' \in {"unchecked", "refused", "approved"}
  BY <1>4, PhaseFacts DEF Status, Stored
<1>6. Phase[o] = "none"
  BY <1>1, PhaseFacts DEF Phase, Status
<1> QED  BY <1>1, <1>5, <1>6, OnePhase DEF Lifecycle!Decide

(* A step of the state machine on one order goes live, ends, or keeps the  *)
(* phase, if it comes from the broker or from mark_submitted.              *)
LEMMA PhaseStep ==
    ASSUME NEW s \in Statuses, NEW t \in Images, Legal(s, t)
    PROVE  \/ PhaseOf(s) = "approved" /\ PhaseOf(t) = "live"
           \/ PhaseOf(s) = "live" /\ PhaseOf(t) = "live"
           \/ PhaseOf(s) = "live" /\ PhaseOf(t) \in Lifecycle!Ends
<1>1. t \in Statuses
  BY StatusKinds
<1>2. CASE s = "RISK_APPROVED"
  BY <1>1, <1>2, LegalFacts, PhaseFacts DEF Live
<1>3. CASE s \in Live
  BY <1>1, <1>3, LegalFacts, PhaseFacts
<1> QED  BY <1>1, <1>2, <1>3, LegalFacts

LEMMA UpdateMoves ==
    ASSUME IInv, NEW o \in Orders, Stored(o), NEW t \in Images,
           Legal(ledger[o].status, t), ledger'[o] # None, ledger'[o].status = t,
           \A p \in Orders \ {o} : ledger'[p] = ledger[p]
    PROVE  [Lifecycle!Next]_Phase
<1>1. ledger[o].status \in Statuses
  BY DEF IInv, TypeOK, LedgerTypeOK, Stored, Order
<1>2. Phase' = [Phase EXCEPT ![o] = PhaseOf(t)]
  BY OnePhase DEF Status, Stored
<1>3. Phase[o] = PhaseOf(ledger[o].status)
  BY DEF Phase, Status
<1>4. Phase \in [Orders -> Lifecycle!Phases]
  BY StatusType, PhaseFacts DEF Phase, IInv
<1>5. CASE Phase[o] = "approved" /\ PhaseOf(t) = "live"
  BY <1>2, <1>5 DEF Lifecycle!Next, Lifecycle!GoLive
<1>6. CASE Phase[o] = "live" /\ PhaseOf(t) = "live"
  BY <1>2, <1>4, <1>6
<1>7. CASE Phase[o] = "live" /\ PhaseOf(t) \in Lifecycle!Ends
  <2>1. PhaseOf(t) \in Lifecycle!Phases
    BY StatusKinds, PhaseFacts
  <2>2. Lifecycle!EndSome
    BY <1>2, <1>4, <1>7, <2>1 DEF Lifecycle!EndSome
  <2> QED  BY <2>2 DEF Lifecycle!Next
<1> QED  BY <1>1, <1>3, <1>5, <1>6, <1>7, PhaseStep

LEMMA CompareMoves ==
    ASSUME IInv, Compare
    PROVE  Lifecycle!EndSome
<1>1. ASSUME NEW o \in Orders
      PROVE  /\ PhaseOf(Status(o))' \in Lifecycle!Phases
             /\ \/ PhaseOf(Status(o))' = PhaseOf(Status(o))
                \/ /\ PhaseOf(Status(o)) = "live"
                   /\ PhaseOf(Status(o))' \in Lifecycle!Ends
  <2>1. CASE ledger'[o] = ledger[o]
    BY <2>1, StatusType, PhaseFacts DEF Status, Stored, IInv
  <2>2. CASE ledger'[o] # ledger[o]
    <3>1. PICK s \in Statuses :
            /\ Stored(o) /\ ledger[o].has_broker_id
            /\ Heard(o, s) /\ Legal(ledger[o].status, s)
            /\ ledger'[o] = Become(ledger[o], s)
      BY <2>2, CompareStep
    <3>2. ledger[o] \in Order /\ ledger[o].status \in Statuses
      BY <3>1 DEF IInv, TypeOK, LedgerTypeOK, Stored, Order
    <3>3. ledger'[o] \in Order /\ ledger'[o].status = s /\ ledger'[o] # None
      BY <3>1, <3>2, OrderFacts, NoneAssumption
    <3>4. Status(o) = ledger[o].status /\ Status(o)' = s
      BY <3>1, <3>3 DEF Status, Stored
    <3>5. s \in Images
      BY <3>1 DEF Heard
    <3>6. ledger[o].status \in Live
      BY <3>1, <3>2, <3>5, LegalFacts DEF IInv, OrderInv, Early
    <3>7. PhaseOf(ledger[o].status) = "live"
      BY <3>6, PhaseFacts
    <3>8. PhaseOf(s) = "live" \/ PhaseOf(s) \in Lifecycle!Ends
      BY <3>1, <3>2, <3>5, <3>6, LegalFacts, PhaseFacts
    <3> QED  BY <3>1, <3>4, <3>7, <3>8, PhaseFacts
  <2> QED  BY <2>1, <2>2
<1>2. Phase' = [o \in Orders |-> PhaseOf(Status(o))']
  BY DEF Phase
<1> QED  BY <1>1, <1>2 DEF Lifecycle!EndSome, Phase

LEMMA StepImplements == IInv /\ [Next]_vars => [Lifecycle!Next]_Phase
<1> SUFFICES ASSUME IInv, [Next]_vars PROVE [Lifecycle!Next]_Phase
  OBVIOUS
<1>1. ASSUME ledger' = ledger PROVE Phase' = Phase
  BY <1>1 DEF Phase, Status, Stored
<1>2. CASE UNCHANGED vars
  BY <1>1, <1>2 DEF vars
<1>3. ASSUME NEW o \in Orders, Create(o) PROVE [Lifecycle!Next]_Phase
  BY <1>3, CreateDecides DEF Lifecycle!Next
<1>4. ASSUME NEW o \in Orders, Place(o) \/ BrokerMoves(o) \/ Expires(o)
      PROVE  [Lifecycle!Next]_Phase
  BY <1>1, <1>4 DEF Place, BrokerMoves, Expires
<1>5. ASSUME NEW o \in Orders, Submitted(o) PROVE [Lifecycle!Next]_Phase
  <2>1. PICK id \in BOOLEAN : MarkSubmitted(o, id)
    BY <1>5 DEF Submitted
  <2>2. /\ Stored(o) /\ ledger[o] \in Order
        /\ Legal(ledger[o].status, "SUBMITTED")
        /\ ledger'[o] = Submit(ledger[o], id)
        /\ \A p \in Orders \ {o} : ledger'[p] = ledger[p]
    BY <2>1 DEF MarkSubmitted, CanBecome, IInv, TypeOK, LedgerTypeOK, Stored
  <2>3. /\ ledger'[o] \in Order /\ ledger'[o] # None
        /\ ledger'[o].status = "SUBMITTED"
    BY <2>2, NoneAssumption DEF Submit, Order, Statuses
  <2>4. "SUBMITTED" \in Images
    BY DEF Images
  <2> QED  BY <2>2, <2>3, <2>4, UpdateMoves
<1>6. ASSUME NEW o \in Orders, NEW s \in Statuses, Postback(o, s)
      PROVE  [Lifecycle!Next]_Phase
  <2>1. /\ Stored(o) /\ ledger[o] \in Order
        /\ Legal(ledger[o].status, s)
        /\ ledger'[o] = Become(ledger[o], s)
        /\ \A p \in Orders \ {o} : ledger'[p] = ledger[p]
    BY <1>6 DEF Postback, MarkBrokerUpdate, CanBecome, IInv, TypeOK, LedgerTypeOK,
                Stored
  <2>2. s \in Images
    BY <1>6 DEF Postback, IInv, Heard
  <2>3. ledger'[o] \in Order /\ ledger'[o].status = s /\ ledger'[o] # None
    BY <2>1, OrderFacts, NoneAssumption
  <2> QED  BY <2>1, <2>2, <2>3, UpdateMoves
<1>7. CASE Fetch \/ FetchFails
  BY <1>1, <1>7 DEF Fetch, FetchFails
<1>8. CASE Compare
  BY <1>8, CompareMoves DEF Lifecycle!Next
<1> QED  BY <1>2, <1>3, <1>4, <1>5, <1>6, <1>7, <1>8 DEF Next

LEMMA InitImplements == Init => Lifecycle!Init
BY PhaseFacts DEF Init, LedgerInit, Lifecycle!Init, Phase, Status, Stored

(* The ledger implements the life cycle: live only after approval, ended   *)
(* at most once, and whatever arrives later changes nothing.               *)
THEOREM Implements == Spec => ImplementsLifecycle
BY InitImplements, StepImplements, Invariance, PTL
   DEF Spec, ImplementsLifecycle, Lifecycle!Spec

-----------------------------------------------------------------------------
(* Reconciliation closes every gap the state machine has a step across:    *)
(* whatever the ledger missed, it is the status of the order book, may     *)
(* become it, or is stuck.                                                 *)

GapInv ==
    /\ \A o \in Orders, s \in Statuses :
           <<o, s>> \in inbox => /\ s \in Images \ {"SUBMITTED"}
                                 /\ book[o] # "PENDING"
    /\ \A o \in Orders : Known(o) =>
           /\ ledger[o].status \in Images
           /\ ledger[o].status = "OPEN" => book[o] # "PENDING"
    /\ \A o \in Orders : Stored(o) /\ ~Known(o) =>
           /\ ledger[o].status \in Early \cup Images
           /\ ledger[o].status = "OPEN" => book[o] # "PENDING"
    /\ Waiting => \A o \in Orders, s, t \in Statuses :
           /\ <<o, s>> \in fetched.orders /\ <<o, t>> \in fetched.orders => s = t
           /\ <<o, s>> \in fetched.orders => /\ s \in Images
                                             /\ s = "OPEN" => book[o] # "PENDING"
           /\ Reported(o, s) => \/ s = ledger[o].status
                                \/ Legal(ledger[o].status, s)
                                \/ Stuck(o, s)

LEMMA StuckIsIllegal ==
    ASSUME NEW o \in Orders, NEW s \in Images, Stored(o), Stuck(o, s)
    PROVE  ~Legal(ledger[o].status, s)
BY DEF Stuck, Status, Legal, Transitions, Statuses, Images

(* What a ledger that lags behind needs to catch up is legal, or it is     *)
(* stuck.                                                                  *)
LEMMA Lag ==
    ASSUME IInv, GapInv, NEW o \in listed, Known(o)
    PROVE  LET s == MapStatus[book[o]]
           IN  s = ledger[o].status \/ Legal(ledger[o].status, s) \/ Stuck(o, s)
<1>1. o \in Orders /\ Stored(o) /\ book[o] \in BrokerStatuses
  BY DEF IInv, TypeOK, Known
<1>2. /\ ledger[o].status \in Images
      /\ ledger[o].status = "OPEN" => book[o] # "PENDING"
      /\ Status(o) = ledger[o].status
  BY <1>1 DEF GapInv, Status
<1>3. /\ ledger[o].status = "FILLED" => book[o] = "COMPLETE"
      /\ ledger[o].status = "CANCELLED" => book[o] = "CANCELLED"
      /\ ledger[o].status = "REJECTED" => book[o] = "REJECTED"
  BY <1>1 DEF IInv, OrderInv, Heard, Images, Over
<1>4. /\ MapStatus[book[o]] \in Images
      /\ MapStatus[book[o]] = "SUBMITTED" => book[o] = "PENDING"
  BY <1>1 DEF MapStatus, BrokerStatuses, Images
<1>5. MapStatus["COMPLETE"] = "FILLED" /\ MapStatus["CANCELLED"] = "CANCELLED"
      /\ MapStatus["REJECTED"] = "REJECTED"
  BY DEF MapStatus, BrokerStatuses
<1>6. /\ \A t \in {"OPEN", "FILLED", "REJECTED", "UNKNOWN"} : Legal("SUBMITTED", t)
      /\ \A t \in {"FILLED", "CANCELLED", "REJECTED", "UNKNOWN"} : Legal("OPEN", t)
  BY DEF Legal, Transitions, Statuses
<1> QED  BY <1>2, <1>3, <1>4, <1>5, <1>6 DEF Images, Stuck

LEMMA GapFetch ==
    ASSUME IInv, GapInv, Fetch \/ FetchFails
    PROVE  GapInv'
<1>1. UNCHANGED <<ledger, book, listed, inbox>>
  BY DEF Fetch, FetchFails
<1>2. ASSUME NEW o \in Orders, NEW s \in Statuses, <<o, s>> \in fetched'.orders
      PROVE  o \in listed /\ s = MapStatus[book[o]]
  BY <1>2 DEF Fetch, FetchFails
<1>3. \A o \in Orders, s, t \in Statuses :
        /\ <<o, s>> \in fetched'.orders /\ <<o, t>> \in fetched'.orders => s = t
        /\ <<o, s>> \in fetched'.orders => /\ s \in Images
                                           /\ s = "OPEN" => book[o] # "PENDING"
        /\ Reported(o, s)' => \/ s = ledger'[o].status
                              \/ Legal(ledger'[o].status, s)
                              \/ Stuck(o, s)'
  <2>1. ASSUME NEW o \in Orders, NEW s \in Statuses, Reported(o, s)'
        PROVE  s = ledger[o].status \/ Legal(ledger[o].status, s) \/ Stuck(o, s)
    <3>1. Known(o) /\ <<o, s>> \in fetched'.orders
      BY <1>1, <2>1 DEF Reported, Known, Stored
    <3> QED  BY <1>2, <3>1, Lag
  <2>2. ASSUME NEW o \in Orders, NEW s \in Statuses, <<o, s>> \in fetched'.orders
        PROVE  s \in Images /\ (s = "OPEN" => book[o] # "PENDING")
    <3>1. o \in listed /\ s = MapStatus[book[o]]
      BY <1>2, <2>2
    <3>2. book[o] \in BrokerStatuses
      BY <3>1 DEF IInv, TypeOK
    <3> QED  BY <3>1, <3>2 DEF MapStatus, BrokerStatuses, Images
  <2> QED  BY <1>1, <1>2, <2>1, <2>2 DEF Stuck, Status, Stored
<1> QED  BY <1>1, <1>3 DEF GapInv, Known, Stored

LEMMA GapBroker ==
    ASSUME IInv, GapInv, NEW o \in Orders, BrokerMoves(o)
    PROVE  GapInv'
<1>1. PICK s \in BrokerStatuses \ {"PENDING"} :
        /\ book' = [book EXCEPT ![o] = s]
        /\ inbox' = inbox \cup {<<o, MapStatus[s]>>}
        /\ UNCHANGED <<ledger, listed, fetched, success>>
  BY DEF BrokerMoves
<1>2. /\ \A p \in Orders \ {o} : book'[p] = book[p]
      /\ book'[o] = s
  BY <1>1 DEF IInv, TypeOK
<1>3. MapStatus[s] \in Images \ {"SUBMITTED"}
  BY DEF MapStatus, BrokerStatuses, Images
<1> QED  BY <1>1, <1>2, <1>3 DEF GapInv, Known, Stored, Reported, Waiting, Stuck, Status

LEMMA GapOther ==
    ASSUME IInv, GapInv, NEW o \in Orders, NEW s \in Statuses,
           Create(o) \/ Place(o) \/ Submitted(o) \/ Expires(o) \/ Postback(o, s)
    PROVE  GapInv'
<1>1. CASE Expires(o)
  BY <1>1 DEF Expires, GapInv, Known, Stored, Reported, Waiting, Stuck, Status
<1>2. CASE Place(o)
  <2>1. /\ book' = [book EXCEPT ![o] = "PENDING"] /\ book[o] = None
        /\ Returned(o) /\ UNCHANGED <<ledger, inbox, fetched>> /\ ~Waiting
    BY <1>2 DEF Place
  <2>2. /\ \A p \in Orders \ {o} : book'[p] = book[p]
        /\ book'[o] = "PENDING"
    BY <2>1 DEF IInv, TypeOK
  <2>3. Stored(o) /\ ledger[o].status \in Early
    BY <2>1 DEF Returned, Status, Early
  <2>4. ledger[o].status # "OPEN" /\ ledger[o].status \notin Images
    BY <2>3 DEF Early, Images
  <2>5. \A t \in Statuses : <<o, t>> \notin inbox
    BY <2>1 DEF IInv, Heard
  <2> QED  BY <2>1, <2>2, <2>3, <2>4, <2>5 DEF GapInv, Known, Stored, Waiting
<1>3. CASE Create(o)
  <2>1. /\ \A p \in Orders \ {o} : ledger'[p] = ledger[p]
        /\ \/ ledger'[o] = NewOrder("RISK_APPROVED", "approved")
           \/ ledger'[o] = NewOrder("RISK_REJECTED", "rejected")
           \/ ledger'[o] = NewOrder("CREATED", None)
        /\ UNCHANGED <<book, listed, inbox, fetched, success>> /\ ~Waiting
    BY <1>3 DEF Create, CreateChecked, CreateUnchecked, IInv, TypeOK, LedgerTypeOK
  <2>2. ledger'[o].has_broker_id = FALSE /\ ledger'[o].status \in Early
    BY <2>1 DEF NewOrder, Early
  <2>3. ledger'[o].status # "OPEN"
    BY <2>2 DEF Early
  <2>4. ~Known(o)'
    BY <2>2 DEF Known
  <2> QED  BY <2>1, <2>2, <2>3, <2>4 DEF GapInv, Known, Stored, Waiting
<1>4. CASE Submitted(o)
  <2>1. PICK id \in BOOLEAN : MarkSubmitted(o, id)
    BY <1>4 DEF Submitted
  <2>2. /\ Stored(o) /\ ledger[o] \in Order
        /\ ledger'[o] = Submit(ledger[o], id)
        /\ \A p \in Orders \ {o} : ledger'[p] = ledger[p]
        /\ UNCHANGED <<book, listed, inbox, fetched>> /\ ~Waiting
    BY <1>4, <2>1 DEF Submitted, MarkSubmitted, CanBecome, IInv, TypeOK,
                      LedgerTypeOK, Stored
  <2>3. ledger'[o].status = "SUBMITTED"
    BY <2>2 DEF Submit, Order
  <2>4. "SUBMITTED" \in Images
    BY DEF Images
  <2> QED  BY <2>2, <2>3, <2>4 DEF GapInv, Known, Stored, Waiting
<1>5. CASE Postback(o, s)
  <2>1. /\ Stored(o) /\ ledger[o] \in Order
        /\ ledger'[o] = Become(ledger[o], s)
        /\ \A p \in Orders \ {o} : ledger'[p] = ledger[p]
        /\ UNCHANGED <<book, listed, inbox, fetched>> /\ ~Waiting
        /\ <<o, s>> \in inbox
    BY <1>5 DEF Postback, MarkBrokerUpdate, CanBecome, IInv, TypeOK, LedgerTypeOK,
                Stored
  <2>2. ledger'[o].status = s
    BY <2>1, OrderFacts
  <2>3. s \in Images /\ book[o] # "PENDING"
    BY <2>1 DEF GapInv
  <2> QED  BY <2>1, <2>2, <2>3 DEF GapInv, Known, Stored, Waiting
<1> QED  BY <1>1, <1>2, <1>3, <1>4, <1>5

LEMMA GapCompare ==
    ASSUME IInv, GapInv, Compare
    PROVE  GapInv'
<1>1. UNCHANGED <<book, listed, inbox>> /\ fetched' = None /\ Waiting
  BY DEF Compare
<1>2. ASSUME NEW o \in Orders, Known(o)'
      PROVE  /\ ledger'[o].status \in Images
             /\ ledger'[o].status = "OPEN" => book[o] # "PENDING"
  <2>1. ledger'[o] = IF \E s \in Statuses : Updates(o, s)
                     THEN Become(ledger[o], CHOOSE s \in Statuses : Updates(o, s))
                     ELSE ledger[o]
    BY DEF Compare
  <2>2. CASE \E s \in Statuses : Updates(o, s)
    <3>1. PICK t \in Statuses : Updates(o, t) /\ ledger'[o] = Become(ledger[o], t)
      BY <2>1, <2>2
    <3>2. <<o, t>> \in fetched.orders /\ ledger[o] \in Order
      BY <3>1 DEF Updates, Reported, Known, Stored, IInv, TypeOK, LedgerTypeOK
    <3>3. ledger'[o].status = t
      BY <3>1, <3>2, OrderFacts
    <3> QED  BY <1>1, <3>2, <3>3 DEF GapInv
  <2>3. CASE ~ \E s \in Statuses : Updates(o, s)
    BY <1>2, <2>1, <2>3 DEF GapInv, Known, Stored
  <2> QED  BY <2>2, <2>3
<1>3. ASSUME NEW o \in Orders, Stored(o)', ~Known(o)'
      PROVE  ledger'[o] = ledger[o]
  <2>1. CASE ledger'[o] # ledger[o]
    <3>1. PICK s \in Statuses :
            /\ Stored(o) /\ ledger[o].has_broker_id
            /\ ledger'[o] = Become(ledger[o], s)
      BY <2>1, CompareStep
    <3>2. ledger[o] \in Order
      BY <3>1 DEF IInv, TypeOK, LedgerTypeOK, Stored
    <3>3. ledger'[o].has_broker_id = ledger[o].has_broker_id
      BY <3>1, <3>2, OrderFacts
    <3> QED  BY <1>3, <3>1, <3>3 DEF Known
  <2> QED  BY <2>1
<1> QED  BY <1>1, <1>2, <1>3 DEF GapInv, Known, Stored, Waiting

LEMMA GapStep == IInv /\ GapInv /\ [Next]_vars => GapInv'
<1> SUFFICES ASSUME IInv, GapInv, [Next]_vars PROVE GapInv'
  OBVIOUS
<1>1. CASE UNCHANGED vars
  <2>1. UNCHANGED <<ledger, book, listed, inbox, fetched, success>>
    BY <1>1 DEF vars
  <2> QED  BY <2>1 DEF GapInv, Known, Stored, Reported, Waiting, Stuck, Status
<1>2. CASE \E o \in Orders : BrokerMoves(o)
  BY <1>2, GapBroker
<1>3. CASE \E o \in Orders : Create(o) \/ Place(o) \/ Submitted(o) \/ Expires(o)
  <2>1. "OPEN" \in Statuses
    BY DEF Statuses
  <2> QED  BY <1>3, <2>1, GapOther
<1>4. CASE \E o \in Orders, s \in Statuses : Postback(o, s)
  BY <1>4, GapOther
<1>5. CASE Fetch \/ FetchFails
  BY <1>5, GapFetch
<1>6. CASE Compare
  BY <1>6, GapCompare
<1> QED  BY <1>1, <1>2, <1>3, <1>4, <1>5, <1>6 DEF Next

LEMMA GapInit == Init => GapInv
BY NoneIsNone DEF Init, LedgerInit, GapInv, Known, Stored, Waiting, BrokerStatuses

(* What a comparison reports of an order is what it writes, unless the     *)
(* order is stuck.                                                         *)
LEMMA GapEnds ==
    ASSUME IInv, GapInv, [Next]_vars, Waiting, ~Waiting',
           NEW o \in Orders, NEW s \in Statuses, Reported(o, s)
    PROVE  ledger'[o].status = IF Stuck(o, s) THEN ledger[o].status ELSE s
<1>1. ledger'[o] = IF \E t \in Statuses : Updates(o, t)
                   THEN Become(ledger[o], CHOOSE t \in Statuses : Updates(o, t))
                   ELSE ledger[o]
  BY OnlyCompareEnds DEF Compare
<1>2. \A t \in Statuses : Reported(o, t) => t = s
  BY DEF GapInv, Reported
<1>3. s \in Images /\ Stored(o)
  BY DEF GapInv, Reported, Known
<1>4. CASE \E t \in Statuses : Updates(o, t)
  <2>1. PICK t \in Statuses : Updates(o, t) /\ ledger'[o] = Become(ledger[o], t)
    BY <1>1, <1>4
  <2>2. t = s /\ ledger[o] \in Order /\ Legal(ledger[o].status, s)
    BY <1>2, <2>1 DEF Updates, Known, Reported, Stored, IInv, TypeOK, LedgerTypeOK
  <2>3. ~Stuck(o, s)
    BY <1>3, <2>2, StuckIsIllegal
  <2> QED  BY <2>1, <2>2, <2>3, OrderFacts
<1>5. CASE ~ \E t \in Statuses : Updates(o, t)
  <2>1. ledger'[o] = ledger[o] /\ ~Legal(ledger[o].status, s)
    BY <1>1, <1>5 DEF Updates
  <2>2. s = ledger[o].status \/ Stuck(o, s)
    BY <2>1 DEF GapInv
  <2> QED  BY <2>1, <2>2
<1> QED  BY <1>4, <1>5

(* Whatever is delayed, lost, garbled, cancelled or reported in a status   *)
(* the mappers do not know, an order that the fetched book lists ends up   *)
(* in the status the book gives it, or keeps its own if it is stuck.       *)
THEOREM GapClosing == Spec => GapCloses
<1>1. Spec => []GapInv
  <2>1. IInv /\ GapInv /\ [Next]_vars => GapInv'
    BY GapStep
  <2> QED  BY <2>1, GapInit, Invariance, PTL DEF Spec
<1>2. IInv /\ GapInv /\ [Next]_vars =>
        [Waiting /\ ~Waiting'
         => \A o \in Orders, s \in Statuses : Reported(o, s) =>
                ledger'[o].status = IF Stuck(o, s) THEN ledger[o].status ELSE s]_vars
  BY GapEnds
<1> QED  BY <1>1, <1>2, Invariance, PTL DEF Spec, GapCloses
=============================================================================
