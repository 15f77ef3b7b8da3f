------------------------------ MODULE LivePilot ------------------------------
(***************************************************************************)
(* Live orders by hand: the settings, the preflight, the dry run, and one  *)
(* process at a time that can place orders -- the pilot script, which asks *)
(* the operator for a phrase, or a program with an approval gate of its    *)
(* own.  Settings are read once, when a process starts; the gate's requests*)
(* and decisions die with the process; the broker's book does not.  An     *)
(* order carries what its process knew when it was placed.                 *)
(***************************************************************************)
EXTENDS Integers, Sequences, FiniteSets

CONSTANTS
    Settings,       \* contents the .env file can have
    Intents,        \* orders that can be asked for
    GateModes,      \* approval modes of programs other than the script
    Timeout,        \* default_timeout_seconds, in ticks of the clock
    Retries,        \* polls of a verification
    WarnQuantity,   \* _WARN_QUANTITY_THRESHOLD
    MaxClock,       \* bound: ticks of the clock
    MaxRequests,    \* bound: approval requests of a process
    MaxOrders,      \* bound: orders in the book
    MaxEdits,       \* bound: edits of the settings
    MaxConfirms     \* bound: phrases the operator types

ASSUME GateAssumption ==
    /\ GateModes \subseteq {"AUTO_PAPER", "MANUAL_APPROVE", "AUTO_LIVE"}
    /\ Timeout \in Nat \ {0} /\ Retries \in Nat \ {0}
    /\ WarnQuantity \in Nat /\ \A s \in Settings : s.maxQuantity \in Int
    /\ \A intent \in Intents : intent.quantity \in Int
    /\ MaxClock \in Nat /\ MaxRequests \in Nat /\ MaxOrders \in Nat
    /\ MaxEdits \in Nat /\ MaxConfirms \in Nat

VARIABLES
    settings,   \* the .env file
    edits,
    clock,
    proc,       \* the running process
    kill,       \* its kill switch
    requests,   \* requests of its gate
    decided,    \* the decision on each of them
    book,       \* orders the broker has
    report,     \* the last preflight: what it looked at, whether it passed
    confirms    \* phrases typed

vars == <<settings, edits, clock, proc, kill, requests, decided, book, report,
          confirms>>

Nothing == [nothing |-> TRUE]
NoProc == [kind |-> "none", mode |-> "", pc |-> "idle", cfg |-> Nothing,
           intent |-> Nothing, id |-> 0, risk |-> "", result |-> "",
           attempt |-> 0, logged |-> ""]
NoReport == [passed |-> FALSE, cfg |-> Nothing]
Undecided == [status |-> "PENDING", at |-> 0]

Init ==
    /\ settings \in Settings /\ edits = 0 /\ clock = 0
    /\ proc = NoProc /\ kill = FALSE
    /\ requests = <<>> /\ decided = <<>>
    /\ book = <<>> /\ report = NoReport
    /\ confirms = 0

Gone == /\ proc' = NoProc /\ kill' = FALSE /\ requests' = <<>> /\ decided' = <<>>
Still == UNCHANGED <<requests, decided>>

-----------------------------------------------------------------------------
(* The operator's side. *)

Edit(s) ==
    /\ edits < MaxEdits /\ edits' = edits + 1
    /\ settings' = s
    /\ UNCHANGED <<clock, proc, kill, requests, decided, book, report, confirms>>

Tick ==
    /\ clock < MaxClock /\ clock' = clock + 1
    /\ UNCHANGED <<settings, edits, proc, kill, requests, decided, book, report,
                   confirms>>

(* Mutant of PreflightPasses: the order types are only advised on. *)
TypesAdvisory(s, requireIp) ==
    /\ s.live /\ s.execution /\ s.pilot
    /\ s.maxQuantity > 0 /\ s.maxQuantity <= WarnQuantity
    /\ s.symbols # {}
    /\ s.credentials # "missing"
    /\ ~ requireIp

(* Every REQUIRED check is PASS.  A quantity above the threshold is WARN   *)
(* at level REQUIRED, so it does not pass; the static IP never passes when *)
(* it is required; a placeholder counts as a credential; the kill switch   *)
(* is a fresh one of the preflight's own process.                          *)
PreflightPasses(s, requireIp) ==
    /\ s.live /\ s.execution /\ s.pilot
    /\ s.maxQuantity > 0 /\ s.maxQuantity <= WarnQuantity
    /\ s.symbols # {} /\ s.types # {}
    /\ s.credentials # "missing"
    /\ ~ requireIp

Preflight(requireIp) ==
    /\ proc.kind = "none"
    /\ report' = IF PreflightPasses(settings, requireIp)
                 THEN [passed |-> TRUE, cfg |-> settings] ELSE NoReport
    /\ UNCHANGED <<settings, edits, clock, proc, kill, requests, decided, book,
                   confirms>>

-----------------------------------------------------------------------------
(* The gate. *)

Request(intent) == [intent |-> intent, expires |-> clock + Timeout]
Decision(status) == [status |-> status, at |-> clock]

(* Mutant of Pending: any request can be decided again. *)
Known(id) == id \in 1..Len(requests)

(* _get_pending_request: known and not decided; its expiry is not looked at. *)
Pending(id) == id \in 1..Len(requests) /\ decided[id].status = "PENDING"

(* Mutant of IsExpired: only after the moment of expiry. *)
PastExpiry(id) == clock > requests[id].expires

IsExpired(id) == clock >= requests[id].expires

Decide(id, status) ==
    /\ decided' = [decided EXCEPT ![id] = Decision(status)]
    /\ UNCHANGED <<settings, edits, clock, proc, kill, requests, book, report,
                   confirms>>

Approve(id) == proc.mode = "MANUAL_APPROVE" /\ Pending(id) /\ Decide(id, "APPROVED")
Reject(id) == proc.mode = "MANUAL_APPROVE" /\ Pending(id) /\ Decide(id, "REJECTED")

(* check_decision records an expiry when it is the first to see it. *)
CheckDecision(id) ==
    id \in 1..Len(requests) /\ decided[id].status = "PENDING" /\ IsExpired(id)
        /\ Decide(id, "EXPIRED")

-----------------------------------------------------------------------------
(* The executor: risk, gate, guard and placement. *)

(* Mutant of Objects: the order types are not looked at. *)
ObjectsLess(s, switch, intent, status, verdict) ==
    \/ ~ s.live \/ ~ s.execution \/ ~ s.pilot
    \/ switch
    \/ verdict = "rejected"
    \/ status # "APPROVED"
    \/ intent.symbol \notin s.symbols
    \/ ~ intent.fits
    \/ intent.quantity > s.maxQuantity

(* assert_pilot_order_allowed raises; fits is the exchange and product.    *)
Objects(s, switch, intent, status, verdict) ==
    \/ ~ s.live \/ ~ s.execution \/ ~ s.pilot
    \/ switch
    \/ verdict = "rejected"
    \/ status # "APPROVED"
    \/ intent.symbol \notin s.symbols
    \/ ~ intent.fits
    \/ intent.type \notin s.types
    \/ intent.quantity > s.maxQuantity

Idle == proc.pc = "idle"

(* A program with a gate of its own, in one of the modes. *)
StartProgram(mode) ==
    /\ proc.kind = "none"
    /\ proc' = [NoProc EXCEPT !.kind = "program", !.mode = mode, !.cfg = settings]
    /\ UNCHANGED <<settings, edits, clock, kill, requests, decided, book, report,
                   confirms>>

(* The script: without the three flags it ends at once. *)
StartScript(intent) ==
    /\ proc.kind = "none"
    /\ settings.live /\ settings.execution /\ settings.pilot
    /\ proc' = [NoProc EXCEPT !.kind = "script", !.mode = "AUTO_PAPER", !.cfg = settings,
                              !.intent = intent, !.pc = "prompt"]
    /\ UNCHANGED <<settings, edits, clock, kill, requests, decided, book, report,
                   confirms>>

(* At the phrase the script builds its kill switch from the settings it    *)
(* read at the start; arming it raises (activate() without its reason),    *)
(* which ends the script.  Anything but the phrase ends it, too.           *)
Confirm ==
    /\ proc.pc = "prompt" /\ confirms < MaxConfirms
    /\ confirms' = confirms + 1
    /\ IF proc.cfg.kill THEN Gone
       ELSE /\ proc' = [proc EXCEPT !.pc = "execute", !.risk = "none"]
            /\ Still /\ UNCHANGED kill
    /\ UNCHANGED <<settings, edits, clock, book, report>>
Decline ==
    /\ proc.pc = "prompt" /\ Gone
    /\ UNCHANGED <<settings, edits, clock, book, report, confirms>>

(* execute of a program; "none" is also the verdict of a risk engine that  *)
(* approves, which nothing tells from its absence.                         *)
Ask(intent, verdict) ==
    /\ proc.kind = "program" /\ Idle
    /\ proc' = [proc EXCEPT !.intent = intent, !.pc = "execute", !.risk = verdict, !.result = ""]
    /\ UNCHANGED <<settings, edits, clock, kill, requests, decided, book, report,
                   confirms>>

Switch(on) ==
    /\ proc.kind = "program" /\ kill # on /\ kill' = on
    /\ UNCHANGED <<settings, edits, clock, proc, requests, decided, book, report,
                   confirms>>

(* Mutant of Ended: an order that failed is tried again. *)
Retried(result) == [proc EXCEPT !.pc = IF result = "FAILED" THEN "place" ELSE "idle",
                                !.result = result]

Ended(result) == [proc EXCEPT !.pc = "idle", !.result = result, !.id = 0, !.risk = "",
                              !.logged = ""]

(* Mutant of Cleared: the order is placed before it is written down. *)
ClearedAtOnce == "place"

(* What follows an approval. *)
Cleared == "audit"

(* Risk, then require_approval: AUTO_LIVE raises, AUTO_PAPER approves at   *)
(* once, MANUAL_APPROVE leaves a request that nothing in the executor ever *)
(* comes back to.                                                          *)
Gate ==
    /\ proc.pc = "execute" /\ Len(requests) < MaxRequests
    /\ LET blocked == proc.risk = "rejected" \/ proc.mode = "AUTO_LIVE"
           n == Len(requests) + 1
       IN  \/ /\ blocked
              /\ proc' = Ended("AUTO_REJECTED") /\ Still
           \/ /\ ~ blocked /\ proc.mode = "AUTO_PAPER"
              /\ requests' = Append(requests, Request(proc.intent))
              /\ decided' = Append(decided, Decision("APPROVED"))
              /\ proc' = [proc EXCEPT !.pc = Cleared, !.id = n]
           \/ /\ ~ blocked /\ proc.mode = "MANUAL_APPROVE"
              /\ requests' = Append(requests, Request(proc.intent))
              /\ decided' = Append(decided, Undecided)
              /\ proc' = Ended("PENDING")
    /\ UNCHANGED <<settings, edits, clock, kill, book, report, confirms>>

(* audit_logger is optional: the script's executor has one, that of        *)
(* another program may not.                                                *)
HasLogger(kind) == IF kind = "script" THEN {TRUE} ELSE BOOLEAN

(* With a logger request and decision are appended to the log, and a       *)
(* failure is swallowed; without one nothing is recorded.                  *)
Audit ==
    /\ proc.pc = "audit"
    /\ \E logger \in HasLogger(proc.kind) :
       \E outcome \in IF logger THEN {"written", "failed"} ELSE {"no logger"} :
          proc' = [proc EXCEPT !.pc = "place", !.logged = outcome]
    /\ UNCHANGED <<settings, edits, clock, kill, requests, decided, book, report, confirms>>

(* The caller the gate's documentation asks for: it polls, and hands an    *)
(* approved request to the broker.                                         *)
PlaceApproved(id) ==
    /\ proc.kind = "program" /\ proc.mode = "MANUAL_APPROVE" /\ Idle
    /\ id \in 1..Len(requests) /\ decided[id].status = "APPROVED"
    /\ proc.result # "PLACED"
    /\ proc' = [proc EXCEPT !.intent = requests[id].intent, !.id = id, !.pc = "place",
                            !.risk = "none"]
    /\ UNCHANGED <<settings, edits, clock, kill, requests, decided, book, report,
                   confirms>>

Order == [kind |-> proc.kind, mode |-> proc.mode, intent |-> proc.intent,
          cfg |-> proc.cfg, switch |-> kill, logged |-> proc.logged]
Refused == Objects(proc.cfg, kill, proc.intent, decided[proc.id].status, proc.risk)

OnError == "FAILED"

(* place_order: the guard, then the broker, which may refuse, take the     *)
(* order and answer, or take it while the answer is lost.                  *)
Place ==
    /\ proc.pc = "place" /\ Len(book) < MaxOrders
    /\ \/ /\ Refused
          /\ proc' = Ended(OnError) /\ UNCHANGED book
       \/ /\ ~ Refused
          /\ proc' = Ended(OnError) /\ UNCHANGED book
       \/ /\ ~ Refused
          /\ book' = Append(book, Order) /\ proc' = Ended("PLACED")
       \/ /\ ~ Refused
          /\ book' = Append(book, Order) /\ proc' = Ended(OnError)
    /\ UNCHANGED <<settings, edits, clock, kill, requests, decided, report, confirms>>

(* The script ends after one order; any process may die at any time. *)
Exit ==
    /\ proc.kind # "none" /\ Gone
    /\ UNCHANGED <<settings, edits, clock, book, report, confirms>>

(* A preview asks the risk engine and the gate, never the broker; with the *)
(* gate of a program it leaves a request behind.                           *)
Preview(intent) ==
    /\ proc.kind = "program" /\ Idle /\ Len(requests) < MaxRequests
    /\ proc.mode \in {"AUTO_PAPER", "MANUAL_APPROVE"}
    /\ requests' = Append(requests, Request(intent))
    /\ decided' = Append(decided, IF proc.mode = "AUTO_PAPER" THEN Decision("APPROVED")
                                  ELSE Undecided)
    /\ UNCHANGED <<settings, edits, clock, proc, kill, book, report, confirms>>

-----------------------------------------------------------------------------
(* Verification of an order, a process of its own: polls of the order      *)
(* list, which may fail or not show the order yet, until it is found or    *)
(* none is left.                                                           *)

StartVerify ==
    /\ proc.kind = "none" /\ book # <<>>
    /\ proc' = [NoProc EXCEPT !.kind = "verify", !.pc = "poll", !.attempt = 1]
    /\ UNCHANGED <<settings, edits, clock, kill, requests, decided, book, report,
                   confirms>>

Polled(seen) == IF seen \/ proc.attempt = Retries THEN NoProc
                ELSE [proc EXCEPT !.attempt = @ + 1]

Poll ==
    /\ proc.pc = "poll"
    /\ \E seen \in BOOLEAN : proc' = Polled(seen)
    /\ UNCHANGED <<settings, edits, clock, kill, requests, decided, book, report,
                   confirms>>

Decides == \E id \in 1..MaxRequests : CheckDecision(id)

Next ==
    \/ \E s \in Settings : Edit(s)
    \/ Tick
    \/ \E r \in BOOLEAN : Preflight(r)
    \/ \E id \in 1..MaxRequests : Approve(id) \/ Reject(id) \/ PlaceApproved(id)
    \/ Decides
    \/ \E mode \in GateModes : StartProgram(mode)
    \/ \E intent \in Intents :
          \/ StartScript(intent) \/ Preview(intent)
          \/ \E verdict \in {"none", "rejected"} : Ask(intent, verdict)
    \/ Confirm \/ Decline \/ Gate \/ Audit \/ Place \/ Exit
    \/ \E on \in BOOLEAN : Switch(on)
    \/ StartVerify \/ Poll

(* The clock runs, the caller polls, as the gate's documentation asks, and *)
(* a verification is a loop that nothing interrupts.                       *)
Spec == Init /\ [][Next]_vars /\ WF_vars(Tick) /\ WF_vars(Decides) /\ WF_vars(Poll)

-----------------------------------------------------------------------------
(* Properties. *)

(* Every variable stays within its type; a decision exists for each        *)
(* request.                                                                *)
TypeOK ==
    /\ settings \in Settings /\ edits \in 0..MaxEdits /\ clock \in 0..MaxClock
    /\ proc.pc \in {"idle", "prompt", "execute", "audit", "place", "poll"}
    /\ proc.result \in {"", "PENDING", "AUTO_REJECTED", "FAILED", "PLACED"}
    /\ kill \in BOOLEAN
    /\ Len(requests) <= MaxRequests /\ Len(decided) = Len(requests)
    /\ \A id \in 1..Len(decided) :
          decided[id].status \in {"PENDING", "APPROVED", "REJECTED", "EXPIRED"}
    /\ Len(book) <= MaxOrders
    /\ confirms \in 0..MaxConfirms
    /\ proc.attempt \in 0..Retries

(* Whatever the operator edits in between, an order at the broker keeps    *)
(* the limits its process was started with, no switch was on when it went  *)
(* out, and the script never orders under GLOBAL_KILL_SWITCH: the guard    *)
(* and the script's start, prompt and switch taken together.               *)
OrdersAuthorised ==
    \A i \in 1..Len(book) :
        LET o == book[i] IN
        /\ o.cfg.live /\ o.cfg.execution /\ o.cfg.pilot /\ ~ o.switch
        /\ o.intent.symbol \in o.cfg.symbols /\ o.intent.type \in o.cfg.types
        /\ o.intent.fits /\ o.intent.quantity <= o.cfg.maxQuantity
        /\ o.kind = "script" => ~ o.cfg.kill

(* A preflight that passes is worth something: with the settings it looked *)
(* at the guard lets some approved order through.  Preflight and guard     *)
(* check the settings in separate code.                                    *)
PreflightEnough ==
    report.passed =>
        \E symbol \in report.cfg.symbols, type \in report.cfg.types :
            ~ Objects(report.cfg, FALSE,
                      [symbol |-> symbol, type |-> type, quantity |-> 1, fits |-> TRUE],
                      "APPROVED", "none")

(* One phrase, one order: the script's orders never outnumber the phrases  *)
(* that were typed, although a failed or lost answer leaves it unknown     *)
(* whether the order exists.                                               *)
OneOrderPerPhrase ==
    Cardinality({i \in 1..Len(book) : book[i].kind = "script"}) <= confirms

Recorded(o) ==
    /\ o.kind = "script" => o.logged \in {"written", "failed"}
    /\ o.mode = "AUTO_PAPER" => o.logged \in {"written", "failed", "no logger"}

(* No order of the script goes out before its approval was written to the  *)
(* audit log, or writing it was tried: a crash leaves a record without an  *)
(* order.  Of other orders the executor places, nobody has tried to record *)
(* only those of an executor without a logger.                             *)
AuditComplete == \A i \in 1..Len(book) : Recorded(book[i])

(* A process that reports success has an order at the broker; the reverse  *)
(* does not hold, as a lost answer is reported as a failure.               *)
SuccessIsOrder ==
    proc.result = "PLACED" =>
        \E i \in 1..Len(book) : book[i].intent = proc.intent /\ book[i].cfg = proc.cfg

(* Log, result and the broker's book tell the same story of an order.      *)
RecordsAgree == TypeOK /\ AuditComplete /\ SuccessIsOrder

(* A decision is final: an approval, a rejection and an expiry that race   *)
(* for a request leave the first of them.                                  *)
DecisionsFinal ==
    [][proc'.kind = proc.kind =>
         \A id \in 1..Len(decided) :
            decided[id].status # "PENDING" => decided'[id] = decided[id]]_vars

(* A request that can expire while the clock runs is decided in the end,   *)
(* by the operator or by a poll, unless its process goes away; and a       *)
(* verification ends, found or not, however the order list answers.        *)
RequestsSettle ==
    /\ \A id \in 1..MaxRequests :
          (id <= Len(requests) /\ requests[id].expires <= MaxClock)
              ~> (id > Len(requests) \/ decided[id].status # "PENDING")
    /\ (proc.pc = "poll") ~> (proc.pc # "poll")
=============================================================================
