---------------------------- MODULE LivePilotProofs ----------------------------
(***************************************************************************)
(* What holds of live orders for every content of the settings, every set  *)
(* of orders, and any number of processes, requests and phrases.           *)
(***************************************************************************)
EXTENDS LivePilot, FiniteSetTheorems, TLAPS

Modes == GateModes \cup {"", "AUTO_PAPER"}
Statuses == {"PENDING", "APPROVED", "REJECTED", "EXPIRED"}
Results == {"", "PENDING", "AUTO_REJECTED", "FAILED", "PLACED"}
Procs ==
    [kind : {"none", "program", "script", "verify"}, mode : Modes,
     pc : {"idle", "prompt", "execute", "audit", "place", "poll"},
     cfg : Settings \cup {Nothing}, intent : Intents \cup {Nothing}, id : Nat,
     risk : {"", "none", "rejected"}, result : Results, attempt : 0..Retries,
     logged : {"", "written", "failed", "no logger"}]
Orders ==
    [kind : {"none", "program", "script", "verify"}, mode : Modes,
     intent : Intents \cup {Nothing}, cfg : Settings \cup {Nothing}, switch : BOOLEAN,
     logged : {"", "written", "failed", "no logger"}]

TypeInv ==
    /\ settings \in Settings /\ edits \in 0..MaxEdits /\ clock \in 0..MaxClock
    /\ proc \in Procs /\ kill \in BOOLEAN
    /\ requests \in Seq([intent : Intents, expires : Int])
    /\ decided \in Seq([status : Statuses, at : Int])
    /\ Len(requests) <= MaxRequests /\ Len(decided) = Len(requests)
    /\ book \in Seq(Orders) /\ Len(book) <= MaxOrders
    /\ confirms \in 0..MaxConfirms

(* A phrase was typed for the order that is on its way. *)
Underway == proc.kind = "script" /\ proc.pc \in {"execute", "audit", "place"}
ScriptOrders == {i \in 1..Len(book) : book[i].kind = "script"}

(* A process that orders has its settings and its order.  *)
Equipped ==
    /\ proc.kind \in {"program", "script"} => proc.cfg \in Settings
    /\ proc.pc \notin {"idle", "poll"} =>
          proc.kind \in {"program", "script"} /\ proc.intent \in Intents

(* The script stops at its switch before it executes, and the executor     *)
(* writes before it places.                                                *)
StageInv ==
    /\ Equipped
    /\ proc.pc = "prompt" => proc.kind = "script"
    /\ Underway => ~ proc.cfg.kill
    /\ proc.pc = "place" => Recorded(proc)
    /\ Cardinality(ScriptOrders) + (IF Underway THEN 1 ELSE 0) <= confirms

BookInv == OrdersAuthorised /\ AuditComplete /\ SuccessIsOrder

ReportInv ==
    report.passed => report.cfg \in Settings /\ \E r \in BOOLEAN : PreflightPasses(report.cfg, r)

IInv == TypeInv /\ StageInv /\ BookInv /\ ReportInv
-----------------------------------------------------------------------------
LEMMA NoProcFacts ==
    /\ NoProc \in Procs /\ NoProc.kind = "none" /\ NoProc.pc = "idle" /\ NoProc.result = ""
BY GateAssumption DEF NoProc, Procs, Modes, Results

(* The script's orders in a book with one more. *)
LEMMA CountAppend ==
    ASSUME book \in Seq(Orders), NEW o \in Orders, book' = Append(book, o)
    PROVE  /\ IsFiniteSet(ScriptOrders) /\ Cardinality(ScriptOrders) \in Nat
           /\ Cardinality(ScriptOrders') = Cardinality(ScriptOrders)
                                           + (IF o.kind = "script" THEN 1 ELSE 0)
<1> DEFINE n == Len(book)
<1>1. n \in Nat /\ Len(book') = n + 1 /\ book'[n + 1] = o /\ \A i \in 1..n : book'[i] = book[i]
  OBVIOUS
<1>2. IsFiniteSet(1..n)  BY <1>1, FS_Interval
<1>3. ScriptOrders \subseteq 1..n  BY DEF ScriptOrders
<1>4. IsFiniteSet(ScriptOrders) /\ Cardinality(ScriptOrders) \in Nat
  BY <1>2, <1>3, FS_Subset, FS_CardinalityType
<1>5. CASE o.kind = "script"
  <2>1. ScriptOrders' = ScriptOrders \cup {n + 1}  BY <1>1, <1>5 DEF ScriptOrders
  <2>2. n + 1 \notin ScriptOrders  BY <1>1, <1>3
  <2> QED  BY <1>4, <1>5, <2>1, <2>2, FS_AddElement
<1>6. CASE o.kind # "script"
  <2>1. ScriptOrders' = ScriptOrders  BY <1>1, <1>6 DEF ScriptOrders
  <2> QED  BY <1>4, <1>6, <2>1
<1> QED  BY <1>4, <1>5, <1>6

LEMMA CountType ==
    ASSUME book \in Seq(Orders) PROVE Cardinality(ScriptOrders) \in Nat
<1>1. Len(book) \in Nat  OBVIOUS
<1>2. IsFiniteSet(1..Len(book))  BY <1>1, FS_Interval
<1>3. ScriptOrders \subseteq 1..Len(book)  BY DEF ScriptOrders
<1> QED  BY <1>2, <1>3, FS_Subset, FS_CardinalityType

LEMMA InitHolds == ASSUME Init PROVE IInv
<1>1. /\ settings \in Settings /\ edits = 0 /\ clock = 0 /\ proc = NoProc /\ kill = FALSE
      /\ requests = <<>> /\ decided = <<>> /\ book = <<>> /\ report = NoReport /\ confirms = 0
  BY DEF Init
<1>2. Len(book) = 0 /\ 1..Len(book) = {} /\ Len(requests) = 0 /\ Len(decided) = 0  BY <1>1
<1>3. TypeInv
  <2>1. proc \in Procs  BY <1>1, NoProcFacts
  <2>2. /\ requests \in Seq([intent : Intents, expires : Int])
        /\ decided \in Seq([status : Statuses, at : Int])
        /\ book \in Seq(Orders)
    BY <1>1
  <2>3. settings \in Settings /\ kill \in BOOLEAN  BY <1>1
  <2>4. edits \in 0..MaxEdits /\ clock \in 0..MaxClock /\ confirms \in 0..MaxConfirms
        /\ Len(requests) <= MaxRequests /\ Len(book) <= MaxOrders
        /\ Len(decided) = Len(requests)
    BY <1>1, <1>2, GateAssumption
  <2> QED  BY <2>1, <2>2, <2>3, <2>4 DEF TypeInv
<1>4. StageInv
  <2>1. ScriptOrders = {}  BY <1>2 DEF ScriptOrders
  <2>2. Cardinality(ScriptOrders) = 0  BY <2>1, FS_EmptySet
  <2>3. proc.kind = "none" /\ proc.pc = "idle"  BY <1>1, NoProcFacts
  <2> QED  BY <1>1, <2>2, <2>3 DEF StageInv, Underway, Equipped
<1>5. BookInv
  <2>1. proc.result = ""  BY <1>1, NoProcFacts
  <2>2. OrdersAuthorised /\ AuditComplete  BY <1>2, Zenon DEF OrdersAuthorised, AuditComplete
  <2> QED  BY <2>1, <2>2 DEF BookInv, SuccessIsOrder
<1>6. ReportInv  BY <1>1 DEF ReportInv, NoReport
<1> QED  BY <1>3, <1>4, <1>5, <1>6 DEF IInv

(* Steps that leave process, book and phrases alone. *)
LEMMA Quiet ==
    ASSUME StageInv, BookInv, proc' = proc, book' = book, confirms' = confirms
    PROVE  StageInv' /\ BookInv'
BY DEF StageInv, Equipped, Underway, ScriptOrders, BookInv, OrdersAuthorised, AuditComplete,
       SuccessIsOrder

(* Steps that change the process, not the book, and start no order without *)
(* a phrase.                                                               *)
LEMMA NewStage ==
    ASSUME TypeInv, StageInv, BookInv, book' = book, confirms' = confirms,
           proc' \in Procs, Underway' => Underway,
           proc'.pc = "prompt" => proc'.kind = "script", Equipped',
           Underway' => ~ proc'.cfg.kill,
           proc'.pc = "place" => Recorded(proc'),
           proc'.result = "PLACED" =>
              proc.result = "PLACED" /\ proc'.intent = proc.intent /\ proc'.cfg = proc.cfg
    PROVE  StageInv' /\ BookInv'
<1>1. ScriptOrders' = ScriptOrders  BY DEF ScriptOrders
<1>2. StageInv'
  <2>1. Cardinality(ScriptOrders) \in Nat  BY CountType DEF TypeInv
  <2>2. Cardinality(ScriptOrders') + (IF Underway' THEN 1 ELSE 0) <= confirms'
    <3> DEFINE c == Cardinality(ScriptOrders)
    <3>1. c \in Nat /\ Cardinality(ScriptOrders') = c /\ confirms \in Int  BY <1>1, <2>1 DEF TypeInv
    <3>2. c + (IF Underway THEN 1 ELSE 0) <= confirms  BY DEF StageInv
    <3> HIDE DEF c
    <3>3. c + (IF Underway' THEN 1 ELSE 0) <= confirms
      <4>1. CASE Underway  BY <3>1, <3>2, <4>1
      <4>2. CASE ~ Underway  BY <3>1, <3>2, <4>2
      <4> QED  BY <4>1, <4>2
    <3> QED  BY <3>1, <3>3
  <2> QED  BY <2>2 DEF StageInv
<1>3. BookInv'
  BY DEF BookInv, OrdersAuthorised, AuditComplete, SuccessIsOrder
<1> QED  BY <1>2, <1>3

LEMMA EndedFacts ==
    ASSUME proc \in Procs, NEW result \in Results
    PROVE  /\ Ended(result) \in Procs /\ Ended(result).pc = "idle"
           /\ Ended(result).result = result /\ Ended(result).kind = proc.kind
           /\ Ended(result).mode = proc.mode /\ Ended(result).cfg = proc.cfg
           /\ Ended(result).intent = proc.intent
<1>1. 0 \in Nat /\ "" \in {"", "none", "rejected"} /\ "" \in {"", "written", "failed", "no logger"}  OBVIOUS
<1> QED  BY <1>1 DEF Ended, Procs

LEMMA GoneKeeps ==
    ASSUME IInv, Gone, settings' = settings, edits' = edits, clock' = clock, book' = book,
           report' = report, confirms' \in 0..MaxConfirms, confirms' >= confirms
    PROVE  IInv'
<1>1. proc' = NoProc /\ kill' = FALSE /\ requests' = <<>> /\ decided' = <<>>  BY DEF Gone
<1>2. TypeInv'
  <2>1. /\ requests' \in Seq([intent : Intents, expires : Int])
        /\ decided' \in Seq([status : Statuses, at : Int])
        /\ Len(requests') = 0 /\ Len(decided') = 0
    BY <1>1
  <2>2. proc' \in Procs /\ kill' \in BOOLEAN  BY <1>1, NoProcFacts
  <2>3. Len(requests') <= MaxRequests /\ Len(decided') = Len(requests')
    BY <2>1, GateAssumption
  <2> QED  BY <2>1, <2>2, <2>3 DEF TypeInv, IInv
<1>3. StageInv'
  <2>1. ~ Underway' /\ proc'.pc = "idle"  BY <1>1, NoProcFacts DEF Underway
  <2>2. ScriptOrders' = ScriptOrders  BY DEF ScriptOrders
  <2>3. Cardinality(ScriptOrders) \in Nat  BY CountType DEF IInv, TypeInv
  <2>4. Cardinality(ScriptOrders) <= confirms
    <3> DEFINE c == Cardinality(ScriptOrders)
    <3>1. c \in Nat /\ confirms \in Int  BY <2>3 DEF IInv, TypeInv
    <3>2. c + (IF Underway THEN 1 ELSE 0) <= confirms  BY DEF IInv, StageInv
    <3> HIDE DEF c
    <3>3. CASE Underway  BY <3>1, <3>2, <3>3 DEF c
    <3>4. CASE ~ Underway  BY <3>1, <3>2, <3>4 DEF c
    <3> QED  BY <3>3, <3>4
  <2>5. Cardinality(ScriptOrders') + 0 <= confirms'
    BY <2>2, <2>3, <2>4 DEF IInv, TypeInv
  <2>6. Equipped'  BY <1>1, NoProcFacts DEF Equipped
  <2> QED  BY <2>1, <2>5, <2>6 DEF StageInv
<1>4. BookInv'
  BY <1>1, NoProcFacts DEF IInv, BookInv, OrdersAuthorised, AuditComplete, SuccessIsOrder
<1> QED  BY <1>2, <1>3, <1>4 DEF IInv, ReportInv
-----------------------------------------------------------------------------
(* The operator's side. *)

LEMMA EditKeeps == ASSUME IInv, NEW s \in Settings, Edit(s) PROVE IInv'
<1>1. TypeInv'  BY GateAssumption DEF IInv, TypeInv, Edit
<1> QED  BY <1>1, Quiet DEF IInv, Edit, ReportInv

LEMMA TickKeeps == ASSUME IInv, Tick PROVE IInv'
<1>1. TypeInv'  BY GateAssumption DEF IInv, TypeInv, Tick
<1> QED  BY <1>1, Quiet DEF IInv, Tick, ReportInv

LEMMA PreflightKeeps == ASSUME IInv, NEW r \in BOOLEAN, Preflight(r) PROVE IInv'
<1>1. TypeInv'  BY DEF IInv, TypeInv, Preflight
<1>2. ReportInv'
  <2>1. CASE PreflightPasses(settings, r)
    <3>1. report' = [passed |-> TRUE, cfg |-> settings]  BY <2>1 DEF Preflight
    <3>2. report'.cfg = settings  BY <3>1
    <3> QED  BY <2>1, <3>2 DEF IInv, TypeInv, ReportInv
  <2>2. CASE ~ PreflightPasses(settings, r)
    <3>1. report' = NoReport  BY <2>2 DEF Preflight
    <3> QED  BY <3>1 DEF NoReport, ReportInv
  <2> QED  BY <2>1, <2>2
<1> QED  BY <1>1, <1>2, Quiet DEF IInv, Preflight

LEMMA DecideKeeps ==
    ASSUME IInv, NEW id \in 1..Len(requests), NEW status \in Statuses, Decide(id, status)
    PROVE  IInv'
<1>1. TypeInv'
  <2>1. [status |-> status, at |-> clock] \in [status : Statuses, at : Int]
    BY GateAssumption DEF IInv, TypeInv
  <2>2. decided' = [decided EXCEPT ![id] = [status |-> status, at |-> clock]]
    BY DEF Decide, Decision
  <2>3. decided' \in Seq([status : Statuses, at : Int]) /\ Len(decided') = Len(decided)
    BY <2>1, <2>2 DEF IInv, TypeInv
  <2> QED  BY <2>3 DEF IInv, TypeInv, Decide
<1> QED  BY <1>1, Quiet DEF IInv, Decide, ReportInv

LEMMA SwitchKeeps == ASSUME IInv, NEW on \in BOOLEAN, Switch(on) PROVE IInv'
<1>1. TypeInv'  BY DEF IInv, TypeInv, Switch
<1> QED  BY <1>1, Quiet DEF IInv, Switch, ReportInv

(* A request with its decision. *)
LEMMA Requested ==
    ASSUME TypeInv, NEW intent \in Intents, NEW status \in Statuses, NEW at \in Int,
           Len(requests) < MaxRequests,
           requests' = Append(requests, Request(intent)),
           decided' = Append(decided, [status |-> status, at |-> at])
    PROVE  /\ requests' \in Seq([intent : Intents, expires : Int])
           /\ decided' \in Seq([status : Statuses, at : Int])
           /\ Len(requests') <= MaxRequests /\ Len(decided') = Len(requests')
<1>1. [status |-> status, at |-> at] \in [status : Statuses, at : Int]  OBVIOUS
<1>2. Request(intent) \in [intent : Intents, expires : Int]
  BY GateAssumption DEF TypeInv, Request
<1> QED  BY <1>1, <1>2, GateAssumption DEF TypeInv

LEMMA DecisionFacts ==
    ASSUME TypeInv
    PROVE  /\ Decision("APPROVED") = [status |-> "APPROVED", at |-> clock]
           /\ Undecided = [status |-> "PENDING", at |-> 0]
           /\ clock \in Int /\ 0 \in Int
           /\ "APPROVED" \in Statuses /\ "PENDING" \in Statuses
BY GateAssumption DEF TypeInv, Decision, Undecided, Statuses

LEMMA PreviewKeeps == ASSUME IInv, NEW intent \in Intents, Preview(intent) PROVE IInv'
<1>1. /\ requests' \in Seq([intent : Intents, expires : Int])
      /\ decided' \in Seq([status : Statuses, at : Int])
      /\ Len(requests') <= MaxRequests /\ Len(decided') = Len(requests')
  <2>1. CASE proc.mode = "AUTO_PAPER"
    BY <2>1, Requested, DecisionFacts DEF IInv, Preview
  <2>2. CASE proc.mode # "AUTO_PAPER"
    BY <2>2, Requested, DecisionFacts DEF IInv, Preview
  <2> QED  BY <2>1, <2>2
<1>2. TypeInv'  BY <1>1 DEF IInv, TypeInv, Preview
<1> QED  BY <1>2, Quiet DEF IInv, Preview, ReportInv
-----------------------------------------------------------------------------
(* The processes. *)

LEMMA StartProgramKeeps == ASSUME IInv, NEW m \in GateModes, StartProgram(m) PROVE IInv'
<1>1. /\ proc' \in Procs /\ proc'.kind = "program" /\ proc'.pc = "idle" /\ proc'.result = ""
      /\ proc'.cfg \in Settings
  BY NoProcFacts DEF StartProgram, IInv, TypeInv, Procs, Modes
<1>2. TypeInv'  BY <1>1 DEF IInv, TypeInv, StartProgram
<1>3. StageInv' /\ BookInv'  BY <1>1, NewStage DEF IInv, StartProgram, Underway, Equipped
<1> QED  BY <1>2, <1>3 DEF IInv, StartProgram, ReportInv

LEMMA StartScriptKeeps == ASSUME IInv, NEW i \in Intents, StartScript(i) PROVE IInv'
<1>1. /\ proc' \in Procs /\ proc'.kind = "script" /\ proc'.pc = "prompt" /\ proc'.result = ""
      /\ proc'.cfg \in Settings /\ proc'.intent \in Intents
  BY NoProcFacts DEF StartScript, IInv, TypeInv, Procs, Modes
<1>2. TypeInv'  BY <1>1 DEF IInv, TypeInv, StartScript
<1>3. StageInv' /\ BookInv'  BY <1>1, NewStage DEF IInv, StartScript, Underway, Equipped
<1> QED  BY <1>2, <1>3 DEF IInv, StartScript, ReportInv

LEMMA ConfirmKeeps == ASSUME IInv, Confirm PROVE IInv'
<1>1. confirms' \in 0..MaxConfirms /\ confirms' = confirms + 1 /\ confirms \in Nat
  BY GateAssumption DEF Confirm, IInv, TypeInv
<1>2. CASE proc.cfg.kill
  <2>1. Gone /\ confirms' >= confirms  BY <1>1, <1>2 DEF Confirm
  <2> QED  BY <1>1, <2>1, GoneKeeps DEF Confirm
<1>3. CASE ~ proc.cfg.kill
  <2>1. /\ proc' = [proc EXCEPT !.pc = "execute", !.risk = "none"]
        /\ requests' = requests /\ decided' = decided /\ kill' = kill
        /\ proc.pc = "prompt"
    BY <1>3 DEF Confirm, Still
  <2>2. /\ proc' \in Procs /\ proc'.pc = "execute" /\ proc'.kind = proc.kind
        /\ proc'.cfg = proc.cfg /\ proc'.result = proc.result /\ proc'.intent = proc.intent
    BY <2>1 DEF IInv, TypeInv, Procs
  <2>3. TypeInv'  BY <1>1, <2>1, <2>2 DEF IInv, TypeInv, Confirm
  <2>4. StageInv'
    <3>1. ScriptOrders' = ScriptOrders  BY DEF ScriptOrders, Confirm
    <3> DEFINE c == Cardinality(ScriptOrders)
    <3>2. c \in Nat  BY CountType DEF IInv, TypeInv
    <3>3. ~ Underway  BY <2>1 DEF Underway
    <3>4. c + 0 <= confirms  BY <3>3 DEF IInv, StageInv
    <3> HIDE DEF c
    <3>5. c + (IF Underway' THEN 1 ELSE 0) <= confirms'  BY <1>1, <3>2, <3>4
    <3>6. Cardinality(ScriptOrders') = c  BY <3>1 DEF c
    <3>7. Underway' => ~ proc'.cfg.kill  BY <1>3, <2>2
    <3>8. Cardinality(ScriptOrders') + (IF Underway' THEN 1 ELSE 0) <= confirms'
      BY <3>5, <3>6
    <3>9. Equipped'  BY <2>1, <2>2 DEF IInv, StageInv, Equipped
    <3> QED  BY <2>2, <3>7, <3>8, <3>9 DEF StageInv
  <2>5. BookInv'
    BY <2>2 DEF IInv, BookInv, OrdersAuthorised, AuditComplete, SuccessIsOrder, Confirm
  <2> QED  BY <2>3, <2>4, <2>5 DEF IInv, ReportInv, Confirm
<1> QED  BY <1>2, <1>3

LEMMA DeclineKeeps == ASSUME IInv, Decline PROVE IInv'
<1>1. confirms' = confirms /\ confirms \in 0..MaxConfirms  BY DEF Decline, IInv, TypeInv
<1>2. confirms' >= confirms  BY <1>1, GateAssumption
<1> QED  BY <1>1, <1>2, GoneKeeps DEF Decline

LEMMA ExitKeeps == ASSUME IInv, Exit PROVE IInv'
<1>1. confirms' = confirms /\ confirms \in 0..MaxConfirms  BY DEF Exit, IInv, TypeInv
<1>2. confirms' >= confirms  BY <1>1, GateAssumption
<1> QED  BY <1>1, <1>2, GoneKeeps DEF Exit

LEMMA AskKeeps ==
    ASSUME IInv, NEW i \in Intents, NEW v \in {"none", "rejected"}, Ask(i, v) PROVE IInv'
<1>1. /\ proc' \in Procs /\ proc'.kind = "program" /\ proc'.pc = "execute" /\ proc'.result = ""
      /\ proc'.cfg = proc.cfg /\ proc'.intent \in Intents /\ proc.kind = "program"
  BY DEF Ask, IInv, TypeInv, Procs, Results
<1>2. TypeInv'  BY <1>1 DEF IInv, TypeInv, Ask
<1>3. StageInv' /\ BookInv'
  BY <1>1, NewStage DEF IInv, Ask, Underway, Equipped, StageInv
<1> QED  BY <1>2, <1>3 DEF IInv, Ask, ReportInv

LEMMA GateKeeps == ASSUME IInv, Gate PROVE IInv'
<1>1. proc \in Procs /\ proc.pc = "execute" /\ proc.intent \in Intents
  BY DEF Gate, IInv, TypeInv, StageInv, Equipped
<1>2. /\ proc' \in Procs /\ proc'.kind = proc.kind /\ proc'.cfg = proc.cfg
      /\ proc'.pc \in {"idle", "audit"} /\ proc'.intent = proc.intent
      /\ proc'.result \in {"AUTO_REJECTED", "PENDING", proc.result}
      /\ requests' \in Seq([intent : Intents, expires : Int])
      /\ decided' \in Seq([status : Statuses, at : Int])
      /\ Len(requests') <= MaxRequests /\ Len(decided') = Len(requests')
  <2>1. CASE proc' = Ended("AUTO_REJECTED") /\ Still
    <3>1. "AUTO_REJECTED" \in Results  BY DEF Results
    <3> QED  BY <1>1, <2>1, <3>1, EndedFacts DEF Still, IInv, TypeInv
  <2>2. CASE /\ requests' = Append(requests, Request(proc.intent))
             /\ decided' = Append(decided, Decision("APPROVED"))
             /\ proc' = [proc EXCEPT !.pc = Cleared, !.id = Len(requests) + 1]
    <3>1. Len(requests) + 1 \in Nat  BY DEF IInv, TypeInv
    <3>2. /\ proc' \in Procs /\ proc'.kind = proc.kind /\ proc'.cfg = proc.cfg
          /\ proc'.pc = "audit" /\ proc'.intent = proc.intent /\ proc'.result = proc.result
      BY <1>1, <2>2, <3>1 DEF Procs, Cleared
    <3> QED  BY <1>1, <2>2, <3>2, Requested, DecisionFacts DEF IInv, Gate
  <2>3. CASE /\ requests' = Append(requests, Request(proc.intent))
             /\ decided' = Append(decided, Undecided)
             /\ proc' = Ended("PENDING")
    <3>1. "PENDING" \in Results  BY DEF Results
    <3> QED  BY <1>1, <2>3, <3>1, EndedFacts, Requested, DecisionFacts DEF IInv, Gate
  <2> QED  BY <2>1, <2>2, <2>3 DEF Gate
<1>3. TypeInv'  BY <1>2 DEF IInv, TypeInv, Gate
<1>4. StageInv' /\ BookInv'
  <2>1. Underway' => Underway /\ ~ proc'.cfg.kill  BY <1>1, <1>2 DEF Underway, IInv, StageInv
  <2>2. Equipped'  BY <1>1, <1>2 DEF IInv, StageInv, Equipped
  <2> QED  BY <1>2, <2>1, <2>2, NewStage DEF IInv, Gate
<1> QED  BY <1>3, <1>4 DEF IInv, ReportInv, Gate

LEMMA AuditKeeps == ASSUME IInv, Audit PROVE IInv'
<1>1. PICK outcome \in {"written", "failed", "no logger"} :
         /\ proc' = [proc EXCEPT !.pc = "place", !.logged = outcome]
         /\ proc.kind = "script" => outcome # "no logger"
  BY DEF Audit, HasLogger
<1>2. /\ proc' \in Procs /\ proc'.kind = proc.kind /\ proc'.cfg = proc.cfg /\ proc'.pc = "place"
      /\ proc'.result = proc.result /\ proc'.intent = proc.intent
      /\ Recorded(proc')
  BY <1>1 DEF IInv, TypeInv, Procs, Recorded
<1>3. TypeInv'  BY <1>2 DEF IInv, TypeInv, Audit
<1>4. Underway' => Underway /\ ~ proc'.cfg.kill
  BY <1>2 DEF Underway, IInv, StageInv, Audit
<1>5. Equipped'  BY <1>2 DEF IInv, StageInv, Equipped, Audit
<1>6. StageInv' /\ BookInv'  BY <1>2, <1>4, <1>5, NewStage DEF IInv, Audit
<1> QED  BY <1>3, <1>6 DEF IInv, ReportInv, Audit

LEMMA PlaceApprovedKeeps == ASSUME IInv, NEW id \in Nat, PlaceApproved(id) PROVE IInv'
<1>1. /\ proc \in Procs /\ proc.kind = "program" /\ proc.mode = "MANUAL_APPROVE"
      /\ proc.result # "PLACED" /\ requests[id].intent \in Intents
      /\ proc' = [proc EXCEPT !.intent = requests[id].intent, !.id = id, !.pc = "place",
                              !.risk = "none"]
  <2> DEFINE R == [intent : Intents, expires : Int]
  <2>1. requests \in Seq(R) /\ id \in 1..Len(requests)  BY DEF PlaceApproved, IInv, TypeInv
  <2>2. requests[id] \in R
    <3> HIDE DEF R
    <3> QED  BY <2>1
  <2> QED  BY <2>2 DEF PlaceApproved, IInv, TypeInv
<1>2. /\ proc' \in Procs /\ proc'.kind = "program" /\ proc'.pc = "place"
      /\ proc'.mode = "MANUAL_APPROVE" /\ proc'.result = proc.result
      /\ proc'.cfg = proc.cfg /\ proc'.intent \in Intents
  BY <1>1 DEF Procs
<1>3. TypeInv'  BY <1>2 DEF IInv, TypeInv, PlaceApproved
<1>4. Equipped'  BY <1>1, <1>2 DEF IInv, StageInv, Equipped
<1>5. Recorded(proc')  BY <1>2 DEF Recorded
<1>6. StageInv' /\ BookInv'  BY <1>1, <1>2, <1>4, <1>5, NewStage DEF IInv, PlaceApproved, Underway
<1> QED  BY <1>3, <1>6 DEF IInv, ReportInv, PlaceApproved

(* What the guard let through. *)
LEMMA GuardFacts ==
    ASSUME ~ Refused
    PROVE  /\ proc.cfg.live /\ proc.cfg.execution /\ proc.cfg.pilot /\ ~ kill
           /\ proc.intent.symbol \in proc.cfg.symbols /\ proc.intent.type \in proc.cfg.types
           /\ proc.intent.fits /\ ~ (proc.intent.quantity > proc.cfg.maxQuantity)
BY DEF Refused, Objects

LEMMA PlaceKeeps == ASSUME IInv, Place PROVE IInv'
<1> DEFINE n == Len(book)
<1>1. proc \in Procs /\ proc.pc = "place" /\ n \in Nat /\ n < MaxOrders
      /\ "FAILED" \in Results /\ "PLACED" \in Results
  BY DEF IInv, TypeInv, Place, Results
<1>2. \E result \in {"FAILED", "PLACED"} :
         /\ proc' = Ended(result)
         /\ \/ book' = book /\ result = "FAILED"
            \/ ~ Refused /\ book' = Append(book, Order)
  BY DEF Place, OnError
<1>3. PICK result \in {"FAILED", "PLACED"} :
         /\ proc' = Ended(result)
         /\ \/ book' = book /\ result = "FAILED"
            \/ ~ Refused /\ book' = Append(book, Order)
  BY <1>2
<1>4. /\ proc' \in Procs /\ proc'.pc = "idle" /\ proc'.result = result /\ proc'.kind = proc.kind
      /\ proc'.mode = proc.mode /\ proc'.cfg = proc.cfg /\ proc'.intent = proc.intent
  BY <1>1, <1>3, EndedFacts
<1>5. CASE book' = book /\ result = "FAILED"
  <2>1. TypeInv'  BY <1>4, <1>5 DEF IInv, TypeInv, Place
  <2>2. StageInv' /\ BookInv'
    <3>1. Equipped'  BY <1>4 DEF IInv, StageInv, Equipped
    <3> QED  BY <1>4, <1>5, <3>1, NewStage DEF IInv, Place, Underway
  <2> QED  BY <2>1, <2>2 DEF IInv, ReportInv, Place
<1>6. CASE ~ Refused /\ book' = Append(book, Order)
  <2>1. /\ Order \in Orders /\ Order.kind = proc.kind /\ Order.mode = proc.mode
        /\ Order.cfg = proc.cfg /\ Order.intent = proc.intent /\ Order.switch = kill
        /\ Order.logged = proc.logged
    <3>1. kill \in BOOLEAN  BY DEF IInv, TypeInv
    <3> QED  BY <1>1, <3>1 DEF Order, Orders, Procs
  <2>2. /\ book' \in Seq(Orders) /\ Len(book') = n + 1 /\ book'[n + 1] = Order
        /\ \A i \in 1..n : book'[i] = book[i]
    BY <1>6, <2>1 DEF IInv, TypeInv
  <2>3. TypeInv'
    <3>1. Len(book') <= MaxOrders  BY <1>1, <2>2, GateAssumption
    <3> QED  BY <1>4, <2>2, <3>1 DEF IInv, TypeInv, Place
  <2>4. StageInv'
    <3> DEFINE c == Cardinality(ScriptOrders)
    <3>1. c \in Nat /\ Cardinality(ScriptOrders') = c + (IF Order.kind = "script" THEN 1 ELSE 0)
      BY <1>6, <2>1, CountAppend DEF IInv, TypeInv
    <3>2. Underway <=> proc.kind = "script"  BY <1>1 DEF Underway
    <3>3. c + (IF Underway THEN 1 ELSE 0) <= confirms /\ confirms' = confirms
          /\ confirms \in Int
      BY GateAssumption DEF IInv, StageInv, Place, TypeInv
    <3>4. ~ Underway' /\ proc'.pc = "idle"  BY <1>4 DEF Underway
    <3> DEFINE k == Cardinality(ScriptOrders')
    <3>5. k = c + (IF Order.kind = "script" THEN 1 ELSE 0)  BY <3>1
    <3> HIDE DEF c, k
    <3>6. k + 0 <= confirms'
      <4>1. CASE proc.kind = "script"  BY <2>1, <3>1, <3>2, <3>3, <3>5, <4>1
      <4>2. CASE proc.kind # "script"  BY <2>1, <3>1, <3>2, <3>3, <3>5, <4>2
      <4> QED  BY <4>1, <4>2
    <3>7. Cardinality(ScriptOrders') + (IF Underway' THEN 1 ELSE 0) <= confirms'
      BY <3>4, <3>6 DEF k
    <3>8. Equipped'  BY <1>4 DEF IInv, StageInv, Equipped
    <3> QED  BY <3>4, <3>7, <3>8 DEF StageInv
  <2>5. OrdersAuthorised'
    <3>1. ASSUME NEW i \in 1..n
          PROVE  LET o == book[i] IN
                 /\ o.cfg.live /\ o.cfg.execution /\ o.cfg.pilot /\ ~ o.switch
                 /\ o.intent.symbol \in o.cfg.symbols /\ o.intent.type \in o.cfg.types
                 /\ o.intent.fits /\ o.intent.quantity <= o.cfg.maxQuantity
                 /\ o.kind = "script" => ~ o.cfg.kill
      BY Zenon DEF IInv, BookInv, OrdersAuthorised
    <3>2. LET o == Order IN
          /\ o.cfg.live /\ o.cfg.execution /\ o.cfg.pilot /\ ~ o.switch
          /\ o.intent.symbol \in o.cfg.symbols /\ o.intent.type \in o.cfg.types
          /\ o.intent.fits /\ o.intent.quantity <= o.cfg.maxQuantity
          /\ o.kind = "script" => ~ o.cfg.kill
      <4>1. proc.intent.quantity \in Int /\ proc.cfg.maxQuantity \in Int
        BY <1>1, GateAssumption DEF IInv, StageInv, Equipped
      <4>2. proc.intent.quantity <= proc.cfg.maxQuantity  BY <1>6, <4>1, GuardFacts
      <4>3. proc.kind = "script" => ~ proc.cfg.kill  BY <1>1 DEF IInv, StageInv, Underway
      <4> QED  BY <1>6, <2>1, <4>2, <4>3, GuardFacts
    <3> QED  BY <1>1, <2>2, <3>1, <3>2 DEF OrdersAuthorised
  <2>6. AuditComplete'
    <3>1. Recorded(Order)  BY <1>1, <2>1 DEF IInv, StageInv, Recorded
    <3> QED  BY <1>1, <2>2, <3>1 DEF IInv, BookInv, AuditComplete
  <2>7. SuccessIsOrder'
    <3>1. n + 1 \in 1..Len(book')  BY <1>1, <2>2
    <3> QED  BY <1>4, <2>1, <2>2, <3>1 DEF SuccessIsOrder
  <2> QED  BY <2>3, <2>4, <2>5, <2>6, <2>7 DEF IInv, BookInv, ReportInv, Place
<1> QED  BY <1>3, <1>5, <1>6
-----------------------------------------------------------------------------
(* Verification. *)

LEMMA StartVerifyKeeps == ASSUME IInv, StartVerify PROVE IInv'
<1>1. proc' \in Procs /\ proc'.kind = "verify" /\ proc'.pc = "poll" /\ proc'.result = ""
  <2>1. 1 \in 0..Retries  BY GateAssumption
  <2> QED  BY <2>1, NoProcFacts DEF StartVerify, Procs
<1>2. TypeInv'  BY <1>1 DEF IInv, TypeInv, StartVerify
<1>3. StageInv' /\ BookInv'  BY <1>1, NewStage DEF IInv, StartVerify, Underway, Equipped
<1> QED  BY <1>2, <1>3 DEF IInv, StartVerify, ReportInv

LEMMA PollKeeps == ASSUME IInv, Poll PROVE IInv'
<1>1. proc \in Procs /\ proc.pc = "poll" /\ ~ Underway  BY DEF Poll, IInv, TypeInv, Underway
<1>2. \/ proc' = NoProc
      \/ proc' = [proc EXCEPT !.attempt = @ + 1] /\ proc.attempt # Retries
  BY DEF Poll, Polled
<1>3. /\ proc' \in Procs /\ proc'.pc \in {"idle", "poll"} /\ ~ Underway'
      /\ proc'.result = "PLACED" =>
            proc.result = "PLACED" /\ proc'.intent = proc.intent /\ proc'.cfg = proc.cfg
      /\ proc'.kind \in {"none", proc.kind} /\ proc'.cfg \in {proc.cfg, NoProc.cfg}
      /\ proc'.kind # "none" => proc'.cfg = proc.cfg
  <2>1. CASE proc' = NoProc  BY <2>1, NoProcFacts DEF Underway
  <2>2. CASE proc' = [proc EXCEPT !.attempt = @ + 1] /\ proc.attempt # Retries
    <3>1. proc.attempt + 1 \in 0..Retries
      <4>1. proc.attempt \in 0..Retries  BY <1>1 DEF Procs
      <4>2. proc.attempt # Retries  BY <2>2
      <4>3. Retries \in Nat  BY GateAssumption
      <4> QED  BY <4>1, <4>2, <4>3
    <3>2. proc' \in Procs  BY <1>1, <2>2, <3>1 DEF Procs
    <3>3. /\ proc'.pc = proc.pc /\ proc'.kind = proc.kind /\ proc'.cfg = proc.cfg
          /\ proc'.result = proc.result /\ proc'.intent = proc.intent
      BY <1>1, <2>2 DEF Procs
    <3> QED  BY <1>1, <3>2, <3>3 DEF Underway
  <2> QED  BY <1>2, <2>1, <2>2
<1>4. TypeInv'  BY <1>3 DEF IInv, TypeInv, Poll
<1>5. Equipped'  BY <1>3 DEF IInv, StageInv, Equipped
<1>6. StageInv' /\ BookInv'
  <2>1. proc'.pc # "prompt" /\ proc'.pc # "place"  BY <1>3
  <2> QED  BY <1>3, <1>5, <2>1, NewStage DEF IInv, Poll
<1> QED  BY <1>4, <1>6 DEF IInv, Poll, ReportInv

(* The ids that are decided are ids of requests. *)
LEMMA DecidedIds ==
    ASSUME IInv, NEW id \in 1..MaxRequests,
           Approve(id) \/ Reject(id) \/ CheckDecision(id)
    PROVE  /\ id \in 1..Len(requests) /\ decided[id].status = "PENDING"
           /\ \E status \in Statuses : Decide(id, status)
BY DEF Approve, Reject, CheckDecision, Pending, Statuses

LEMMA Inductive == ASSUME IInv, [Next]_vars PROVE IInv'
<1>1. CASE UNCHANGED vars
  <2>1. TypeInv'  BY <1>1 DEF vars, IInv, TypeInv
  <2> QED  BY <1>1, <2>1, Quiet DEF vars, IInv, ReportInv
<1>2. ASSUME NEW s \in Settings, Edit(s) PROVE IInv'  BY <1>2, EditKeeps
<1>3. ASSUME NEW r \in BOOLEAN, Preflight(r) PROVE IInv'  BY <1>3, PreflightKeeps
<1>4. ASSUME NEW id \in 1..MaxRequests, Approve(id) \/ Reject(id) \/ CheckDecision(id)
      PROVE  IInv'
  BY <1>4, DecidedIds, DecideKeeps
<1>5. ASSUME NEW id \in 1..MaxRequests, PlaceApproved(id) PROVE IInv'
  <2>1. id \in Nat  BY GateAssumption
  <2> QED  BY <1>5, <2>1, PlaceApprovedKeeps
<1>6. ASSUME NEW m \in GateModes, StartProgram(m) PROVE IInv'  BY <1>6, StartProgramKeeps
<1>7. ASSUME NEW i \in Intents, StartScript(i) PROVE IInv'  BY <1>7, StartScriptKeeps
<1>8. ASSUME NEW i \in Intents, Preview(i) PROVE IInv'  BY <1>8, PreviewKeeps
<1>9. ASSUME NEW i \in Intents, NEW v \in {"none", "rejected"}, Ask(i, v) PROVE IInv'
  BY <1>9, AskKeeps
<1>10. ASSUME NEW on \in BOOLEAN, Switch(on) PROVE IInv'  BY <1>10, SwitchKeeps
<1> QED
  BY <1>1, <1>2, <1>3, <1>4, <1>5, <1>6, <1>7, <1>8, <1>9, <1>10, TickKeeps, ConfirmKeeps,
     DeclineKeeps, GateKeeps, AuditKeeps, PlaceKeeps, ExitKeeps, StartVerifyKeeps, PollKeeps
  DEF Next, Decides

THEOREM Invariance == Spec => []IInv
BY InitHolds, Inductive, PTL DEF Spec
-----------------------------------------------------------------------------
(* Every order that reaches the broker satisfied LivePilotGuard with the   *)
(* settings of its process and with its switch off, and the script's only  *)
(* when GLOBAL_KILL_SWITCH was not set, however settings, requests and     *)
(* switch change in between.                                               *)
THEOREM Authorised == Spec => []OrdersAuthorised
<1>1. IInv => OrdersAuthorised  BY DEF IInv, BookInv
<1> QED  BY <1>1, Invariance, PTL

(* The pilot script never has more orders at the broker than phrases were  *)
(* typed, whatever the broker answers and wherever the script dies.        *)
THEOREM OnePerPhrase == Spec => []OneOrderPerPhrase
<1>1. ASSUME IInv PROVE OneOrderPerPhrase
  <2> DEFINE c == Cardinality(ScriptOrders)
  <2>1. c \in Nat /\ confirms \in Int  BY <1>1, CountType DEF IInv, TypeInv
  <2>2. c + (IF Underway THEN 1 ELSE 0) <= confirms  BY <1>1 DEF IInv, StageInv
  <2>3. c = Cardinality({i \in 1..Len(book) : book[i].kind = "script"})  BY DEF ScriptOrders
  <2> HIDE DEF c
  <2>4. c <= confirms
    <3>1. CASE Underway  BY <2>1, <2>2, <3>1
    <3>2. CASE ~ Underway  BY <2>1, <2>2, <3>2
    <3> QED  BY <3>1, <3>2
  <2> QED  BY <2>3, <2>4 DEF OneOrderPerPhrase
<1> QED  BY <1>1, Invariance, PTL

(* The script's orders are in the audit log or writing them was tried, and *)
(* so are all others of an executor with a logger; a process that reports  *)
(* PLACED has its order at the broker.                                     *)
THEOREM Records == Spec => []RecordsAgree
<1>1. ASSUME IInv PROVE TypeOK
  <2>1. ASSUME NEW id \in 1..Len(decided)
        PROVE  decided[id].status \in Statuses
    <3> DEFINE D == [status : Statuses, at : Int]
    <3>1. decided \in Seq(D)  BY <1>1 DEF IInv, TypeInv
    <3>2. decided[id] \in D
      <4> HIDE DEF D
      <4> QED  BY <3>1
    <3> QED  BY <3>2
  <2> QED  BY <1>1, <2>1 DEF TypeOK, IInv, TypeInv, Procs, Results, Statuses
<1>2. IInv => AuditComplete /\ SuccessIsOrder  BY DEF IInv, BookInv
<1>3. IInv => RecordsAgree  BY <1>1, <1>2 DEF RecordsAgree
<1> QED  BY <1>3, Invariance, PTL

(* run_all_preflight_checks and LivePilotGuard agree: settings that pass   *)
(* the one let the other pass an order of one share.                       *)
THEOREM PreflightIsEnough == Spec => []PreflightEnough
<1>1. ASSUME IInv, report.passed PROVE PreflightEnough
  <2>1. PICK r \in BOOLEAN : PreflightPasses(report.cfg, r)  BY <1>1 DEF IInv, ReportInv
  <2>2. report.cfg.maxQuantity \in Int  BY <1>1, GateAssumption DEF IInv, ReportInv
  <2>3. PICK symbol \in report.cfg.symbols : TRUE  BY <2>1 DEF PreflightPasses
  <2>4. PICK type \in report.cfg.types : TRUE  BY <2>1 DEF PreflightPasses
  <2> DEFINE order == [symbol |-> symbol, type |-> type, quantity |-> 1, fits |-> TRUE]
  <2>5. order.symbol = symbol /\ order.type = type /\ order.quantity = 1 /\ order.fits
    OBVIOUS
  <2>6. ~ (1 > report.cfg.maxQuantity)  BY <2>1, <2>2 DEF PreflightPasses
  <2>7. report.cfg.live /\ report.cfg.execution /\ report.cfg.pilot
    BY <2>1 DEF PreflightPasses
  <2> HIDE DEF order
  <2>8. ~ Objects(report.cfg, FALSE, order, "APPROVED", "none")
    BY <2>3, <2>4, <2>5, <2>6, <2>7 DEF Objects
  <2> QED  BY <2>3, <2>4, <2>8 DEF order, PreflightEnough
<1>2. IInv => PreflightEnough  BY <1>1 DEF PreflightEnough
<1> QED  BY <1>2, Invariance, PTL

(* Approval, rejection and expiry: the first decision on a request stays,  *)
(* as long as its process lives.                                           *)
THEOREM Final == Spec => DecisionsFinal
<1> DEFINE Stays ==
      proc'.kind = proc.kind =>
         \A id \in 1..Len(decided) :
            decided[id].status # "PENDING" => decided'[id] = decided[id]
<1>1. ASSUME IInv, [Next]_vars PROVE Stays
  <2> SUFFICES ASSUME proc'.kind = proc.kind, NEW id \in 1..Len(decided),
                      decided[id].status # "PENDING"
               PROVE  decided'[id] = decided[id]
    OBVIOUS
  <2>1. Len(decided) \in Nat /\ Len(decided) = Len(requests)  BY <1>1 DEF IInv, TypeInv
  <2>2. ASSUME NEW j \in 1..MaxRequests, Approve(j) \/ Reject(j) \/ CheckDecision(j)
        PROVE  decided'[id] = decided[id]
    <3>1. j # id  BY <1>1, <2>2, DecidedIds
    <3>2. PICK status \in Statuses : Decide(j, status)  BY <1>1, <2>2, DecidedIds
    <3>3. decided \in Seq([status : Statuses, at : Int])  BY <1>1 DEF IInv, TypeInv
    <3> QED  BY <3>1, <3>2, <3>3 DEF Decide
  <2>3. ASSUME NEW d \in [status : Statuses, at : Int], decided' = Append(decided, d)
        PROVE  decided'[id] = decided[id]
    BY <1>1, <2>1, <2>3 DEF IInv, TypeInv
  <2>4. Decision("APPROVED") \in [status : Statuses, at : Int]
        /\ Undecided \in [status : Statuses, at : Int]
    BY <1>1, DecisionFacts DEF IInv
  <2>5. ASSUME Gate \/ \E i \in Intents : Preview(i) PROVE decided'[id] = decided[id]
    <3>1. decided' = decided \/ \E d \in [status : Statuses, at : Int] :
                                   decided' = Append(decided, d)
      BY <2>4, <2>5 DEF Gate, Preview, Still
    <3> QED  BY <2>3, <3>1
  <2>6. ~ (Gone /\ proc.kind # "none")  BY NoProcFacts DEF Gone
  <2>7. ASSUME Confirm \/ Decline \/ Exit PROVE decided' = decided
    <3>1. proc.kind # "none"
      BY <1>1, <2>7 DEF Confirm, Decline, Exit, IInv, StageInv
    <3> QED  BY <2>6, <2>7, <3>1 DEF Confirm, Decline, Exit, Still
  <2>8. ASSUME NEW j \in 1..MaxRequests, PlaceApproved(j) PROVE decided' = decided
    BY <2>8 DEF PlaceApproved
  <2>9. ASSUME \/ \E s \in Settings : Edit(s)
               \/ \E r \in BOOLEAN : Preflight(r)
               \/ \E m \in GateModes : StartProgram(m)
               \/ \E i \in Intents :
                     StartScript(i) \/ \E v \in {"none", "rejected"} : Ask(i, v)
               \/ \E on \in BOOLEAN : Switch(on)
               \/ Tick \/ Audit \/ Place \/ StartVerify \/ Poll \/ UNCHANGED vars
        PROVE  decided' = decided
    BY <2>9 DEF Edit, Preflight, StartProgram, StartScript, Ask, Switch, Tick, Audit,
                Place, StartVerify, Poll, vars
  <2> QED  BY <1>1, <2>2, <2>5, <2>7, <2>8, <2>9 DEF Next, Decides
<1>2. DecisionsFinal <=> [][Stays]_vars  BY DEF DecisionsFinal
<1> HIDE DEF Stays
<1> QED  BY <1>1, <1>2, Invariance, PTL DEF Spec
=============================================================================
