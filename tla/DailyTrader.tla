---------------------------- MODULE DailyTrader ----------------------------
(***************************************************************************)
(* The deployed system: bars arrive, workflow jobs check the ledger out of *)
(* the repository, run the master engine, send the digest and push the     *)
(* updated ledger.                                                         *)
(*                                                                         *)
(* MaxMissed and Faults say what may go wrong around the program:          *)
(*   MaxMissed   consecutive bars of a key that no run may get to see (a   *)
(*               failed job, a failed fetch, late data);                   *)
(*   "rerun"     a run when no bar has arrived since the last one (an      *)
(*               exchange holiday, workflow_dispatch, a local run);        *)
(*   "fetch"     a run in which the data of some keys cannot be fetched;   *)
(*   "push"      a git push that fails after the digest was sent;          *)
(*   "send"      a digest that is not delivered (the notifier swallows it);*)
(*   "partial"   a run on a bar that is still forming.                     *)
(***************************************************************************)
EXTENDS MasterEngine

CONSTANTS
    Jobs,           \* workflow jobs that may be running at the same time
    MaxMissed,
    Faults

FaultKinds == {"rerun", "fetch", "push", "send", "partial"}

ASSUME FaultAssumption == MaxMissed \in Nat /\ Faults \subseteq FaultKinds

VARIABLES
    ledger,     \* the ledger file committed in the repository
    realized,   \* its _stats.realized_pnl
    job,        \* the state of every job
    unseen,     \* unseen[k]: bars of k since the last pushed run that saw k
    told        \* the <<key, trade>> pairs the digests sent so far leave open

vars == <<replayVars, ledger, realized, job, unseen, told>>

Trade == Keys \X (0..MaxTrades)

(* A job: where it is, its working copy of the ledger file, what its       *)
(* digest says, the keys it could not fetch, and whether its checkout is   *)
(* still the head of the repository (a push of anything else is rejected). *)
JobStates ==
    [pc : {"idle", "ran", "sent"}, book : [Keys -> Entries], realized : Int,
     buys : SUBSET Trade, sells : SUBSET Trade, errs : SUBSET Keys,
     current : BOOLEAN]

Idle == [pc |-> "idle", book |-> [k \in Keys |-> NoEntry], realized |-> 0,
         buys |-> {}, sells |-> {}, errs |-> {}, current |-> TRUE]

EmptyBook == [k \in Keys |-> NoEntry]

(* Ledger, digests and jobs keep their types; a push that fails, a missed  *)
(* day or a rerun leaves no half-written entry behind.                     *)
TypeOK ==
    /\ ReplayTypeOK
    /\ ledger \in [Keys -> Entries]
    /\ realized \in Int
    /\ job \in [Jobs -> JobStates]
    /\ unseen \in [Keys -> 0..MaxMissed + 1]
    /\ told \in SUBSET Trade

Init ==
    /\ ReplayInit
    /\ ledger = EmptyBook
    /\ realized = 0
    /\ job = [j \in Jobs |-> Idle]
    /\ unseen = [k \in Keys |-> 0]
    /\ told = {}

AllIdle == \A j \in Jobs : job[j].pc = "idle"

-----------------------------------------------------------------------------
(* A bar of k closes.  Runs take minutes, so none is under way.            *)
Bar(k) ==
    /\ AllIdle
    /\ unseen[k] <= MaxMissed
    /\ NewBar(k)
    /\ unseen' = [unseen EXCEPT ![k] = @ + 1]
    /\ UNCHANGED <<ledger, realized, job, told>>

(* The forming bar completes without the signal a run may have seen. *)
Retract(k) ==
    /\ "partial" \in Faults
    /\ AllIdle
    /\ RetractEntry(k)
    /\ UNCHANGED <<ledger, realized, job, unseen, told>>

(* Mutant of Due: the engine runs whether or not there are new bars. *)
OnDemand == TRUE

(* A run is due when every key has a new bar.  *)
Due == \A k \in Keys : unseen[k] > 0

FetchOutcomes == IF "fetch" \in Faults THEN SUBSET Keys ELSE {{}}

Pairs(keys, book) == {<<k, book[k].trade>> : k \in keys}

(* Check out, fetch, replay, allocate and save_ledger into the workspace.  *)
Run(j) ==
    /\ job[j].pc = "idle"
    /\ Due \/ "rerun" \in Faults
    /\ \E errs \in FetchOutcomes :
        LET next == AfterRun(ledger, errs)
        IN  job' = [job EXCEPT ![j] =
                [pc |-> "ran",
                 book |-> next,
                 realized |-> realized + ExitPnL(ledger, errs),
                 buys |-> Pairs(Approved(ledger, errs), next),
                 sells |-> Pairs(BookedExits(ledger, errs), ledger),
                 errs |-> errs,
                 current |-> TRUE]]
    /\ UNCHANGED <<replayVars, ledger, realized, unseen, told>>

(* The digest goes out after the ledger is saved and before it is pushed.  *)
Send(j) ==
    /\ job[j].pc = "ran"
    /\ job' = [job EXCEPT ![j].pc = "sent"]
    /\ told' = (told \ job[j].sells) \cup job[j].buys
    /\ UNCHANGED <<replayVars, ledger, realized, unseen>>

(* TelegramNotifier.send swallows network errors: the run goes on. *)
SendFails(j) ==
    /\ "send" \in Faults
    /\ job[j].pc = "ran"
    /\ job' = [job EXCEPT ![j].pc = "sent"]
    /\ UNCHANGED <<replayVars, ledger, realized, unseen, told>>

(* What the ledger file says of a book. *)
Contents(book) == [k \in Keys |-> <<book[k].qty, book[k].entry_price>>]

(* Commit if the file changed, and push.  The other jobs' checkouts are    *)
(* then behind the head of the repository.                                 *)
Push(j) ==
    /\ job[j].pc = "sent"
    /\ job[j].current
    /\ ledger' = job[j].book
    /\ realized' = job[j].realized
    /\ unseen' = [k \in Keys |-> IF k \in job[j].errs THEN unseen[k] ELSE 0]
    /\ LET changed == \/ Contents(job[j].book) # Contents(ledger)
                      \/ job[j].realized # realized
       IN  job' = [i \in Jobs |->
                    IF i = j THEN Idle
                    ELSE IF changed /\ job[i].pc # "idle"
                         THEN [job[i] EXCEPT !.current = FALSE]
                         ELSE job[i]]
    /\ UNCHANGED <<replayVars, told>>

(* The push is rejected or fails: the workspace and its ledger are gone.   *)
PushFails(j) ==
    /\ job[j].pc = "sent"
    /\ ~job[j].current \/ "push" \in Faults
    /\ job' = [job EXCEPT ![j] = Idle]
    /\ UNCHANGED <<replayVars, ledger, realized, unseen, told>>

Next ==
    \/ \E k \in Keys : Bar(k) \/ Retract(k)
    \/ \E j \in Jobs : Run(j) \/ Send(j) \/ SendFails(j) \/ Push(j) \/ PushFails(j)

Spec == Init /\ [][Next]_vars

(* The schedule runs the workflow on every trading day and bars keep       *)
(* coming, so each step of a job and each bar happens if it stays possible. *)
Fairness ==
    /\ \A k \in Keys : WF_vars(Bar(k))
    /\ \A j \in Jobs : WF_vars(Run(j)) /\ WF_vars(Send(j)) /\ WF_vars(Push(j))

FairSpec == Spec /\ Fairness

-----------------------------------------------------------------------------
(* PROPERTIES                                                              *)

Working(j) == job[j].pc # "idle"

(* Cash only, no leverage: whatever fails around it, the engine never      *)
(* commits more than the account's capital, neither in the repository nor  *)
(* in the copy of a job that may still be pushed.                          *)
NoOverAllocation ==
    /\ BookValue(ledger) <= TotalCapital
    /\ \A j \in Jobs : BookValue(job[j].book) <= TotalCapital

(* A run that could not fetch everything opens nothing, and keeps every    *)
(* entry whose data it could not fetch exactly as it was.                  *)
UntrustedRunOnlyCloses ==
    \A j \in Jobs :
        /\ Working(j) /\ job[j].current /\ job[j].errs # {}
        => /\ HeldKeys(job[j].book) \subseteq HeldKeys(ledger)
           /\ \A k \in job[j].errs : Contents(job[j].book)[k] = Contents(ledger)[k]

(* One digest never announces two buys in a ticker, nor a buy in a ticker  *)
(* of a position the strategies report open.                               *)
OneBuyPerTicker ==
    \A j \in Jobs : \A b \in job[j].buys :
        /\ \A c \in job[j].buys : Conflict(b[1], c[1]) => b = c
        /\ Working(j) => \A o \in OpenPositions(job[j].book, job[j].errs) :
               ~Conflict(b[1], o)

(* An exit is booked against the trade the ledger entry was opened for.    *)
ExitBookedAgainstOwnTrade ==
    \A j \in Jobs : Working(j) =>
        \A s \in job[j].sells : closing[s[1]].trade = s[2]

(* Every ledger entry is for a trade its strategy still reports, open or   *)
(* closing: otherwise its capital is never released.                       *)
FundedTradesReported ==
    \A k \in HeldKeys(ledger) :
        \/ pos[k] # None /\ pos[k].trade = ledger[k].trade
        \/ closing[k] # None /\ closing[k].trade = ledger[k].trade

(* A ticker is held through at most one ledger entry. *)
OneHolderPerTicker ==
    \A i, k \in HeldKeys(ledger) : Conflict(i, k) => i = k

(* No digest tells the reader to buy what an earlier one already did.      *)
BuyAnnouncedOnce ==
    \A j \in Jobs : job[j].pc = "ran" => job[j].buys \cap told = {}

(* Between runs, the positions the digests left open are the ledger's.     *)
ToldIsLedger == AllIdle => told = Pairs(HeldKeys(ledger), ledger)

(* The capital of every funded entry is eventually released.               *)
CapitalRecycles ==
    \A k \in Keys : Held(ledger, k) ~> ~Held(ledger, k)

(* The abstract account, kept in the ledger of the repository. *)
Account == INSTANCE CapitalAccount
           WITH Capital <- TotalCapital, holdings <- ledger,
                Entries <- [qty : 1..TotalCapital, entry_price : EntryPrices,
                            trade : 1..MaxTrades]

(* The committed ledger is an account of fixed capital: a trading day      *)
(* closes holdings and opens others, never resizes one, never exceeds the  *)
(* capital and never holds a ticker twice.                                 *)
ImplementsAccount == Account!Spec
=============================================================================
