----------------------------- MODULE LiveRunner -----------------------------
(***************************************************************************)
(* The live paper session: the feed's thread turns ticks into candles and  *)
(* hands completed ones to the strategy, while the main thread waits for a *)
(* signal whose handler flushes the open candles and stops the session.    *)
(* Nothing is locked.  Steps are the points between which the other thread *)
(* or another signal can run.                                              *)
(*                                                                         *)
(* A candle is its symbol, its bucket and the set of ticks folded into it; *)
(* prices and volumes are functions of those.  Malformed ticks, which are  *)
(* dropped before they reach the runner, are left out.                     *)
(***************************************************************************)
EXTENDS Integers, Sequences, SequencesExt, FiniteSets

CONSTANTS
    Symbols,
    Buckets,        \* candle intervals, in order
    LateTicks,      \* TRUE: a tick may carry an earlier interval than the last
    Raises,         \* TRUE: the strategy may raise
    MaxTicks,       \* bound: ticks of a session
    MaxSignals,     \* bound: signals sent to the process
    NoCandle

ASSUME BucketAssumption == Buckets \subseteq Nat /\ LateTicks \in BOOLEAN

VARIABLES
    main,       \* where the main thread is, outside the handler
    frames,     \* running signal handlers, the innermost last
    feed,       \* the feed's thread
    link,       \* the web socket
    ticks,      \* ticks delivered so far
    open,       \* _open_candles
    stop,       \* _stop_event
    seen,       \* bars the strategy was given
    dash,       \* bars the session file tells of
    signals,    \* signals sent
    raced,      \* history: a stop overlapped with a tick or another stop
    failed      \* history: the strategy raised or a snapshot was not written

vars == <<main, frames, feed, link, ticks, open, stop, seen, dash, signals, raced, failed>>

Idle == [pc |-> "idle", old |-> NoCandle, bars |-> <<>>, told |-> 0]
Handler == [pc |-> "set", bars |-> <<>>, told |-> 0]

Init ==
    /\ main = "starting" /\ frames = <<>>
    /\ feed = Idle /\ link = "off"
    /\ ticks = <<>> /\ open = [s \in Symbols |-> NoCandle]
    /\ stop = FALSE /\ seen = <<>> /\ dash = 0
    /\ signals = 0 /\ raced = FALSE /\ failed = FALSE

Alive == main # "exited"
Top == frames[Len(frames)]
ToTop(frame) == frames' = [frames EXCEPT ![Len(frames)] = frame]

-----------------------------------------------------------------------------
(* main: start the runner and install the handlers, connect, wait.         *)

Start ==
    /\ main = "starting" /\ main' = "connecting"
    /\ UNCHANGED <<frames, feed, link, ticks, open, stop, seen, dash, signals, raced, failed>>
Connect ==
    /\ main = "connecting" /\ frames = <<>>
    /\ main' = "connected" /\ link' = "down"
    /\ UNCHANGED <<frames, feed, ticks, open, stop, seen, dash, signals, raced, failed>>
Pause ==
    /\ main = "connected" /\ frames = <<>>
    /\ main' = "paused"
    /\ UNCHANGED <<frames, feed, link, ticks, open, stop, seen, dash, signals, raced, failed>>

(* A signal before the handlers are there ends the process; afterwards it  *)
(* starts a handler on top of whatever the main thread is doing.           *)
Signal ==
    /\ Alive /\ signals < MaxSignals
    /\ signals' = signals + 1
    /\ IF main = "starting"
       THEN main' = "exited" /\ UNCHANGED <<frames, raced>>
       ELSE /\ frames' = Append(frames, Handler)
            /\ raced' = (raced \/ frames # <<>>)
            /\ UNCHANGED main
    /\ UNCHANGED <<feed, link, ticks, open, stop, seen, dash, failed>>

-----------------------------------------------------------------------------
(* The feed's thread.  The library reconnects by itself; on_connect        *)
(* subscribes again, and what was traded in between is never delivered.    *)

OnConnect ==
    /\ Alive /\ link = "down" /\ link' = "up"
    /\ UNCHANGED <<main, frames, feed, ticks, open, stop, seen, dash, signals, raced, failed>>
OnClose ==
    /\ Alive /\ link = "up" /\ feed.pc = "idle" /\ link' = "down"
    /\ UNCHANGED <<main, frames, feed, ticks, open, stop, seen, dash, signals, raced, failed>>

Earlier(s) == {ticks[i].bucket : i \in {j \in 1..Len(ticks) : ticks[j].symbol = s}}

(* on_tick up to add_tick: after a stop the tick is ignored.               *)
OnTick(s, bucket) ==
    /\ Alive /\ link = "up" /\ feed.pc = "idle" /\ Len(ticks) < MaxTicks
    /\ LateTicks \/ \A b \in Earlier(s) : b <= bucket
    /\ ~ stop
    /\ ticks' = Append(ticks, [symbol |-> s, bucket |-> bucket])
    /\ feed' = [feed EXCEPT !.pc = "look"]
    /\ UNCHANGED <<main, frames, link, open, stop, seen, dash, signals, raced, failed>>

Tick == ticks[Len(ticks)]
(* Mutant of NewCandle: the tick that opens a candle is not in it. *)
EmptyCandle == [symbol |-> Tick.symbol, bucket |-> Tick.bucket, ticks |-> {}]

NewCandle == [symbol |-> Tick.symbol, bucket |-> Tick.bucket, ticks |-> {Len(ticks)}]

(* add_tick reads the open candle of the symbol before it changes it.      *)
Look ==
    /\ Alive /\ feed.pc = "look"
    /\ feed' = [feed EXCEPT !.pc = "fold", !.old = open[Tick.symbol]]
    /\ UNCHANGED <<main, frames, link, ticks, open, stop, seen, dash, signals, raced, failed>>

SameBucket == feed.old # NoCandle /\ feed.old.bucket = Tick.bucket

(* The candle the tick ends in: the one read, or a new one.                *)
Folded ==
    IF SameBucket THEN [feed.old EXCEPT !.ticks = @ \cup {Len(ticks)}] ELSE NewCandle

(* update changes the candle that was read; when a flush has taken it out  *)
(* of the table meanwhile, the tick is in no candle any more.  Any other   *)
(* bucket, an earlier one too, completes that candle, flushed or not.      *)
Fold ==
    /\ Alive /\ feed.pc = "fold"
    /\ open' = IF SameBucket /\ open[Tick.symbol] # feed.old
               THEN open ELSE [open EXCEPT ![Tick.symbol] = Folded]
    /\ feed' = IF SameBucket \/ feed.old = NoCandle THEN Idle
               ELSE [Idle EXCEPT !.pc = "strategy", !.bars = <<feed.old>>]
    /\ UNCHANGED <<main, frames, link, ticks, stop, seen, dash, signals, raced, failed>>

-----------------------------------------------------------------------------
(* _process_bar, by the feed's thread for the candle just completed and by *)
(* the handler for those it flushed.  What the strategy raises is caught   *)
(* around a tick and ends the process in the handler.                      *)

(* What a snapshot tells: all bars up to this one. *)
Told == Len(seen)

GiveBar(bar) == seen' = Append(seen, bar)
AfterBar(w, done) ==
    LET rest == Tail(w.bars)
    IN  [w EXCEPT !.pc = IF rest = <<>> THEN done ELSE "strategy", !.bars = rest, !.told = 0]

FeedBar ==
    /\ Alive /\ feed.pc = "strategy"
    /\ GiveBar(Head(feed.bars))
    /\ \/ feed' = [feed EXCEPT !.pc = "mark"] /\ UNCHANGED failed
       \/ Raises /\ feed' = Idle /\ failed' = TRUE
    /\ UNCHANGED <<main, frames, link, ticks, open, stop, dash, signals, raced>>
FeedMark ==
    /\ Alive /\ feed.pc = "mark"
    /\ feed' = [feed EXCEPT !.pc = "write", !.told = Told]
    /\ UNCHANGED <<main, frames, link, ticks, open, stop, seen, dash, signals, raced, failed>>
FeedWrite ==
    /\ Alive /\ feed.pc = "write"
    /\ feed' = AfterBar(feed, "idle")
    /\ \/ dash' = feed.told /\ UNCHANGED failed
       \/ UNCHANGED dash /\ failed' = TRUE
    /\ UNCHANGED <<main, frames, link, ticks, open, stop, seen, signals, raced>>

-----------------------------------------------------------------------------
(* The handler: stop, which sets the event, collects the open candles,     *)
(* clears the table, handles the bars and ends the strategy; disconnect.   *)

In(pc) == Alive /\ frames # <<>> /\ Top.pc = pc

SetStop ==
    /\ In("set")
    /\ stop' = TRUE
    /\ raced' = (raced \/ feed.pc # "idle")
    /\ ToTop([Top EXCEPT !.pc = "collect"])
    /\ UNCHANGED <<main, feed, link, ticks, open, seen, dash, signals, failed>>

(* Mutant of Open: nothing is flushed. *)
Nothing == {}

Open == {open[s] : s \in {t \in Symbols : open[t] # NoCandle}}

Collect ==
    /\ In("collect")
    /\ ToTop([Top EXCEPT !.pc = "clear", !.bars = SetToSeq(Open)])
    /\ UNCHANGED <<main, feed, link, ticks, open, stop, seen, dash, signals, raced, failed>>

Cleared == [s \in Symbols |-> NoCandle]

Clear ==
    /\ In("clear")
    /\ open' = Cleared
    /\ ToTop([Top EXCEPT !.pc = IF Top.bars = <<>> THEN "end" ELSE "strategy"])
    /\ UNCHANGED <<main, feed, link, ticks, stop, seen, dash, signals, raced, failed>>

StopBar ==
    /\ In("strategy")
    /\ GiveBar(Head(Top.bars))
    /\ \/ ToTop([Top EXCEPT !.pc = "mark"]) /\ UNCHANGED <<main, failed>>
       \/ Raises /\ main' = "exited" /\ frames' = <<>> /\ failed' = TRUE
    /\ UNCHANGED <<feed, link, ticks, open, stop, dash, signals, raced>>
StopMark ==
    /\ In("mark")
    /\ ToTop([Top EXCEPT !.pc = "write", !.told = Told])
    /\ UNCHANGED <<main, feed, link, ticks, open, stop, seen, dash, signals, raced, failed>>
StopWrite ==
    /\ In("write")
    /\ ToTop(AfterBar(Top, "end"))
    /\ \/ dash' = Top.told /\ UNCHANGED failed
       \/ UNCHANGED dash /\ failed' = TRUE
    /\ UNCHANGED <<main, feed, link, ticks, open, stop, seen, signals, raced>>

(* Mutant of Resumed: the wait goes on after a handler. *)
Dozing == main

(* The wait is over once a handler that interrupted it returns; a handler  *)
(* that ran before the wait leaves the main thread where it was.           *)
Resumed == IF main = "paused" /\ Len(frames) = 1 THEN "exited" ELSE main

Disconnect ==
    /\ In("end")
    /\ link' = IF link = "off" THEN "off" ELSE "closed"
    /\ frames' = Front(frames)
    /\ main' = Resumed
    /\ UNCHANGED <<feed, ticks, open, stop, seen, dash, signals, raced, failed>>

FeedStep == Look \/ Fold \/ FeedBar \/ FeedMark \/ FeedWrite
MainStep ==
    \/ Start \/ Connect \/ Pause
    \/ SetStop \/ Collect \/ Clear \/ StopBar \/ StopMark \/ StopWrite \/ Disconnect

Next ==
    \/ MainStep \/ FeedStep
    \/ Signal \/ OnConnect \/ OnClose
    \/ \E s \in Symbols, bucket \in Buckets : OnTick(s, bucket)

(* Both threads are scheduled; signals and ticks need never come.          *)
Spec == Init /\ [][Next]_vars /\ WF_vars(MainStep) /\ WF_vars(FeedStep)
-----------------------------------------------------------------------------
(* Threads, candles, frames and the session file keep their types.         *)
TypeOK ==
    /\ main \in {"starting", "connecting", "connected", "paused", "exited"}
    /\ link \in {"off", "down", "up", "closed"}
    /\ feed.pc \in {"idle", "look", "fold", "strategy", "mark", "write"}
    /\ \A i \in 1..Len(frames) :
            frames[i].pc \in {"set", "collect", "clear", "strategy", "mark", "write", "end"}
    /\ \A s \in Symbols : open[s] # NoCandle =>
            /\ open[s].symbol = s /\ open[s].bucket \in Buckets
            /\ open[s].ticks \in (SUBSET (1..Len(ticks))) \ {{}}
    /\ stop \in BOOLEAN /\ raced \in BOOLEAN /\ failed \in BOOLEAN
    /\ dash \in 0..Len(seen)

(* Unless a stop overlapped with a tick or with another stop, a tick is in *)
(* at most one bar of the strategy, late ticks and repeated stops          *)
(* included.  (When it did, the handler and the feed's thread both hold    *)
(* the candle, and both hand it to the strategy.)                          *)
NoTickTwice ==
    ~ raced => \A i, j \in 1..Len(seen) : i # j => seen[i].ticks \cap seen[j].ticks = {}

InOrder ==
    \A i, j \in 1..Len(ticks) :
        i < j /\ ticks[i].symbol = ticks[j].symbol => ticks[i].bucket <= ticks[j].bucket

(* With ticks in order and no such overlap the bars of a symbol come in    *)
(* the order of their intervals, one for each, and each holds all ticks of *)
(* its interval.  (A late tick splits its interval over several bars, and  *)
(* their timestamps go backwards.)                                         *)
CandlesComplete ==
    /\ TypeOK /\ NoTickTwice
    /\ InOrder /\ ~ raced =>
          /\ \A i \in 1..Len(seen) :
                seen[i].ticks = {n \in 1..Len(ticks) :
                    ticks[n].symbol = seen[i].symbol /\ ticks[n].bucket = seen[i].bucket}
          /\ \A i, j \in 1..Len(seen) : i < j /\ seen[i].symbol = seen[j].symbol =>
                seen[i].bucket < seen[j].bucket

(* When the session ended without such an overlap or a failure, every tick *)
(* reached the strategy, in a completed candle or in a flushed one, and    *)
(* the session file tells of all bars.                                     *)
NothingLost ==
    main = "exited" /\ ~ raced /\ ~ failed =>
        /\ \A n \in 1..Len(ticks) : \E i \in 1..Len(seen) : n \in seen[i].ticks
        /\ dash = Len(seen)

(* A signal that finds the main thread waiting ends the session. *)
WaitEnds == main = "paused" /\ frames # <<>> ~> main = "exited"
=============================================================================
