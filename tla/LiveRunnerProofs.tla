--------------------------- MODULE LiveRunnerProofs ---------------------------
(***************************************************************************)
(* What reaches the strategy of a live session, for any finite set of      *)
(* symbols, any intervals and any number of ticks and signals.             *)
(***************************************************************************)
EXTENDS LiveRunner, FiniteSetTheorems, SequenceTheorems, TLAPS

Bars == [symbol : Symbols, bucket : Buckets, ticks : (SUBSET Nat) \ {{}}]
AllTicks == [symbol : Symbols, bucket : Buckets]

(* What the theorems assume of the constants. *)
FiniteSymbols == IsFiniteSet(Symbols) /\ NoCandle \notin Bars

(* The bars a thread still has to give, while the one at the head may have *)
(* been given already.                                                     *)
Rest(w) == IF w.pc = "strategy" THEN w.bars
           ELSE IF w.pc \in {"mark", "write"} THEN Tail(w.bars) ELSE <<>>
Stopping == frames # <<>> /\ Top.pc # "set"

(* All bars that are completed, given to the strategy or not, in the order *)
(* in which they reach it.                                                 *)
Line == IF Stopping THEN seen \o Rest(Top) ELSE seen \o Rest(feed)

(* The tick that on_tick has not folded into a candle yet. *)
InFlight == feed.pc \in {"look", "fold"}
Folding(fl, tk) == 1..(IF fl THEN Len(tk) - 1 ELSE Len(tk))
-----------------------------------------------------------------------------
(* The candles, as functions of the completed bars, the open candles, the  *)
(* tick in flight and the ticks.                                           *)

Own(c, fl, tk) ==
    /\ c \in Bars /\ c.ticks \subseteq Folding(fl, tk)
    /\ \A n \in c.ticks : tk[n].symbol = c.symbol /\ tk[n].bucket = c.bucket

Sound(ln, op, fl, tk) ==
    /\ \A i \in 1..Len(ln) : Own(ln[i], fl, tk)
    /\ \A s \in Symbols : op[s] # NoCandle => Own(op[s], fl, tk) /\ op[s].symbol = s

(* No tick is in two candles. *)
Apart(ln, op) ==
    /\ \A i, j \in 1..Len(ln) : i # j => ln[i].ticks \cap ln[j].ticks = {}
    /\ \A i \in 1..Len(ln), s \in Symbols :
          op[s] # NoCandle => ln[i].ticks \cap op[s].ticks = {}

(* Every folded tick is in one. *)
Held(ln, op, fl, tk) ==
    \A n \in Folding(fl, tk) :
        \/ \E i \in 1..Len(ln) : n \in ln[i].ticks
        \/ \E s \in Symbols : op[s] # NoCandle /\ n \in op[s].ticks

Ordered(tk) ==
    \A i, j \in 1..Len(tk) :
        (i < j /\ tk[i].symbol = tk[j].symbol) => tk[i].bucket <= tk[j].bucket

(* A completed bar has all ticks of its interval, and no more can come. *)
Closed(c, fl, tk, st) ==
    /\ c.ticks = {n \in 1..Len(tk) : tk[n].symbol = c.symbol /\ tk[n].bucket = c.bucket}
    /\ st \/ \E m \in Folding(fl, tk) : tk[m].symbol = c.symbol /\ c.bucket < tk[m].bucket

(* The open candle of a symbol is the latest and has all its ticks. *)
Latest(op, fl, tk, st) ==
    /\ \A s \in Symbols : op[s] # NoCandle =>
          op[s].ticks = {n \in Folding(fl, tk) : tk[n].symbol = s /\ tk[n].bucket = op[s].bucket}
    /\ st \/ \A n \in Folding(fl, tk) :
                /\ op[tk[n].symbol] # NoCandle
                /\ tk[n].bucket <= op[tk[n].symbol].bucket

Rising(ln, op) ==
    /\ \A i, j \in 1..Len(ln) :
          (i < j /\ ln[i].symbol = ln[j].symbol) => ln[i].bucket < ln[j].bucket
    /\ \A i \in 1..Len(ln), s \in Symbols :
          (op[s] # NoCandle /\ ln[i].symbol = s) => ln[i].bucket < op[s].bucket

CandleInv(ln, op, fl, tk, st, lost) ==
    /\ Sound(ln, op, fl, tk) /\ Apart(ln, op)
    /\ lost \/ Held(ln, op, fl, tk)
    /\ Ordered(tk) =>
          /\ \A i \in 1..Len(ln) : Closed(ln[i], fl, tk, st)
          /\ Latest(op, fl, tk, st) /\ Rising(ln, op)
-----------------------------------------------------------------------------
Tables == [Symbols -> Bars \cup {NoCandle}]
Frames == [pc : {"set", "collect", "clear", "strategy", "mark", "write", "end"},
           bars : Seq(Bars), told : Nat]
Feeds == [pc : {"idle", "look", "fold", "strategy", "mark", "write"},
          old : Bars \cup {NoCandle}, bars : Seq(Bars), told : Nat]

Giving(w) == w.pc \in {"strategy", "mark", "write"}

FrameOk(frame, n) ==
    frame \in Frames /\ (Giving(frame) => frame.bars # <<>>) /\ frame.told <= n

FeedOk(f, tk, n) ==
    /\ f \in Feeds /\ (Giving(f) => f.bars # <<>>) /\ f.told <= n
    /\ f.pc \in {"look", "fold"} => tk # <<>>
    /\ (f.pc = "fold" /\ f.old # NoCandle) =>
          f.old.symbol = tk[Len(tk)].symbol /\ f.old.ticks \subseteq 1..Len(tk)

OpenOk(op, tk) ==
    /\ op \in Tables
    /\ \A s \in Symbols : op[s] # NoCandle =>
          op[s].symbol = s /\ op[s].ticks \subseteq 1..Len(tk)

(* Types, which hold however threads and signals race. *)
TypeInv ==
    /\ main \in {"starting", "connecting", "connected", "paused", "exited"}
    /\ link \in {"off", "down", "up", "closed"}
    /\ ticks \in Seq(AllTicks) /\ seen \in Seq(Bars)
    /\ FeedOk(feed, ticks, Len(seen)) /\ OpenOk(open, ticks)
    /\ frames \in Seq(Frames) /\ \A i \in 1..Len(frames) : FrameOk(frames[i], Len(seen))
    /\ stop \in BOOLEAN /\ raced \in BOOLEAN /\ failed \in BOOLEAN
    /\ dash \in 0..Len(seen)

(* Unless they raced, only one thread works, and the handler has what it   *)
(* collected.                                                              *)
TurnInv ==
    /\ Len(frames) <= 1
    /\ stop => feed.pc = "idle"
    /\ Stopping => stop
    /\ feed.pc = "fold" => feed.old = open[Tick.symbol]
    /\ Giving(feed) => Len(feed.bars) = 1
    /\ Stopping =>
          /\ Top.pc = "clear" => Top.bars = SetToSeq(Open)
          /\ Top.pc \in {"strategy", "mark", "write", "end"} => open = Cleared

(* Unless something failed, the session file tells of all bars but the one *)
(* in hand.                                                                *)
FileInv ==
    /\ feed.pc = "write" => feed.told = Len(seen)
    /\ Stopping /\ Top.pc = "write" => Top.told = Len(seen)
    /\ \/ feed.pc \in {"mark", "write"} \/ (Stopping /\ Top.pc \in {"mark", "write"})
       \/ dash = Len(seen)

StartInv ==
    main = "starting" =>
        /\ link = "off" /\ ticks = <<>> /\ seen = <<>> /\ dash = 0
        /\ frames = <<>> /\ feed.pc = "idle"

Orderly ==
    /\ TurnInv
    /\ failed \/ FileInv
    /\ CandleInv(Line, open, InFlight, ticks, stop, main = "exited" /\ failed)

IInv ==
    /\ TypeInv /\ StartInv /\ NothingLost
    /\ ~ raced => Orderly
-----------------------------------------------------------------------------
(* Sequences. *)

(* Giving the first of the bars that wait leaves the line as it is. *)
LEMMA Handed ==
    ASSUME NEW S, NEW given \in Seq(S), NEW rest \in Seq(S), rest # <<>>
    PROVE  /\ Head(rest) \in S /\ Tail(rest) \in Seq(S)
           /\ Append(given, Head(rest)) \in Seq(S)
           /\ Len(Append(given, Head(rest))) = Len(given) + 1
           /\ Append(given, Head(rest)) \o Tail(rest) = given \o rest
           /\ Len(given) + 1 <= Len(given \o rest)
           /\ \A i \in 1..(Len(given) + 1) :
                 Append(given, Head(rest))[i] = (given \o rest)[i]
<1>1. /\ Head(rest) \in S /\ Tail(rest) \in Seq(S) /\ Len(rest) >= 1
      /\ Len(Tail(rest)) = Len(rest) - 1 /\ Head(rest) = rest[1]
      /\ \A i \in 1..Len(Tail(rest)) : Tail(rest)[i] = rest[i + 1]
  OBVIOUS
<1> DEFINE more == Append(given, Head(rest))
<1>2. /\ more \in Seq(S) /\ Len(more) = Len(given) + 1
      /\ \A i \in 1..Len(given) : more[i] = given[i]
      /\ more[Len(given) + 1] = rest[1]
  BY <1>1
<1> HIDE DEF more
<1>3. /\ given \o rest \in Seq(S) /\ Len(given \o rest) = Len(given) + Len(rest)
      /\ \A i \in 1..Len(given) : (given \o rest)[i] = given[i]
      /\ \A i \in (Len(given) + 1)..(Len(given) + Len(rest)) :
            (given \o rest)[i] = rest[i - Len(given)]
  BY ConcatProperties
<1>4. /\ more \o Tail(rest) \in Seq(S)
      /\ Len(more \o Tail(rest)) = Len(given) + Len(rest)
      /\ \A i \in 1..Len(more) : (more \o Tail(rest))[i] = more[i]
      /\ \A i \in (Len(more) + 1)..(Len(given) + Len(rest)) :
            (more \o Tail(rest))[i] = Tail(rest)[i - Len(more)]
  <2> DEFINE tail == Tail(rest)
  <2>1. tail \in Seq(S) /\ Len(tail) = Len(rest) - 1  BY <1>1
  <2> HIDE DEF tail
  <2>2. /\ more \o tail \in Seq(S) /\ Len(more \o tail) = Len(more) + Len(tail)
        /\ \A i \in 1..(Len(more) + Len(tail)) :
              (more \o tail)[i] = IF i <= Len(more) THEN more[i] ELSE tail[i - Len(more)]
    BY <1>2, <2>1, ConcatProperties
  <2>3. Len(given) \in Nat /\ Len(rest) \in Nat /\ Len(more) + Len(tail) = Len(given) + Len(rest)
    BY <1>2, <2>1, LenProperties
  <2> QED  BY <1>2, <2>2, <2>3 DEF tail
<1>5. \A i \in 1..(Len(given) + 1) : more[i] = (given \o rest)[i]
  BY <1>1, <1>2, <1>3
<1>6. more \o Tail(rest) = given \o rest
  <2>1. ASSUME NEW i \in 1..(Len(given) + Len(rest))
        PROVE  (more \o Tail(rest))[i] = (given \o rest)[i]
    <3>1. CASE i <= Len(given) + 1  BY <1>1, <1>2, <1>4, <1>5, <3>1
    <3>2. CASE i > Len(given) + 1
      <4>1. i - Len(more) \in 1..Len(Tail(rest)) /\ i - Len(more) + 1 = i - Len(given)
        BY <1>1, <1>2, <3>2
      <4>2. (more \o Tail(rest))[i] = Tail(rest)[i - Len(more)]
        BY <1>1, <1>2, <1>4, <3>2
      <4>3. Tail(rest)[i - Len(more)] = rest[i - Len(given)]  BY <1>1, <4>1
      <4>4. (given \o rest)[i] = rest[i - Len(given)]  BY <1>1, <1>3, <3>2
      <4> QED  BY <4>2, <4>3, <4>4
    <3>3. i <= Len(given) + 1 \/ i > Len(given) + 1  OBVIOUS
    <3> QED  BY <3>1, <3>2, <3>3
  <2> QED  BY <1>3, <1>4, <2>1, SeqEqual
<1> QED  BY <1>1, <1>2, <1>3, <1>5, <1>6 DEF more

(* Sequences of length one. *)
LEMMA OneItem ==
    ASSUME NEW S, NEW s \in Seq(S)
    PROVE  /\ Len(s) \in Nat /\ (s # <<>> => Len(s) >= 1)
           /\ (Len(s) = 1 => Tail(s) = <<>> /\ SubSeq(s, 1, 0) = <<>>)
<1>1. Len(s) \in Nat /\ (s # <<>> => Len(s) >= 1)  OBVIOUS
<1>2. ASSUME Len(s) = 1 PROVE Tail(s) = <<>> /\ SubSeq(s, 1, 0) = <<>>
  <2>1. Tail(s) \in Seq(S) /\ Len(Tail(s)) = 0  BY <1>1, <1>2
  <2>2. Tail(s) = <<>>
    <3> DEFINE t == Tail(s)
    <3>1. t \in Seq(S) /\ Len(t) = 0  BY <2>1
    <3> HIDE DEF t
    <3>2. t = <<>>  BY <3>1, EmptySeq
    <3> QED  BY <3>2 DEF t
  <2>3. SubSeq(s, 1, 0) = <<>>  OBVIOUS
  <2> QED  BY <2>2, <2>3
<1> QED  BY <1>1, <1>2

(* The bars of a flush: every open candle once. *)
LEMMA FlushedOnce ==
    ASSUME FiniteSymbols, NEW op \in [Symbols -> Bars \cup {NoCandle}],
           \A s \in Symbols : op[s] # NoCandle => op[s].symbol = s
    PROVE  LET bars == SetToSeq({op[s] : s \in {t \in Symbols : op[t] # NoCandle}})
           IN  /\ bars \in Seq(Bars)
               /\ \A i \in 1..Len(bars) : \E s \in Symbols : op[s] # NoCandle /\ bars[i] = op[s]
               /\ \A i, j \in 1..Len(bars) : i # j => bars[i].symbol # bars[j].symbol
               /\ \A s \in Symbols : op[s] # NoCandle => \E i \in 1..Len(bars) : bars[i] = op[s]
<1> DEFINE T == {t \in Symbols : op[t] # NoCandle}
           S == {op[s] : s \in T}
           n == Cardinality(S)
           bars == SetToSeq(S)
<1>1. IsFiniteSet(T)  BY FS_Subset DEF FiniteSymbols
<1>2. IsFiniteSet(S)
  <2> DEFINE f == [t \in T |-> op[t]]
  <2>1. f \in Surjection(T, S)  BY DEF Surjection
  <2> HIDE DEF f, T, S
  <2> QED  BY <1>1, <2>1, FS_Surjection
<1>3. S \subseteq Bars  OBVIOUS
<1>4. \A x \in S, y \in S : x.symbol = y.symbol => x = y  OBVIOUS
<1>5. \A x \in S : \E s \in Symbols : op[s] # NoCandle /\ x = op[s]  OBVIOUS
<1>6. \A s \in Symbols : op[s] # NoCandle => op[s] \in S  OBVIOUS
<1> HIDE DEF S
<1>7. n \in Nat /\ \E f \in [1..n -> S] : IsInjective(f) /\ \A x \in S : \E i \in 1..n : f[i] = x
  <2>1. n \in Nat /\ ExistsBijection(1..n, S)  BY <1>2, FS_CardinalityType
  <2>2. PICK f : f \in Bijection(1..n, S)  BY <2>1 DEF ExistsBijection
  <2> QED  BY <2>1, <2>2 DEF Bijection, Injection, Surjection, IsInjective
<1>8. bars \in [1..n -> S] /\ IsInjective(bars)  BY <1>7 DEF SetToSeq
<1>9. \A x \in S : \E i \in 1..n : bars[i] = x
  <2>1. bars \in Injection(1..n, S)  BY <1>8 DEF Injection
  <2>2. Cardinality(1..n) = n  BY <1>7, FS_Interval
  <2>3. bars \in Surjection(1..n, S)  BY <1>2, <2>1, <2>2, FS_Injection
  <2> HIDE DEF bars, n
  <2> QED  BY <2>3 DEF Surjection
<1> HIDE DEF bars, n
<1>10. bars \in Seq(Bars) /\ Len(bars) = n  BY <1>3, <1>7, <1>8
<1>11. \A i, j \in 1..n : i # j => bars[i].symbol # bars[j].symbol
  BY <1>4, <1>8 DEF IsInjective
<1> QED  BY <1>5, <1>6, <1>8, <1>9, <1>10, <1>11 DEF bars, S
-----------------------------------------------------------------------------
(* What the steps that move ticks do to the candles. *)

(* on_tick: nothing is folded yet, and no completed bar has lost a tick,   *)
(* since its symbol has a later one.                                       *)
LEMMA TickArrives ==
    ASSUME NEW ln \in Seq(Bars), NEW op \in Tables, NEW tk \in Seq(AllTicks),
           NEW t \in AllTicks, CandleInv(ln, op, FALSE, tk, FALSE, FALSE)
    PROVE  CandleInv(ln, op, TRUE, Append(tk, t), FALSE, FALSE)
<1> DEFINE more == Append(tk, t)
<1>1. /\ Len(tk) \in Nat /\ Len(more) = Len(tk) + 1 /\ more[Len(tk) + 1] = t
      /\ \A n \in 1..Len(tk) : more[n] = tk[n]
      /\ \A n \in 1..Len(tk) : tk[n] \in AllTicks
  OBVIOUS
<1> HIDE DEF more
<1>2. Folding(TRUE, more) = 1..Len(tk) /\ Folding(FALSE, tk) = 1..Len(tk)
  BY <1>1 DEF Folding
<1>3. ASSUME NEW c, Own(c, FALSE, tk) PROVE Own(c, TRUE, more)
  <2>1. c.ticks \subseteq 1..Len(tk)  BY <1>2, <1>3 DEF Own
  <2>2. \A n \in c.ticks : more[n] = tk[n]  BY <1>1, <2>1
  <2>3. c \in Bars /\ c.ticks \subseteq Folding(TRUE, more)  BY <1>2, <1>3, <2>1 DEF Own
  <2>4. \A n \in c.ticks : more[n].symbol = c.symbol /\ more[n].bucket = c.bucket
    BY <1>3, <2>2 DEF Own
  <2> QED  BY <2>3, <2>4 DEF Own
<1>4. Sound(ln, op, TRUE, more) /\ Apart(ln, op)
  BY <1>3 DEF CandleInv, Sound
<1>5. Held(ln, op, TRUE, more)  BY <1>2 DEF CandleInv, Held
<1>6. ASSUME Ordered(more)
      PROVE  /\ \A i \in 1..Len(ln) : Closed(ln[i], TRUE, more, FALSE)
             /\ Latest(op, TRUE, more, FALSE) /\ Rising(ln, op)
  <2>1. Ordered(tk)
    <3> SUFFICES ASSUME NEW i \in 1..Len(tk), NEW j \in 1..Len(tk), i < j,
                        tk[i].symbol = tk[j].symbol
                 PROVE  tk[i].bucket <= tk[j].bucket
      BY DEF Ordered
    <3>1. i \in 1..Len(more) /\ j \in 1..Len(more) /\ more[i] = tk[i] /\ more[j] = tk[j]
      BY <1>1
    <3> QED  BY <1>6, <3>1 DEF Ordered
  <2>2. Rising(ln, op) /\ Latest(op, FALSE, tk, FALSE)
        /\ \A i \in 1..Len(ln) : Closed(ln[i], FALSE, tk, FALSE)
    BY <2>1 DEF CandleInv
  <2>3. Latest(op, TRUE, more, FALSE)
    <3>1. ASSUME NEW s \in Symbols, op[s] # NoCandle
          PROVE  op[s].ticks = {n \in 1..Len(tk) :
                                  more[n].symbol = s /\ more[n].bucket = op[s].bucket}
      <4>1. op[s].ticks = {n \in 1..Len(tk) :
                             tk[n].symbol = s /\ tk[n].bucket = op[s].bucket}
        BY <1>2, <2>2, <3>1 DEF Latest
      <4> HIDE DEF CandleInv
      <4> QED  BY <1>1, <4>1
    <3>2. ASSUME NEW n \in 1..Len(tk)
          PROVE  op[more[n].symbol] # NoCandle /\ more[n].bucket <= op[more[n].symbol].bucket
      <4>1. more[n] = tk[n]  BY <1>1
      <4>2. op[tk[n].symbol] # NoCandle /\ tk[n].bucket <= op[tk[n].symbol].bucket
        BY <1>2, <2>2 DEF Latest
      <4> QED  BY <4>1, <4>2
    <3> QED  BY <1>2, <3>1, <3>2 DEF Latest
  <2>4. ASSUME NEW i \in 1..Len(ln) PROVE Closed(ln[i], TRUE, more, FALSE)
    <3> DEFINE c == ln[i]
    <3>1. c \in Bars /\ Closed(c, FALSE, tk, FALSE)
      <4>1. ln[i] \in Bars  OBVIOUS
      <4> QED  BY <2>2, <4>1
    <3> HIDE DEF c
    <3>2. PICK m \in 1..Len(tk) : tk[m].symbol = c.symbol /\ c.bucket < tk[m].bucket
      BY <1>2, <3>1 DEF Closed
    <3>3. ~ (t.symbol = c.symbol /\ t.bucket = c.bucket)
      <4>1. m \in 1..Len(more) /\ Len(tk) + 1 \in 1..Len(more) /\ m < Len(tk) + 1
            /\ more[m] = tk[m] /\ more[Len(tk) + 1] = t
        BY <1>1
      <4>2. t.symbol = tk[m].symbol => tk[m].bucket <= t.bucket
        BY <1>6, <4>1 DEF Ordered
      <4>3. c.bucket \in Nat /\ tk[m].bucket \in Nat /\ t.bucket \in Nat
        BY <1>1, <3>1, BucketAssumption DEF Bars, AllTicks
      <4> QED  BY <3>2, <4>2, <4>3
    <3>4. {n \in 1..Len(more) : more[n].symbol = c.symbol /\ more[n].bucket = c.bucket}
            = {n \in 1..Len(tk) : tk[n].symbol = c.symbol /\ tk[n].bucket = c.bucket}
      BY <1>1, <3>3
    <3>5. \E n \in Folding(TRUE, more) :
             more[n].symbol = c.symbol /\ c.bucket < more[n].bucket
      BY <1>1, <1>2, <3>2
    <3>6. Closed(c, TRUE, more, FALSE)  BY <3>1, <3>4, <3>5 DEF Closed
    <3> QED  BY <3>6 DEF c
  <2> QED  BY <2>2, <2>3, <2>4
<1> QED  BY <1>4, <1>5, <1>6 DEF CandleInv, more

(* The event is set: from now on no tick comes. *)
LEMMA StopIsSet ==
    ASSUME NEW ln, NEW op, NEW fl, NEW tk, NEW st,
           CandleInv(ln, op, fl, tk, st, FALSE)
    PROVE  CandleInv(ln, op, fl, tk, TRUE, FALSE)
BY DEF CandleInv, Closed, Latest

(* The strategy raised in the handler: the bars that waited are lost. *)
LEMMA RestIsLost ==
    ASSUME NEW ln \in Seq(Bars), NEW part \in Seq(Bars), NEW op, NEW fl, NEW tk, NEW st,
           Len(part) <= Len(ln), \A i \in 1..Len(part) : part[i] = ln[i],
           CandleInv(ln, op, fl, tk, st, FALSE)
    PROVE  CandleInv(part, op, fl, tk, st, TRUE)
<1>1. 1..Len(part) \subseteq 1..Len(ln)  OBVIOUS
<1>2. Sound(part, op, fl, tk) /\ Apart(part, op)  BY <1>1 DEF CandleInv, Sound, Apart
<1>3. ASSUME Ordered(tk)
      PROVE  /\ \A i \in 1..Len(part) : Closed(part[i], fl, tk, st)
             /\ Latest(op, fl, tk, st) /\ Rising(part, op)
  BY <1>1, <1>3 DEF CandleInv, Rising
<1> QED  BY <1>2, <1>3 DEF CandleInv

(* What has been folded stays folded. *)
LEMMA FoldedStays ==
    ASSUME NEW tk \in Seq(AllTicks), tk # <<>>, NEW c
    PROVE  /\ Folding(TRUE, tk) = 1..(Len(tk) - 1) /\ Folding(FALSE, tk) = 1..Len(tk)
           /\ Len(tk) \in 1..Len(tk) /\ Len(tk) \notin 1..(Len(tk) - 1)
           /\ 1..(Len(tk) - 1) \subseteq 1..Len(tk)
           /\ \A n \in 1..Len(tk) : n \in 1..(Len(tk) - 1) \/ n = Len(tk)
           /\ Own(c, TRUE, tk) => Own(c, FALSE, tk) /\ Len(tk) \notin c.ticks
           /\ Closed(c, TRUE, tk, FALSE) => Closed(c, FALSE, tk, FALSE)
<1>1. Folding(TRUE, tk) = 1..(Len(tk) - 1) /\ Folding(FALSE, tk) = 1..Len(tk)
  BY DEF Folding
<1>2. /\ Len(tk) \in 1..Len(tk) /\ Len(tk) \notin 1..(Len(tk) - 1)
      /\ 1..(Len(tk) - 1) \subseteq 1..Len(tk)
      /\ \A n \in 1..Len(tk) : n \in 1..(Len(tk) - 1) \/ n = Len(tk)
  <2>1. Len(tk) \in Nat /\ Len(tk) >= 1  OBVIOUS
  <2> QED  BY <2>1
<1>3. Own(c, TRUE, tk) => Own(c, FALSE, tk) /\ Len(tk) \notin c.ticks
  BY <1>1, <1>2 DEF Own
<1>4. Closed(c, TRUE, tk, FALSE) => Closed(c, FALSE, tk, FALSE)
  BY <1>1, <1>2 DEF Closed
<1> QED  BY <1>1, <1>2, <1>3, <1>4

(* add_tick: the tick is folded into the open candle of its interval, or   *)
(* opens one and completes the other.                                      *)
LEMMA TickFolds ==
    ASSUME NEW ln \in Seq(Bars), NEW op \in Tables, NEW tk \in Seq(AllTicks), tk # <<>>,
           NEW T \in AllTicks, T = tk[Len(tk)], NEW ln2 \in Seq(Bars), NEW c \in Bars,
           CandleInv(ln, op, TRUE, tk, FALSE, FALSE),
           c.symbol = T.symbol, c.bucket = T.bucket,
           \/ ln2 = ln /\ op[T.symbol] = NoCandle /\ c.ticks = {Len(tk)}
           \/ /\ ln2 = ln /\ op[T.symbol] # NoCandle /\ op[T.symbol].bucket = T.bucket
              /\ c.ticks = op[T.symbol].ticks \cup {Len(tk)}
           \/ /\ op[T.symbol] # NoCandle /\ op[T.symbol].bucket # T.bucket
              /\ ln2 = Append(ln, op[T.symbol]) /\ c.ticks = {Len(tk)},
           NoCandle \notin Bars
    PROVE  CandleInv(ln2, [op EXCEPT ![T.symbol] = c], FALSE, tk, FALSE, FALSE)
<1> DEFINE s == T.symbol
           old == op[s]
           op2 == [op EXCEPT ![s] = c]
           L == Len(tk)
           moved == old # NoCandle /\ old.bucket # T.bucket
           joined == old # NoCandle /\ old.bucket = T.bucket
<1>1. /\ L \in Nat /\ L \in 1..L /\ s \in Symbols /\ T.bucket \in Nat
      /\ \A n \in 1..L : tk[n] \in AllTicks /\ tk[n].symbol \in Symbols /\ tk[n].bucket \in Nat
  <2>1. L \in Nat /\ L \in 1..L /\ \A n \in 1..L : tk[n] \in AllTicks  BY FoldedStays
  <2> QED  BY <2>1, BucketAssumption DEF AllTicks
<1>2. /\ Folding(TRUE, tk) = 1..(L - 1) /\ Folding(FALSE, tk) = 1..L
      /\ 1..(L - 1) \subseteq 1..L /\ \A n \in 1..L : n \in 1..(L - 1) \/ n = L
      /\ L \notin 1..(L - 1)
  BY FoldedStays
<1>3. /\ op2[s] = c /\ c # NoCandle /\ \A x \in Symbols : x # s => op2[x] = op[x]
      /\ \A x \in Symbols : op[x] # NoCandle => op[x] \in Bars
  BY <1>1 DEF Tables
<1>4. /\ Sound(ln, op, TRUE, tk) /\ Apart(ln, op) /\ Held(ln, op, TRUE, tk)
      /\ Ordered(tk) => /\ \A i \in 1..Len(ln) : Closed(ln[i], TRUE, tk, FALSE)
                        /\ Latest(op, TRUE, tk, FALSE) /\ Rising(ln, op)
  BY DEF CandleInv
<1>5. /\ ~ joined => c.ticks = {L}
      /\ joined => c.ticks = old.ticks \cup {L}
  OBVIOUS
<1>6. /\ Len(ln) \in Nat /\ 1..Len(ln) \subseteq 1..Len(ln2)
      /\ \A i \in 1..Len(ln) : ln2[i] = ln[i]
      /\ \A i \in 1..Len(ln2) : \/ i \in 1..Len(ln)
                                \/ moved /\ i = Len(ln) + 1 /\ ln2[i] = old
      /\ moved => Len(ln) + 1 \in 1..Len(ln2) /\ ln2[Len(ln) + 1] = old
  <2>1. CASE ~ moved
    <3>1. ln2 = ln  BY <2>1
    <3> QED  BY <2>1, <3>1
  <2>2. CASE moved
    <3>1. ln2 = Append(ln, old) /\ old \in Bars  BY <1>1, <1>3, <2>2
    <3> HIDE DEF old
    <3>2. /\ Len(ln) \in Nat /\ Len(ln2) = Len(ln) + 1 /\ ln2[Len(ln) + 1] = old
          /\ \A i \in 1..Len(ln) : ln2[i] = ln[i]
      BY <3>1
    <3> QED  BY <2>2, <3>2
  <2> QED  BY <2>1, <2>2
<1>7. /\ \A i \in 1..Len(ln) : Own(ln[i], FALSE, tk) /\ L \notin ln[i].ticks
      /\ \A x \in Symbols : op[x] # NoCandle =>
            Own(op[x], FALSE, tk) /\ L \notin op[x].ticks /\ op[x].symbol = x
  BY <1>4, FoldedStays DEF Sound
<1> HIDE DEF op2, old, L, s
<1>8. Own(c, FALSE, tk)
  <2>1. tk[L].symbol = c.symbol /\ tk[L].bucket = c.bucket  BY DEF L
  <2>2. CASE joined
    <3>1. Own(old, FALSE, tk) /\ old.symbol = c.symbol /\ old.bucket = c.bucket
      BY <1>1, <1>7, <2>2 DEF old, s
    <3>2. c.ticks \subseteq 1..L  BY <1>1, <1>2, <1>5, <2>2, <3>1 DEF Own
    <3>3. \A n \in c.ticks : tk[n].symbol = c.symbol /\ tk[n].bucket = c.bucket
      BY <1>5, <2>1, <2>2, <3>1 DEF Own
    <3> QED  BY <1>2, <3>2, <3>3 DEF Own
  <2>3. CASE ~ joined  BY <1>1, <1>2, <1>5, <2>1, <2>3 DEF Own
  <2> QED  BY <2>2, <2>3
<1>9. Sound(ln2, op2, FALSE, tk)
  <2>1. ASSUME NEW i \in 1..Len(ln2) PROVE Own(ln2[i], FALSE, tk)
    BY <1>1, <1>6, <1>7 DEF old, s
  <2>2. ASSUME NEW x \in Symbols, op2[x] # NoCandle
        PROVE  Own(op2[x], FALSE, tk) /\ op2[x].symbol = x
    <3>1. CASE x = s  BY <1>3, <1>8, <3>1 DEF s
    <3>2. CASE x # s  BY <1>3, <1>7, <2>2, <3>2
    <3> QED  BY <3>1, <3>2
  <2> QED  BY <2>1, <2>2 DEF Sound
<1>10. Apart(ln2, op2)
  <2>1. \A i, j \in 1..Len(ln) : i # j => ln[i].ticks \cap ln[j].ticks = {}
    BY <1>4 DEF Apart
  <2>2. \A i \in 1..Len(ln), x \in Symbols :
           op[x] # NoCandle => ln[i].ticks \cap op[x].ticks = {}
    BY <1>4 DEF Apart
  <2>3. moved => \A i \in 1..Len(ln) : ln[i].ticks \cap old.ticks = {}
    BY <1>1, <2>2 DEF old
  <2>4. ASSUME NEW i \in 1..Len(ln2), NEW j \in 1..Len(ln2), i # j
        PROVE  ln2[i].ticks \cap ln2[j].ticks = {}
    BY <1>6, <2>1, <2>3, <2>4
  <2>5. ASSUME NEW i \in 1..Len(ln2), NEW x \in Symbols, op2[x] # NoCandle
        PROVE  ln2[i].ticks \cap op2[x].ticks = {}
    <3>1. CASE x # s
      <4>1. op2[x] = op[x] /\ op[x] # NoCandle  BY <1>3, <2>5, <3>1
      <4>2. CASE i \in 1..Len(ln)  BY <1>6, <2>2, <4>1, <4>2
      <4>3. CASE moved /\ ln2[i] = old
        <5>1. Own(op[x], FALSE, tk) /\ op[x].symbol = x  BY <1>7, <4>1
        <5>2. Own(old, FALSE, tk) /\ old.symbol = s  BY <1>1, <1>7, <4>3 DEF old
        <5>3. \A n \in op[x].ticks : tk[n].symbol = x  BY <5>1 DEF Own
        <5>4. \A n \in old.ticks : tk[n].symbol = s  BY <5>2 DEF Own
        <5> QED  BY <3>1, <4>1, <4>3, <5>3, <5>4
      <4> QED  BY <1>6, <4>2, <4>3
    <3>2. CASE x = s
      <4>1. op2[x].ticks = c.ticks  BY <1>3, <3>2
      <4>2. CASE i \in 1..Len(ln)
        <5>1. L \notin ln[i].ticks /\ ln2[i] = ln[i]  BY <1>6, <1>7, <4>2
        <5>2. joined => ln[i].ticks \cap old.ticks = {}  BY <1>1, <2>2, <4>2 DEF old
        <5> QED  BY <1>5, <4>1, <5>1, <5>2
      <4>3. CASE moved /\ ln2[i] = old
        <5>1. L \notin old.ticks  BY <1>1, <1>7, <4>3 DEF old
        <5> QED  BY <1>5, <4>1, <4>3, <5>1
      <4> QED  BY <1>6, <4>2, <4>3
    <3> QED  BY <3>1, <3>2
  <2> QED  BY <2>4, <2>5 DEF Apart
<1>11. Held(ln2, op2, FALSE, tk)
  <2> SUFFICES ASSUME NEW n \in 1..L
               PROVE  \/ \E i \in 1..Len(ln2) : n \in ln2[i].ticks
                      \/ \E x \in Symbols : op2[x] # NoCandle /\ n \in op2[x].ticks
    BY <1>2 DEF Held
  <2>1. CASE n = L
    <3>1. n \in c.ticks  BY <1>5, <2>1
    <3> QED  BY <1>1, <1>3, <3>1
  <2>2. CASE n \in 1..(L - 1)
    <3>1. \/ \E i \in 1..Len(ln) : n \in ln[i].ticks
          \/ \E x \in Symbols : op[x] # NoCandle /\ n \in op[x].ticks
      BY <1>2, <1>4, <2>2 DEF Held
    <3>2. CASE \E i \in 1..Len(ln) : n \in ln[i].ticks  BY <1>6, <3>2
    <3>3. CASE \E x \in Symbols : op[x] # NoCandle /\ n \in op[x].ticks
      <4>1. PICK x \in Symbols : op[x] # NoCandle /\ n \in op[x].ticks  BY <3>3
      <4>2. CASE x # s  BY <1>3, <4>1, <4>2
      <4>3. CASE x = s
        <5>1. n \in old.ticks /\ old # NoCandle  BY <4>1, <4>3 DEF old
        <5>2. CASE joined  BY <1>1, <1>3, <1>5, <5>1, <5>2
        <5>3. CASE moved  BY <1>6, <5>1, <5>3
        <5> QED  BY <5>1, <5>2, <5>3
      <4> QED  BY <4>2, <4>3
    <3> QED  BY <3>1, <3>2, <3>3
  <2> QED  BY <1>2, <2>1, <2>2
<1>12. ASSUME Ordered(tk)
       PROVE  /\ \A i \in 1..Len(ln2) : Closed(ln2[i], FALSE, tk, FALSE)
              /\ Latest(op2, FALSE, tk, FALSE) /\ Rising(ln2, op2)
  <2>1. /\ \A i \in 1..Len(ln) : Closed(ln[i], TRUE, tk, FALSE)
        /\ Latest(op, TRUE, tk, FALSE) /\ Rising(ln, op)
    BY <1>4, <1>12
  <2>2. \A n \in 1..L : tk[n].symbol = s => tk[n].bucket <= T.bucket
    <3> SUFFICES ASSUME NEW n \in 1..(L - 1), tk[n].symbol = s
                 PROVE  tk[n].bucket <= T.bucket
      BY <1>1, <1>2 DEF L
    <3>1. n \in 1..L /\ n < L  BY <1>1
    <3> QED  BY <1>1, <1>12, <3>1 DEF Ordered, L, s
  <2>3. tk[L].symbol = s /\ tk[L].bucket = T.bucket  BY DEF L, s
  <2>4. ASSUME moved PROVE old.bucket < T.bucket /\ old.bucket \in Nat /\ old.symbol = s
    <3>1. old \in Bars /\ Own(old, FALSE, tk) /\ old.symbol = s
      BY <1>1, <1>3, <1>7, <2>4 DEF old
    <3>2. PICK n \in old.ticks : TRUE  BY <3>1 DEF Bars
    <3>3. n \in 1..L /\ tk[n].symbol = s /\ tk[n].bucket = old.bucket
      BY <1>2, <3>1 DEF Own
    <3>4. old.bucket \in Nat  BY <3>1, BucketAssumption DEF Bars
    <3> QED  BY <1>1, <2>2, <2>4, <3>1, <3>3, <3>4
  <2>5. ASSUME NEW x \in Symbols, op[x] # NoCandle
        PROVE  op[x].ticks = {n \in 1..(L - 1) : tk[n].symbol = x /\ tk[n].bucket = op[x].bucket}
    BY <1>2, <2>1, <2>5 DEF Latest
  <2>6. ASSUME NEW n \in 1..(L - 1)
        PROVE  op[tk[n].symbol] # NoCandle /\ tk[n].bucket <= op[tk[n].symbol].bucket
    BY <1>2, <2>1 DEF Latest
  <2>7. ASSUME NEW i \in 1..Len(ln2) PROVE Closed(ln2[i], FALSE, tk, FALSE)
    <3>1. CASE i \in 1..Len(ln)
      <4>1. Closed(ln[i], FALSE, tk, FALSE)  BY <2>1, <3>1, FoldedStays
      <4> QED  BY <1>6, <3>1, <4>1
    <3>2. CASE moved /\ ln2[i] = old
      <4>1. old.ticks = {n \in 1..(L - 1) : tk[n].symbol = s /\ tk[n].bucket = old.bucket}
        BY <1>1, <2>5, <3>2 DEF old
      <4>2. tk[L].bucket # old.bucket /\ old.symbol = s  BY <2>3, <2>4, <3>2
      <4>3. old.ticks = {n \in 1..L : tk[n].symbol = old.symbol /\ tk[n].bucket = old.bucket}
        BY <1>2, <4>1, <4>2
      <4>4. tk[L].symbol = old.symbol /\ old.bucket < tk[L].bucket  BY <2>3, <2>4, <3>2
      <4>5. Closed(old, FALSE, tk, FALSE)  BY <1>1, <1>2, <4>3, <4>4 DEF Closed, L
      <4> QED  BY <3>2, <4>5
    <3> QED  BY <1>6, <3>1, <3>2
  <2>8. Latest(op2, FALSE, tk, FALSE)
    <3>1. ASSUME NEW x \in Symbols, op2[x] # NoCandle
          PROVE  op2[x].ticks = {n \in 1..L : tk[n].symbol = x /\ tk[n].bucket = op2[x].bucket}
      <4>1. CASE x # s
        <5>1. op2[x] = op[x] /\ op[x] # NoCandle  BY <1>3, <3>1, <4>1
        <5>2. op[x].ticks = {n \in 1..(L - 1) : tk[n].symbol = x /\ tk[n].bucket = op[x].bucket}
          BY <2>5, <5>1
        <5> QED  BY <1>2, <2>3, <4>1, <5>1, <5>2
      <4>2. CASE x = s
        <5>1. op2[x] = c /\ c.bucket = T.bucket  BY <1>3, <4>2
        <5>2. ASSUME NEW n \in 1..(L - 1), tk[n].symbol = s, tk[n].bucket = T.bucket
              PROVE  n \in c.ticks
          <6>1. old # NoCandle /\ tk[n].bucket <= old.bucket  BY <2>6, <5>2 DEF old
          <6>2. ~ moved  BY <1>1, <2>4, <5>2, <6>1
          <6>3. joined  BY <6>1, <6>2
          <6>4. old.ticks = {k \in 1..(L - 1) : tk[k].symbol = s /\ tk[k].bucket = old.bucket}
            BY <1>1, <2>5, <6>1 DEF old
          <6>5. n \in old.ticks  BY <5>2, <6>3, <6>4
          <6> QED  BY <1>5, <6>3, <6>5
        <5>3. ASSUME NEW n \in c.ticks
              PROVE  n \in 1..L /\ tk[n].symbol = s /\ tk[n].bucket = T.bucket
          BY <1>2, <1>8 DEF Own, s
        <5>4. L \in c.ticks  BY <1>5
        <5>5. c.ticks = {n \in 1..L : tk[n].symbol = s /\ tk[n].bucket = T.bucket}
          BY <1>2, <5>2, <5>3, <5>4
        <5> QED  BY <4>2, <5>1, <5>5
      <4> QED  BY <4>1, <4>2
    <3>2. ASSUME NEW n \in 1..L
          PROVE  op2[tk[n].symbol] # NoCandle /\ tk[n].bucket <= op2[tk[n].symbol].bucket
      <4>1. CASE tk[n].symbol = s  BY <1>3, <2>2, <4>1
      <4>2. CASE tk[n].symbol # s
        <5>1. n \in 1..(L - 1)  BY <1>2, <2>3, <4>2
        <5>2. tk[n].symbol \in Symbols  BY <1>1
        <5> QED  BY <1>3, <2>6, <4>2, <5>1, <5>2
      <4> QED  BY <4>1, <4>2
    <3> QED  BY <1>2, <3>1, <3>2 DEF Latest
  <2>9. Rising(ln2, op2)
    <3>1. \A i, j \in 1..Len(ln) :
             (i < j /\ ln[i].symbol = ln[j].symbol) => ln[i].bucket < ln[j].bucket
      BY <2>1 DEF Rising
    <3>2. \A i \in 1..Len(ln), x \in Symbols :
             (op[x] # NoCandle /\ ln[i].symbol = x) => ln[i].bucket < op[x].bucket
      BY <2>1 DEF Rising
    <3>3. moved => \A i \in 1..Len(ln) : ln[i].symbol = s => ln[i].bucket < old.bucket
      BY <1>1, <3>2 DEF old
    <3>4. ASSUME NEW i \in 1..Len(ln), ln[i].symbol = s PROVE ln[i].bucket < T.bucket
      <4>1. Closed(ln[i], TRUE, tk, FALSE)  BY <2>1
      <4>2. PICK m \in 1..(L - 1) : tk[m].symbol = s /\ ln[i].bucket < tk[m].bucket
        BY <1>2, <3>4, <4>1 DEF Closed
      <4>3. m \in 1..L /\ tk[m].bucket <= T.bucket  BY <1>2, <2>2, <4>2
      <4>4. ln[i].bucket \in Nat
        <5>1. ln[i] \in Bars  OBVIOUS
        <5> QED  BY <5>1, BucketAssumption DEF Bars
      <4> QED  BY <1>1, <4>2, <4>3, <4>4
    <3>5. ASSUME NEW i \in 1..Len(ln2), NEW j \in 1..Len(ln2), i < j,
                 ln2[i].symbol = ln2[j].symbol
          PROVE  ln2[i].bucket < ln2[j].bucket
      <4>1. i \in 1..Len(ln) /\ ln2[i] = ln[i]
        <5>1. ~ (i = Len(ln) + 1)
          <6>1. i \in Nat /\ j \in Nat  BY <3>5
          <6>2. j \in 1..Len(ln) \/ j = Len(ln) + 1  BY <1>6
          <6> QED  BY <1>6, <3>5, <6>1, <6>2
        <5> QED  BY <1>6, <5>1
      <4>2. CASE j \in 1..Len(ln)  BY <1>6, <3>1, <3>5, <4>1, <4>2
      <4>3. CASE moved /\ ln2[j] = old  BY <2>4, <3>3, <3>5, <4>1, <4>3
      <4> QED  BY <1>6, <4>2, <4>3
    <3>6. ASSUME NEW i \in 1..Len(ln2), NEW x \in Symbols, op2[x] # NoCandle,
                 ln2[i].symbol = x
          PROVE  ln2[i].bucket < op2[x].bucket
      <4>1. CASE i \in 1..Len(ln)
        <5>1. ln2[i] = ln[i]  BY <1>6, <4>1
        <5>2. CASE x = s  BY <1>3, <3>4, <3>6, <4>1, <5>1, <5>2
        <5>3. CASE x # s  BY <1>3, <3>2, <3>6, <4>1, <5>1, <5>3
        <5> QED  BY <5>2, <5>3
      <4>2. CASE moved /\ ln2[i] = old  BY <1>3, <2>4, <3>6, <4>2
      <4> QED  BY <1>6, <4>1, <4>2
    <3> QED  BY <3>5, <3>6 DEF Rising
  <2> QED  BY <2>7, <2>8, <2>9
<1> QED  BY <1>9, <1>10, <1>11, <1>12 DEF CandleInv, op2, s

(* A flush: all open candles are completed. *)
LEMMA CandlesFlush ==
    ASSUME FiniteSymbols, NEW ln \in Seq(Bars), NEW op \in Tables, NEW tk,
           CandleInv(ln, op, FALSE, tk, TRUE, FALSE)
    PROVE  CandleInv(ln \o SetToSeq({op[s] : s \in {t \in Symbols : op[t] # NoCandle}}),
                     Cleared, FALSE, tk, TRUE, FALSE)
<1> DEFINE bars == SetToSeq({op[s] : s \in {t \in Symbols : op[t] # NoCandle}})
           ln2 == ln \o bars
<1>1. \A s \in Symbols : op[s] # NoCandle => op[s].symbol = s  BY DEF CandleInv, Sound
<1>2. /\ bars \in Seq(Bars)
      /\ \A i \in 1..Len(bars) : \E s \in Symbols : op[s] # NoCandle /\ bars[i] = op[s]
      /\ \A i, j \in 1..Len(bars) : i # j => bars[i].symbol # bars[j].symbol
      /\ \A s \in Symbols : op[s] # NoCandle => \E i \in 1..Len(bars) : bars[i] = op[s]
  BY <1>1, FlushedOnce DEF Tables
<1> HIDE DEF bars
<1>3. /\ Len(ln) \in Nat /\ Len(bars) \in Nat /\ Len(ln2) = Len(ln) + Len(bars)
      /\ \A i \in 1..(Len(ln) + Len(bars)) :
            ln2[i] = IF i <= Len(ln) THEN ln[i] ELSE bars[i - Len(ln)]
  BY <1>2, ConcatProperties
<1> HIDE DEF ln2
<1>4. \A s \in Symbols : Cleared[s] = NoCandle  BY DEF Cleared
<1>5. /\ 1..Len(ln) \subseteq 1..Len(ln2) /\ \A i \in 1..Len(ln) : ln2[i] = ln[i]
      /\ \A k \in 1..Len(bars) : Len(ln) + k \in 1..Len(ln2) /\ ln2[Len(ln) + k] = bars[k]
  BY <1>3
<1>6. \A i \in 1..Len(ln2) : \/ i \in 1..Len(ln)
                             \/ i > Len(ln) /\ i - Len(ln) \in 1..Len(bars)
                                /\ ln2[i] = bars[i - Len(ln)]
  BY <1>3
<1>7. ASSUME NEW i \in 1..Len(ln2)
      PROVE  \/ i \in 1..Len(ln) /\ ln2[i] = ln[i]
             \/ i > Len(ln) /\ \E s \in Symbols : op[s] # NoCandle /\ ln2[i] = op[s]
  BY <1>2, <1>5, <1>6
<1>8. /\ Sound(ln, op, FALSE, tk) /\ Apart(ln, op) /\ Held(ln, op, FALSE, tk)
      /\ Ordered(tk) => /\ \A i \in 1..Len(ln) : Closed(ln[i], FALSE, tk, TRUE)
                        /\ Latest(op, FALSE, tk, TRUE) /\ Rising(ln, op)
  BY DEF CandleInv
<1>9. Sound(ln2, Cleared, FALSE, tk)  BY <1>4, <1>7, <1>8 DEF Sound
<1>10. ASSUME NEW i \in 1..Len(ln2), NEW j \in 1..Len(ln2), i # j,
              i > Len(ln), j > Len(ln)
       PROVE  ln2[i].symbol # ln2[j].symbol
  <2>1. i \in Nat /\ j \in Nat /\ ~ (i \in 1..Len(ln)) /\ ~ (j \in 1..Len(ln))
    BY <1>3, <1>10
  <2>2. /\ i - Len(ln) \in 1..Len(bars) /\ ln2[i] = bars[i - Len(ln)]
        /\ j - Len(ln) \in 1..Len(bars) /\ ln2[j] = bars[j - Len(ln)]
        /\ i - Len(ln) # j - Len(ln)
    BY <1>3, <1>6, <1>10, <2>1
  <2> DEFINE k == i - Len(ln)
             m == j - Len(ln)
  <2>3. k \in 1..Len(bars) /\ m \in 1..Len(bars) /\ k # m  BY <2>2
  <2>4. ln2[i] = bars[k] /\ ln2[j] = bars[m]  BY <2>2
  <2> HIDE DEF k, m
  <2>5. bars[k].symbol # bars[m].symbol  BY <1>2, <2>3
  <2> QED  BY <2>4, <2>5
<1>11. Apart(ln2, Cleared)
  <2>1. ASSUME NEW i \in 1..Len(ln2), NEW j \in 1..Len(ln2), i # j
        PROVE  ln2[i].ticks \cap ln2[j].ticks = {}
    <3>1. CASE i \in 1..Len(ln) \/ j \in 1..Len(ln)
      BY <1>5, <1>7, <1>8, <2>1, <3>1 DEF Apart
    <3>2. CASE i > Len(ln) /\ j > Len(ln)
      <4>1. ln2[i].symbol # ln2[j].symbol  BY <1>10, <2>1, <3>2
      <4>2. Own(ln2[i], FALSE, tk) /\ Own(ln2[j], FALSE, tk)  BY <1>9 DEF Sound
      <4> QED  BY <4>1, <4>2 DEF Own
    <3> QED  BY <1>7, <3>1, <3>2
  <2> QED  BY <1>4, <2>1 DEF Apart
<1>12. Held(ln2, Cleared, FALSE, tk)
  <2> SUFFICES ASSUME NEW n \in Folding(FALSE, tk)
               PROVE  \E i \in 1..Len(ln2) : n \in ln2[i].ticks
    BY DEF Held
  <2>1. \/ \E i \in 1..Len(ln) : n \in ln[i].ticks
        \/ \E s \in Symbols : op[s] # NoCandle /\ n \in op[s].ticks
    BY <1>8 DEF Held
  <2>2. CASE \E i \in 1..Len(ln) : n \in ln[i].ticks  BY <1>5, <2>2
  <2>3. CASE \E s \in Symbols : op[s] # NoCandle /\ n \in op[s].ticks
    <3>1. PICK s \in Symbols : op[s] # NoCandle /\ n \in op[s].ticks  BY <2>3
    <3>2. PICK k \in 1..Len(bars) : bars[k] = op[s]  BY <1>2, <3>1
    <3>3. Len(ln) + k \in 1..Len(ln2) /\ ln2[Len(ln) + k] = op[s]  BY <1>5, <3>2
    <3> QED  BY <3>1, <3>3
  <2> QED  BY <2>1, <2>2, <2>3
<1>13. ASSUME Ordered(tk)
       PROVE  /\ \A i \in 1..Len(ln2) : Closed(ln2[i], FALSE, tk, TRUE)
              /\ Latest(Cleared, FALSE, tk, TRUE) /\ Rising(ln2, Cleared)
  <2>1. /\ \A i \in 1..Len(ln) : Closed(ln[i], FALSE, tk, TRUE)
        /\ Latest(op, FALSE, tk, TRUE) /\ Rising(ln, op)
    BY <1>8, <1>13
  <2>2. ASSUME NEW s \in Symbols, op[s] # NoCandle PROVE Closed(op[s], FALSE, tk, TRUE)
    <3>1. op[s].symbol = s  BY <1>1, <2>2
    <3>2. Folding(FALSE, tk) = 1..Len(tk)  BY DEF Folding
    <3> QED  BY <2>1, <2>2, <3>1, <3>2 DEF Latest, Closed
  <2>3. \A i \in 1..Len(ln2) : Closed(ln2[i], FALSE, tk, TRUE)
    BY <1>7, <2>1, <2>2
  <2>4. Latest(Cleared, FALSE, tk, TRUE)  BY <1>4 DEF Latest
  <2>5. ASSUME NEW i \in 1..Len(ln2), NEW j \in 1..Len(ln2), i < j,
               ln2[i].symbol = ln2[j].symbol
        PROVE  ln2[i].bucket < ln2[j].bucket
    <3>1. i \in Nat /\ j \in Nat /\ i # j  BY <2>5
    <3>2. CASE i > Len(ln)
      <4>1. j > Len(ln)  BY <1>3, <2>5, <3>1, <3>2
      <4> QED  BY <1>10, <2>5, <3>1, <3>2, <4>1
    <3>3. CASE i \in 1..Len(ln) /\ j \in 1..Len(ln)
      BY <1>5, <2>1, <2>5, <3>3 DEF Rising
    <3>4. CASE i \in 1..Len(ln) /\ j > Len(ln)
      <4>1. ~ (j \in 1..Len(ln))  BY <1>3, <3>1, <3>4
      <4>2. PICK s \in Symbols : op[s] # NoCandle /\ ln2[j] = op[s]  BY <1>7, <4>1
      <4>3. ln[i].symbol = s /\ ln2[i] = ln[i]  BY <1>1, <1>5, <2>5, <3>4, <4>2
      <4>4. ln[i].bucket < op[s].bucket  BY <2>1, <3>4, <4>2, <4>3 DEF Rising
      <4> QED  BY <4>2, <4>3, <4>4
    <3> QED  BY <1>7, <3>2, <3>3, <3>4
  <2>6. Rising(ln2, Cleared)  BY <1>4, <2>5 DEF Rising
  <2> QED  BY <2>3, <2>4, <2>6
<1> QED  BY <1>9, <1>11, <1>12, <1>13 DEF CandleInv, ln2, bars
-----------------------------------------------------------------------------
(* Types. *)

(* Changing the frame of the running handler. *)
LEMMA TopChanges ==
    ASSUME TypeInv, frames # <<>>, NEW f, NEW n \in Nat, FrameOk(f, n), Len(seen) <= n, ToTop(f)
    PROVE  /\ frames' \in Seq(Frames) /\ frames' # <<>> /\ Len(frames') = Len(frames)
           /\ Top' = f /\ \A i \in 1..Len(frames') : FrameOk(frames'[i], n)
<1>1. /\ frames \in Seq(Frames) /\ Len(frames) \in 1..Len(frames) /\ Len(frames) \in Nat
      /\ \A i \in 1..Len(frames) : FrameOk(frames[i], Len(seen))
  BY DEF TypeInv
<1>2. Len(seen) \in Nat  BY DEF TypeInv
<1>3. \A i \in 1..Len(frames) : FrameOk(frames[i], n)
  BY <1>1, <1>2 DEF FrameOk, Frames
<1>4. f \in Frames  BY DEF FrameOk
<1>5. frames' = [frames EXCEPT ![Len(frames)] = f]  BY DEF ToTop
<1>6. /\ frames' \in Seq(Frames) /\ Len(frames') = Len(frames)
      /\ frames'[Len(frames)] = f
      /\ \A i \in 1..Len(frames) : i # Len(frames) => frames'[i] = frames[i]
  BY <1>1, <1>4, <1>5
<1> QED  BY <1>1, <1>3, <1>6 DEF Top

(* The running handler and the bars it or the feed's thread has in hand. *)
LEMMA TopOk ==
    ASSUME TypeInv, frames # <<>>
    PROVE  Top \in Frames /\ Top.told <= Len(seen) /\ (Giving(Top) => Top.bars # <<>>)
BY DEF TypeInv, FrameOk, Top

(* GiveBar hands the first of the bars that wait to the strategy. *)
LEMMA BarGiven ==
    ASSUME TypeInv, NEW w, w.bars \in Seq(Bars), w.bars # <<>>, GiveBar(Head(w.bars))
    PROVE  /\ seen' \in Seq(Bars) /\ Len(seen') = Len(seen) + 1
           /\ seen' \o Tail(w.bars) = seen \o w.bars
BY Handed DEF TypeInv, GiveBar

(* More bars and more ticks spoil no type. *)
LEMMA Grows ==
    ASSUME NEW m \in Nat, NEW n \in Nat, m <= n, NEW f, NEW tk
    PROVE  /\ FrameOk(f, m) => FrameOk(f, n)
           /\ FeedOk(f, tk, m) => FeedOk(f, tk, n)
<1>1. FrameOk(f, m) => FrameOk(f, n)  BY DEF FrameOk, Frames
<1>2. FeedOk(f, tk, m) => FeedOk(f, tk, n)  BY DEF FeedOk, Feeds
<1> QED  BY <1>1, <1>2

(* Both threads go on to the next bar alike. *)
LEMMA NextBar ==
    ASSUME NEW w, w.bars \in Seq(Bars), w.bars # <<>>, NEW n \in Nat,
           NEW done, done \notin {"strategy", "mark", "write"}
    PROVE  /\ FrameOk(w, n) /\ done = "end" =>
                 FrameOk(AfterBar(w, done), n) /\ Rest(AfterBar(w, done)) = Tail(w.bars)
           /\ w \in Feeds /\ done = "idle" =>
                 /\ AfterBar(w, done) \in Feeds /\ AfterBar(w, done).told = 0
                 /\ Giving(AfterBar(w, done)) => AfterBar(w, done).bars # <<>>
                 /\ AfterBar(w, done).pc \in {"idle", "strategy"}
                 /\ Rest(AfterBar(w, done)) = Tail(w.bars)
<1> DEFINE rest == Tail(w.bars)
<1>1. rest \in Seq(Bars)  OBVIOUS
<1> HIDE DEF rest
<1>2. AfterBar(w, done) = [w EXCEPT !.pc = IF rest = <<>> THEN done ELSE "strategy",
                                    !.bars = rest, !.told = 0]
  BY DEF AfterBar, rest
<1> DEFINE g == AfterBar(w, done)
<1> HIDE DEF g
<1>3. ASSUME g.pc = (IF rest = <<>> THEN done ELSE "strategy"), g.bars = rest
      PROVE  /\ Rest(g) = rest /\ (Giving(g) => g.bars # <<>>)
             /\ g.pc = done \/ g.pc = "strategy"
  <2>1. CASE rest = <<>>
    <3>1. g.pc = done  BY <1>3, <2>1
    <3> QED  BY <2>1, <3>1 DEF Rest, Giving
  <2>2. CASE rest # <<>>
    <3>1. g.pc = "strategy"  BY <1>3, <2>2
    <3> QED  BY <1>3, <2>2, <3>1 DEF Rest, Giving
  <2> QED  BY <2>1, <2>2
<1>4. ASSUME FrameOk(w, n), done = "end" PROVE FrameOk(g, n) /\ Rest(g) = rest
  <2>1. w \in Frames  BY <1>4 DEF FrameOk
  <2>2. g \in Frames /\ g.pc = (IF rest = <<>> THEN done ELSE "strategy") /\ g.bars = rest
        /\ g.told = 0
    <3> DEFINE pc == IF rest = <<>> THEN done ELSE "strategy"
    <3>1. pc \in {"strategy", "end"}  BY <1>4
    <3>2. g = [w EXCEPT !.pc = pc, !.bars = rest, !.told = 0]  BY <1>2 DEF g
    <3> HIDE DEF pc
    <3>3. g \in Frames /\ g.pc = pc /\ g.bars = rest /\ g.told = 0
      BY <1>1, <1>4, <2>1, <3>1, <3>2 DEF Frames
    <3> QED  BY <3>3 DEF pc
  <2> QED  BY <1>3, <2>2 DEF FrameOk
<1>5. ASSUME w \in Feeds, done = "idle"
      PROVE  /\ g \in Feeds /\ g.told = 0 /\ (Giving(g) => g.bars # <<>>)
             /\ g.pc \in {"idle", "strategy"} /\ Rest(g) = rest
  <2>1. g \in Feeds /\ g.pc = (IF rest = <<>> THEN done ELSE "strategy") /\ g.bars = rest
        /\ g.told = 0
    <3> DEFINE pc == IF rest = <<>> THEN done ELSE "strategy"
    <3>1. pc \in {"strategy", "idle"}  BY <1>5
    <3>2. g = [w EXCEPT !.pc = pc, !.bars = rest, !.told = 0]  BY <1>2 DEF g
    <3> HIDE DEF pc
    <3>3. g \in Feeds /\ g.pc = pc /\ g.bars = rest /\ g.told = 0
      BY <1>1, <1>5, <3>1, <3>2 DEF Feeds
    <3> QED  BY <3>3 DEF pc
  <2> QED  BY <1>3, <1>5, <2>1
<1> QED  BY <1>4, <1>5 DEF rest, g

LEMMA InitTypes == ASSUME Init PROVE TypeInv
<1>1. FeedOk(Idle, <<>>, 0)  BY DEF FeedOk, Feeds, Idle, Giving
<1>2. OpenOk([s \in Symbols |-> NoCandle], <<>>)  BY DEF OpenOk, Tables
<1>3. /\ Len(seen) = 0 /\ Len(frames) = 0 /\ seen = <<>> /\ frames = <<>>
      /\ ticks = <<>> /\ feed = Idle /\ open = [s \in Symbols |-> NoCandle]
  BY DEF Init
<1>4. seen \in Seq(Bars) /\ ticks \in Seq(AllTicks) /\ frames \in Seq(Frames)  BY <1>3
<1>5. FeedOk(feed, ticks, Len(seen)) /\ OpenOk(open, ticks)  BY <1>1, <1>2, <1>3
<1>6. \A i \in 1..Len(frames) : FrameOk(frames[i], Len(seen))  BY <1>3
<1>7. /\ main \in {"starting", "connecting", "connected", "paused", "exited"}
      /\ link \in {"off", "down", "up", "closed"}
  BY DEF Init
<1>8. stop \in BOOLEAN /\ raced \in BOOLEAN /\ failed \in BOOLEAN  BY DEF Init
<1>9. dash \in 0..Len(seen)
  <2>1. dash = 0  BY DEF Init
  <2> QED  BY <1>3, <2>1
<1> QED  BY <1>4, <1>5, <1>6, <1>7, <1>8, <1>9 DEF TypeInv

(* Steps of the main thread and of the socket that touch nothing shared. *)
LEMMA QuietTypes ==
    ASSUME TypeInv, Start \/ Connect \/ Pause \/ OnConnect \/ OnClose PROVE TypeInv'
<1>1. /\ UNCHANGED <<frames, feed, ticks, open, stop, seen, dash, raced, failed>>
      /\ main' \in {"starting", "connecting", "connected", "paused", "exited"}
      /\ link' \in {"off", "down", "up", "closed"}
  BY DEF TypeInv, Start, Connect, Pause, OnConnect, OnClose
<1> QED  BY <1>1 DEF TypeInv

LEMMA SignalTypes == ASSUME TypeInv, Signal PROVE TypeInv'
<1>1. UNCHANGED <<feed, link, ticks, open, stop, seen, dash, failed>>  BY DEF Signal
<1>2. CASE main = "starting"
  BY <1>1, <1>2 DEF Signal, TypeInv
<1>3. CASE main # "starting"
  <2>1. main' = main /\ frames' = Append(frames, Handler) /\ raced' \in BOOLEAN
    BY <1>3 DEF Signal
  <2>2. FrameOk(Handler, Len(seen)) /\ Handler \in Frames
    BY DEF FrameOk, Frames, Handler, Giving, TypeInv
  <2>3. frames' \in Seq(Frames) /\ \A i \in 1..Len(frames') : FrameOk(frames'[i], Len(seen))
    <3> HIDE DEF Handler
    <3> QED  BY <2>1, <2>2 DEF TypeInv
  <2> QED  BY <1>1, <2>1, <2>3 DEF TypeInv
<1> QED  BY <1>2, <1>3

LEMMA OnTickTypes ==
    ASSUME TypeInv, NEW s \in Symbols, NEW bucket \in Buckets, OnTick(s, bucket) PROVE TypeInv'
<1> DEFINE t == [symbol |-> s, bucket |-> bucket]
<1>1. /\ UNCHANGED <<main, frames, link, open, stop, seen, dash, raced, failed>>
      /\ ticks' = Append(ticks, t) /\ feed' = [feed EXCEPT !.pc = "look"] /\ feed.pc = "idle"
  BY DEF OnTick
<1>2. t \in AllTicks  BY DEF AllTicks
<1> HIDE DEF t
<1>3. ticks' \in Seq(AllTicks) /\ ticks' # <<>> /\ 1..Len(ticks) \subseteq 1..Len(ticks')
  <2>1. ticks \in Seq(AllTicks)  BY DEF TypeInv
  <2>2. ticks' \in Seq(AllTicks) /\ Len(ticks') = Len(ticks) + 1  BY <1>1, <1>2, <2>1
  <2> QED  BY <2>1, <2>2
<1>4. feed \in Feeds /\ feed.told <= Len(seen)  BY DEF TypeInv, FeedOk
<1>5. feed' \in Feeds /\ feed'.pc = "look" /\ feed'.told = feed.told
  BY <1>1, <1>4 DEF Feeds
<1>6. FeedOk(feed', ticks', Len(seen))  BY <1>3, <1>4, <1>5 DEF FeedOk, Giving
<1>7. OpenOk(open, ticks')  BY <1>3 DEF TypeInv, OpenOk
<1> QED  BY <1>1, <1>3, <1>6, <1>7 DEF TypeInv

(* What add_tick finds and makes. *)
LEMMA FoldFacts ==
    ASSUME TypeInv, feed.pc = "fold"
    PROVE  /\ ticks # <<>> /\ Tick \in AllTicks /\ Len(ticks) \in 1..Len(ticks)
           /\ feed.old \in Bars \cup {NoCandle} /\ feed \in Feeds
           /\ feed.old # NoCandle =>
                 feed.old.symbol = Tick.symbol /\ feed.old.ticks \subseteq 1..Len(ticks)
           /\ Folded \in Bars /\ Folded.symbol = Tick.symbol /\ Folded.bucket = Tick.bucket
           /\ Folded.ticks = IF SameBucket THEN feed.old.ticks \cup {Len(ticks)} ELSE {Len(ticks)}
<1>1. /\ ticks \in Seq(AllTicks) /\ ticks # <<>> /\ feed \in Feeds
      /\ feed.old # NoCandle =>
            feed.old.symbol = Tick.symbol /\ feed.old.ticks \subseteq 1..Len(ticks)
  BY DEF TypeInv, FeedOk, Tick
<1>2. Len(ticks) \in 1..Len(ticks) /\ Len(ticks) \in Nat /\ Tick \in AllTicks
  BY <1>1 DEF Tick
<1>3. feed.old \in Bars \cup {NoCandle}  BY <1>1 DEF Feeds
<1>4. CASE SameBucket
  <2> DEFINE old == feed.old
             more == old.ticks \cup {Len(ticks)}
  <2>1. old \in Bars /\ old.symbol = Tick.symbol /\ old.bucket = Tick.bucket
    BY <1>1, <1>3, <1>4 DEF SameBucket
  <2>2. Folded = [old EXCEPT !.ticks = more]  BY <1>4 DEF Folded
  <2> HIDE DEF old
  <2>3. more \in (SUBSET Nat) \ {{}}  BY <1>2, <2>1 DEF Bars
  <2> HIDE DEF more
  <2>4. Folded \in Bars /\ Folded.symbol = old.symbol /\ Folded.bucket = old.bucket
        /\ Folded.ticks = more
    BY <2>1, <2>2, <2>3 DEF Bars
  <2> QED  BY <1>1, <1>2, <1>3, <1>4, <2>1, <2>4 DEF more, old
<1>5. CASE ~ SameBucket
  <2>1. Folded = [symbol |-> Tick.symbol, bucket |-> Tick.bucket, ticks |-> {Len(ticks)}]
    BY <1>5 DEF Folded, NewCandle
  <2>2. Tick.symbol \in Symbols /\ Tick.bucket \in Buckets  BY <1>2 DEF AllTicks
  <2>3. {Len(ticks)} \in (SUBSET Nat) \ {{}}  BY <1>2
  <2> QED  BY <1>1, <1>2, <1>3, <1>5, <2>1, <2>2, <2>3 DEF Bars
<1> QED  BY <1>4, <1>5

LEMMA FoldingTypes == ASSUME TypeInv, Look \/ Fold PROVE TypeInv'
<1>1. UNCHANGED <<main, frames, link, ticks, stop, seen, dash, raced, failed>>
  BY DEF Look, Fold
<1>2. CASE Look
  <2>1. open' = open /\ feed' = [feed EXCEPT !.pc = "fold", !.old = open[Tick.symbol]]
        /\ feed.pc = "look"
    BY <1>2 DEF Look
  <2>2. feed \in Feeds /\ feed.told <= Len(seen) /\ ticks # <<>>
    BY <2>1 DEF TypeInv, FeedOk
  <2>3. Tick.symbol \in Symbols
    <3>1. Tick \in AllTicks  BY <2>2 DEF TypeInv, Tick
    <3> QED  BY <3>1 DEF AllTicks
  <2> DEFINE old == open[Tick.symbol]
  <2>4. old \in Bars \cup {NoCandle}
        /\ (old # NoCandle => old.symbol = Tick.symbol /\ old.ticks \subseteq 1..Len(ticks))
    BY <2>3 DEF TypeInv, OpenOk, Tables
  <2> HIDE DEF old
  <2>5. feed' \in Feeds /\ feed'.pc = "fold" /\ feed'.old = old /\ feed'.told = feed.told
    BY <2>1, <2>2, <2>4 DEF Feeds, old
  <2>6. FeedOk(feed', ticks, Len(seen))
    BY <2>2, <2>4, <2>5 DEF FeedOk, Giving, Tick
  <2> QED  BY <1>1, <2>1, <2>6 DEF TypeInv
<1>3. CASE Fold
  <2>1. feed.pc = "fold"  BY <1>3 DEF Fold
  <2>2. OpenOk(open', ticks)
    <3>1. OpenOk(open, ticks)  BY DEF TypeInv
    <3>2. CASE SameBucket /\ open[Tick.symbol] # feed.old
      BY <1>3, <3>1, <3>2 DEF Fold
    <3>3. CASE ~ (SameBucket /\ open[Tick.symbol] # feed.old)
      <4>1. open' = [open EXCEPT ![Tick.symbol] = Folded]  BY <1>3, <3>3 DEF Fold
      <4>2. Folded \in Bars /\ Folded.symbol = Tick.symbol /\ Folded.ticks \subseteq 1..Len(ticks)
        <5>1. /\ Folded \in Bars /\ Folded.symbol = Tick.symbol /\ Len(ticks) \in 1..Len(ticks)
              /\ Folded.ticks = IF SameBucket THEN feed.old.ticks \cup {Len(ticks)} ELSE {Len(ticks)}
              /\ feed.old # NoCandle => feed.old.ticks \subseteq 1..Len(ticks)
          BY <2>1, FoldFacts
        <5> QED  BY <5>1 DEF SameBucket
      <4> QED  BY <3>1, <4>1, <4>2 DEF OpenOk, Tables
    <3> QED  BY <3>2, <3>3
  <2>3. FeedOk(feed', ticks, Len(seen))
    <3>1. Len(seen) \in Nat  BY DEF TypeInv
    <3>2. CASE SameBucket \/ feed.old = NoCandle
      <4>1. feed' = Idle  BY <1>3, <3>2 DEF Fold
      <4> QED  BY <3>1, <4>1 DEF FeedOk, Feeds, Idle, Giving
    <3>3. CASE ~ (SameBucket \/ feed.old = NoCandle)
      <4>1. feed' = [Idle EXCEPT !.pc = "strategy", !.bars = <<feed.old>>]
        BY <1>3, <3>3 DEF Fold
      <4>2. <<feed.old>> \in Seq(Bars) /\ <<feed.old>> # <<>>  BY <2>1, <3>3, FoldFacts
      <4>3. feed'.pc = "strategy" /\ feed'.bars = <<feed.old>> /\ feed'.told = 0 /\ feed' \in Feeds
        BY <4>1, <4>2 DEF Feeds, Idle
      <4> QED  BY <3>1, <4>2, <4>3 DEF FeedOk, Giving
    <3> QED  BY <3>2, <3>3
  <2> QED  BY <1>1, <2>2, <2>3 DEF TypeInv
<1> QED  BY <1>2, <1>3

(* A bar given: the other thread and the other handlers only see more of   *)
(* them.                                                                   *)
LEMMA MoreSeen ==
    ASSUME TypeInv, NEW n \in Nat, Len(seen) <= n
    PROVE  /\ FeedOk(feed, ticks, n) /\ \A i \in 1..Len(frames) : FrameOk(frames[i], n)
           /\ dash \in 0..n
<1>1. Len(seen) \in Nat /\ FeedOk(feed, ticks, Len(seen)) /\ dash \in 0..Len(seen)
      /\ \A i \in 1..Len(frames) : FrameOk(frames[i], Len(seen))
  BY DEF TypeInv
<1> QED  BY <1>1, Grows

LEMMA FeedBarTypes == ASSUME TypeInv, FeedBar PROVE TypeInv'
<1>1. /\ UNCHANGED <<main, frames, link, ticks, open, stop, dash, raced>>
      /\ feed.pc = "strategy" /\ GiveBar(Head(feed.bars))
  BY DEF FeedBar
<1>2. feed \in Feeds /\ feed.bars \in Seq(Bars) /\ feed.bars # <<>>
  BY <1>1 DEF TypeInv, FeedOk, Giving, Feeds
<1>3. seen' \in Seq(Bars) /\ Len(seen') = Len(seen) + 1 /\ Len(seen) \in Nat
  BY <1>1, <1>2, BarGiven DEF TypeInv
<1> DEFINE n == Len(seen')
<1>4. n \in Nat /\ Len(seen) <= n  BY <1>3
<1> HIDE DEF n
<1>5. /\ FeedOk(feed, ticks, n) /\ \A i \in 1..Len(frames) : FrameOk(frames[i], n)
      /\ dash \in 0..n
  BY <1>4, MoreSeen
<1>6. FeedOk(feed', ticks, n) /\ failed' \in BOOLEAN
  <2>1. CASE feed' = [feed EXCEPT !.pc = "mark"] /\ failed' = failed
    <3>1. feed' \in Feeds /\ feed'.pc = "mark" /\ feed'.bars = feed.bars /\ feed'.told = feed.told
      BY <1>2, <2>1 DEF Feeds
    <3> QED  BY <1>2, <1>5, <2>1, <3>1 DEF FeedOk, Giving, TypeInv
  <2>2. CASE feed' = Idle /\ failed' = TRUE
    BY <1>4, <2>2 DEF FeedOk, Feeds, Idle, Giving
  <2> QED  BY <2>1, <2>2 DEF FeedBar
<1> QED  BY <1>1, <1>3, <1>5, <1>6 DEF TypeInv, n

LEMMA FeedWriteTypes == ASSUME TypeInv, FeedMark \/ FeedWrite PROVE TypeInv'
<1>1. UNCHANGED <<main, frames, link, ticks, open, stop, seen, raced>>
  BY DEF FeedMark, FeedWrite
<1>2. Len(seen) \in Nat /\ feed \in Feeds /\ feed.told \in 0..Len(seen)
  BY DEF TypeInv, FeedOk, Feeds
<1>3. CASE FeedMark
  <2>1. feed' = [feed EXCEPT !.pc = "write", !.told = Len(seen)] /\ feed.pc = "mark"
        /\ dash' = dash /\ failed' = failed
    BY <1>3 DEF FeedMark, Told
  <2>2. feed' \in Feeds /\ feed'.pc = "write" /\ feed'.bars = feed.bars /\ feed'.told = Len(seen)
    BY <1>2, <2>1 DEF Feeds
  <2>3. feed.bars # <<>>  BY <2>1 DEF TypeInv, FeedOk, Giving
  <2>4. FeedOk(feed', ticks, Len(seen))  BY <1>2, <2>2, <2>3 DEF FeedOk, Giving
  <2> QED  BY <1>1, <2>1, <2>4 DEF TypeInv
<1>4. CASE FeedWrite
  <2>1. feed' = AfterBar(feed, "idle") /\ feed.pc = "write"  BY <1>4 DEF FeedWrite
  <2>2. feed.bars # <<>> /\ feed.bars \in Seq(Bars)
    BY <1>2, <2>1 DEF TypeInv, FeedOk, Giving, Feeds
  <2>3. FeedOk(feed', ticks, Len(seen))
    BY <1>2, <2>1, <2>2, NextBar DEF FeedOk
  <2>4. dash' \in 0..Len(seen)  BY <1>2, <1>4 DEF FeedWrite, TypeInv
  <2>5. failed' \in BOOLEAN  BY <1>4 DEF FeedWrite, TypeInv
  <2> QED  BY <1>1, <2>3, <2>4, <2>5 DEF TypeInv
<1> QED  BY <1>3, <1>4

(* The bars of a flush are bars. *)
LEMMA OpenBars ==
    ASSUME TypeInv, FiniteSymbols PROVE SetToSeq(Open) \in Seq(Bars)
<1>1. Open = {open[s] : s \in {t \in Symbols : open[t] # NoCandle}}  BY DEF Open
<1>2. /\ open \in [Symbols -> Bars \cup {NoCandle}]
      /\ \A s \in Symbols : open[s] # NoCandle => open[s].symbol = s
  BY DEF TypeInv, OpenOk, Tables
<1> QED  BY <1>1, <1>2, FlushedOnce

LEMMA HandlerTypes ==
    ASSUME TypeInv, FiniteSymbols, SetStop \/ Collect \/ Clear \/ StopMark \/ StopWrite
    PROVE  TypeInv'
<1>1. UNCHANGED <<main, link, feed, ticks, seen>> /\ frames # <<>>
  BY DEF SetStop, Collect, Clear, StopMark, StopWrite, In
<1> DEFINE n == Len(seen)
<1>2. n \in Nat /\ Top \in Frames /\ Top.told <= n /\ (Giving(Top) => Top.bars # <<>>)
      /\ Top.bars \in Seq(Bars) /\ Top.told \in Nat
  BY <1>1, TopOk DEF TypeInv, Frames
<1>3. n <= n  BY <1>2
<1> HIDE DEF n
<1>4. ASSUME NEW f, FrameOk(f, n), ToTop(f)
      PROVE  frames' \in Seq(Frames) /\ \A i \in 1..Len(frames') : FrameOk(frames'[i], n)
  BY <1>1, <1>2, <1>3, <1>4, TopChanges DEF n
<1>5. CASE SetStop
  <2>1. ToTop([Top EXCEPT !.pc = "collect"])  BY <1>5 DEF SetStop
  <2>2. FrameOk([Top EXCEPT !.pc = "collect"], n)  BY <1>2 DEF FrameOk, Frames, Giving
  <2>3. raced' \in BOOLEAN /\ stop' \in BOOLEAN  BY <1>5 DEF SetStop
  <2>4. UNCHANGED <<open, dash, failed>>  BY <1>5 DEF SetStop
  <2> QED  BY <1>1, <1>4, <2>1, <2>2, <2>3, <2>4 DEF TypeInv, n
<1>6. CASE Collect
  <2> DEFINE f == [Top EXCEPT !.pc = "clear", !.bars = SetToSeq(Open)]
  <2>1. ToTop(f) /\ UNCHANGED <<open, dash, failed, stop, raced>>  BY <1>6 DEF Collect
  <2>2. FrameOk(f, n)  BY <1>2, OpenBars DEF FrameOk, Frames, Giving
  <2> QED  BY <1>1, <1>4, <2>1, <2>2 DEF TypeInv, n
<1>7. CASE Clear
  <2> DEFINE pc == IF Top.bars = <<>> THEN "end" ELSE "strategy"
             f == [Top EXCEPT !.pc = pc]
  <2>1. ToTop(f) /\ open' = Cleared /\ UNCHANGED <<dash, failed, stop, raced>>
    BY <1>7 DEF Clear
  <2>2. pc \in {"end", "strategy"} /\ (pc = "strategy" => Top.bars # <<>>)  OBVIOUS
  <2> HIDE DEF pc
  <2>3. f \in Frames /\ f.pc = pc /\ f.bars = Top.bars /\ f.told = Top.told
    BY <1>2, <2>2 DEF Frames
  <2>4. FrameOk(f, n)  BY <1>2, <2>2, <2>3 DEF FrameOk, Giving
  <2>5. OpenOk(Cleared, ticks)  BY DEF OpenOk, Tables, Cleared
  <2> QED  BY <1>1, <1>4, <2>1, <2>4, <2>5 DEF TypeInv, n
<1>8. CASE StopMark
  <2> DEFINE f == [Top EXCEPT !.pc = "write", !.told = Told]
  <2>1. ToTop(f) /\ Top.pc = "mark" /\ UNCHANGED <<open, dash, failed, stop, raced>>
    BY <1>8 DEF StopMark, In
  <2>2. f \in Frames /\ f.bars = Top.bars /\ f.told = n
    BY <1>2 DEF Frames, Told, n
  <2>3. Top.bars # <<>>  BY <1>2, <2>1 DEF Giving
  <2>4. FrameOk(f, n)  BY <1>2, <2>2, <2>3 DEF FrameOk
  <2> QED  BY <1>1, <1>4, <2>1, <2>4 DEF TypeInv, n
<1>9. CASE StopWrite
  <2>1. ToTop(AfterBar(Top, "end")) /\ Top.pc = "write" /\ UNCHANGED <<open, stop, raced>>
    BY <1>9 DEF StopWrite, In
  <2>2. Top.bars # <<>> /\ FrameOk(Top, n)  BY <1>2, <2>1 DEF Giving, FrameOk
  <2>3. FrameOk(AfterBar(Top, "end"), n)  BY <1>2, <2>2, NextBar
  <2>4. dash' \in 0..n  BY <1>2, <1>9 DEF StopWrite, TypeInv, n
  <2>5. failed' \in BOOLEAN  BY <1>9 DEF StopWrite, TypeInv
  <2> QED  BY <1>1, <1>4, <2>1, <2>3, <2>4, <2>5 DEF TypeInv, n
<1> QED  BY <1>5, <1>6, <1>7, <1>8, <1>9

LEMMA StopBarTypes == ASSUME TypeInv, StopBar PROVE TypeInv'
<1>1. /\ UNCHANGED <<link, feed, ticks, open, stop, dash, raced>>
      /\ Top.pc = "strategy" /\ frames # <<>> /\ GiveBar(Head(Top.bars))
  BY DEF StopBar, In
<1>2. Top \in Frames /\ Top.bars \in Seq(Bars) /\ Top.bars # <<>> /\ Top.told <= Len(seen)
  BY <1>1, TopOk DEF Giving, Frames
<1>3. seen' \in Seq(Bars) /\ Len(seen') = Len(seen) + 1 /\ Len(seen) \in Nat
  BY <1>1, <1>2, BarGiven DEF TypeInv
<1> DEFINE n == Len(seen')
<1>4. n \in Nat /\ Len(seen) <= n  BY <1>3
<1> HIDE DEF n
<1>5. FeedOk(feed, ticks, n) /\ dash \in 0..n  BY <1>4, MoreSeen
<1>6. /\ frames' \in Seq(Frames) /\ \A i \in 1..Len(frames') : FrameOk(frames'[i], n)
      /\ failed' \in BOOLEAN
      /\ main' \in {"starting", "connecting", "connected", "paused", "exited"}
  <2>1. CASE ToTop([Top EXCEPT !.pc = "mark"]) /\ UNCHANGED <<main, failed>>
    <3> DEFINE f == [Top EXCEPT !.pc = "mark"]
    <3>1. f \in Frames /\ f.bars = Top.bars /\ f.told = Top.told  BY <1>2 DEF Frames
    <3>2. FrameOk(f, n)  BY <1>2, <1>3, <1>4, <3>1 DEF FrameOk, Frames
    <3> QED  BY <1>1, <1>4, <2>1, <3>2, TopChanges DEF TypeInv
  <2>2. CASE main' = "exited" /\ frames' = <<>> /\ failed' = TRUE  BY <2>2
  <2> QED  BY <2>1, <2>2 DEF StopBar
<1> QED  BY <1>1, <1>3, <1>5, <1>6 DEF TypeInv, n

LEMMA DisconnectTypes == ASSUME TypeInv, Disconnect PROVE TypeInv'
<1>1. /\ UNCHANGED <<feed, ticks, open, stop, seen, dash, raced, failed>>
      /\ frames # <<>> /\ frames' = SubSeq(frames, 1, Len(frames) - 1)
      /\ main' \in {main, "exited"} /\ link' \in {"off", "closed"}
  BY DEF Disconnect, In, Front, Resumed
<1>2. /\ frames' \in Seq(Frames) /\ 1..Len(frames') \subseteq 1..Len(frames)
      /\ \A i \in 1..Len(frames') : frames'[i] = frames[i]
  <2>1. frames \in Seq(Frames) /\ Len(frames) \in Nat /\ Len(frames) >= 1
    BY <1>1 DEF TypeInv
  <2> QED  BY <1>1, <2>1
<1>3. \A i \in 1..Len(frames') : FrameOk(frames'[i], Len(seen))  BY <1>2 DEF TypeInv
<1> QED  BY <1>1, <1>2, <1>3 DEF TypeInv

LEMMA TypesKept == ASSUME TypeInv, FiniteSymbols, [Next]_vars PROVE TypeInv'
<1>1. CASE UNCHANGED vars  BY <1>1 DEF vars, TypeInv
<1>2. CASE FeedStep  BY <1>2, FoldingTypes, FeedBarTypes, FeedWriteTypes DEF FeedStep
<1>3. CASE MainStep
  BY <1>3, QuietTypes, HandlerTypes, StopBarTypes, DisconnectTypes DEF MainStep
<1> QED  BY <1>1, <1>2, <1>3, QuietTypes, SignalTypes, OnTickTypes DEF Next
-----------------------------------------------------------------------------
(* The line starts with what the strategy was given. *)
LEMMA LineIsBars ==
    ASSUME TypeInv
    PROVE  /\ Line \in Seq(Bars) /\ Len(seen) <= Len(Line)
           /\ \A i \in 1..Len(seen) : Line[i] = seen[i]
<1>1. seen \in Seq(Bars)  BY DEF TypeInv
<1>2. ASSUME NEW w, w.bars \in Seq(Bars), Giving(w) => w.bars # <<>>
      PROVE  Rest(w) \in Seq(Bars)
  <2>1. CASE w.bars # <<>>
    <3>1. Tail(w.bars) \in Seq(Bars)  BY <1>2, <2>1
    <3> QED  BY <1>2, <3>1 DEF Rest
  <2>2. CASE w.bars = <<>>  BY <1>2, <2>2 DEF Rest, Giving
  <2> QED  BY <2>1, <2>2
<1>3. \E r \in Seq(Bars) : Line = seen \o r
  <2>1. CASE Stopping
    <3>1. frames # <<>>  BY <2>1 DEF Stopping
    <3>2. Rest(Top) \in Seq(Bars)  BY <1>2, <3>1, TopOk DEF Frames
    <3> QED  BY <2>1, <3>2 DEF Line
  <2>2. CASE ~ Stopping
    <3>1. Rest(feed) \in Seq(Bars)  BY <1>2 DEF TypeInv, FeedOk, Feeds
    <3> QED  BY <2>2, <3>1 DEF Line
  <2> QED  BY <2>1, <2>2
<1>4. PICK r \in Seq(Bars) : Line = seen \o r  BY <1>3
<1> DEFINE ln == seen \o r
<1>5. /\ ln \in Seq(Bars) /\ Len(ln) = Len(seen) + Len(r)
      /\ \A i \in 1..(Len(seen) + Len(r)) :
            ln[i] = IF i <= Len(seen) THEN seen[i] ELSE r[i - Len(seen)]
  BY <1>1, ConcatProperties
<1> HIDE DEF ln
<1>6. Len(seen) \in Nat /\ Len(r) \in Nat  BY <1>1, LenProperties
<1>7. Len(seen) <= Len(ln) /\ \A i \in 1..Len(seen) : ln[i] = seen[i]  BY <1>5, <1>6
<1> QED  BY <1>4, <1>5, <1>7 DEF ln

(* What every step of a session without races starts from. *)
LEMMA Before ==
    ASSUME IInv, Alive, ~ raced
    PROVE  /\ TypeInv /\ TurnInv /\ (failed \/ FileInv) /\ Line \in Seq(Bars)
           /\ CandleInv(Line, open, InFlight, ticks, stop, FALSE)
<1>1. TypeInv /\ TurnInv /\ (failed \/ FileInv)
      /\ CandleInv(Line, open, InFlight, ticks, stop, main = "exited" /\ failed)
  BY DEF IInv, Orderly
<1>2. CandleInv(Line, open, InFlight, ticks, stop, FALSE)
  BY <1>1 DEF Alive, CandleInv
<1> QED  BY <1>1, <1>2, LineIsBars

(* Any loss may be reported of candles of which none is lost. *)
LEMMA NoLoss ==
    ASSUME NEW ln, NEW op, NEW fl, NEW tk, NEW st, NEW lost, CandleInv(ln, op, fl, tk, st, FALSE)
    PROVE  CandleInv(ln, op, fl, tk, st, lost)
BY DEF CandleInv

(* Nothing of a thread that is not giving bars is in the line. *)
LEMMA NotGiving == ASSUME NEW w, ~ Giving(w) PROVE Rest(w) = <<>>
BY DEF Giving, Rest

LEMMA InitOrderly == ASSUME Init PROVE Orderly
<1>1. /\ frames = <<>> /\ feed = Idle /\ ticks = <<>> /\ seen = <<>> /\ ~ stop /\ dash = 0
      /\ \A s \in Symbols : open[s] = NoCandle
  BY DEF Init
<1>2. feed.pc = "idle" /\ ~ Stopping /\ ~ InFlight /\ Rest(feed) = <<>>
  BY <1>1 DEF Idle, Stopping, InFlight, Rest
<1>3. Line = <<>>  BY <1>1, <1>2 DEF Line
<1>4. TurnInv  BY <1>1, <1>2 DEF TurnInv, Giving
<1>5. FileInv  BY <1>1, <1>2 DEF FileInv
<1>6. Len(Line) = 0 /\ Len(ticks) = 0  BY <1>1, <1>3
<1>7. Folding(InFlight, ticks) = {}  BY <1>2, <1>6 DEF Folding
<1>8. CandleInv(Line, open, InFlight, ticks, stop, main = "exited" /\ failed)
  BY <1>1, <1>6, <1>7 DEF CandleInv, Sound, Apart, Held, Latest, Rising
<1> QED  BY <1>4, <1>5, <1>8 DEF Orderly

LEMMA QuietOrderly ==
    ASSUME IInv, ~ raced, Start \/ Connect \/ Pause \/ OnConnect \/ OnClose PROVE Orderly'
<1>1. UNCHANGED <<frames, feed, ticks, open, stop, seen, dash, raced, failed>> /\ Alive
  BY DEF Start, Connect, Pause, OnConnect, OnClose, Alive
<1>2. TurnInv /\ (failed \/ FileInv) /\ CandleInv(Line, open, InFlight, ticks, stop, FALSE)
  BY <1>1, Before
<1>3. Line' = Line /\ InFlight' = InFlight
  BY <1>1 DEF Line, InFlight, Stopping, Top
<1>4. CandleInv(Line, open, InFlight, ticks, stop, (main = "exited" /\ failed)')
  BY <1>2, NoLoss
<1>5. TurnInv'  BY <1>1, <1>2 DEF TurnInv, Stopping, Top, Tick, Open
<1>6. (failed \/ FileInv)'  BY <1>1, <1>2 DEF FileInv, Stopping, Top
<1> QED  BY <1>1, <1>3, <1>4, <1>5, <1>6 DEF Orderly

(* A signal without a race finds no other handler, and its own has not     *)
(* begun.                                                                  *)
LEMMA SignalOrderly == ASSUME IInv, ~ raced', Signal PROVE Orderly'
<1>1. UNCHANGED <<feed, ticks, open, stop, seen, dash, failed>> /\ Alive  BY DEF Signal
<1>2. ~ raced /\ ~ Stopping /\ ~ Stopping' /\ Len(frames') <= 1
  <2>1. CASE main = "starting"
    BY <2>1 DEF Signal, IInv, StartInv, Stopping
  <2>2. CASE main # "starting"
    <3>0. frames' = Append(frames, Handler) /\ raced' = (raced \/ frames # <<>>)
      BY <2>2 DEF Signal
    <3>1. frames = <<>> /\ ~ raced  BY <3>0
    <3>2. Top'.pc = "set" /\ Len(frames') = 1
      <4>1. frames' = <<Handler>>  BY <3>0, <3>1
      <4>2. Len(frames') = 1 /\ Top' = Handler  BY <4>1 DEF Top
      <4> QED  BY <4>2 DEF Handler
    <3> QED  BY <3>1, <3>2 DEF Stopping
  <2> QED  BY <2>1, <2>2
<1>3. TurnInv /\ (failed \/ FileInv) /\ CandleInv(Line, open, InFlight, ticks, stop, FALSE)
  BY <1>1, <1>2, Before
<1>4. Line' = Line /\ InFlight' = InFlight
  BY <1>1, <1>2 DEF Line, InFlight
<1>5. CandleInv(Line, open, InFlight, ticks, stop, (main = "exited" /\ failed)')
  BY <1>3, NoLoss
<1>6. TurnInv'  BY <1>1, <1>2, <1>3 DEF TurnInv, Tick
<1>7. (failed \/ FileInv)'  BY <1>1, <1>2, <1>3 DEF FileInv
<1> QED  BY <1>1, <1>4, <1>5, <1>6, <1>7 DEF Orderly

LEMMA OnTickOrderly ==
    ASSUME IInv, ~ raced', NEW s \in Symbols, NEW bucket \in Buckets, OnTick(s, bucket)
    PROVE  Orderly'
<1> DEFINE t == [symbol |-> s, bucket |-> bucket]
<1>1. /\ UNCHANGED <<main, frames, open, stop, seen, dash, raced, failed>> /\ Alive
      /\ ticks' = Append(ticks, t) /\ feed' = [feed EXCEPT !.pc = "look"]
      /\ feed.pc = "idle" /\ ~ stop
  BY DEF OnTick
<1>2. t \in AllTicks  BY DEF AllTicks
<1> HIDE DEF t
<1>3. /\ TypeInv /\ TurnInv /\ (failed \/ FileInv) /\ Line \in Seq(Bars)
      /\ CandleInv(Line, open, InFlight, ticks, stop, FALSE)
  BY <1>1, Before
<1>4. feed'.pc = "look" /\ InFlight = FALSE /\ InFlight' = TRUE /\ stop = FALSE /\ stop' = FALSE
  <2>1. feed \in Feeds /\ stop \in BOOLEAN  BY <1>3 DEF TypeInv, FeedOk
  <2>2. feed'.pc = "look"  BY <1>1, <2>1 DEF Feeds
  <2> QED  BY <1>1, <2>1, <2>2 DEF InFlight
<1>5. ~ Stopping /\ ~ Stopping'  BY <1>1, <1>3 DEF TurnInv, Stopping, Top
<1>6. Line' = Line  BY <1>1, <1>4, <1>5, NotGiving DEF Line, Giving
<1>7. CandleInv(Line', open', InFlight', ticks', stop', FALSE)
  <2>1. open \in Tables /\ ticks \in Seq(AllTicks)  BY <1>3 DEF TypeInv, OpenOk
  <2>2. CandleInv(Line, open, FALSE, ticks, FALSE, FALSE)  BY <1>3, <1>4
  <2>3. CandleInv(Line, open, TRUE, Append(ticks, t), FALSE, FALSE)
    BY <1>2, <1>3, <2>1, <2>2, TickArrives
  <2> QED  BY <1>1, <1>4, <1>6, <2>3
<1>8. TurnInv'  BY <1>1, <1>3, <1>4, <1>5 DEF TurnInv, Giving
<1>9. (failed \/ FileInv)'  BY <1>1, <1>3, <1>4, <1>5 DEF FileInv
<1> QED  BY <1>7, <1>8, <1>9, NoLoss DEF Orderly

LEMMA LookOrderly == ASSUME IInv, ~ raced', Look PROVE Orderly'
<1>1. /\ UNCHANGED <<main, frames, ticks, open, stop, seen, dash, raced, failed>> /\ Alive
      /\ feed' = [feed EXCEPT !.pc = "fold", !.old = open[Tick.symbol]] /\ feed.pc = "look"
  BY DEF Look
<1>2. /\ TypeInv /\ TurnInv /\ (failed \/ FileInv)
      /\ CandleInv(Line, open, InFlight, ticks, stop, FALSE)
  BY <1>1, Before
<1>3. feed'.pc = "fold" /\ feed'.old = open[Tick.symbol] /\ InFlight' = InFlight
  <2>1. feed \in Feeds  BY <1>2 DEF TypeInv, FeedOk
  <2>2. feed'.pc = "fold" /\ feed'.old = open[Tick.symbol]  BY <1>1, <2>1 DEF Feeds
  <2> QED  BY <1>1, <2>2 DEF InFlight
<1>4. ~ stop /\ ~ Stopping /\ ~ Stopping'  BY <1>1, <1>2 DEF TurnInv, Stopping, Top
<1>5. Line' = Line  BY <1>1, <1>3, <1>4, NotGiving DEF Line, Giving
<1>6. TurnInv'  BY <1>1, <1>2, <1>3, <1>4 DEF TurnInv, Giving, Tick
<1>7. (failed \/ FileInv)'  BY <1>1, <1>2, <1>3, <1>4 DEF FileInv
<1> QED  BY <1>1, <1>2, <1>3, <1>5, <1>6, <1>7, NoLoss DEF Orderly

LEMMA FoldOrderly == ASSUME FiniteSymbols, IInv, ~ raced', Fold PROVE Orderly'
<1>1. /\ UNCHANGED <<main, frames, ticks, stop, seen, dash, raced, failed>> /\ Alive
      /\ feed.pc = "fold"
  BY DEF Fold
<1>2. /\ TypeInv /\ TurnInv /\ (failed \/ FileInv) /\ Line \in Seq(Bars)
      /\ CandleInv(Line, open, InFlight, ticks, stop, FALSE)
  BY <1>1, Before
<1>3. ~ stop /\ stop = FALSE /\ ~ Stopping /\ ~ Stopping'
  BY <1>1, <1>2 DEF TurnInv, Stopping, Top, TypeInv
<1> DEFINE old == feed.old
           moved == ~ SameBucket /\ old # NoCandle
<1>4. old = open[Tick.symbol]  BY <1>1, <1>2 DEF TurnInv
<1>5. /\ ticks # <<>> /\ Tick \in AllTicks /\ old \in Bars \cup {NoCandle}
      /\ Folded \in Bars /\ Folded.symbol = Tick.symbol /\ Folded.bucket = Tick.bucket
      /\ Folded.ticks = IF SameBucket THEN old.ticks \cup {Len(ticks)} ELSE {Len(ticks)}
  BY <1>1, <1>2, FoldFacts
<1>6. SameBucket <=> old # NoCandle /\ old.bucket = Tick.bucket  BY DEF SameBucket
<1>7. open' = [open EXCEPT ![Tick.symbol] = Folded]  BY <1>4 DEF Fold
<1>8. seen \in Seq(Bars) /\ Line = seen
  <2>1. seen \in Seq(Bars)  BY <1>2 DEF TypeInv
  <2>2. Line = seen \o <<>>  BY <1>1, <1>3, NotGiving DEF Line, Giving
  <2> QED  BY <2>1, <2>2, ConcatEmptySeq
<1>9. /\ moved => /\ feed' = [Idle EXCEPT !.pc = "strategy", !.bars = <<old>>]
                  /\ Line' = Append(seen, old)
      /\ ~ moved => feed' = Idle /\ Line' = seen
  <2>1. CASE moved
    <3>1. feed' = [Idle EXCEPT !.pc = "strategy", !.bars = <<old>>]  BY <2>1 DEF Fold
    <3>2. Rest(feed') = <<old>>  BY <3>1 DEF Rest, Idle
    <3>3. Line' = seen \o <<old>>  BY <1>1, <1>3, <3>2 DEF Line, Rest
    <3>4. seen \o <<old>> = Append(seen, old)
      <4>1. old \in Bars  BY <1>5, <2>1
      <4> HIDE DEF old
      <4> QED  BY <1>8, <4>1, AppendIsConcat
    <3> QED  BY <2>1, <3>1, <3>3, <3>4
  <2>2. CASE ~ moved
    <3>1. feed' = Idle  BY <2>2 DEF Fold
    <3>2. Rest(feed') = <<>>  BY <3>1 DEF Rest, Idle
    <3>3. Line' = seen \o <<>>  BY <1>1, <1>3, <3>2 DEF Line, Rest
    <3> QED  BY <1>8, <2>2, <3>1, <3>3, ConcatEmptySeq
  <2> QED  BY <2>1, <2>2
<1>10. InFlight = TRUE /\ InFlight' = FALSE
       /\ feed'.pc = (IF moved THEN "strategy" ELSE "idle") /\ (moved => feed'.bars = <<old>>)
  <2>1. feed'.pc = (IF moved THEN "strategy" ELSE "idle") /\ (moved => feed'.bars = <<old>>)
    <3>1. CASE moved
      <4>1. feed' = [Idle EXCEPT !.pc = "strategy", !.bars = <<old>>]  BY <1>9, <3>1
      <4> HIDE DEF old
      <4>2. feed'.pc = "strategy" /\ feed'.bars = <<old>>  BY <4>1 DEF Idle
      <4> QED  BY <3>1, <4>2
    <3>2. CASE ~ moved
      <4>1. feed'.pc = "idle"  BY <1>9, <3>2 DEF Idle
      <4> QED  BY <3>2, <4>1
    <3> QED  BY <3>1, <3>2
  <2>2. feed'.pc \notin {"look", "fold"}  BY <2>1
  <2> QED  BY <1>1, <2>1, <2>2 DEF InFlight
<1>11. CandleInv(Line', open', InFlight', ticks', stop', FALSE)
  <2>1. open \in Tables /\ ticks \in Seq(AllTicks)  BY <1>2 DEF TypeInv, OpenOk
  <2>2. CandleInv(seen, open, TRUE, ticks, FALSE, FALSE)  BY <1>2, <1>3, <1>8, <1>10
  <2>3. Tick = ticks[Len(ticks)]  BY DEF Tick
  <2>4. Line' \in Seq(Bars)  BY <1>5, <1>8, <1>9
  <2> DEFINE T == Tick
             c == Folded
             L2 == Line'
  <2>5. \/ L2 = seen /\ open[T.symbol] = NoCandle /\ c.ticks = {Len(ticks)}
        \/ /\ L2 = seen /\ open[T.symbol] # NoCandle /\ open[T.symbol].bucket = T.bucket
           /\ c.ticks = open[T.symbol].ticks \cup {Len(ticks)}
        \/ /\ open[T.symbol] # NoCandle /\ open[T.symbol].bucket # T.bucket
           /\ L2 = Append(seen, open[T.symbol]) /\ c.ticks = {Len(ticks)}
    BY <1>4, <1>5, <1>6, <1>9
  <2>6. /\ T \in AllTicks /\ T = ticks[Len(ticks)] /\ c \in Bars /\ c.symbol = T.symbol
        /\ c.bucket = T.bucket /\ L2 \in Seq(Bars) /\ NoCandle \notin Bars
    BY <1>5, <2>3, <2>4 DEF FiniteSymbols
  <2> HIDE DEF T, c, L2
  <2>7. CandleInv(L2, [open EXCEPT ![T.symbol] = c], FALSE, ticks, FALSE, FALSE)
    BY <1>5, <1>8, <2>1, <2>2, <2>5, <2>6, TickFolds
  <2> QED  BY <1>1, <1>3, <1>7, <1>10, <2>7 DEF T, c, L2
<1>12. TurnInv'
  <2>1. feed'.pc # "fold" /\ (Giving(feed') => Len(feed'.bars) = 1)
    <3> HIDE DEF old
    <3> QED  BY <1>10 DEF Giving
  <2>2. Len(frames') <= 1 /\ ~ stop'  BY <1>1, <1>2, <1>3 DEF TurnInv
  <2> QED  BY <1>3, <2>1, <2>2 DEF TurnInv, Giving
<1>13. (failed \/ FileInv)'
  <2>1. feed'.pc \notin {"mark", "write"}  BY <1>10
  <2> QED  BY <1>1, <1>2, <1>3, <2>1 DEF FileInv
<1> QED  BY <1>11, <1>12, <1>13, NoLoss DEF Orderly

LEMMA FeedBarOrderly == ASSUME IInv, ~ raced', FeedBar PROVE Orderly'
<1>1. /\ UNCHANGED <<main, frames, ticks, open, stop, dash, raced>> /\ Alive
      /\ feed.pc = "strategy" /\ GiveBar(Head(feed.bars))
      /\ \/ feed' = [feed EXCEPT !.pc = "mark"] /\ failed' = failed
         \/ feed' = Idle /\ failed' = TRUE
  BY DEF FeedBar
<1>2. /\ TypeInv /\ TurnInv /\ (failed \/ FileInv)
      /\ CandleInv(Line, open, InFlight, ticks, stop, FALSE)
  BY <1>1, Before
<1>3. ~ stop /\ ~ Stopping /\ ~ Stopping'  BY <1>1, <1>2 DEF TurnInv, Stopping, Top
<1>4. feed \in Feeds /\ feed.bars \in Seq(Bars) /\ Len(feed.bars) = 1 /\ feed.bars # <<>>
  BY <1>1, <1>2 DEF TypeInv, FeedOk, Feeds, TurnInv, Giving
<1>5. seen' \o Tail(feed.bars) = seen \o feed.bars /\ Line = seen \o feed.bars
  BY <1>1, <1>2, <1>3, <1>4, BarGiven DEF Line, Rest
<1>6. /\ Rest(feed') = Tail(feed.bars) /\ feed'.pc \in {"mark", "idle"}
      /\ Giving(feed') => feed'.bars = feed.bars
  <2>1. CASE feed' = [feed EXCEPT !.pc = "mark"]
    <3>1. feed'.pc = "mark" /\ feed'.bars = feed.bars  BY <1>4, <2>1 DEF Feeds
    <3> QED  BY <3>1 DEF Rest
  <2>2. CASE feed' = Idle
    <3>1. feed'.pc = "idle"  BY <2>2 DEF Idle
    <3>2. Tail(feed.bars) = <<>>  BY <1>4, OneItem
    <3> QED  BY <3>1, <3>2 DEF Rest, Giving
  <2> QED  BY <1>1, <2>1, <2>2
<1>7. Line' = Line
  <2>1. Line' = seen' \o Rest(feed')  BY <1>3 DEF Line, Rest
  <2> QED  BY <1>5, <1>6, <2>1
<1>8. InFlight' = InFlight  BY <1>1, <1>6 DEF InFlight
<1>9. TurnInv'
  <2>1. Len(frames') <= 1 /\ ~ stop'  BY <1>1, <1>2, <1>3 DEF TurnInv
  <2> QED  BY <1>3, <1>4, <1>6, <2>1 DEF TurnInv, Giving
<1>10. (failed \/ FileInv)'
  <2>1. CASE failed' = TRUE  BY <2>1
  <2>2. CASE feed' = [feed EXCEPT !.pc = "mark"] /\ failed' = failed
    <3>1. feed'.pc = "mark"  BY <1>4, <2>2 DEF Feeds
    <3> QED  BY <1>3, <3>1 DEF FileInv
  <2> QED  BY <1>1, <2>1, <2>2
<1> QED  BY <1>1, <1>2, <1>7, <1>8, <1>9, <1>10, NoLoss DEF Orderly

LEMMA FeedWriteOrderly == ASSUME IInv, ~ raced', FeedMark \/ FeedWrite PROVE Orderly'
<1>1. /\ UNCHANGED <<main, frames, ticks, open, stop, seen, raced>> /\ Alive
      /\ feed.pc \in {"mark", "write"}
  BY DEF FeedMark, FeedWrite
<1>2. /\ TypeInv /\ TurnInv /\ (failed \/ FileInv)
      /\ CandleInv(Line, open, InFlight, ticks, stop, FALSE)
  BY <1>1, Before
<1>3. ~ stop /\ ~ Stopping /\ ~ Stopping'  BY <1>1, <1>2 DEF TurnInv, Stopping, Top
<1>4. /\ feed \in Feeds /\ feed.bars \in Seq(Bars) /\ Len(feed.bars) = 1 /\ feed.bars # <<>>
      /\ Len(seen) \in Nat
  BY <1>1, <1>2 DEF TypeInv, FeedOk, Feeds, TurnInv, Giving
<1>5. Rest(feed) = Tail(feed.bars)  BY <1>1 DEF Rest
<1>6. /\ Rest(feed') = Rest(feed) /\ feed'.pc \in {"write", "idle"}
      /\ Giving(feed') => feed'.bars = feed.bars
      /\ (failed \/ FileInv)'
  <2>1. CASE FeedMark
    <3>1. feed' = [feed EXCEPT !.pc = "write", !.told = Len(seen)] /\ feed.pc = "mark"
          /\ dash' = dash /\ failed' = failed
      BY <2>1 DEF FeedMark, Told
    <3>2. feed'.pc = "write" /\ feed'.bars = feed.bars /\ feed'.told = Len(seen)
      BY <1>4, <3>1 DEF Feeds
    <3>3. Rest(feed') = Rest(feed)  BY <1>5, <3>2 DEF Rest
    <3>4. (failed \/ FileInv)'  BY <1>1, <1>2, <1>3, <3>1, <3>2 DEF FileInv
    <3> QED  BY <3>2, <3>3, <3>4
  <2>2. CASE FeedWrite
    <3>1. feed' = AfterBar(feed, "idle") /\ feed.pc = "write"  BY <2>2 DEF FeedWrite
    <3>2. Rest(feed') = Tail(feed.bars)  BY <1>4, <3>1, NextBar
    <3>3. Tail(feed.bars) = <<>>  BY <1>4, OneItem
    <3>4. feed'.pc = "idle"
      <4>1. feed' = [feed EXCEPT !.pc = "idle", !.bars = <<>>, !.told = 0]
        BY <3>1, <3>3 DEF AfterBar
      <4> QED  BY <1>4, <4>1 DEF Feeds
    <3>5. (failed \/ FileInv)'
      <4>1. failed' = TRUE \/ (dash' = feed.told /\ failed' = failed)  BY <2>2 DEF FeedWrite
      <4> QED  BY <1>1, <1>2, <1>3, <3>1, <3>4, <4>1 DEF FileInv
    <3> QED  BY <1>5, <3>2, <3>4, <3>5 DEF Giving
  <2> QED  BY <2>1, <2>2 DEF FeedMark, FeedWrite
<1>7. Line' = Line
  <2>1. Line' = seen' \o Rest(feed') /\ Line = seen \o Rest(feed)  BY <1>3 DEF Line, Rest
  <2> QED  BY <1>1, <1>6, <2>1
<1>8. InFlight' = InFlight  BY <1>1, <1>6 DEF InFlight
<1>9. TurnInv'
  <2>1. Len(frames') <= 1 /\ ~ stop'  BY <1>1, <1>2, <1>3 DEF TurnInv
  <2> QED  BY <1>3, <1>4, <1>6, <2>1 DEF TurnInv, Giving
<1> QED  BY <1>1, <1>2, <1>6, <1>7, <1>8, <1>9, NoLoss DEF Orderly

(* The feed's thread is through when the event is set without a race. *)
LEMMA SetStopOrderly == ASSUME IInv, ~ raced', SetStop PROVE Orderly'
<1>1. /\ UNCHANGED <<main, feed, ticks, open, seen, dash, failed>> /\ Alive /\ frames # <<>>
      /\ Top.pc = "set" /\ stop' = TRUE /\ ToTop([Top EXCEPT !.pc = "collect"])
      /\ ~ raced /\ feed.pc = "idle"
  BY DEF SetStop, In
<1>2. /\ TypeInv /\ TurnInv /\ (failed \/ FileInv)
      /\ CandleInv(Line, open, InFlight, ticks, stop, FALSE)
  BY <1>1, Before
<1> DEFINE f == [Top EXCEPT !.pc = "collect"]
<1>3. f \in Frames /\ f.pc = "collect" /\ FrameOk(f, Len(seen)) /\ Len(seen) \in Nat
  <2>1. Top \in Frames /\ Top.told <= Len(seen)  BY <1>1, <1>2, TopOk
  <2>2. f \in Frames /\ f.pc = "collect" /\ f.told = Top.told  BY <2>1 DEF Frames
  <2>3. FrameOk(f, Len(seen))  BY <2>1, <2>2 DEF FrameOk, Giving
  <2>4. seen \in Seq(Bars)  BY <1>2 DEF TypeInv
  <2> QED  BY <2>2, <2>3, <2>4, OneItem
<1>4. Top' = f /\ frames' # <<>> /\ Len(frames') = Len(frames)
  <2>1. Len(seen) <= Len(seen)  BY <1>3
  <2> QED  BY <1>1, <1>2, <1>3, <2>1, TopChanges
<1> HIDE DEF f
<1>5. ~ Stopping /\ Stopping' /\ Top'.pc = "collect"  BY <1>1, <1>3, <1>4 DEF Stopping
<1>6. Line' = Line
  <2>1. Line = seen \o <<>>  BY <1>1, <1>5, NotGiving DEF Line, Giving
  <2>2. Rest(Top') = <<>>  BY <1>5, NotGiving DEF Giving
  <2>3. Line' = seen' \o Rest(Top')  BY <1>5 DEF Line, Rest
  <2> QED  BY <1>1, <2>1, <2>2, <2>3
<1>7. InFlight' = InFlight  BY <1>1 DEF InFlight
<1>8. CandleInv(Line', open', InFlight', ticks', stop', FALSE)
  BY <1>1, <1>2, <1>6, <1>7, StopIsSet
<1>9. TurnInv'  BY <1>1, <1>2, <1>4, <1>5 DEF TurnInv, Giving
<1>10. (failed \/ FileInv)'  BY <1>1, <1>2, <1>5 DEF FileInv
<1> QED  BY <1>8, <1>9, <1>10, NoLoss DEF Orderly

(* What a step of the handler after the event starts from. *)
LEMMA HandlerFacts ==
    ASSUME IInv, ~ raced, Alive, frames # <<>>, Top.pc # "set"
    PROVE  /\ TypeInv /\ TurnInv /\ (failed \/ FileInv) /\ Line \in Seq(Bars)
           /\ CandleInv(Line, open, InFlight, ticks, stop, FALSE)
           /\ Stopping /\ stop /\ stop = TRUE /\ feed.pc = "idle" /\ ~ InFlight
           /\ InFlight = FALSE /\ Len(frames) = 1 /\ Line = seen \o Rest(Top)
           /\ Top \in Frames /\ Top.bars \in Seq(Bars) /\ Top.told <= Len(seen)
           /\ (Giving(Top) => Top.bars # <<>>) /\ seen \in Seq(Bars) /\ Len(seen) \in Nat
<1>1. /\ TypeInv /\ TurnInv /\ (failed \/ FileInv) /\ Line \in Seq(Bars)
      /\ CandleInv(Line, open, InFlight, ticks, stop, FALSE)
  BY Before
<1>2. Stopping  BY DEF Stopping
<1>3. stop /\ feed.pc = "idle"  BY <1>1, <1>2 DEF TurnInv
<1>4. stop = TRUE /\ ~ InFlight /\ InFlight = FALSE  BY <1>1, <1>3 DEF TypeInv, InFlight
<1>5. Len(frames) = 1
  <2>1. frames \in Seq(Frames)  BY <1>1 DEF TypeInv
  <2>2. Len(frames) <= 1  BY <1>1 DEF TurnInv
  <2> DEFINE n == Len(frames)
  <2>3. n \in Nat /\ n >= 1 /\ n <= 1  BY <2>1, <2>2, OneItem
  <2> HIDE DEF n
  <2>4. n = 1  BY <2>3
  <2> QED  BY <2>4 DEF n
<1>6. Top \in Frames /\ Top.told <= Len(seen) /\ (Giving(Top) => Top.bars # <<>>)
  BY <1>1, TopOk
<1>7. Top.bars \in Seq(Bars)  BY <1>6 DEF Frames
<1>8. seen \in Seq(Bars) /\ Len(seen) \in Nat  BY <1>1 DEF TypeInv
<1> QED  BY <1>1, <1>2, <1>3, <1>4, <1>5, <1>6, <1>7, <1>8 DEF Line

(* A step of the handler that goes on: it still has what it did not give.  *)
LEMMA HandlerGoesOn ==
    ASSUME IInv, ~ raced, Alive, frames # <<>>, Top.pc # "set", NEW f, ToTop(f),
           FrameOk(f, Len(seen')), f.pc # "set", Len(seen') \in Nat, Len(seen) <= Len(seen'),
           UNCHANGED <<feed, ticks, stop>>
    PROVE  /\ Stopping' /\ Top' = f /\ Len(frames') = 1 /\ InFlight' = FALSE /\ stop' = TRUE
           /\ feed'.pc = "idle" /\ Line' = seen' \o Rest(f)
<1>1. /\ TypeInv /\ stop = TRUE /\ InFlight = FALSE /\ Len(frames) = 1 /\ feed.pc = "idle"
  BY HandlerFacts
<1> DEFINE n == Len(seen')
<1>2. n \in Nat /\ FrameOk(f, n) /\ Len(seen) <= n  OBVIOUS
<1> HIDE DEF n
<1>3. frames' # <<>> /\ Len(frames') = Len(frames) /\ Top' = f  BY <1>1, <1>2, TopChanges
<1>4. Stopping'  BY <1>3 DEF Stopping
<1>5. InFlight' = FALSE  BY <1>1 DEF InFlight
<1> QED  BY <1>1, <1>3, <1>4, <1>5 DEF Line

LEMMA CollectOrderly == ASSUME FiniteSymbols, IInv, ~ raced', Collect PROVE Orderly'
<1> DEFINE f == [Top EXCEPT !.pc = "clear", !.bars = SetToSeq(Open)]
<1>1. /\ UNCHANGED <<main, feed, link, ticks, open, stop, seen, dash, raced, failed>> /\ Alive
      /\ frames # <<>> /\ Top.pc = "collect" /\ ToTop(f) /\ ~ raced
  BY DEF Collect, In
<1>2. /\ TypeInv /\ TurnInv /\ (failed \/ FileInv) /\ Stopping
      /\ CandleInv(Line, open, InFlight, ticks, stop, FALSE) /\ InFlight = FALSE
      /\ stop = TRUE /\ Line = seen \o Rest(Top) /\ Top \in Frames /\ Top.told <= Len(seen)
      /\ Len(seen) \in Nat
  BY <1>1, HandlerFacts
<1>3. /\ f \in Frames /\ f.pc = "clear" /\ f.bars = SetToSeq(Open) /\ f.told = Top.told
  BY <1>2, OpenBars DEF Frames
<1> HIDE DEF f
<1>4. FrameOk(f, Len(seen')) /\ f.pc # "set" /\ Len(seen') \in Nat /\ Len(seen) <= Len(seen')
  BY <1>1, <1>2, <1>3 DEF FrameOk, Giving
<1>5. /\ Stopping' /\ Top' = f /\ Len(frames') = 1 /\ InFlight' = FALSE /\ stop' = TRUE
      /\ feed'.pc = "idle" /\ Line' = seen' \o Rest(f)
  BY <1>1, <1>4, HandlerGoesOn
<1>6. Line' = Line
  <2>1. Rest(f) = <<>> /\ Rest(Top) = <<>>  BY <1>1, <1>3, NotGiving DEF Giving
  <2> QED  BY <1>1, <1>2, <1>5, <2>1
<1>7. TurnInv'
  <2>1. Open' = Open  BY <1>1 DEF Open
  <2> QED  BY <1>3, <1>5, <2>1 DEF TurnInv, Giving
<1>8. (failed \/ FileInv)'  BY <1>1, <1>2, <1>3, <1>5 DEF FileInv
<1> QED  BY <1>1, <1>2, <1>5, <1>6, <1>7, <1>8, NoLoss DEF Orderly

LEMMA ClearOrderly == ASSUME FiniteSymbols, IInv, ~ raced', Clear PROVE Orderly'
<1> DEFINE pc == IF Top.bars = <<>> THEN "end" ELSE "strategy"
           f == [Top EXCEPT !.pc = pc]
<1>1. /\ UNCHANGED <<main, feed, link, ticks, stop, seen, dash, raced, failed>> /\ Alive
      /\ frames # <<>> /\ Top.pc = "clear" /\ ToTop(f) /\ ~ raced /\ open' = Cleared
  BY DEF Clear, In
<1>2. /\ TypeInv /\ TurnInv /\ (failed \/ FileInv) /\ Stopping /\ Line \in Seq(Bars)
      /\ CandleInv(Line, open, InFlight, ticks, stop, FALSE) /\ InFlight = FALSE
      /\ stop = TRUE /\ Line = seen \o Rest(Top) /\ Top \in Frames /\ Top.told <= Len(seen)
      /\ Len(seen) \in Nat /\ Top.bars \in Seq(Bars) /\ seen \in Seq(Bars)
  BY <1>1, HandlerFacts
<1>3. pc \in {"end", "strategy"} /\ (pc = "strategy" => Top.bars # <<>>)
      /\ (pc = "end" => Top.bars = <<>>)
  OBVIOUS
<1> HIDE DEF pc
<1>4. f \in Frames /\ f.pc = pc /\ f.bars = Top.bars /\ f.told = Top.told
  BY <1>2, <1>3 DEF Frames
<1> HIDE DEF f
<1>5. FrameOk(f, Len(seen')) /\ f.pc # "set" /\ Len(seen') \in Nat /\ Len(seen) <= Len(seen')
  BY <1>1, <1>2, <1>3, <1>4 DEF FrameOk, Giving
<1>6. /\ Stopping' /\ Top' = f /\ Len(frames') = 1 /\ InFlight' = FALSE /\ stop' = TRUE
      /\ feed'.pc = "idle" /\ Line' = seen' \o Rest(f)
  BY <1>1, <1>5, HandlerGoesOn
<1>7. Line = seen /\ Line' = seen \o SetToSeq(Open)
  <2>1. Rest(Top) = <<>>  BY <1>1, NotGiving DEF Giving
  <2>2. Rest(f) = Top.bars  BY <1>3, <1>4 DEF Rest
  <2>3. Top.bars = SetToSeq(Open)  BY <1>1, <1>2 DEF TurnInv
  <2> QED  BY <1>1, <1>2, <1>6, <2>1, <2>2, <2>3, ConcatEmptySeq
<1>8. CandleInv(Line', open', InFlight', ticks', stop', FALSE)
  <2>1. open \in Tables  BY <1>2 DEF TypeInv, OpenOk
  <2>2. CandleInv(seen, open, FALSE, ticks, TRUE, FALSE)  BY <1>2, <1>7
  <2>3. CandleInv(seen \o SetToSeq(Open), Cleared, FALSE, ticks, TRUE, FALSE)
    BY <1>2, <2>1, <2>2, CandlesFlush DEF Open
  <2> QED  BY <1>1, <1>6, <1>7, <2>3
<1>9. TurnInv'  BY <1>1, <1>3, <1>4, <1>6 DEF TurnInv, Giving
<1>10. (failed \/ FileInv)'  BY <1>1, <1>2, <1>3, <1>4, <1>6 DEF FileInv
<1> QED  BY <1>8, <1>9, <1>10, NoLoss DEF Orderly

LEMMA StopBarOrderly == ASSUME IInv, ~ raced', StopBar PROVE Orderly'
<1> DEFINE f == [Top EXCEPT !.pc = "mark"]
<1>1. /\ UNCHANGED <<feed, ticks, open, stop, dash, raced>> /\ Alive
      /\ frames # <<>> /\ Top.pc = "strategy" /\ ~ raced /\ GiveBar(Head(Top.bars))
      /\ \/ ToTop(f) /\ UNCHANGED <<main, failed>>
         \/ main' = "exited" /\ frames' = <<>> /\ failed' = TRUE
  BY DEF StopBar, In
<1>2. /\ TypeInv /\ TurnInv /\ (failed \/ FileInv) /\ Stopping /\ Line \in Seq(Bars)
      /\ CandleInv(Line, open, InFlight, ticks, stop, FALSE) /\ InFlight = FALSE
      /\ stop = TRUE /\ Line = seen \o Rest(Top) /\ Top \in Frames /\ Top.told <= Len(seen)
      /\ Len(seen) \in Nat /\ Top.bars \in Seq(Bars) /\ seen \in Seq(Bars)
      /\ feed.pc = "idle" /\ Top.bars # <<>>
  BY <1>1, HandlerFacts DEF Giving
<1>3. f \in Frames /\ f.pc = "mark" /\ f.bars = Top.bars /\ f.told = Top.told
  BY <1>2 DEF Frames
<1> HIDE DEF f
<1>4. /\ Line = seen \o Top.bars /\ seen' \o Tail(Top.bars) = seen \o Top.bars
      /\ seen' \in Seq(Bars) /\ Len(seen') = Len(seen) + 1 /\ Len(seen') <= Len(Line)
      /\ \A i \in 1..Len(seen') : seen'[i] = Line[i]
  <2>1. Line = seen \o Top.bars  BY <1>1, <1>2 DEF Rest
  <2> DEFINE bars == Top.bars
             part == Append(seen, Head(bars))
  <2>2. seen' = part  BY <1>1 DEF GiveBar
  <2>3. bars \in Seq(Bars) /\ bars # <<>>  BY <1>2
  <2> HIDE DEF bars
  <2>4. /\ part \in Seq(Bars) /\ Len(part) = Len(seen) + 1
        /\ part \o Tail(bars) = seen \o bars /\ Len(seen) + 1 <= Len(seen \o bars)
        /\ \A i \in 1..(Len(seen) + 1) : part[i] = (seen \o bars)[i]
    BY <1>2, <2>3, Handed
  <2>5. Line = seen \o bars  BY <2>1 DEF bars
  <2> HIDE DEF part
  <2> QED  BY <2>2, <2>4, <2>5 DEF bars
<1>5. CASE ToTop(f) /\ UNCHANGED <<main, failed>>
  <2>1. FrameOk(f, Len(seen')) /\ f.pc # "set" /\ Len(seen') \in Nat /\ Len(seen) <= Len(seen')
    <3>1. Top.told \in Nat  BY <1>2 DEF Frames
    <3> QED  BY <1>2, <1>3, <1>4, <3>1 DEF FrameOk
  <2>2. /\ Stopping' /\ Top' = f /\ Len(frames') = 1 /\ InFlight' = FALSE /\ stop' = TRUE
        /\ feed'.pc = "idle" /\ Line' = seen' \o Rest(f)
    BY <1>1, <1>5, <2>1, HandlerGoesOn
  <2>3. Line' = Line  BY <1>3, <1>4, <2>2 DEF Rest
  <2>4. TurnInv'
    <3>1. open' = Cleared  BY <1>1, <1>2 DEF TurnInv
    <3>2. Cleared' = Cleared  BY DEF Cleared
    <3> QED  BY <1>3, <2>2, <3>1, <3>2 DEF TurnInv, Giving
  <2>5. (failed \/ FileInv)'  BY <1>3, <2>2 DEF FileInv
  <2> QED  BY <1>1, <1>2, <2>2, <2>3, <2>4, <2>5, NoLoss DEF Orderly
<1>6. CASE main' = "exited" /\ frames' = <<>> /\ failed' = TRUE
  <2>1. ~ Stopping' /\ InFlight' = FALSE /\ Rest(feed') = <<>>
    BY <1>1, <1>2, <1>6 DEF Stopping, InFlight, Rest
  <2>2. Line' = seen'  BY <1>4, <2>1, ConcatEmptySeq DEF Line
  <2>3. CandleInv(seen', open, InFlight, ticks, stop, TRUE)
    <3> DEFINE part == seen'
    <3>1. part \in Seq(Bars) /\ Len(part) <= Len(Line) /\ \A i \in 1..Len(part) : part[i] = Line[i]
      BY <1>4
    <3> HIDE DEF part
    <3>2. CandleInv(part, open, InFlight, ticks, stop, TRUE)  BY <1>2, <3>1, RestIsLost
    <3> QED  BY <3>2 DEF part
  <2>4. CandleInv(Line', open', InFlight', ticks', stop', (main = "exited" /\ failed)')
    <3>1. (main = "exited" /\ failed)' = TRUE  BY <1>6
    <3> QED  BY <1>1, <1>2, <2>1, <2>2, <2>3, <3>1
  <2>5. TurnInv'
    <3>1. Len(frames') = 0 /\ Len(frames') <= 1 /\ feed'.pc = "idle"  BY <1>1, <1>2, <1>6
    <3> QED  BY <2>1, <3>1 DEF TurnInv, Giving
  <2> QED  BY <1>6, <2>4, <2>5 DEF Orderly
<1> QED  BY <1>1, <1>5, <1>6

LEMMA StopWriteOrderly == ASSUME IInv, ~ raced', StopMark \/ StopWrite PROVE Orderly'
<1>1. /\ UNCHANGED <<main, feed, ticks, open, stop, seen, raced>> /\ Alive
      /\ frames # <<>> /\ Top.pc \in {"mark", "write"} /\ ~ raced
  BY DEF StopMark, StopWrite, In
<1>2. /\ TypeInv /\ TurnInv /\ (failed \/ FileInv) /\ Stopping
      /\ CandleInv(Line, open, InFlight, ticks, stop, FALSE) /\ InFlight = FALSE
      /\ stop = TRUE /\ Line = seen \o Rest(Top) /\ Top \in Frames /\ Top.told <= Len(seen)
      /\ Len(seen) \in Nat /\ Top.bars \in Seq(Bars) /\ seen \in Seq(Bars)
      /\ feed.pc = "idle" /\ Top.bars # <<>>
  BY <1>1, HandlerFacts DEF Giving
<1>3. Rest(Top) = Tail(Top.bars)  BY <1>1 DEF Rest
<1>4. ASSUME NEW f, ToTop(f), FrameOk(f, Len(seen)), f.pc \in {"write", "strategy", "end"},
             Rest(f) = Tail(Top.bars), f.pc = "write" => f.told = Len(seen),
             failed' \/ (f.pc = "write" \/ dash' = Len(seen))
      PROVE  Orderly'
  <2>1. /\ FrameOk(f, Len(seen')) /\ f.pc # "set" /\ Len(seen') \in Nat
        /\ Len(seen) <= Len(seen')
    BY <1>1, <1>2, <1>4
  <2>2. /\ Stopping' /\ Top' = f /\ Len(frames') = 1 /\ InFlight' = FALSE /\ stop' = TRUE
        /\ feed'.pc = "idle" /\ Line' = seen' \o Rest(f)
    BY <1>1, <1>4, <2>1, HandlerGoesOn
  <2>3. Line' = Line  BY <1>1, <1>2, <1>3, <1>4, <2>2
  <2>4. TurnInv'
    <3>1. open' = Cleared  BY <1>1, <1>2 DEF TurnInv
    <3>2. Cleared' = Cleared  BY DEF Cleared
    <3> QED  BY <1>4, <2>2, <3>1, <3>2 DEF TurnInv, Giving
  <2>5. (failed \/ FileInv)'  BY <1>1, <1>4, <2>2 DEF FileInv
  <2> QED  BY <1>1, <1>2, <2>2, <2>3, <2>4, <2>5, NoLoss DEF Orderly
<1>5. CASE StopMark
  <2> DEFINE f == [Top EXCEPT !.pc = "write", !.told = Len(seen)]
  <2>1. ToTop(f)  BY <1>5 DEF StopMark, Told
  <2>2. f \in Frames /\ f.pc = "write" /\ f.bars = Top.bars /\ f.told = Len(seen)
    BY <1>2 DEF Frames
  <2> HIDE DEF f
  <2>3. FrameOk(f, Len(seen)) /\ Rest(f) = Tail(Top.bars)
    BY <1>2, <2>2 DEF FrameOk, Rest
  <2> QED  BY <1>4, <2>1, <2>2, <2>3
<1>6. CASE StopWrite
  <2> DEFINE f == AfterBar(Top, "end")
  <2>1. ToTop(f) /\ Top.pc = "write" /\ (failed' = TRUE \/ (dash' = Top.told /\ failed' = failed))
    BY <1>6 DEF StopWrite, In
  <2>2. FrameOk(Top, Len(seen))  BY <1>2 DEF FrameOk
  <2>3. FrameOk(f, Len(seen)) /\ Rest(f) = Tail(Top.bars)
    BY <1>2, <2>2, NextBar
  <2>4. f.pc \in {"strategy", "end"}
    <3> DEFINE rest == Tail(Top.bars)
               pc == IF rest = <<>> THEN "end" ELSE "strategy"
    <3>1. f = [Top EXCEPT !.pc = pc, !.bars = rest, !.told = 0]  BY DEF AfterBar
    <3>2. pc \in {"strategy", "end"}  OBVIOUS
    <3> HIDE DEF f, rest, pc
    <3>3. f.pc = pc  BY <1>2, <3>1 DEF Frames
    <3> QED  BY <3>2, <3>3
  <2>5. failed' \/ dash' = Len(seen)  BY <1>2, <2>1 DEF FileInv
  <2> HIDE DEF f
  <2> QED  BY <1>4, <2>1, <2>3, <2>4, <2>5
<1> QED  BY <1>5, <1>6

LEMMA DisconnectOrderly == ASSUME IInv, ~ raced', Disconnect PROVE Orderly'
<1>1. /\ UNCHANGED <<feed, ticks, open, stop, seen, dash, raced, failed>> /\ Alive
      /\ frames # <<>> /\ Top.pc = "end" /\ frames' = SubSeq(frames, 1, Len(frames) - 1)
      /\ ~ raced
  BY DEF Disconnect, In, Front
<1>2. /\ TypeInv /\ TurnInv /\ (failed \/ FileInv) /\ Stopping
      /\ CandleInv(Line, open, InFlight, ticks, stop, FALSE) /\ InFlight = FALSE
      /\ Line = seen \o Rest(Top) /\ feed.pc = "idle" /\ Len(frames) = 1
  BY <1>1, HandlerFacts
<1>3. frames' = <<>>
  <2>1. frames \in Seq(Frames)  BY <1>2 DEF TypeInv
  <2>2. frames' = SubSeq(frames, 1, 0)  BY <1>1, <1>2
  <2> QED  BY <1>2, <2>1, <2>2, OneItem
<1>4. ~ Stopping' /\ InFlight' = InFlight  BY <1>1, <1>3 DEF Stopping, InFlight
<1>5. Line' = Line
  <2>1. Rest(Top) = <<>> /\ Rest(feed) = <<>>  BY <1>1, <1>2 DEF Rest
  <2>2. Line' = seen' \o Rest(feed')  BY <1>4 DEF Line
  <2> QED  BY <1>1, <1>2, <2>1, <2>2
<1>6. TurnInv'
  <2>1. Len(frames') = 0  BY <1>3
  <2> QED  BY <1>1, <1>2, <1>4, <2>1 DEF TurnInv, Giving
<1>7. (failed \/ FileInv)'  BY <1>1, <1>2, <1>4 DEF FileInv
<1> QED  BY <1>1, <1>2, <1>4, <1>5, <1>6, <1>7, NoLoss DEF Orderly

(* One lemma per step. *)
LEMMA OrderlyKept ==
    ASSUME FiniteSymbols, IInv, [Next]_vars, ~ raced' PROVE Orderly'
<1>1. CASE UNCHANGED vars
  <2>1. Orderly  BY <1>1 DEF IInv, vars
  <2>2. Line' = Line /\ InFlight' = InFlight
    BY <1>1 DEF vars, Line, InFlight, Stopping, Top
  <2>3. TurnInv'  BY <1>1, <2>1 DEF Orderly, vars, TurnInv, Stopping, Top, Tick, Open
  <2>4. (failed \/ FileInv)'  BY <1>1, <2>1 DEF Orderly, vars, FileInv, Stopping, Top
  <2> QED  BY <1>1, <2>1, <2>2, <2>3, <2>4 DEF Orderly, vars
<1>2. CASE FeedStep
  BY <1>2, LookOrderly, FoldOrderly, FeedBarOrderly, FeedWriteOrderly DEF FeedStep
<1>3. CASE Start \/ Connect \/ Pause \/ OnConnect \/ OnClose
  <2>1. ~ raced  BY <1>3 DEF Start, Connect, Pause, OnConnect, OnClose
  <2> QED  BY <1>3, <2>1, QuietOrderly
<1>4. CASE MainStep
  BY <1>3, <1>4, SetStopOrderly, CollectOrderly, ClearOrderly, StopBarOrderly,
     StopWriteOrderly, DisconnectOrderly
  DEF MainStep
<1> QED  BY <1>1, <1>2, <1>3, <1>4, SignalOrderly, OnTickOrderly DEF Next
-----------------------------------------------------------------------------
(* Before the handlers are there nothing has happened. *)
LEMMA StartKept == ASSUME IInv, [Next]_vars PROVE StartInv'
<1> SUFFICES ASSUME main' = "starting"
             PROVE  (/\ link = "off" /\ ticks = <<>> /\ seen = <<>> /\ dash = 0
                     /\ frames = <<>> /\ feed.pc = "idle")'
  BY DEF StartInv
<1>1. StartInv  BY DEF IInv
<1>2. CASE UNCHANGED vars  BY <1>1, <1>2 DEF vars, StartInv
<1>3. CASE Start \/ Connect \/ Pause  BY <1>3 DEF Start, Connect, Pause
<1>4. CASE FeedStep
  <2>1. main' = main /\ feed.pc # "idle"
    BY <1>4 DEF FeedStep, Look, Fold, FeedBar, FeedMark, FeedWrite
  <2> QED  BY <1>1, <2>1 DEF StartInv
<1>5. CASE SetStop \/ Collect \/ Clear \/ StopBar \/ StopMark \/ StopWrite \/ Disconnect
  <2>1. frames # <<>> /\ main' \in {main, "exited"}
    BY <1>5 DEF SetStop, Collect, Clear, StopBar, StopMark, StopWrite, Disconnect, In, Resumed
  <2> QED  BY <1>1, <2>1 DEF StartInv
<1>6. CASE Signal  BY <1>6 DEF Signal
<1>7. CASE OnConnect \/ OnClose
  <2>1. link # "off" /\ main' = main  BY <1>7 DEF OnConnect, OnClose
  <2> QED  BY <1>1, <2>1 DEF StartInv
<1>8. CASE \E s \in Symbols, bucket \in Buckets : OnTick(s, bucket)
  <2>1. link # "off" /\ main' = main  BY <1>8 DEF OnTick
  <2> QED  BY <1>1, <2>1 DEF StartInv
<1> QED  BY <1>2, <1>3, <1>4, <1>5, <1>6, <1>7, <1>8 DEF Next, MainStep

(* The handler of a session without a race or a failure leaves no tick     *)
(* behind and the file complete.                                           *)
LEMMA LastHandler ==
    ASSUME IInv, ~ raced, ~ failed, Disconnect
    PROVE  /\ \A n \in 1..Len(ticks) : \E i \in 1..Len(seen) : n \in seen[i].ticks
           /\ dash = Len(seen)
<1>1. Alive /\ frames # <<>> /\ Top.pc = "end"  BY DEF Disconnect, In
<1>2. /\ TypeInv /\ TurnInv /\ (failed \/ FileInv) /\ Stopping /\ InFlight = FALSE
      /\ CandleInv(Line, open, InFlight, ticks, stop, FALSE)
      /\ Line = seen \o Rest(Top) /\ feed.pc = "idle" /\ seen \in Seq(Bars)
  BY <1>1, HandlerFacts
<1>3. Line = seen
  <2>1. Rest(Top) = <<>>  BY <1>1 DEF Rest
  <2> QED  BY <1>2, <2>1, ConcatEmptySeq
<1>4. \A s \in Symbols : open[s] = NoCandle  BY <1>1, <1>2 DEF TurnInv, Cleared
<1>5. Folding(InFlight, ticks) = 1..Len(ticks)  BY <1>2 DEF Folding
<1>6. Held(Line, open, InFlight, ticks)  BY <1>2 DEF CandleInv
<1>7. \A n \in 1..Len(ticks) : \E i \in 1..Len(seen) : n \in seen[i].ticks
  BY <1>3, <1>4, <1>5, <1>6 DEF Held
<1>8. dash = Len(seen)  BY <1>1, <1>2 DEF FileInv
<1> QED  BY <1>7, <1>8

(* The session ends by a signal before the handlers are there, by a        *)
(* strategy that raises, or after a handler.                               *)
LEMMA LossKept == ASSUME IInv, [Next]_vars PROVE NothingLost'
<1> SUFFICES ASSUME main' = "exited", ~ raced', ~ failed'
             PROVE  (/\ \A n \in 1..Len(ticks) : \E i \in 1..Len(seen) : n \in seen[i].ticks
                     /\ dash = Len(seen))'
  BY DEF NothingLost
<1>1. NothingLost /\ StartInv  BY DEF IInv
<1>2. CASE UNCHANGED vars
  <2>1. main = "exited" /\ ~ raced /\ ~ failed  BY <1>2 DEF vars
  <2> QED  BY <1>1, <1>2, <2>1 DEF NothingLost, vars
<1>3. CASE Signal
  <2>1. main = "starting" /\ UNCHANGED <<ticks, seen, dash>>  BY <1>3 DEF Signal, Alive
  <2>2. ticks = <<>> /\ seen = <<>> /\ dash = 0  BY <1>1, <2>1 DEF StartInv
  <2>3. Len(ticks) = 0 /\ Len(seen) = 0  BY <2>2
  <2> QED  BY <2>1, <2>2, <2>3
<1>4. CASE StopBar
  <2>1. main # "exited" /\ (main' = main \/ failed' = TRUE)  BY <1>4 DEF StopBar, In, Alive
  <2> QED  BY <2>1
<1>5. CASE Disconnect
  <2>1. UNCHANGED <<ticks, seen, dash, raced, failed>>  BY <1>5 DEF Disconnect
  <2> QED  BY <1>5, <2>1, LastHandler
<1>6. CASE Start \/ Connect \/ Pause  BY <1>6 DEF Start, Connect, Pause
<1>7. CASE SetStop \/ Collect \/ Clear \/ StopMark \/ StopWrite \/ FeedStep \/ OnConnect \/ OnClose
  BY <1>7 DEF SetStop, Collect, Clear, StopMark, StopWrite, In, Alive,
     FeedStep, Look, Fold, FeedBar, FeedMark, FeedWrite, OnConnect, OnClose
<1>8. CASE \E s \in Symbols, bucket \in Buckets : OnTick(s, bucket)
  BY <1>8 DEF OnTick, Alive
<1> QED  BY <1>2, <1>3, <1>4, <1>5, <1>6, <1>7, <1>8 DEF Next, MainStep

LEMMA Inductive == ASSUME FiniteSymbols, IInv, [Next]_vars PROVE IInv'
BY TypesKept, StartKept, LossKept, OrderlyKept DEF IInv

LEMMA Initially == ASSUME Init PROVE IInv
<1>1. TypeInv  BY InitTypes
<1>2. StartInv  BY DEF Init, StartInv, Idle
<1>3. NothingLost  BY DEF Init, NothingLost
<1> QED  BY <1>1, <1>2, <1>3, InitOrderly DEF IInv

(* The types the runs check. *)
LEMMA TypesHold == ASSUME TypeInv PROVE TypeOK
<1>1. feed.pc \in {"idle", "look", "fold", "strategy", "mark", "write"}
  BY DEF TypeInv, FeedOk, Feeds
<1>2. \A i \in 1..Len(frames) :
         frames[i].pc \in {"set", "collect", "clear", "strategy", "mark", "write", "end"}
  BY DEF TypeInv, FrameOk, Frames
<1>3. ASSUME NEW s \in Symbols, open[s] # NoCandle
      PROVE  /\ open[s].symbol = s /\ open[s].bucket \in Buckets
             /\ open[s].ticks \in (SUBSET (1..Len(ticks))) \ {{}}
  <2>1. open[s] \in Bars /\ open[s].symbol = s /\ open[s].ticks \subseteq 1..Len(ticks)
    BY <1>3 DEF TypeInv, OpenOk, Tables
  <2> QED  BY <2>1 DEF Bars
<1> QED  BY <1>1, <1>2, <1>3 DEF TypeInv, TypeOK

(* What is in the line is in particular in the bars given. *)
LEMMA CandlesHold == ASSUME IInv PROVE CandlesComplete
<1>1. TypeOK  BY TypesHold DEF IInv
<1>2. CASE raced  BY <1>1, <1>2 DEF CandlesComplete, NoTickTwice
<1>3. CASE ~ raced
  <2>1. /\ Line \in Seq(Bars) /\ Len(seen) <= Len(Line) /\ Len(seen) \in Nat
        /\ \A i \in 1..Len(seen) : Line[i] = seen[i]
    <3>1. TypeInv /\ seen \in Seq(Bars)  BY DEF IInv, TypeInv
    <3> QED  BY <3>1, LineIsBars, LenProperties
  <2>2. \A i \in 1..Len(seen) : i \in 1..Len(Line)
    <3>1. Len(Line) \in Nat  BY <2>1, LenProperties
    <3> QED  BY <2>1, <3>1
  <2>3. PICK lost : CandleInv(Line, open, InFlight, ticks, stop, lost)
    BY <1>3 DEF IInv, Orderly
  <2>4. NoTickTwice  BY <2>1, <2>2, <2>3 DEF CandleInv, Apart, NoTickTwice
  <2>5. ASSUME InOrder
        PROVE  /\ \A i \in 1..Len(seen) :
                     seen[i].ticks = {n \in 1..Len(ticks) :
                         ticks[n].symbol = seen[i].symbol /\ ticks[n].bucket = seen[i].bucket}
               /\ \A i, j \in 1..Len(seen) : i < j /\ seen[i].symbol = seen[j].symbol =>
                     seen[i].bucket < seen[j].bucket
    <3>1. Ordered(ticks)  BY <2>5 DEF InOrder, Ordered
    <3>2. (\A i \in 1..Len(Line) : Closed(Line[i], InFlight, ticks, stop)) /\ Rising(Line, open)
      BY <2>3, <3>1 DEF CandleInv
    <3>3. \A i \in 1..Len(seen) : Closed(seen[i], InFlight, ticks, stop)  BY <2>1, <2>2, <3>2
    <3>4. \A i, j \in 1..Len(seen) : i < j /\ seen[i].symbol = seen[j].symbol =>
             seen[i].bucket < seen[j].bucket
      BY <2>1, <2>2, <3>2 DEF Rising
    <3> QED  BY <3>3, <3>4 DEF Closed
  <2> QED  BY <1>1, <2>4, <2>5 DEF CandlesComplete
<1> QED  BY <1>2, <1>3

(* For any finite set of symbols, any intervals and any number of ticks    *)
(* and signals, late ticks and a strategy that raises included: without a  *)
(* race no tick is in two bars of the strategy, and with ticks in order    *)
(* every bar holds all ticks of its interval and the bars of a symbol come *)
(* in the order of their intervals (CandleBuilder, _process_bar, stop).    *)
THEOREM Complete == ASSUME FiniteSymbols PROVE Spec => []CandlesComplete
<1>1. Init => IInv  BY Initially
<1>2. IInv /\ [Next]_vars => IInv'  BY Inductive
<1>3. IInv => CandlesComplete  BY CandlesHold
<1> QED  BY <1>1, <1>2, <1>3, PTL DEF Spec

(* A session that ends without a race or a failure has given every tick to *)
(* the strategy and tells of every bar in its file (LivePaperRunner.stop,  *)
(* the handler of run_live_paper).                                         *)
THEOREM Kept == ASSUME FiniteSymbols PROVE Spec => []NothingLost
<1>1. Init => IInv  BY Initially
<1>2. IInv /\ [Next]_vars => IInv'  BY Inductive
<1>3. IInv => NothingLost  BY DEF IInv
<1> QED  BY <1>1, <1>2, <1>3, PTL DEF Spec
=============================================================================
