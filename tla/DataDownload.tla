----------------------------- MODULE DataDownload -----------------------------
(***************************************************************************)
(* The download of historical candles: one run of the script asks the      *)
(* broker for each symbol, chunk by chunk, merges the answer with the file *)
(* of the symbol and saves it.  A write can fail, a run can die anywhere,  *)
(* also while it writes, and the next one starts from the files.           *)
(*                                                                         *)
(* Time counts slots: a day has a midnight and Slots candles after it.  A  *)
(* candle is stamped with its start (midnight for the candle of a day) and *)
(* is still forming until the next one starts.                             *)
(***************************************************************************)
EXTENDS Integers, Sequences, FiniteSets

CONSTANTS
    Target,     \* symbols asked for, in order
    Listed,     \* symbols with an instrument token
    Bad,        \* candles with a price of zero or below: <<symbol, stamp>>
    Slots,      \* intraday candles of a day
    LastDay,    \* bound: days
    Arguments,  \* command lines
    Torn,       \* content of a file whose writing was cut short
    NoFile,
    MaxRuns     \* bound: runs of the script

ASSUME DownloadAssumption ==
    /\ Slots \in Nat \ {0} /\ LastDay \in Nat \ {0} /\ MaxRuns \in Nat
    /\ Torn # NoFile
    /\ Target \in Seq({Target[i] : i \in 1..Len(Target)})
    /\ \A a \in Arguments : a.from \in 1..LastDay /\ a.to \in 1..LastDay /\ a.chunk \in Int

VARIABLES
    now,    \* the current slot
    files,  \* symbol and interval -> the file: a set of rows, Torn or NoFile
    run,    \* the running script
    runs

vars == <<now, files, run, runs>>

Names == {Target[i] : i \in 1..Len(Target)}
Paths == Names \X {a.interval : a \in Arguments}
Midnight(day) == day * (Slots + 1)
DayOf(t) == t \div (Slots + 1)
LastSlot == Midnight(LastDay + 1) - 1

Idle == [pc |-> "idle"]

Init ==
    /\ now \in {Midnight(1) + 1, LastSlot}
    /\ files = [p \in Paths |-> NoFile]
    /\ run = Idle /\ runs = 0

-----------------------------------------------------------------------------
(* The ranges that are asked for. *)

(* Mutant of Chunks: the next chunk starts a day too late. *)
Gapped(a) ==
    IF a.interval = "day" THEN <<<<a.from, a.to>>>>
    ELSE [i \in 1..((a.to - a.from) \div (a.chunk + 1) + 1) |->
            LET first == a.from + (i - 1) * (a.chunk + 1)
                last == first + a.chunk - 1
            IN  <<first, IF last < a.to THEN last ELSE a.to>>]

(* split_date_range, of intraday intervals only. *)
Chunks(a) ==
    IF a.interval = "day" THEN <<<<a.from, a.to>>>>
    ELSE [i \in 1..((a.to - a.from) \div a.chunk + 1) |->
            LET first == a.from + (i - 1) * a.chunk
                last == first + a.chunk - 1
            IN  <<first, IF last < a.to THEN last ELSE a.to>>]

(* The script's own refusals: LIVE_TRADING_ENABLED or missing credentials  *)
(* (a.refused), dates in the wrong order, a chunk of no days; a dry run    *)
(* stops before it calls anybody.                                          *)
StopsAtOnce(a) ==
    a.refused \/ a.to < a.from \/ a.dry \/ (a.interval # "day" /\ a.chunk <= 0)

-----------------------------------------------------------------------------
(* Rows. *)

Stamps(interval) ==
    {t \in Midnight(1)..LastSlot : (t % (Slots + 1) = 0) <=> (interval = "day")}
Forming(t, interval) == IF interval = "day" THEN DayOf(t) = DayOf(now) ELSE t = now

(* The broker's answer: the candles that have begun and are stamped from   *)
(* the first to the last moment asked for, both of them midnights.         *)
Candles(s, interval, chunk) ==
    {[at |-> t, mark |-> IF <<s, t>> \in Bad THEN "bad"
                         ELSE IF Forming(t, interval) THEN "forming" ELSE "final"] :
        t \in {u \in Stamps(interval) :
                 Midnight(chunk[1]) <= u /\ u <= Midnight(chunk[2]) /\ u <= now}}

(* Mutants of KeepFirst: the newer row wins, or both stay. *)
KeepLast(old, new) == new \cup {r \in old : \A n \in new : n.at # r.at}
KeepBoth(old, new) == old \cup new

(* concat, drop_duplicates and sort, of file and chunks in their order: a  *)
(* stamp keeps the row it had.                                             *)
KeepFirst(old, new) == old \cup {r \in new : \A o \in old : o.at # r.at}

(* validate_ohlcv_dataframe: rows exist, one for each stamp, prices good;  *)
(* gaps are warned of only.                                                *)
IsValid(rows) ==
    /\ rows # {}
    /\ \A r \in rows : r.mark # "bad" /\ \A q \in rows : q.at = r.at => q = r

Merges(a, path) == ~ a.replace /\ ~ a.plain /\ files[path] # NoFile

-----------------------------------------------------------------------------
(* A run.  a.plain is HistoricalDataDownloader.download_universe: one      *)
(* request for a symbol, no merge, and no handler around it.               *)

Start(a) ==
    /\ run.pc = "idle" /\ runs < MaxRuns /\ runs' = runs + 1
    /\ run' = IF StopsAtOnce(a) THEN Idle
              ELSE [pc |-> "fetch", args |-> a, next |-> 1, chunk |-> 1, got |-> {},
                    downloaded |-> {}, failed |-> {}, valid |-> {}, hole |-> FALSE,
                    began |-> now]
    /\ UNCHANGED <<now, files>>

Symbol == Target[run.next]
Path == <<Symbol, run.args.interval>>
Ranges == IF run.args.plain THEN <<<<run.args.from, run.args.to>>>> ELSE Chunks(run.args)
Working == run.pc = "fetch" /\ run.next <= Len(Target)

(* Mutant of Given: what failed is listed with what was downloaded. *)
GivenAnyway(r) == [r EXCEPT !.downloaded = @ \cup {Target[r.next]}, !.next = @ + 1,
                            !.chunk = 1, !.got = {}]

(* On to the next symbol. *)
Given(r) == [r EXCEPT !.next = @ + 1, !.chunk = 1, !.got = {}]

(* A symbol without a token is not asked for; build_instrument_map has it  *)
(* among the missing ones.                                                 *)
Skip ==
    /\ Working /\ Symbol \notin Listed
    /\ run' = Given(run)
    /\ UNCHANGED <<now, files, runs>>

Fetch ==
    /\ Working /\ Symbol \in Listed /\ run.chunk <= Len(Ranges)
    /\ LET rows == Candles(Symbol, run.args.interval, Ranges[run.chunk])
       IN  \/ run' = [run EXCEPT !.chunk = @ + 1, !.got = KeepFirst(@, rows)]
           \/ /\ rows # {}                         \* an empty answer
              /\ run' = [run EXCEPT !.chunk = @ + 1, !.hole = TRUE]
    /\ UNCHANGED <<now, files, runs>>

(* An exception: the symbol fails, with all of its chunks, and the run     *)
(* goes on; the plain download ends.                                       *)
Fails ==
    IF run.args.plain THEN Idle
    ELSE Given([run EXCEPT !.failed = @ \cup {Symbol}])

FetchFails ==
    /\ Working /\ Symbol \in Listed /\ run.chunk <= Len(Ranges)
    /\ run' = Fails
    /\ UNCHANGED <<now, files, runs>>

AllFetched == Working /\ Symbol \in Listed /\ run.chunk > Len(Ranges)

(* Reading the old file raises. *)
Blocked == Merges(run.args, Path) /\ files[Path] = Torn

(* Merge, validate, save: a frame that is not valid is saved like any.     *)
Save ==
    /\ AllFetched /\ ~ Blocked
    /\ LET rows == IF Merges(run.args, Path) THEN KeepFirst(files[Path], run.got)
                   ELSE run.got
       IN  /\ files' = [files EXCEPT ![Path] = rows]
           /\ run' = Given([run EXCEPT !.downloaded = @ \cup {Symbol},
                               !.valid = IF IsValid(rows) THEN @ \cup {Symbol} ELSE @])
    /\ UNCHANGED <<now, runs>>

(* Reading the old file, mkdir or to_parquet raises.  Before the file is   *)
(* opened it stays as it was; after that it is torn, or the library has    *)
(* removed what it could not finish.                                       *)
SaveFails ==
    /\ AllFetched
    /\ \E left \in {files[Path]} \cup (IF Blocked THEN {} ELSE {Torn, NoFile}) :
          files' = [files EXCEPT ![Path] = left]
    /\ run' = Fails
    /\ UNCHANGED <<now, runs>>

End ==
    /\ run.pc = "fetch" /\ run.next > Len(Target)
    /\ run' = [run EXCEPT !.pc = "done"]
    /\ UNCHANGED <<now, files, runs>>

(* The exit code of the script; missing symbols do not count. *)
ExitsWell == run.pc = "done" /\ run.failed = {}

(* The process goes away, at its end or before it, or in the middle of     *)
(* writing a file.                                                         *)
Gone == run.pc # "idle" /\ run' = Idle /\ UNCHANGED <<now, files, runs>>
DieWriting ==
    /\ AllFetched /\ ~ Blocked
    /\ files' = [files EXCEPT ![Path] = Torn]
    /\ run' = Idle
    /\ UNCHANGED <<now, runs>>

Tick == /\ now < LastSlot /\ now' = now + 1
        /\ UNCHANGED <<files, run, runs>>

Next ==
    \/ \E a \in Arguments : Start(a)
    \/ Skip \/ Fetch \/ FetchFails \/ Save \/ SaveFails \/ End \/ Gone \/ DieWriting \/ Tick

Spec == Init /\ [][Next]_vars

-----------------------------------------------------------------------------
(* Properties. *)

Readable(path) == files[path] \notin {NoFile, Torn}

(* Every variable stays within its type, and a run says of a symbol at     *)
(* most one thing: downloaded, failed or (without a token) missing.        *)
TypeOK ==
    /\ now \in Midnight(1)..LastSlot /\ runs \in 0..MaxRuns
    /\ \A path \in Paths : Readable(path) =>
          \A r \in files[path] : r.at \in Midnight(1)..LastSlot
                              /\ r.mark \in {"forming", "final", "bad"}
    /\ run.pc \in {"idle", "fetch", "done"}
    /\ run.pc # "idle" =>
          /\ run.next \in 1..(Len(Target) + 1)
          /\ run.downloaded \cup run.failed \subseteq Names \cap Listed
          /\ run.downloaded \cap run.failed = {}

(* A file has one row for each stamp, however often runs overlap.          *)
OneRowPerStamp ==
    \A path \in Paths : Readable(path) =>
        \A r \in files[path], q \in files[path] : r.at = q.at => r = q

(* What a run that ended asked for, it accounts for, symbol by symbol, and *)
(* after a good exit code each of them but those without a token has a     *)
(* file that can be read, whatever writes failed or were cut short before. *)
Accounted ==
    /\ TypeOK
    /\ run.pc = "done" =>
          /\ run.downloaded \cup run.failed = Names \cap Listed
          /\ ExitsWell =>
                \A s \in Names \cap Listed : Readable(<<s, run.args.interval>>)

(* Day of a candle is inside the range that the run asked for, and neither *)
(* the last day of a chunk nor of the range.                               *)
InnerDay(a, t) ==
    /\ DayOf(t) \in a.from..(a.to - 1)
    /\ a.plain \/ (DayOf(t) - a.from + 1) % a.chunk # 0

(* The file of a symbol that a run lists as downloaded, and not as failed  *)
(* too (a symbol asked for twice can be both), has every candle there was  *)
(* when the run began: for days, all of the range; within a day, all but   *)
(* the last day of each chunk, because a chunk ends at a midnight.         *)
(* Merging, other runs, writes that fail and the clock moving on between   *)
(* the chunks change nothing in that.                                      *)
CoversInnerDays ==
    (run.pc # "idle" /\ ~ run.hole) =>
        \A s \in run.downloaded \ run.failed, t \in Stamps(run.args.interval) :
            (t <= run.began
             /\ IF run.args.interval = "day" THEN DayOf(t) \in run.args.from..run.args.to
                ELSE InnerDay(run.args, t))
            => \E r \in files[<<s, run.args.interval>>] : r.at = t

(* A run without --replace (and not the plain download, which replaces     *)
(* always) loses no row and changes none, not even one that was saved      *)
(* while its candle was forming.  Only a write that fails takes rows, the  *)
(* whole file at once, and never silently: the run dies, or lists the      *)
(* symbol as failed.  A torn file stays, and fails its symbol in every     *)
(* later run, until one replaces it.                                       *)
RowsStay ==
    [][\A path \in Paths :
         (files'[path] # files[path] /\ ~ run.args.replace /\ ~ run.args.plain) =>
            /\ files[path] # Torn
            /\ Readable(path) =>
                  IF Readable(path)' THEN files[path] \subseteq files'[path]
                  ELSE run'.pc = "idle" \/ path[1] \in run'.failed]_vars
=============================================================================
