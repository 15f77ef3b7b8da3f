-------------------------- MODULE DataDownloadProofs --------------------------
(***************************************************************************)
(* What holds of the downloaded files for every list of symbols, every     *)
(* command line and every length of the calendar.                          *)
(***************************************************************************)
EXTENDS DataDownload, TLAPS

Rows == [at : Midnight(1)..LastSlot, mark : {"forming", "final", "bad"}]
OneEach(rows) == \A r \in rows, q \in rows : r.at = q.at => r = q

(* Symbols asked for before the next one. *)
Before(n) == {Target[i] : i \in 1..(n - 1)}

(* What the theorem about the account of a run assumes: no symbol is asked *)
(* for twice, and neither no file nor a torn one is a file of rows.        *)
Distinct == \A i, j \in 1..Len(Target) : Target[i] = Target[j] => i = j
MarksAreNoRows == NoFile \notin SUBSET Rows /\ Torn \notin SUBSET Rows

Runs ==
    [pc : {"fetch", "done"}, args : Arguments, next : 1..(Len(Target) + 1),
     chunk : Nat \ {0}, got : SUBSET Rows, downloaded : SUBSET Names,
     failed : SUBSET Names, valid : SUBSET Names, hole : BOOLEAN, began : Int]

(* The answers got so far for a symbol are one row for each stamp. *)
GotInv == OneEach(run.got)

AccountInv ==
    /\ run.downloaded \cup run.failed = Before(run.next) \cap Listed
    /\ Distinct => run.downloaded \cap run.failed = {}
    /\ Distinct /\ MarksAreNoRows =>
          \A s \in run.downloaded : Readable(<<s, run.args.interval>>)
    /\ run.pc = "done" => run.next > Len(Target)

FileInv ==
    /\ DOMAIN files = Paths
    /\ \A path \in Paths :
          Readable(path) => files[path] \in SUBSET Rows /\ OneEach(files[path])

RunInv ==
    run = Idle \/ (run \in Runs /\ ~ StopsAtOnce(run.args) /\ GotInv /\ AccountInv)

IInv ==
    /\ now \in Midnight(1)..LastSlot /\ runs \in 0..MaxRuns
    /\ FileInv
    /\ RunInv
-----------------------------------------------------------------------------
(* Later days have later midnights, and the calendar is not empty. *)
LEMMA Times == ASSUME NEW d \in Int, NEW n \in Int
               PROVE  /\ Midnight(d) \in Int
                      /\ d <= n => Midnight(d) <= Midnight(n)
                      /\ d < n => Midnight(d) < Midnight(n)
                      /\ LastSlot \in Int /\ Midnight(1) \in Int
                      /\ Midnight(1) + 1 <= LastSlot
<1> DEFINE w == Slots + 1
<1>1. w \in Nat /\ w >= 2  BY DownloadAssumption
<1>2. ASSUME NEW a \in Int, NEW b \in Int
      PROVE  a * w \in Int /\ (a <= b => a * w <= b * w) /\ (a < b => a * w < b * w)
  <2> HIDE DEF w
  <2>1. a * w \in Int /\ b * w \in Int  BY <1>1
  <2>2. CASE a < b
    <3>1. PICK k \in Nat : k >= 1 /\ b = a + k
      <4>1. b - a \in Nat /\ b - a >= 1 /\ b = a + (b - a)  BY <2>2
      <4> QED  BY <4>1
    <3>2. b * w = a * w + k * w  BY <3>1, <1>1
    <3>3. k * w >= 1  BY <3>1, <1>1
    <3> QED  BY <2>1, <2>2, <3>2, <3>3, <1>1, <3>1
  <2> QED  BY <2>1, <2>2
<1>3. Midnight(d) = d * w /\ Midnight(n) = n * w /\ Midnight(1) = 1 * w
      /\ LastSlot = (LastDay + 1) * w - 1
  BY DEF Midnight, LastSlot
<1>4. 2 * w <= (LastDay + 1) * w
  <2> HIDE DEF w
  <2>1. 2 \in Int /\ LastDay + 1 \in Int /\ 2 <= LastDay + 1  BY DownloadAssumption
  <2> QED  BY <2>1, <1>2
<1> QED
  <2>1. (LastDay + 1) * w \in Int  BY <1>2, DownloadAssumption
  <2>2. 1 * w = w /\ 2 * w = w + w  BY <1>1
  <2> HIDE DEF w
  <2> QED  BY <1>1, <1>2, <1>3, <1>4, <2>1, <2>2

(* An answer is a set of rows between the two midnights asked for, one for *)
(* each stamp.                                                             *)
LEMMA Answer ==
    ASSUME NEW s, NEW interval, NEW chunk
    PROVE  LET rows == Candles(s, interval, chunk)
           IN  /\ rows \in SUBSET Rows /\ OneEach(rows)
               /\ \A r \in rows : Midnight(chunk[1]) <= r.at /\ r.at <= Midnight(chunk[2])
<1> DEFINE T == {u \in Stamps(interval) :
                   Midnight(chunk[1]) <= u /\ u <= Midnight(chunk[2]) /\ u <= now}
           mark(t) == IF <<s, t>> \in Bad THEN "bad"
                      ELSE IF Forming(t, interval) THEN "forming" ELSE "final"
           rows == {[at |-> t, mark |-> mark(t)] : t \in T}
<1>1. Candles(s, interval, chunk) = rows  BY DEF Candles
<1>2. \A t \in T : t \in Midnight(1)..LastSlot /\ Midnight(chunk[1]) <= t /\ t <= Midnight(chunk[2])
  BY DEF Stamps
<1>3. \A t \in T : mark(t) \in {"forming", "final", "bad"}  OBVIOUS
<1> QED
  <2> HIDE DEF T, mark
  <2>1. rows \in SUBSET Rows /\ OneEach(rows)  BY <1>2, <1>3 DEF Rows, OneEach
  <2>2. \A r \in rows : Midnight(chunk[1]) <= r.at /\ r.at <= Midnight(chunk[2])  BY <1>2
  <2> HIDE DEF rows
  <2> QED  BY <1>1, <2>1, <2>2

(* Merging keeps all rows of the file, and one row for each stamp. *)
LEMMA Merged ==
    ASSUME NEW old \in SUBSET Rows, NEW new \in SUBSET Rows, OneEach(old), OneEach(new)
    PROVE  /\ KeepFirst(old, new) \in SUBSET Rows
           /\ OneEach(KeepFirst(old, new))
           /\ old \subseteq KeepFirst(old, new)
BY DEF KeepFirst, OneEach

-----------------------------------------------------------------------------
(* The symbols before the next but one. *)
LEMMA BeforeNext ==
    ASSUME NEW n \in 1..Len(Target)
    PROVE  /\ Target[n] \in Names
           /\ Before(n + 1) = Before(n) \cup {Target[n]}
           /\ Distinct => Target[n] \notin Before(n)
<1>1. Len(Target) \in Nat  BY DownloadAssumption
<1>2. Target[n] \in Names  BY DEF Names
<1>3. Before(n + 1) = Before(n) \cup {Target[n]}  BY <1>1 DEF Before
<1>4. Distinct => Target[n] \notin Before(n)
  <2> SUFFICES ASSUME Distinct, NEW i \in 1..(n - 1) PROVE Target[i] # Target[n]
    BY DEF Before
  <2> QED  BY <1>1 DEF Distinct
<1> QED  BY <1>2, <1>3, <1>4

(* What going on to the next symbol leaves and resets. *)
LEMMA OnToNext ==
    ASSUME NEW r \in Runs, r.next <= Len(Target)
    PROVE  /\ Given(r) \in Runs
           /\ Given(r).pc = r.pc /\ Given(r).args = r.args
           /\ Given(r).next = r.next + 1 /\ Given(r).chunk = 1 /\ Given(r).got = {}
           /\ Given(r).downloaded = r.downloaded /\ Given(r).failed = r.failed
           /\ Given(r).hole = r.hole /\ Given(r).began = r.began
<1>1. Len(Target) \in Nat  BY DownloadAssumption
<1>2. r.next + 1 \in 1..(Len(Target) + 1)  BY <1>1 DEF Runs
<1>3. {} \in SUBSET Rows /\ 1 \in Nat \ {0}  OBVIOUS
<1> QED  BY <1>2, <1>3 DEF Given, Runs

(* The running script's symbol and file. *)
LEMMA WorkingFacts ==
    ASSUME IInv, Working
    PROVE  /\ run \in Runs /\ ~ StopsAtOnce(run.args) /\ GotInv /\ AccountInv
           /\ run.next \in 1..Len(Target) /\ run.pc = "fetch"
           /\ Symbol \in Names /\ Symbol = Target[run.next]
           /\ Path \in Paths
<1>1. run # Idle  BY DEF Working, Idle
<1>2. run \in Runs /\ ~ StopsAtOnce(run.args) /\ GotInv /\ AccountInv  BY <1>1 DEF IInv, RunInv
<1>3. run.next \in 1..Len(Target)  BY <1>2, DownloadAssumption DEF Working, Runs
<1>4. Symbol \in Names  BY <1>3 DEF Symbol, Names
<1>5. Path \in Paths  BY <1>2, <1>4 DEF Path, Paths, Runs
<1> QED  BY <1>2, <1>3, <1>4, <1>5 DEF Working, Symbol

(* At a new symbol nothing of it has been fetched. *)
LEMMA FreshGot ==
    ASSUME run'.got = {} PROVE GotInv'
BY DEF GotInv, OneEach

LEMMA InitHolds == ASSUME Init PROVE IInv
<1>1. now \in Midnight(1)..LastSlot
  <2>1. 1 \in Int  OBVIOUS
  <2> QED  BY <2>1, Times DEF Init
<1>2. runs \in 0..MaxRuns  BY DownloadAssumption DEF Init
<1>3. FileInv  BY DEF Init, FileInv, Readable
<1> QED  BY <1>1, <1>2, <1>3 DEF Init, IInv, RunInv

(* Steps that leave the files and the clock alone, or end the run. *)
LEMMA StartKeeps == ASSUME IInv, NEW a \in Arguments, Start(a) PROVE IInv'
<1>1. now' = now /\ files' = files  BY DEF Start
<1>2. FileInv'  BY <1>1 DEF IInv, FileInv, Readable
<1>3. runs' \in 0..MaxRuns  BY DownloadAssumption DEF Start, IInv
<1>4. now' \in Midnight(1)..LastSlot  BY <1>1 DEF IInv
<1>5. CASE StopsAtOnce(a)  BY <1>2, <1>3, <1>4, <1>5 DEF Start, IInv, RunInv
<1>6. CASE ~ StopsAtOnce(a)
  <2> DEFINE r == [pc |-> "fetch", args |-> a, next |-> 1, chunk |-> 1, got |-> {},
                   downloaded |-> {}, failed |-> {}, valid |-> {}, hole |-> FALSE,
                   began |-> now]
  <2>1. run' = r  BY <1>6 DEF Start
  <2>2. now \in Int /\ 1 \in 1..(Len(Target) + 1)
    <3>1. Midnight(1) \in Int /\ LastSlot \in Int  BY Times
    <3> QED  BY <3>1, DownloadAssumption DEF IInv
  <2>3. r \in Runs  BY <2>2 DEF Runs
  <2>4. r.got = {} /\ r.args = a /\ r.pc = "fetch" /\ r.next = 1
        /\ r.downloaded = {} /\ r.failed = {}
    OBVIOUS
  <2> HIDE DEF r
  <2>5. GotInv'  BY <2>1, <2>4, FreshGot
  <2>6. Before(1) = {}  BY DEF Before
  <2>7. AccountInv'  BY <2>1, <2>4, <2>6 DEF AccountInv
  <2> QED  BY <1>2, <1>3, <1>4, <1>6, <2>1, <2>3, <2>4, <2>5, <2>7 DEF IInv, RunInv
<1> QED  BY <1>5, <1>6

LEMMA SkipKeeps == ASSUME IInv, Skip PROVE IInv'
<1>1. Working /\ Symbol \notin Listed /\ run' = Given(run)
      /\ now' = now /\ files' = files /\ runs' = runs
  BY DEF Skip
<1>2. FileInv'  BY <1>1 DEF IInv, FileInv, Readable
<1>3. run' \in Runs /\ GotInv'  BY <1>1, WorkingFacts, OnToNext, FreshGot
<1>4. AccountInv'
  <2> DEFINE n == run.next
  <2>1. Before(n + 1) = Before(n) \cup {Symbol}  BY <1>1, WorkingFacts, BeforeNext
  <2>2. /\ run'.next = n + 1 /\ run'.downloaded = run.downloaded
        /\ run'.failed = run.failed /\ run'.args = run.args /\ run'.pc = "fetch"
    BY <1>1, WorkingFacts, OnToNext
  <2>3. AccountInv  BY <1>1, WorkingFacts
  <2> QED  BY <1>1, <2>1, <2>2, <2>3 DEF AccountInv, Readable
<1>5. ~ StopsAtOnce(run'.args)
  <2>1. run'.args = run.args  BY <1>1, WorkingFacts, OnToNext
  <2> QED  BY <1>1, <2>1, WorkingFacts
<1> QED  BY <1>1, <1>2, <1>3, <1>4, <1>5 DEF IInv, RunInv

(* What a write that failed can leave of a file: all of it, or no rows.    *)
LEMMA FileLeft ==
    ASSUME FileInv, NEW path \in Paths, NEW left \in {files[path], Torn, NoFile},
           files' = [files EXCEPT ![path] = left]
    PROVE  /\ FileInv' /\ files'[path] = left
           /\ \A other \in Paths : other # path => files'[other] = files[other]
<1>1. DOMAIN files' = Paths /\ files'[path] = left  BY DEF FileInv
<1>2. \A other \in Paths : other # path => files'[other] = files[other]
  BY DEF FileInv
<1>3. ASSUME NEW other \in Paths, files'[other] \notin {NoFile, Torn}
      PROVE  files'[other] = files[other]
  BY <1>1, <1>2, <1>3
<1> QED  BY <1>1, <1>2, <1>3 DEF FileInv, Readable

(* A symbol that fails joins the failed ones, and what becomes of its own  *)
(* file is not promised; the plain run ends.                               *)
LEMMA FailKeeps ==
    ASSUME IInv, Working, Symbol \in Listed, run' = Fails,
           now' = now, runs' = runs, FileInv',
           \A path \in Paths : path # Path => files'[path] = files[path]
    PROVE  IInv'
<1>1. FileInv'  OBVIOUS
<1>2. CASE run.args.plain  BY <1>1, <1>2 DEF Fails, IInv, RunInv
<1>3. CASE ~ run.args.plain
  <2> DEFINE r == [run EXCEPT !.failed = @ \cup {Symbol}]
             n == run.next
  <2>1. run' = Given(r)  BY <1>3 DEF Fails
  <2>2. run \in Runs /\ AccountInv /\ n \in 1..Len(Target) /\ Symbol \in Names
        /\ run.pc = "fetch" /\ ~ StopsAtOnce(run.args) /\ Symbol = Target[n]
    BY WorkingFacts
  <2>3. r \in Runs /\ r.failed = run.failed \cup {Symbol} /\ r.pc = run.pc /\ r.args = run.args
        /\ r.next = n /\ r.downloaded = run.downloaded
    BY <2>2 DEF Runs
  <2> HIDE DEF r
  <2>4. /\ run' \in Runs /\ run'.got = {} /\ run'.args = run.args /\ run'.pc = "fetch"
        /\ run'.next = n + 1 /\ run'.downloaded = run.downloaded
        /\ run'.failed = run.failed \cup {Symbol}
    BY <2>1, <2>2, <2>3, OnToNext
  <2>5. Before(n + 1) = Before(n) \cup {Symbol} /\ (Distinct => Symbol \notin Before(n))
    BY <2>2, BeforeNext
  <2> HIDE DEF n
  <2>6. AccountInv'
    <3>1. run'.downloaded \cup run'.failed = Before(run'.next) \cap Listed
      BY <2>2, <2>4, <2>5 DEF AccountInv, n
    <3>2. Distinct => run'.downloaded \cap run'.failed = {}
      BY <2>2, <2>4, <2>5 DEF AccountInv, n
    <3>3. ASSUME Distinct, MarksAreNoRows, NEW s \in run'.downloaded
          PROVE  files'[<<s, run'.args.interval>>] \notin {NoFile, Torn}
      <4>1. s \in run.downloaded /\ s # Symbol
        BY <2>2, <2>4, <2>5, <3>3 DEF AccountInv, n
      <4>2. <<s, run.args.interval>> \in Paths /\ <<s, run.args.interval>> # Path
        BY <2>2, <4>1 DEF Runs, Paths, Path
      <4>3. Readable(<<s, run.args.interval>>)  BY <2>2, <3>3, <4>1 DEF AccountInv
      <4>4. files'[<<s, run.args.interval>>] = files[<<s, run.args.interval>>]
        BY <4>2
      <4> QED  BY <2>4, <4>3, <4>4 DEF Readable
    <3> QED  BY <2>2, <2>4, <3>1, <3>2, <3>3 DEF AccountInv, Readable
  <2> QED  BY <1>1, <2>2, <2>4, <2>6, FreshGot DEF IInv, RunInv
<1> QED  BY <1>2, <1>3

LEMMA FetchFailsKeeps == ASSUME IInv, FetchFails PROVE IInv'
<1>1. FileInv'  BY DEF FetchFails, IInv, FileInv, Readable
<1> QED  BY <1>1, FailKeeps DEF FetchFails

LEMMA SaveFailsKeeps == ASSUME IInv, SaveFails PROVE IInv'
<1>1. PICK left \in {files[Path], Torn, NoFile} : files' = [files EXCEPT ![Path] = left]
  BY DEF SaveFails
<1>2. Working /\ Symbol \in Listed /\ run' = Fails /\ now' = now /\ runs' = runs
  BY DEF SaveFails, AllFetched
<1>3. Path \in Paths /\ FileInv  BY <1>2, WorkingFacts DEF IInv
<1>4. FileInv' /\ \A path \in Paths : path # Path => files'[path] = files[path]
  BY <1>1, <1>3, FileLeft
<1> QED  BY <1>2, <1>4, FailKeeps

(* A chunk adds no row for a stamp that was got before. *)
LEMMA FetchKeepsGot ==
    ASSUME IInv, Fetch PROVE GotInv' /\ run' \in Runs /\ run'.args = run.args
                             /\ run'.pc = run.pc /\ run'.next = run.next
                             /\ run'.downloaded = run.downloaded
                             /\ run'.failed = run.failed
<1> DEFINE rows == Candles(Symbol, run.args.interval, Ranges[run.chunk])
           more == KeepFirst(run.got, rows)
<1>1. run \in Runs /\ GotInv /\ run.got \in SUBSET Rows /\ run.chunk + 1 \in Nat \ {0}
  BY WorkingFacts DEF Fetch, Runs
<1>2. more \in SUBSET Rows /\ OneEach(more)
  <2>1. rows \in SUBSET Rows /\ OneEach(rows)  BY Answer
  <2> HIDE DEF rows
  <2> QED  BY <1>1, <2>1, Merged DEF GotInv
<1>3. \/ run' = [run EXCEPT !.chunk = @ + 1, !.got = more]
      \/ run' = [run EXCEPT !.chunk = @ + 1, !.hole = TRUE]
  BY DEF Fetch
<1> HIDE DEF more
<1> QED  BY <1>1, <1>2, <1>3 DEF Runs, GotInv

LEMMA FetchKeeps == ASSUME IInv, Fetch PROVE IInv'
<1>1. Working /\ now' = now /\ files' = files /\ runs' = runs  BY DEF Fetch
<1>2. FileInv'  BY <1>1 DEF IInv, FileInv, Readable
<1>3. AccountInv'
  <2>1. AccountInv /\ run.pc = "fetch"  BY <1>1, WorkingFacts
  <2> QED  BY <1>1, <2>1, FetchKeepsGot DEF AccountInv, Readable
<1>4. ~ StopsAtOnce(run'.args)  BY <1>1, WorkingFacts, FetchKeepsGot
<1> QED  BY <1>1, <1>2, <1>3, <1>4, FetchKeepsGot DEF IInv, RunInv

(* What is saved is rows, one for each stamp: those of the file, if it is  *)
(* merged, and those that were got.  The other files stay.                 *)
LEMMA SavedRows ==
    ASSUME IInv, Save
    PROVE  /\ DOMAIN files' = Paths
           /\ files'[Path] \in SUBSET Rows /\ OneEach(files'[Path])
           /\ \A path \in Paths : path # Path => files'[path] = files[path]
           /\ Merges(run.args, Path) => files[Path] \subseteq files'[Path]
<1> DEFINE merges == Merges(run.args, Path)
           rows == IF merges THEN KeepFirst(files[Path], run.got) ELSE run.got
<1>1. Working /\ ~ Blocked /\ files' = [files EXCEPT ![Path] = rows]
  BY DEF Save, AllFetched
<1>2. run \in Runs /\ GotInv /\ Path \in Paths  BY <1>1, WorkingFacts
<1>3. run.got \in SUBSET Rows /\ OneEach(run.got)  BY <1>2 DEF Runs, GotInv
<1>4. ASSUME merges PROVE files[Path] \in SUBSET Rows /\ OneEach(files[Path])
  BY <1>1, <1>2, <1>4 DEF Blocked, Merges, Readable, IInv, FileInv
<1>5. /\ rows \in SUBSET Rows /\ OneEach(rows)
      /\ merges => files[Path] \subseteq rows
  BY <1>3, <1>4, Merged
<1> HIDE DEF rows, merges
<1>6. DOMAIN files' = Paths /\ files'[Path] = rows
      /\ \A path \in Paths : path # Path => files'[path] = files[path]
  BY <1>1, <1>2 DEF IInv, FileInv
<1> QED  BY <1>5, <1>6 DEF merges

LEMMA SaveKeeps == ASSUME IInv, Save PROVE IInv'
<1> DEFINE rows == IF Merges(run.args, Path) THEN KeepFirst(files[Path], run.got) ELSE run.got
           valid == IF IsValid(rows) THEN run.valid \cup {Symbol} ELSE run.valid
           r == [run EXCEPT !.downloaded = @ \cup {Symbol}, !.valid = valid]
           n == run.next
<1>1. Working /\ Symbol \in Listed /\ now' = now /\ runs' = runs /\ run' = Given(r)
  BY DEF Save, AllFetched
<1>2. /\ run \in Runs /\ AccountInv /\ n \in 1..Len(Target) /\ Symbol \in Names
      /\ run.pc = "fetch" /\ ~ StopsAtOnce(run.args) /\ Symbol = Target[n]
  BY <1>1, WorkingFacts
<1>3. r \in Runs /\ r.downloaded = run.downloaded \cup {Symbol} /\ r.pc = run.pc
      /\ r.args = run.args /\ r.next = n /\ r.failed = run.failed
  <2>1. valid \in SUBSET Names  BY <1>2 DEF Runs
  <2> HIDE DEF valid
  <2> QED  BY <1>2, <2>1 DEF Runs
<1> HIDE DEF r
<1>4. /\ run' \in Runs /\ run'.got = {} /\ run'.args = run.args /\ run'.pc = "fetch"
      /\ run'.next = n + 1 /\ run'.downloaded = run.downloaded \cup {Symbol}
      /\ run'.failed = run.failed
  BY <1>1, <1>2, <1>3, OnToNext
<1>5. Before(n + 1) = Before(n) \cup {Symbol} /\ (Distinct => Symbol \notin Before(n))
  BY <1>2, BeforeNext
<1> HIDE DEF n
<1>6. FileInv'  BY SavedRows DEF FileInv, Readable, IInv
<1>7. AccountInv'
  <2>1. run'.downloaded \cup run'.failed = Before(run'.next) \cap Listed
    BY <1>1, <1>2, <1>4, <1>5 DEF AccountInv, n
  <2>2. Distinct => run'.downloaded \cap run'.failed = {}
    BY <1>2, <1>4, <1>5 DEF AccountInv, n
  <2>3. ASSUME Distinct, MarksAreNoRows, NEW s \in run'.downloaded
        PROVE  files'[<<s, run'.args.interval>>] \notin {NoFile, Torn}
    <3>1. CASE s = Symbol
      <4>1. <<s, run'.args.interval>> = Path  BY <1>4, <3>1 DEF Path
      <4>2. files'[Path] \notin {NoFile, Torn}  BY SavedRows, <2>3 DEF MarksAreNoRows
      <4> QED  BY <4>1, <4>2
    <3>2. CASE s # Symbol
      <4>1. <<s, run.args.interval>> # Path  BY <3>2 DEF Path
      <4>2. s \in run.downloaded  BY <1>4, <2>3, <3>2
      <4>3. Readable(<<s, run.args.interval>>)  BY <1>2, <2>3, <4>2 DEF AccountInv
      <4>4. <<s, run.args.interval>> \in Paths  BY <1>2, <4>2 DEF Runs, Paths
      <4>5. files'[<<s, run.args.interval>>] = files[<<s, run.args.interval>>]
        BY SavedRows, <4>1, <4>4
      <4> QED  BY <1>4, <4>3, <4>5 DEF Readable
    <3> QED  BY <3>1, <3>2
  <2> QED  BY <1>4, <2>1, <2>2, <2>3 DEF AccountInv, Readable
<1> QED  BY <1>1, <1>2, <1>4, <1>6, <1>7, FreshGot DEF IInv, RunInv

LEMMA EndKeeps == ASSUME IInv, End PROVE IInv'
<1>1. run' = [run EXCEPT !.pc = "done"] /\ now' = now /\ files' = files /\ runs' = runs
      /\ run.pc = "fetch" /\ run.next > Len(Target)
  BY DEF End
<1>2. FileInv'  BY <1>1 DEF IInv, FileInv, Readable
<1>3. run \in Runs /\ ~ StopsAtOnce(run.args) /\ GotInv /\ AccountInv
  BY <1>1 DEF IInv, RunInv, Idle
<1>4. /\ run' \in Runs /\ run'.args = run.args /\ run'.next = run.next /\ run'.got = run.got
      /\ run'.chunk = run.chunk /\ run'.downloaded = run.downloaded
      /\ run'.failed = run.failed
  BY <1>1, <1>3 DEF Runs
<1>5. AccountInv'  BY <1>1, <1>3, <1>4 DEF AccountInv, Readable
<1>6. GotInv'  BY <1>3, <1>4 DEF GotInv
<1> QED  BY <1>1, <1>2, <1>3, <1>4, <1>5, <1>6 DEF IInv, RunInv

LEMMA GoneKeeps == ASSUME IInv, Gone PROVE IInv'
<1>1. FileInv'  BY DEF Gone, IInv, FileInv, Readable
<1> QED  BY <1>1 DEF Gone, IInv, RunInv

LEMMA DieWritingKeeps == ASSUME IInv, DieWriting PROVE IInv'
<1>1. Working /\ files' = [files EXCEPT ![Path] = Torn]
      /\ run' = Idle /\ now' = now /\ runs' = runs
  BY DEF DieWriting, AllFetched
<1>2. FileInv'  BY <1>1, WorkingFacts, FileLeft DEF IInv
<1> QED  BY <1>1, <1>2 DEF IInv, RunInv

LEMMA TickKeeps == ASSUME IInv, Tick PROVE IInv'
<1>1. FileInv'  BY DEF Tick, IInv, FileInv, Readable
<1>2. now' \in Midnight(1)..LastSlot
  <2>1. Midnight(1) \in Int /\ LastSlot \in Int  BY Times
  <2> QED  BY <2>1 DEF Tick, IInv
<1>3. runs' = runs /\ run' = run  BY DEF Tick
<1>4. RunInv'
  <2>1. CASE run = Idle  BY <1>3, <2>1 DEF RunInv
  <2>2. CASE run # Idle
    <3>1. run \in Runs /\ ~ StopsAtOnce(run.args) /\ GotInv /\ AccountInv
      BY <2>2 DEF IInv, RunInv
    <3>2. GotInv'  BY <1>3, <3>1 DEF GotInv
    <3>3. AccountInv'  BY <1>3, <3>1 DEF AccountInv, Readable, Tick
    <3> QED  BY <1>3, <3>1, <3>2, <3>3 DEF RunInv
  <2> QED  BY <2>1, <2>2
<1> QED  BY <1>1, <1>2, <1>3, <1>4 DEF IInv

LEMMA Inductive == ASSUME IInv, [Next]_vars PROVE IInv'
<1>1. CASE UNCHANGED vars
  BY <1>1 DEF vars, IInv, FileInv, Readable, RunInv, GotInv, AccountInv
<1>2. ASSUME NEW a \in Arguments, Start(a) PROVE IInv'  BY <1>2, StartKeeps
<1> QED
  BY <1>1, <1>2, SkipKeeps, FetchKeeps, FetchFailsKeeps, SaveKeeps, SaveFailsKeeps,
     EndKeeps, GoneKeeps, DieWritingKeeps, TickKeeps DEF Next

THEOREM Invariance == Spec => []IInv
BY InitHolds, Inductive, PTL DEF Spec
-----------------------------------------------------------------------------
(* However many runs there are, whatever they ask for and wherever they    *)
(* die, a file that can be read has one row for each stamp: to_parquet is  *)
(* only ever given a frame without duplicates.                             *)
THEOREM OneRow == Spec => []OneRowPerStamp
<1>1. IInv => OneRowPerStamp
  BY DEF IInv, FileInv, OneRowPerStamp, OneEach
<1> QED  BY <1>1, Invariance, PTL

(* Merging with the file never loses or changes a row of it: in every      *)
(* behaviour only a run with --replace, the plain download or a write that *)
(* did not finish takes rows away, and after the last the run is dead or   *)
(* lists the symbol as failed.                                             *)
THEOREM RowsKept ==
    ASSUME MarksAreNoRows PROVE Spec => RowsStay
<1> DEFINE Kept(path) ==
             /\ files[path] # Torn
             /\ Readable(path) =>
                   IF Readable(path)' THEN files[path] \subseteq files'[path]
                   ELSE run'.pc = "idle" \/ path[1] \in run'.failed
           Stay == \A path \in Paths :
                      (files'[path] # files[path] /\ ~ run.args.replace /\ ~ run.args.plain)
                         => Kept(path)
<1>1. ASSUME IInv, [Next]_vars PROVE Stay
  <2> SUFFICES ASSUME NEW path \in Paths, files'[path] # files[path],
                      ~ run.args.replace, ~ run.args.plain
               PROVE  Kept(path)
    OBVIOUS
  <2>1. Save \/ SaveFails \/ DieWriting
    BY <1>1 DEF Next, vars, Start, Skip, Fetch, FetchFails, End, Gone, Tick
  <2>2. Working /\ run \in Runs /\ run.next <= Len(Target) /\ FileInv
    BY <1>1, <2>1, WorkingFacts DEF Save, SaveFails, DieWriting, AllFetched, Working, IInv
  <2>3. PICK left : files' = [files EXCEPT ![Path] = left]
    BY <2>1 DEF Save, SaveFails, DieWriting
  <2>4. path = Path /\ files'[path] = left  BY <2>2, <2>3 DEF FileInv
  <2>5. CASE Save
    <3>1. files[path] # Torn
      BY <2>4, <2>5, DownloadAssumption DEF Save, Blocked, Merges
    <3>2. Readable(path)'  BY <1>1, <2>4, <2>5, SavedRows DEF MarksAreNoRows, Readable
    <3>3. ASSUME Readable(path) PROVE files[path] \subseteq files'[path]
      <4>1. Merges(run.args, Path)  BY <2>4, <3>3 DEF Merges, Readable
      <4> QED  BY <1>1, <2>4, <2>5, <4>1, SavedRows
    <3> QED  BY <3>1, <3>2, <3>3
  <2>6. CASE DieWriting
    <3>1. files'[path] = Torn /\ ~ Blocked /\ run'.pc = "idle"
      BY <2>2, <2>4, <2>6 DEF DieWriting, FileInv, Idle
    <3>2. files[path] # Torn  BY <2>4, <3>1, DownloadAssumption DEF Blocked, Merges
    <3> QED  BY <3>1, <3>2 DEF Readable
  <2>7. CASE SaveFails
    <3>1. ~ Blocked /\ files'[path] \in {Torn, NoFile}
      BY <2>2, <2>4, <2>7 DEF SaveFails, FileInv
    <3>2. files[path] # Torn  BY <2>4, <3>1, DownloadAssumption DEF Blocked, Merges
    <3>3. path[1] \in run'.failed
      <4> DEFINE r == [run EXCEPT !.failed = @ \cup {Symbol}]
      <4>1. run' = Given(r)  BY <2>7 DEF SaveFails, Fails
      <4>2. Symbol \in Names /\ path[1] = Symbol
        BY <1>1, <2>2, <2>4, WorkingFacts DEF Path
      <4>3. r \in Runs /\ r.next <= Len(Target) /\ Symbol \in r.failed
        BY <2>2, <4>2 DEF Runs
      <4> HIDE DEF r
      <4> QED  BY <4>1, <4>2, <4>3, OnToNext
    <3> QED  BY <3>1, <3>2, <3>3 DEF Readable
  <2> QED  BY <2>1, <2>5, <2>6, <2>7
<1>2. RowsStay <=> [][Stay]_vars  BY DEF RowsStay
<1> HIDE DEF Stay
<1> QED  BY <1>1, <1>2, Invariance, PTL DEF Spec

(* If no symbol is asked for twice, a run that ends has put each symbol    *)
(* with a token either among the downloaded or among the failed, and after *)
(* a good exit code the file of each of them can be read, whatever writes  *)
(* failed or were cut short.                                               *)
THEOREM Accounts ==
    ASSUME Distinct, MarksAreNoRows PROVE Spec => []Accounted
<1>1. ASSUME IInv PROVE Accounted
  <2>1. Len(Target) \in Nat  BY DownloadAssumption
  <2>2. CASE run = Idle
    <3>1. run.pc = "idle"  BY <2>2 DEF Idle
    <3>2. TypeOK  BY <1>1, <3>1 DEF TypeOK, IInv, FileInv, Rows
    <3> QED  BY <3>1, <3>2 DEF Accounted
  <2>3. CASE run # Idle
    <3>1. run \in Runs /\ AccountInv  BY <1>1, <2>3 DEF IInv, RunInv
    <3>2. run.downloaded \cup run.failed \subseteq Names \cap Listed
      BY <3>1 DEF AccountInv, Runs
    <3>3. TypeOK
      <4>1. \A path \in Paths : Readable(path) =>
               \A r \in files[path] : r.at \in Midnight(1)..LastSlot
                                   /\ r.mark \in {"forming", "final", "bad"}
        BY <1>1 DEF IInv, FileInv, Rows
      <4> QED  BY <1>1, <3>1, <3>2, <4>1 DEF TypeOK, IInv, AccountInv, Runs
    <3>4. ASSUME run.pc = "done"
          PROVE  run.downloaded \cup run.failed = Names \cap Listed
      <4>1. run.next = Len(Target) + 1  BY <2>1, <3>1, <3>4 DEF AccountInv, Runs
      <4>2. Before(run.next) = Names  BY <2>1, <4>1 DEF Before, Names
      <4> QED  BY <3>1, <4>2 DEF AccountInv
    <3>5. ASSUME ExitsWell, NEW s \in Names \cap Listed
          PROVE  Readable(<<s, run.args.interval>>)
      BY <3>1, <3>4, <3>5 DEF ExitsWell, AccountInv
    <3> QED  BY <3>3, <3>4, <3>5 DEF Accounted
  <2> QED  BY <2>2, <2>3
<1> QED  BY <1>1, Invariance, PTL
-----------------------------------------------------------------------------
(* What a file covers. *)

Spans(a) == IF a.plain THEN <<<<a.from, a.to>>>> ELSE Chunks(a)

(* The stamps a run is to cover. *)
Wanted(a, t) ==
    IF a.interval = "day" THEN DayOf(t) \in a.from..a.to ELSE InnerDay(a, t)

Between(span, t) == Midnight(span[1]) <= t /\ t <= Midnight(span[2])
Has(rows, t) == \E r \in rows : r.at = t

(* The ranges asked for so far are in what was got, as far as their        *)
(* candles had begun when the run did.                                     *)
GotCovers(r) ==
    \A i \in 1..(r.chunk - 1), t \in Stamps(r.args.interval) :
        (i <= Len(Spans(r.args)) /\ Between(Spans(r.args)[i], t) /\ t <= r.began)
            => Has(r.got, t)

FilesCover(r, fs) ==
    \A s \in r.downloaded \ r.failed, t \in Stamps(r.args.interval) :
        (t <= r.began /\ Wanted(r.args, t)) => Has(fs[<<s, r.args.interval>>], t)

CoverInv ==
    run # Idle =>
        /\ run.began <= now
        /\ run.hole \/ (GotCovers(run) /\ FilesCover(run, files))

LEMMA Division ==
    ASSUME NEW n \in Int, NEW c \in Int, c > 0
    PROVE  /\ n \div c \in Int /\ n % c \in Int
           /\ c * (n \div c) <= n /\ n < c * (n \div c) + c
           /\ n = c * (n \div c) + (n % c)
OBVIOUS

LEMMA Products ==
    ASSUME NEW m \in Int, NEW n \in Int, NEW c \in Int, c > 0
    PROVE  /\ c * m \in Int /\ c * n \in Int
           /\ m <= n => c * m <= c * n
           /\ m < n => c * m + c <= c * n
<1>1. c * m \in Int /\ c * n \in Int  OBVIOUS
<1>2. ASSUME m < n PROVE c * m + c <= c * n
  <2>1. PICK k \in Nat : n = m + 1 + k
    <3>1. n - m - 1 \in Nat /\ n = m + 1 + (n - m - 1)  BY <1>2
    <3> QED  BY <3>1
  <2>2. c * n = c * m + c + c * k  BY <2>1
  <2>3. c * k >= 0  BY <2>1
  <2> QED  BY <1>1, <2>1, <2>2, <2>3
<1>3. m <= n => m = n \/ m < n  OBVIOUS
<1> QED  BY <1>1, <1>2, <1>3

(* A multiple has no remainder. *)
LEMMA Multiple ==
    ASSUME NEW m \in Int, NEW c \in Int, c > 0 PROVE (c * m) % c = 0
<1> DEFINE q == (c * m) \div c
<1>1. c * m \in Int  OBVIOUS
<1>2. /\ q \in Int /\ (c * m) % c \in Int
      /\ c * q <= c * m /\ c * m < c * q + c
      /\ c * m = c * q + ((c * m) % c)
  BY <1>1, Division
<1> HIDE DEF q
<1>3. ~ (q < m) /\ ~ (m < q)  BY <1>2, Products
<1>4. q = m  BY <1>2, <1>3
<1> QED  BY <1>1, <1>2, <1>4

(* A moment is between the midnights of its day and of the next one. *)
LEMMA DayFacts ==
    ASSUME NEW t \in Int
    PROVE  /\ DayOf(t) \in Int
           /\ Midnight(DayOf(t)) <= t /\ t < Midnight(DayOf(t) + 1)
           /\ t % (Slots + 1) = 0 => t = Midnight(DayOf(t))
<1> DEFINE w == Slots + 1
           d == t \div w
<1>1. w \in Int /\ w > 0  BY DownloadAssumption
<1>2. d \in Int /\ w * d <= t /\ t < w * d + w /\ t = w * d + (t % w)
  BY <1>1, Division
<1>3. DayOf(t) = d /\ Midnight(d) = d * w /\ Midnight(d + 1) = (d + 1) * w
  BY DEF DayOf, Midnight
<1> HIDE DEF d, w
<1>4. d * w = w * d /\ (d + 1) * w = w * d + w  BY <1>1, <1>2
<1>5. t % w = 0 => t = d * w  BY <1>1, <1>2, <1>4
<1> QED  BY <1>1, <1>2, <1>3, <1>4, <1>5 DEF w

(* The chunks, as split_date_range computes them. *)
LEMMA ChunkDays ==
    ASSUME NEW a \in Arguments, ~ StopsAtOnce(a), a.interval # "day"
    PROVE  LET c == a.chunk
               n == (a.to - a.from) \div c + 1
           IN  /\ a.from \in Int /\ a.to \in Int /\ c \in Int /\ c > 0 /\ n \in Nat
               /\ Len(Chunks(a)) = n
               /\ \A i \in 1..n : Chunks(a)[i] =
                     <<a.from + (i - 1) * c,
                       IF a.from + (i - 1) * c + c - 1 < a.to
                       THEN a.from + (i - 1) * c + c - 1 ELSE a.to>>
<1>1. a.from \in Int /\ a.to \in Int /\ a.chunk \in Int /\ a.chunk > 0 /\ a.to >= a.from
  BY DownloadAssumption DEF StopsAtOnce
<1> DEFINE n == (a.to - a.from) \div a.chunk + 1
           last(j) == a.from + (j - 1) * a.chunk + a.chunk - 1
<1>2. Chunks(a) = [j \in 1..n |-> <<a.from + (j - 1) * a.chunk,
                                    IF last(j) < a.to THEN last(j) ELSE a.to>>]
  BY DEF Chunks
<1>3. n \in Nat
  <2> DEFINE q == (a.to - a.from) \div a.chunk
  <2>1. q \in Int /\ a.to - a.from < a.chunk * q + a.chunk
    <3>1. a.to - a.from \in Int  BY <1>1
    <3> QED  BY <1>1, <3>1, Division
  <2> HIDE DEF q
  <2>2. a.chunk * q + a.chunk = a.chunk * (q + 1)  BY <1>1, <2>1
  <2>3. ASSUME q + 1 <= 0 PROVE FALSE
    <3>1. a.chunk * (q + 1) <= a.chunk * 0  BY <1>1, <2>1, <2>3, Products
    <3> QED  BY <1>1, <2>1, <2>2, <3>1
  <2>4. q + 1 \in Nat  BY <2>1, <2>3
  <2> QED  BY <2>4 DEF q
<1> HIDE DEF n
<1>4. Len(Chunks(a)) = n  BY <1>2, <1>3
<1>5. \A i \in 1..n : Chunks(a)[i] =
         <<a.from + (i - 1) * a.chunk, IF last(i) < a.to THEN last(i) ELSE a.to>>
  BY <1>2
<1> QED  BY <1>1, <1>3, <1>4, <1>5 DEF n

LEMMA MidnightOrder ==
    ASSUME NEW d \in Int, NEW n \in Int, d <= n PROVE Midnight(d) <= Midnight(n)
BY Times

LEMMA StampType ==
    ASSUME NEW interval, NEW t \in Stamps(interval)
    PROVE  t \in Int /\ (interval = "day" => t % (Slots + 1) = 0)
<1>1. Midnight(1) \in Int /\ LastSlot \in Int  BY Times
<1> QED  BY <1>1 DEF Stamps

(* A day before the last one of a range is inside it. *)
LEMMA InsideRange ==
    ASSUME NEW t \in Int, NEW first \in Int, NEW last \in Int,
           first <= DayOf(t), DayOf(t) + 1 <= last
    PROVE  Between(<<first, last>>, t)
<1> DEFINE d == DayOf(t)
<1>1. d \in Int /\ Midnight(d) <= t /\ t < Midnight(d + 1)  BY DayFacts
<1> HIDE DEF d
<1>2. Midnight(first) <= Midnight(d) /\ Midnight(d + 1) <= Midnight(last)
  BY <1>1, MidnightOrder DEF d
<1>3. /\ Midnight(first) \in Int /\ Midnight(d) \in Int /\ Midnight(d + 1) \in Int
      /\ Midnight(last) \in Int
  BY <1>1, Times
<1> QED  BY <1>1, <1>2, <1>3 DEF Between

(* Every day of the range that ends no chunk is inside one. *)
LEMMA InsideChunk ==
    ASSUME NEW a \in Arguments, ~ StopsAtOnce(a), a.interval # "day", ~ a.plain,
           NEW t \in Int, InnerDay(a, t)
    PROVE  \E i \in 1..Len(Chunks(a)) : Between(Chunks(a)[i], t)
<1> DEFINE c == a.chunk
           d == DayOf(t)
           k == (d - a.from) \div c
           q == (a.to - a.from) \div c
           first == a.from + ((k + 1) - 1) * c
<1>1. /\ a.from \in Int /\ a.to \in Int /\ c \in Int /\ c > 0 /\ Len(Chunks(a)) = q + 1
      /\ \A i \in 1..(q + 1) : Chunks(a)[i] =
            <<a.from + (i - 1) * c,
              IF a.from + (i - 1) * c + c - 1 < a.to
              THEN a.from + (i - 1) * c + c - 1 ELSE a.to>>
  BY ChunkDays
<1>0. a.from \in Int /\ a.to \in Int /\ c \in Int /\ c > 0  BY <1>1
<1>2. d \in Int /\ a.from <= d /\ d <= a.to - 1 /\ (d - a.from + 1) % c # 0
  <2>1. d \in Int  BY DayFacts
  <2>2. d \in a.from..(a.to - 1)  BY DEF InnerDay
  <2>3. (d - a.from + 1) % c # 0  BY DEF InnerDay
  <2> HIDE DEF d, c
  <2>4. a.from <= d /\ d <= a.to - 1  BY <1>0, <2>1, <2>2
  <2> QED  BY <2>1, <2>3, <2>4
<1> HIDE DEF d, c
<1> DEFINE x == d - a.from
           y == a.to - a.from
           ck == c * k
           cq == c * q
<1>3. k \in Int /\ ck <= x /\ x < ck + c /\ ck \in Int
  <2>1. x \in Int  BY <1>0, <1>2
  <2> HIDE DEF x
  <2>2. k = x \div c  BY DEF x
  <2> HIDE DEF k
  <2> QED  BY <1>0, <2>1, <2>2, Division
<1>4. q \in Int /\ y < cq + c /\ cq \in Int
  <2>1. y \in Int  BY <1>0
  <2> HIDE DEF y
  <2>2. q = y \div c  BY DEF y
  <2> HIDE DEF q
  <2> QED  BY <1>0, <2>1, <2>2, Division
<1> HIDE DEF k, q
<1>5. k >= 0
  <2>1. ASSUME k < 0 PROVE FALSE
    <3>1. ck + c <= 0
      <4>1. c * k + c <= c * 0  BY <1>0, <1>3, <2>1, Products
      <4> QED  BY <1>0, <4>1
    <3> HIDE DEF ck
    <3> QED  BY <1>0, <1>2, <1>3, <3>1
  <2> QED  BY <1>3, <2>1
<1>6. k <= q
  <2>1. ASSUME q < k PROVE FALSE
    <3>1. cq + c <= ck  BY <1>0, <1>3, <1>4, <2>1, Products
    <3> HIDE DEF ck, cq
    <3> QED  BY <1>0, <1>2, <1>3, <1>4, <3>1
  <2> QED  BY <1>3, <1>4, <2>1
<1>7. x # ck + c - 1
  <2>1. ASSUME x = ck + c - 1 PROVE FALSE
    <3>1. c * (k + 1) = ck + c  BY <1>0, <1>3
    <3>2. d - a.from + 1 = ck + c
      <4> HIDE DEF ck
      <4> QED  BY <1>0, <1>2, <1>3, <2>1
    <3>3. d - a.from + 1 = c * (k + 1)  BY <3>1, <3>2
    <3>4. (c * (k + 1)) % c = 0  BY <1>0, <1>3, Multiple
    <3> QED  BY <1>2, <3>3, <3>4
  <2> QED  BY <2>1
<1>8. first = a.from + ck /\ first \in Int  BY <1>0, <1>3
<1> DEFINE last == IF first + c - 1 < a.to THEN first + c - 1 ELSE a.to
<1> HIDE DEF first, ck, cq
<1>9. last \in Int /\ first <= d /\ d + 1 <= last  BY <1>0, <1>2, <1>3, <1>7, <1>8
<1>10. k + 1 \in 1..(q + 1)  BY <1>3, <1>4, <1>5, <1>6
<1>11. Chunks(a)[k + 1] = <<first, last>>  BY <1>1, <1>10 DEF first
<1> HIDE DEF last
<1>12. Between(<<first, last>>, t)  BY <1>8, <1>9, InsideRange DEF d
<1> QED  BY <1>1, <1>10, <1>11, <1>12

LEMMA InsideSpan ==
    ASSUME NEW a \in Arguments, ~ StopsAtOnce(a), NEW t \in Stamps(a.interval),
           Wanted(a, t)
    PROVE  \E i \in 1..Len(Spans(a)) : Between(Spans(a)[i], t)
<1>1. t \in Int  BY StampType
<1>2. a.from \in Int /\ a.to \in Int  BY DownloadAssumption
<1>3. CASE a.interval = "day"
  <2>1. DayOf(t) \in Int /\ a.from <= DayOf(t) /\ DayOf(t) <= a.to
    BY <1>1, <1>2, <1>3, DayFacts DEF Wanted
  <2>2. t = Midnight(DayOf(t))  BY <1>1, <1>3, StampType, DayFacts
  <2>3. Between(<<a.from, a.to>>, t)
    BY <1>2, <2>1, <2>2, MidnightOrder DEF Between
  <2>4. Spans(a) = <<<<a.from, a.to>>>>  BY <1>3 DEF Spans, Chunks
  <2> QED  BY <2>3, <2>4
<1>4. CASE a.interval # "day" /\ a.plain
  <2>1. DayOf(t) \in Int /\ a.from <= DayOf(t) /\ DayOf(t) + 1 <= a.to
    BY <1>1, <1>2, <1>4, DayFacts DEF Wanted, InnerDay
  <2>2. Between(<<a.from, a.to>>, t)  BY <1>1, <1>2, <2>1, InsideRange
  <2>3. Spans(a) = <<<<a.from, a.to>>>>  BY <1>4 DEF Spans
  <2> QED  BY <2>2, <2>3
<1>5. CASE a.interval # "day" /\ ~ a.plain
  BY <1>1, <1>5, InsideChunk DEF Spans, Wanted
<1> QED  BY <1>3, <1>4, <1>5

LEMMA SpanCount ==
    ASSUME NEW a \in Arguments, ~ StopsAtOnce(a) PROVE Len(Spans(a)) \in Nat
<1>1. CASE a.plain \/ a.interval = "day"  BY <1>1 DEF Spans, Chunks
<1>2. CASE ~ a.plain /\ a.interval # "day"  BY <1>2, ChunkDays DEF Spans
<1> QED  BY <1>1, <1>2

(* At the first chunk of a symbol nothing is promised of what was got, and *)
(* what was downloaded stays covered while its files stay.                 *)
LEMMA FreshCovers ==
    ASSUME NEW r, NEW q, NEW fs, FilesCover(r, fs), q.chunk = 1, q.args = r.args,
           q.began = r.began, q.downloaded = r.downloaded, q.failed = r.failed
    PROVE  GotCovers(q) /\ FilesCover(q, fs)
BY DEF GotCovers, FilesCover

(* A merge has the stamps of both. *)
LEMMA MergeHas ==
    ASSUME NEW old, NEW new, NEW t, Has(old, t) \/ Has(new, t)
    PROVE  Has(KeepFirst(old, new), t)
BY DEF Has, KeepFirst

(* What the broker answers is what had begun. *)
LEMMA AnswerHas ==
    ASSUME NEW s, NEW interval, NEW span, NEW t \in Stamps(interval),
           Between(span, t), t <= now
    PROVE  Has(Candles(s, interval, span), t)
<1> DEFINE mark == IF <<s, t>> \in Bad THEN "bad"
                   ELSE IF Forming(t, interval) THEN "forming" ELSE "final"
           r == [at |-> t, mark |-> mark]
<1>1. r \in Candles(s, interval, span)  BY DEF Candles, Between
<1>2. r.at = t  OBVIOUS
<1> QED  BY <1>1, <1>2 DEF Has

LEMMA InitCovers == ASSUME Init PROVE CoverInv
BY DEF Init, CoverInv

LEMMA StartCovers == ASSUME IInv, NEW a \in Arguments, Start(a) PROVE CoverInv'
<1>1. now \in Int /\ now' = now
  <2>1. Midnight(1) \in Int /\ LastSlot \in Int  BY Times
  <2> QED  BY <2>1 DEF IInv, Start
<1>2. CASE StopsAtOnce(a)  BY <1>2 DEF Start, CoverInv
<1>3. CASE ~ StopsAtOnce(a)
  <2>1. run'.chunk = 1 /\ run'.downloaded = {} /\ run'.began = now
    BY <1>3 DEF Start
  <2> QED  BY <1>1, <2>1 DEF CoverInv, GotCovers, FilesCover
<1> QED  BY <1>2, <1>3

LEMMA SkipCovers == ASSUME IInv, CoverInv, Skip PROVE CoverInv'
<1>1. Working /\ run' = Given(run) /\ now' = now /\ files' = files  BY DEF Skip
<1>2. run \in Runs /\ run # Idle  BY <1>1, WorkingFacts DEF Working, Idle
<1>3. /\ run'.chunk = 1 /\ run'.args = run.args /\ run'.began = run.began
      /\ run'.downloaded = run.downloaded /\ run'.failed = run.failed
      /\ run'.hole = run.hole
  BY <1>1, <1>2, OnToNext DEF Working
<1> QED  BY <1>1, <1>2, <1>3, FreshCovers DEF CoverInv

(* Nothing is promised of the file of a symbol that fails. *)
LEMMA FailCovers ==
    ASSUME IInv, CoverInv, Working, run' = Fails, now' = now,
           \A path \in Paths : path # Path => files'[path] = files[path]
    PROVE  CoverInv'
<1>1. CASE run.args.plain  BY <1>1 DEF Fails, CoverInv
<1>2. CASE ~ run.args.plain
  <2> DEFINE r == [run EXCEPT !.failed = @ \cup {Symbol}]
  <2>1. run \in Runs /\ run # Idle /\ Symbol \in Names
    BY WorkingFacts DEF Working, Idle
  <2>2. /\ r \in Runs /\ r.next <= Len(Target) /\ r.args = run.args
        /\ r.began = run.began /\ r.downloaded = run.downloaded /\ r.hole = run.hole
        /\ r.failed = run.failed \cup {Symbol}
    BY <2>1 DEF Runs, Working
  <2>3. run' = Given(r)  BY <1>2 DEF Fails
  <2> HIDE DEF r
  <2>4. /\ run'.chunk = 1 /\ run'.args = run.args /\ run'.began = run.began
        /\ run'.downloaded = run.downloaded /\ run'.hole = run.hole
        /\ run'.failed = run.failed \cup {Symbol}
    BY <2>2, <2>3, OnToNext
  <2>5. GotCovers(run')  BY <2>4 DEF GotCovers
  <2>6. ASSUME FilesCover(run, files) PROVE FilesCover(run', files')
    <3> SUFFICES ASSUME NEW s \in run.downloaded \ run.failed, s # Symbol,
                        NEW t \in Stamps(run.args.interval),
                        t <= run.began, Wanted(run.args, t)
                 PROVE  Has(files'[<<s, run.args.interval>>], t)
      BY <2>4 DEF FilesCover
    <3>1. <<s, run.args.interval>> \in Paths /\ <<s, run.args.interval>> # Path
      BY <2>1 DEF Runs, Paths, Path
    <3>2. files'[<<s, run.args.interval>>] = files[<<s, run.args.interval>>]
      BY <3>1
    <3>3. Has(files[<<s, run.args.interval>>], t)  BY <2>6 DEF FilesCover
    <3> QED  BY <3>2, <3>3
  <2> QED  BY <2>1, <2>4, <2>5, <2>6 DEF CoverInv
<1> QED  BY <1>1, <1>2

LEMMA FetchCovers == ASSUME IInv, CoverInv, Fetch PROVE CoverInv'
<1> DEFINE rows == Candles(Symbol, run.args.interval, Ranges[run.chunk])
           more == KeepFirst(run.got, rows)
<1>1. Working /\ now' = now /\ files' = files  BY DEF Fetch
<1>2. run \in Runs /\ run # Idle  BY <1>1, WorkingFacts DEF Working, Idle
<1>3. run.chunk \in Nat \ {0} /\ run.began \in Int /\ now \in Int
  <2>1. Midnight(1) \in Int /\ LastSlot \in Int  BY Times
  <2> QED  BY <1>2, <2>1 DEF Runs, IInv
<1>4. CASE run' = [run EXCEPT !.chunk = @ + 1, !.got = more]
  <2>1. /\ run'.chunk = run.chunk + 1 /\ run'.got = more /\ run'.args = run.args
        /\ run'.began = run.began /\ run'.downloaded = run.downloaded
        /\ run'.failed = run.failed /\ run'.hole = run.hole
    BY <1>2, <1>4 DEF Runs
  <2>2. ASSUME GotCovers(run) PROVE GotCovers(run')
    <3> SUFFICES ASSUME NEW i \in 1..run.chunk, NEW t \in Stamps(run.args.interval),
                        i <= Len(Spans(run.args)), Between(Spans(run.args)[i], t),
                        t <= run.began
                 PROVE  Has(more, t)
      <4> HIDE DEF more
      <4> QED  BY <1>3, <2>1 DEF GotCovers
    <3>1. CASE i <= run.chunk - 1
      <4>1. i \in 1..(run.chunk - 1)  BY <1>3, <3>1
      <4>2. Has(run.got, t)  BY <2>2, <4>1 DEF GotCovers
      <4> HIDE DEF rows
      <4> QED  BY <4>2, MergeHas
    <3>2. CASE i = run.chunk
      <4>1. t \in Int  BY StampType
      <4>2. t <= now  BY <1>2, <1>3, <4>1 DEF CoverInv
      <4>3. Ranges[run.chunk] = Spans(run.args)[i]  BY <3>2 DEF Ranges, Spans
      <4>4. Has(rows, t)  BY <4>2, <4>3, AnswerHas
      <4> HIDE DEF rows
      <4> QED  BY <4>4, MergeHas
    <3> QED  BY <1>3, <3>1, <3>2
  <2>3. FilesCover(run, files) => FilesCover(run', files')
    BY <1>1, <2>1 DEF FilesCover
  <2> HIDE DEF more
  <2> QED  BY <1>1, <1>2, <2>1, <2>2, <2>3 DEF CoverInv
<1>5. CASE run' = [run EXCEPT !.chunk = @ + 1, !.hole = TRUE]
  <2>1. run'.began = run.began /\ run'.hole = TRUE  BY <1>2, <1>5 DEF Runs
  <2> QED  BY <1>1, <1>2, <2>1 DEF CoverInv
<1> QED  BY <1>4, <1>5 DEF Fetch

LEMMA SaveCovers == ASSUME IInv, CoverInv, Save PROVE CoverInv'
<1> DEFINE rows == IF Merges(run.args, Path) THEN KeepFirst(files[Path], run.got) ELSE run.got
           valid == IF IsValid(rows) THEN run.valid \cup {Symbol} ELSE run.valid
           r == [run EXCEPT !.downloaded = @ \cup {Symbol}, !.valid = valid]
<1>1. /\ Working /\ now' = now /\ run.chunk > Len(Ranges)
      /\ files' = [files EXCEPT ![Path] = rows] /\ run' = Given(r)
  BY DEF Save, AllFetched
<1>2. /\ run \in Runs /\ run # Idle /\ Symbol \in Names /\ Path \in Paths
      /\ ~ StopsAtOnce(run.args)
  BY <1>1, WorkingFacts DEF Working, Idle
<1>3. files'[Path] = rows  BY <1>1, <1>2 DEF IInv, FileInv
<1>4. \A t : Has(run.got, t) => Has(rows, t)  BY MergeHas
<1>5. /\ r \in Runs /\ r.next <= Len(Target) /\ r.args = run.args
      /\ r.began = run.began /\ r.hole = run.hole /\ r.failed = run.failed
      /\ r.downloaded = run.downloaded \cup {Symbol}
  <2> HIDE DEF rows
  <2>1. valid \in SUBSET Names  BY <1>2 DEF Runs
  <2> HIDE DEF valid
  <2> QED  BY <1>1, <1>2, <2>1 DEF Runs, Working
<1> HIDE DEF r, rows
<1>6. /\ run'.chunk = 1 /\ run'.args = run.args /\ run'.began = run.began
      /\ run'.downloaded = run.downloaded \cup {Symbol} /\ run'.hole = run.hole
      /\ run'.failed = run.failed
  BY <1>1, <1>5, OnToNext
<1>7. GotCovers(run')  BY <1>6 DEF GotCovers
<1>8. ASSUME GotCovers(run), FilesCover(run, files)
      PROVE  FilesCover(run', files')
  <2> SUFFICES ASSUME NEW s \in (run.downloaded \cup {Symbol}) \ run.failed,
                      NEW t \in Stamps(run.args.interval),
                      t <= run.began, Wanted(run.args, t)
               PROVE  Has(files'[<<s, run.args.interval>>], t)
    BY <1>6 DEF FilesCover
  <2>1. CASE s = Symbol
    <3>1. PICK i \in 1..Len(Spans(run.args)) : Between(Spans(run.args)[i], t)
      BY <1>2, InsideSpan DEF Runs
    <3>2. Ranges = Spans(run.args)  BY DEF Ranges, Spans
    <3>3. i \in 1..(run.chunk - 1) /\ i <= Len(Spans(run.args))
      <4>1. Len(Spans(run.args)) \in Int  BY <1>2, SpanCount DEF Runs
      <4>2. run.chunk \in Nat \ {0}  BY <1>2 DEF Runs
      <4> QED  BY <1>1, <3>2, <4>1, <4>2
    <3>4. Has(run.got, t)  BY <1>8, <3>1, <3>3 DEF GotCovers
    <3>5. <<s, run.args.interval>> = Path  BY <2>1 DEF Path
    <3> QED  BY <1>3, <1>4, <3>4, <3>5
  <2>2. CASE s # Symbol
    <3>1. s \in run.downloaded \ run.failed /\ <<s, run.args.interval>> # Path
      BY <2>2 DEF Path
    <3>2. <<s, run.args.interval>> \in Paths  BY <1>2, <3>1 DEF Runs, Paths
    <3>3. files'[<<s, run.args.interval>>] = files[<<s, run.args.interval>>]
      BY <3>1, <3>2, SavedRows
    <3>4. Has(files[<<s, run.args.interval>>], t)  BY <1>8, <3>1 DEF FilesCover
    <3> QED  BY <3>3, <3>4
  <2> QED  BY <2>1, <2>2
<1> QED  BY <1>1, <1>2, <1>6, <1>7, <1>8 DEF CoverInv

LEMMA SaveFailsCovers == ASSUME IInv, CoverInv, SaveFails PROVE CoverInv'
<1>1. PICK left : files' = [files EXCEPT ![Path] = left]  BY DEF SaveFails
<1>2. Working /\ run' = Fails /\ now' = now  BY DEF SaveFails, AllFetched
<1>3. \A path \in Paths : path # Path => files'[path] = files[path]
  BY <1>1 DEF IInv, FileInv
<1> QED  BY <1>2, <1>3, FailCovers

LEMMA EndCovers == ASSUME IInv, CoverInv, End PROVE CoverInv'
<1>1. run # Idle /\ now' = now /\ files' = files  BY DEF End, Idle
<1>2. run \in Runs  BY <1>1 DEF IInv, RunInv
<1>3. /\ run'.chunk = run.chunk /\ run'.args = run.args /\ run'.began = run.began
      /\ run'.got = run.got /\ run'.downloaded = run.downloaded
      /\ run'.failed = run.failed /\ run'.hole = run.hole
  BY <1>2 DEF End, Runs
<1> QED  BY <1>1, <1>3 DEF CoverInv, GotCovers, FilesCover

LEMMA TickCovers == ASSUME IInv, CoverInv, Tick PROVE CoverInv'
<1>1. run' = run /\ files' = files /\ now' = now + 1  BY DEF Tick
<1>2. now \in Int
  <2>1. Midnight(1) \in Int /\ LastSlot \in Int  BY Times
  <2> QED  BY <2>1 DEF IInv
<1>3. run # Idle => run.began \in Int  BY DEF IInv, RunInv, Runs
<1>4. run # Idle => run.began <= now'  BY <1>1, <1>2, <1>3 DEF CoverInv
<1> QED  BY <1>1, <1>4 DEF CoverInv, GotCovers, FilesCover

LEMMA CoverInductive == ASSUME IInv, CoverInv, [Next]_vars PROVE CoverInv'
<1>1. CASE UNCHANGED vars
  BY <1>1 DEF vars, CoverInv, GotCovers, FilesCover
<1>2. CASE FetchFails  BY <1>2, FailCovers DEF FetchFails
<1>3. CASE Gone \/ DieWriting  BY <1>3 DEF Gone, DieWriting, CoverInv
<1>4. ASSUME NEW a \in Arguments, Start(a) PROVE CoverInv'  BY <1>4, StartCovers
<1> QED
  BY <1>1, <1>2, <1>3, <1>4, SkipCovers, FetchCovers, SaveCovers, SaveFailsCovers,
     EndCovers, TickCovers
  DEF Next

(* The file of a symbol that a run lists as downloaded, and not as failed  *)
(* too, has every candle that had begun when the run did, for every range  *)
(* and every length of chunk, but for the last day of each chunk:          *)
(* split_date_range leaves no other day out, and merging, other runs and   *)
(* writes that fail take no candle away.  No list of symbols is excluded:  *)
(* of one that is asked for twice the second write may fail, and then it   *)
(* is among the failed.                                                    *)
THEOREM Covers == Spec => []CoversInnerDays
<1>1. ASSUME IInv, CoverInv PROVE CoversInnerDays
  <2> SUFFICES ASSUME run.pc # "idle", ~ run.hole, NEW s \in run.downloaded \ run.failed,
                      NEW t \in Stamps(run.args.interval), t <= run.began,
                      Wanted(run.args, t)
               PROVE  Has(files[<<s, run.args.interval>>], t)
    BY DEF CoversInnerDays, Wanted, Has
  <2>1. run # Idle  BY DEF Idle
  <2> QED  BY <1>1, <2>1 DEF CoverInv, FilesCover
<1> QED  BY <1>1, InitHolds, Inductive, InitCovers, CoverInductive, PTL DEF Spec
=============================================================================
