------------------------------ MODULE Analytics ------------------------------
(***************************************************************************)
(* A site's analytics (internal/analytics, httpapi/analyticsimport.go,     *)
(* cleanup/analytics.go): hits wait in the recorder's memory and are       *)
(* appended to the file of their day, an import rewrites days, the sweep   *)
(* purges old ones, and queries read them through a cache of parsed days   *)
(* and a summary on disk.                                                  *)
(*                                                                         *)
(* Whoever writes a day file holds the site's stats lock, so a write is    *)
(* one step; queries take no lock.  Cache and summary are keyed by the     *)
(* file's size and mtime, and a clock tick can hold several writes.        *)
(*                                                                         *)
(* Lines are counted, all of one size, so the daily byte budget is the     *)
(* daily cap.  What a query computes is not modelled.                      *)
(***************************************************************************)
EXTENDS Naturals, FiniteSets, FiniteSetsExt

CONSTANTS
    Cap,         \* DailyCap
    Keep,        \* retention, in days
    LastDay,     \* bound of the days, one more than the first `today`
    LastTick,    \* bound of the file system's clock
    MaxQueue,    \* hits in memory: the queue's bound
    MaxLines,    \* bound of an export's lines of a day
    MaxImports,  \* bound of imports
    MaxFaults,   \* bound of crashes and failing writes
    Readers,     \* queries
    Nil

AnalyticsAssumption ==
    /\ {Cap, Keep, LastDay, LastTick, MaxQueue, MaxLines, MaxImports, MaxFaults} \subseteq Nat
    /\ Nil \notin Readers

VARIABLES
    there,           \* the site is there
    today, tick,
    memory,          \* the recorder's queue and batches: hits by day and class
    count,           \* recorder.days: what it counted in the day it last wrote
    file,            \* events/<date>.jsonl
    summary,         \* events/<date>.sum.json
    cache, loading,  \* Engine.items and Engine.loading
    query,           \* per query, how far it is with a day
    import,          \* the import under way
    dirty,           \* days rewritten and not yet invalidated
    imports, faults

avars == <<there, today, tick, memory, count, file, summary, cache,
           loading, query, import, dirty, imports, faults>>
siteVars   == <<there, today, tick>>
engineVars == <<summary, cache, loading, query>>

Days    == 1..LastDay
Classes == {"srv", "js"}
\* Lines by what they are: the script's, the server's, import `of`'s, broken
\* ones; whether the last is cut; the mtime.
NoFile  == [srv |-> 0, js |-> 0, um |-> 0, of |-> 0, torn |-> 0, cut |-> FALSE, mtime |-> 0]
Size(f) == f.srv + f.js + f.um + f.torn
Key(f)  == <<Size(f), f.mtime>>
Records(f) == <<f.srv, f.js, f.um, f.of>>
Partial == <<>>

AnalyticsInit ==
    /\ there = TRUE
    /\ today = LastDay - 1 /\ tick = 1
    /\ memory = [d \in Days |-> [c \in Classes |-> 0]]
    /\ count = Nil
    /\ file = [d \in Days |-> NoFile]
    /\ summary = [d \in Days |-> Nil]
    /\ cache = [d \in Days |-> Nil] /\ loading = [d \in Days |-> Nil]
    /\ query = [r \in Readers |-> Nil]
    /\ import = Nil /\ dirty = {}
    /\ imports = 0 /\ faults = 0

AnalyticsTypeOK ==
    /\ \A d \in Days : \A c \in Classes : memory[d][c] \in 0..MaxQueue
    /\ \A d \in Days : Size(file[d]) \in Nat /\ loading[d] \in Readers \cup {Nil}
    /\ \A d \in Days : cache[d] # Nil => cache[d].key[1] > 0
    /\ dirty \subseteq Days /\ (dirty # {} => there)

Fault == faults < MaxFaults /\ faults' = faults + 1

(***************************************************************************)
(* The recorder.                                                           *)
(***************************************************************************)

InMemory == MapThenSumSet(LAMBDA d : memory[d].srv + memory[d].js, Days)

\* MUTANT: the queue takes one more than it holds.
AddOver(c, d) ==
    /\ InMemory <= MaxQueue /\ d \in {today, today - 1} \cap Days /\ d + Keep >= today
    /\ memory' = [memory EXCEPT ![d][c] = @ + 1]
    /\ UNCHANGED <<siteVars, count, file, engineVars, import, dirty, imports, faults>>

\* A hit of today, or of the day before in a zone behind; with the queue full
\* it is dropped and counted, which is no step here.  A retention is a day at
\* least, so a hit is never past it.
Add(c, d) ==
    /\ InMemory < MaxQueue /\ d \in {today, today - 1} \cap Days /\ d + Keep >= today
    /\ memory' = [memory EXCEPT ![d][c] = @ + 1]
    /\ UNCHANGED <<siteVars, count, file, engineVars, import, dirty, imports, faults>>

Counted(d) == [date |-> d, size |-> Size(file[d]), cut |-> file[d].cut,
               srv |-> file[d].srv + file[d].torn, js |-> file[d].js]

\* MUTANT: the count is of the file that has its size.
MatchesBySize(d) == count # Nil /\ count.size = Size(file[d])

Matches(d) == count # Nil /\ count.date = d /\ count.size = Size(file[d])

Less(m, n) == IF n > m THEN n - m ELSE 0
Least(m, n) == IF m < n THEN m ELSE n

\* appendDay: the remembered count while it is of this day and this size, else
\* counted again, a broken line as the server's; what the class has room for
\* is appended, after a newline if a crash cut the last line.
Append(d) ==
    LET was  == IF Matches(d) THEN count ELSE Counted(d)
        srv  == Least(memory[d].srv, Less(was.srv, Cap))
        js   == Least(memory[d].js, Less(was.js, Cap))
        more(s, j) == [file[d] EXCEPT !.srv = @ + s, !.js = @ + j, !.cut = FALSE, !.mtime = tick]
    IN  \/ /\ file' = IF srv + js = 0 THEN file ELSE [file EXCEPT ![d] = more(srv, js)]
           /\ count' = [was EXCEPT !.srv = @ + srv, !.js = @ + js, !.size = @ + srv + js,
                                   !.cut = @ /\ srv + js = 0]
           /\ UNCHANGED faults
        \/ \* the write fails part way, and the count is forgotten
           /\ srv + js > 0 /\ Fault
           /\ \E s \in 0..srv, j \in 0..js :
                /\ s + j < srv + js
                /\ \/ file' = [file EXCEPT ![d] = [more(s, j) EXCEPT !.torn = @ + 1, !.cut = TRUE]]
                   \/ s + j > 0 /\ file' = [file EXCEPT ![d] = [more(s, j) EXCEPT !.cut = TRUE]]
           /\ count' = Nil

\* writeBatch: nothing is created for a site that is gone.
WriteBatch(d) ==
    /\ memory[d].srv + memory[d].js > 0
    /\ memory' = [memory EXCEPT ![d] = [c \in Classes |-> 0]]
    /\ IF there THEN Append(d) ELSE count' = Nil /\ UNCHANGED <<file, faults>>
    /\ UNCHANGED <<siteVars, engineVars, import, dirty, imports>>

\* The volume is below its floor: what waits is dropped.
BelowFloor ==
    /\ InMemory > 0
    /\ memory' = [d \in Days |-> [c \in Classes |-> 0]]
    /\ UNCHANGED <<siteVars, count, file, engineVars, import, dirty, imports, faults>>

(***************************************************************************)
(* The engine.                                                             *)
(***************************************************************************)

\* MUTANT: dropping a day forgets its parse, not the one in flight.
DropParse(D) ==
    /\ cache' = [d \in Days |-> IF d \in D THEN Nil ELSE cache[d]]
    /\ UNCHANGED loading

Drop(D) ==
    /\ cache' = [d \in Days |-> IF d \in D THEN Nil ELSE cache[d]]
    /\ loading' = [d \in Days |-> IF d \in D THEN Nil ELSE loading[d]]

\* A query comes to a day: a closed one may be answered from its summary;
\* without a file there is nothing to read.
Ask(r, d) ==
    /\ there /\ query[r] = Nil
    /\ IF Size(file[d]) = 0
       THEN Drop({d}) /\ UNCHANGED query
       ELSE /\ ~(d < today /\ summary[d] # Nil /\ summary[d].key = Key(file[d]))
            /\ query' = [query EXCEPT ![r] =
                  [step |-> "look", day |-> d, key |-> Key(file[d]), found |-> Partial]]
            /\ UNCHANGED <<cache, loading>>
    /\ UNCHANGED <<siteVars, memory, count, file, summary, import, dirty, imports, faults>>

At(r, step) == query[r] # Nil /\ query[r].step = step
ThenStore(r, found) ==
    query' = [query EXCEPT ![r] = IF query[r].day < today
                                  THEN [@ EXCEPT !.step = "store", !.found = found] ELSE Nil]

\* Under the engine's mutex: a parse of this key answers; one in flight for it
\* is waited for (and answers by itself); else this query parses.
Look(r) ==
    /\ At(r, "look")
    /\ LET d == query[r].day
       IN  IF cache[d] # Nil /\ cache[d].key = query[r].key
           THEN ThenStore(r, cache[d].found) /\ UNCHANGED <<cache, loading>>
           ELSE /\ cache' = [cache EXCEPT ![d] = Nil]
                /\ IF loading[d] # Nil /\ query[loading[d]].key = query[r].key
                   THEN query' = [query EXCEPT ![r] = Nil] /\ UNCHANGED loading
                   ELSE /\ query' = [query EXCEPT ![r].step = "parse"]
                        /\ loading' = [loading EXCEPT ![d] = r]
    /\ UNCHANGED <<siteVars, memory, count, file, summary, import, dirty, imports, faults>>

\* parseDay reads no more than the size it was told.
Parse(r) ==
    /\ At(r, "parse")
    /\ LET f == file[query[r].day]
       IN  query' = [query EXCEPT ![r].step = "put",
                        ![r].found = CASE Size(f) = 0 -> Nil
                                       [] Size(f) > query[r].key[1] -> Partial
                                       [] OTHER -> Records(f)]
    /\ UNCHANGED <<siteVars, memory, count, file, summary, cache, loading, import, dirty, imports, faults>>

\* A parse dropped or overtaken meanwhile answers and is not kept.
Put(r) ==
    /\ At(r, "put")
    /\ LET d == query[r].day
       IN  IF loading[d] = r
           THEN /\ loading' = [loading EXCEPT ![d] = Nil]
                /\ cache' = IF query[r].found = Nil THEN cache
                            ELSE [cache EXCEPT ![d] = [key |-> query[r].key, found |-> query[r].found]]
           ELSE UNCHANGED <<cache, loading>>
    /\ IF query[r].found = Nil THEN query' = [query EXCEPT ![r] = Nil]
       ELSE ThenStore(r, query[r].found)
    /\ UNCHANGED <<siteVars, memory, count, file, summary, import, dirty, imports, faults>>

\* writeSummary, under the key of the parse it is made of; it creates no folder.
StoreSummary(r) ==
    /\ At(r, "store")
    /\ summary' = IF there THEN [summary EXCEPT ![query[r].day] =
                                    [key |-> query[r].key, found |-> query[r].found]]
                  ELSE summary
    /\ query' = [query EXCEPT ![r] = Nil]
    /\ UNCHANGED <<siteVars, memory, count, file, cache, loading, import, dirty, imports, faults>>

\* The cache is full: the day read longest ago goes.
Evict(d) ==
    /\ cache[d] # Nil
    /\ cache' = [cache EXCEPT ![d] = Nil]
    /\ UNCHANGED <<siteVars, memory, count, file, summary, loading, query, import, dirty, imports, faults>>

(***************************************************************************)
(* The import.                                                             *)
(***************************************************************************)

Own == {d \in Days : file[d].srv + file[d].js > 0}

\* importUmami: one at a time per site, cut at the site's first own record as
\* the day files have it; days past retention are skipped.
StartImport ==
    /\ there /\ import = Nil /\ imports < MaxImports
    /\ \E todo \in SUBSET {d \in Days : d + Keep >= today /\ \A o \in Own : d <= o} :
          /\ todo # {}
          /\ import' = [of |-> imports + 1, todo |-> todo, done |-> {}]
    /\ imports' = imports + 1
    /\ UNCHANGED <<siteVars, memory, count, file, engineVars, dirty, faults>>

\* rewriteDay: the site's own lines stay, broken lines and the lines of
\* earlier imports go; an unsorted export's day that comes back adds to what
\* it wrote before.  It stops when the site is gone, or a write fails.
ImportDay(d) ==
    /\ import # Nil /\ d \in import.todo /\ there
    /\ \/ /\ \E n \in 1..MaxLines, again \in BOOLEAN :
               /\ file' = [file EXCEPT ![d] =
                     [@ EXCEPT !.um = n + (IF d \in import.done THEN @ ELSE 0), !.of = import.of,
                               !.torn = 0, !.cut = FALSE, !.mtime = tick]]
               /\ import' = [import EXCEPT
                     !.todo = IF again /\ d \notin import.done THEN @ ELSE @ \ {d},
                     !.done = @ \cup {d}]
          /\ dirty' = dirty \cup {d}
          /\ UNCHANGED faults
       \/ Fault /\ import' = [import EXCEPT !.todo = {}] /\ UNCHANGED <<file, dirty>>
    /\ UNCHANGED <<siteVars, memory, count, engineVars, imports>>

ImportStops ==
    /\ import # Nil /\ import.todo # {} /\ ~there
    /\ import' = [import EXCEPT !.todo = {}]
    /\ UNCHANGED <<siteVars, memory, count, file, engineVars, dirty, imports, faults>>

\* invalidateDays: what was written is dropped, however the import ended.
Invalidate ==
    /\ import # Nil /\ import.todo = {}
    /\ IF import.done = {} THEN import' = Nil /\ UNCHANGED <<cache, loading, summary, dirty>>
       ELSE LET d == Min(import.done)
            IN  /\ Drop({d})
                /\ summary' = [summary EXCEPT ![d] = Nil]
                /\ dirty' = dirty \ {d}
                /\ import' = [import EXCEPT !.done = @ \ {d}]
    /\ UNCHANGED <<siteVars, memory, count, file, query, imports, faults>>

(***************************************************************************)
(* The sweep, the site, the clock, the process.                            *)
(***************************************************************************)

\* PurgeAnalytics, under the stats lock, of a site it finds unlocked there:
\* what is past retention goes.
PurgeDays ==
    /\ there
    /\ file' = [d \in Days |-> IF d + Keep < today THEN NoFile ELSE file[d]]
    /\ summary' = [d \in Days |-> IF d + Keep < today THEN Nil ELSE summary[d]]
    /\ UNCHANGED <<siteVars, memory, count, cache, loading, query, import, dirty, imports, faults>>

\* With the folder gone no query has anything to read.
DeleteSite ==
    /\ there
    /\ there' = FALSE
    /\ file' = [d \in Days |-> NoFile] /\ summary' = [d \in Days |-> Nil]
    /\ cache' = [d \in Days |-> Nil] /\ loading' = [d \in Days |-> Nil]
    /\ query' = [r \in Readers |-> Nil]
    /\ dirty' = {}
    /\ UNCHANGED <<today, tick, memory, count, import, imports, faults>>

\* A hit waits for a second at most, so the memory is empty some time between
\* two days.
Tick ==
    /\ tick < LastTick /\ tick' = tick + 1
    /\ \/ UNCHANGED today
       \/ today < LastDay /\ InMemory = 0 /\ today' = today + 1
    /\ UNCHANGED <<there, memory, count, file, engineVars, import, dirty, imports, faults>>

\* What is in memory is gone; the days of an import that was cut off are
\* never invalidated, but for the parses, which are gone too.
Crash ==
    /\ Fault
    /\ memory' = [d \in Days |-> [c \in Classes |-> 0]]
    /\ count' = Nil /\ import' = Nil /\ dirty' = {}
    /\ cache' = [d \in Days |-> Nil] /\ loading' = [d \in Days |-> Nil]
    /\ query' = [r \in Readers |-> Nil]
    /\ UNCHANGED <<siteVars, file, summary, imports>>

AnalyticsNext ==
    \/ \E d \in Days : WriteBatch(d) \/ Evict(d) \/ ImportDay(d) \/ \E c \in Classes : Add(c, d)
    \/ \E r \in Readers : Look(r) \/ Parse(r) \/ Put(r) \/ StoreSummary(r) \/ \E d \in Days : Ask(r, d)
    \/ BelowFloor \/ StartImport \/ ImportStops \/ Invalidate
    \/ PurgeDays \/ DeleteSite \/ Tick \/ Crash

AnalyticsSpec == AnalyticsInit /\ [][AnalyticsNext]_avars

\* Bounds: two hits on disk, one day read, one day of an import.
Touched(d) == cache[d] # Nil \/ summary[d] # Nil \/ \E r \in Readers : query[r] # Nil /\ query[r].day = d
Few ==
    /\ MapThenSumSet(LAMBDA d : Size(file[d]), Days) <= 2
    /\ Cardinality({d \in Days : Touched(d)}) <= 1
    /\ import = Nil \/ Cardinality(import.todo \cup import.done) <= 1

(***************************************************************************)
(* What is promised.                                                       *)
(***************************************************************************)

\* No day holds more of a class than its cap, whatever tears a write, kills
\* the process or rewrites and purges the file behind the recorder's count.
CapHolds == \A d \in Days : file[d].srv <= Cap /\ file[d].js <= Cap

\* A parse that would answer for the file as it stands is of it (cache.go:20),
\* also when the file was rewritten under a reader, with its old size and in
\* the same tick of the clock; but for a day an import has rewritten and is
\* about to invalidate.
ParsesAreFresh ==
    \A d \in Days \ dirty :
        cache[d] # Nil /\ Size(file[d]) > 0 /\ cache[d].key = Key(file[d])
        => cache[d].found = Records(file[d])

\* Of the summary on disk, keyed the same way, it is not so: a query that
\* parsed before the rewrite may store it after Invalidate, and a crash
\* between the two leaves it.
SummariesAreFresh ==
    \A d \in Days \ dirty :
        summary[d] # Nil /\ Size(file[d]) > 0 /\ summary[d].key = Key(file[d])
        => summary[d].found = Records(file[d])
==============================================================================
