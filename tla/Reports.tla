-------------------------------- MODULE Reports --------------------------------
(***************************************************************************)
(* Abuse reports and what the operator hears of them (internal/store/      *)
(* reports.go, internal/httpapi report.go, reportpage.go, abuse.go,        *)
(* cspreport.go): reports are files, capped and purged; they and the       *)
(* guard's decisions are mailed at once within an hourly budget, or wait   *)
(* for the digest; CSP reports are counted in batches and send a site's    *)
(* files to verification.                                                  *)
(*                                                                         *)
(* Anyone can file a report or a CSP report, and the alerter, the counts   *)
(* and the limits live in memory.  A mail is one that was handed to the    *)
(* mailer; os.Remove succeeds here.                                        *)
(***************************************************************************)
EXTENDS Naturals, Sequences, FiniteSets

CONSTANTS
    Keys,          \* what alerts are aggregated by: sites, and targets that are none
    Targets,       \* what reports are filed against
    About,         \* the key of each target
    Sources,       \* the reporters' networks
    Slots,         \* tripSlots
    MaxReports, Batch,           \* the cap, and its 1% that is evicted at once
    ReportRetention, DedupeFor,
    TicketMin, TicketMax,
    PerKey, BurstWindow, Burst,  \* alertPerKey, and alertBurst in an hour
    DigestDelay, MaxQueued,
    ReportFlush,
    LastTime, MaxCalls, Nothing

ReportsAssumption ==
    /\ About \in [Targets -> Keys]
    /\ Nothing \notin Keys \cup Nat
    /\ MaxReports \in Nat /\ Batch \in 1 .. MaxReports
    /\ ReportRetention \in Nat /\ DedupeFor \in Nat
    /\ TicketMin \in Nat /\ TicketMax \in Nat
    /\ PerKey \in Nat /\ BurstWindow \in Nat /\ Burst \in Nat
    /\ DigestDelay \in Nat /\ MaxQueued \in Nat \ {0} /\ ReportFlush \in Nat
    /\ LastTime \in Nat /\ MaxCalls \in Nat

VARIABLES
    clock,
    reports,   \* every report that passed the limits, in order, written or not
    files,     \* those that are in reports/
    counted,   \* reportsN; Nothing for -1
    purge,     \* PurgeReports: the files it is about to remove
    deduped,   \* reportDedupe: when it last let a source's report of a target by
    last,      \* the alerter: the key's latest immediate mail
    sent,      \* the immediate mails that count against the hour
    queue,     \* what waits for the digest
    dropped,   \* how many found it full
    due,       \* when the digest's timer fires
    events,    \* history: what this process's alerter was told, and what became of it
    csp,       \* cspAggregator, and what the tripwire is verifying
    stats,     \* the violations in each site's stats file, and when they were written
    calls

rvars == <<clock, reports, files, counted, purge, deduped, last, sent, queue, dropped, due,
           events, csp, stats, calls>>
storeVars == <<reports, files, counted, purge, deduped>>
alertVars == <<last, sent, queue, dropped, due, events>>

NoPurge == [on |-> FALSE, todo |-> {}]
NoCsp   == [pending |-> [k \in Keys |-> 0], until |-> Nothing, trips |-> [s \in Slots |-> Nothing]]

Times    == 0 .. LastTime
Kinds    == {"hold", "alert", "routine"}
Fates    == {"mailed", "queued", "digest", "counted"}
EventSet == [key : Keys, kind : Kinds, at : Times, told : Fates]

ReportsTypeOK ==
    /\ clock \in Times /\ calls \in 0 .. MaxCalls
    /\ reports \in Seq([target : Targets, from : Sources, at : Times, saved : BOOLEAN])
    /\ files \subseteq DOMAIN reports
    /\ counted \in Nat \cup {Nothing}
    /\ purge \in [on : BOOLEAN, todo : SUBSET DOMAIN reports]
    /\ deduped \in [Targets \X Sources -> Times \cup {Nothing}]
    /\ last \in [Keys -> Times \cup {Nothing}]
    /\ events \in Seq(EventSet)
    /\ sent \subseteq DOMAIN events /\ queue \subseteq DOMAIN events
    /\ dropped \in Nat /\ due \in Nat \cup {Nothing}
    /\ csp \in [pending : [Keys -> Nat], until : Nat \cup {Nothing}, trips : [Slots -> Keys \cup {Nothing}]]
    /\ stats \in [Keys -> [n : Nat, at : Times]]

\* What the process keeps in memory, as it starts.
Fresh ==
    /\ counted' = Nothing /\ purge' = NoPurge
    /\ deduped' = [d \in Targets \X Sources |-> Nothing]
    /\ last' = [k \in Keys |-> Nothing] /\ sent' = {} /\ queue' = {} /\ dropped' = 0
    /\ due' = Nothing /\ events' = <<>> /\ csp' = NoCsp

ReportsInit ==
    /\ clock = 0 /\ calls = 0 /\ reports = <<>> /\ files = {}
    /\ counted = Nothing /\ purge = NoPurge
    /\ deduped = [d \in Targets \X Sources |-> Nothing]
    /\ last = [k \in Keys |-> Nothing] /\ sent = {} /\ queue = {} /\ dropped = 0
    /\ due = Nothing /\ events = <<>> /\ csp = NoCsp
    /\ stats = [k \in Keys |-> [n |-> 0, at |-> 0]]

(***************************************************************************)
(* The alerter: mailed now, or held for the digest.                        *)
(***************************************************************************)

\* The keys that wait, and the mails of the last hour, once both are pruned.
Recent == {k \in Keys : last[k] # Nothing /\ clock < last[k] + PerKey}
Spent  == {i \in sent : clock < events[i].at + BurstWindow}

\* A hold is mailed at once whatever the budget, what anyone can cause for
\* free never is.
AtOnce(key, kind) ==
    \/ kind = "hold"
    \/ kind = "alert" /\ key \notin Recent /\ Cardinality(Spent) < Burst

Notify(key, kind) ==
    LET i     == Len(events) + 1
        now   == AtOnce(key, kind)
        room  == Cardinality(queue) < MaxQueued
        spend == now /\ kind = "alert"
    IN  /\ events' = Append(events, [key |-> key, kind |-> kind, at |-> clock,
                                     told |-> IF now THEN "mailed" ELSE IF room THEN "queued" ELSE "counted"])
        /\ last' = [k \in Keys |-> IF spend /\ k = key THEN clock
                                   ELSE IF k \in Recent THEN last[k] ELSE Nothing]
        /\ sent' = IF spend THEN Spent \cup {i} ELSE Spent
        /\ queue' = IF ~now /\ room THEN queue \cup {i} ELSE queue
        /\ dropped' = IF ~now /\ ~room THEN dropped + 1 ELSE dropped
        /\ due' = IF ~now /\ due = Nothing THEN clock + DigestDelay ELSE due

\* The digest goes out with everything held back, and says how many more
\* there were.  An empty one does not, whatever was counted.
Flush ==
    /\ due # Nothing /\ clock >= due
    /\ queue' = {} /\ dropped' = 0 /\ due' = Nothing
    /\ events' = [i \in DOMAIN events |->
                    IF queue # {} /\ (i \in queue \/ events[i].told = "counted")
                    THEN [events[i] EXCEPT !.told = "digest"] ELSE events[i]]
    /\ UNCHANGED <<clock, storeVars, last, sent, csp, stats, calls>>

(***************************************************************************)
(* What it is told: the guard's decisions, and purges past the retention.  *)
(***************************************************************************)

Decisions == {"held", "flagged", "unverified", "reviewed", "own"}

\* onScan: a reviewed decision and one about the operator's own site are not
\* news; ("own": and not held).
OnScan(k, decision) ==
    IF decision \in {"reviewed", "own"} THEN UNCHANGED alertVars
    ELSE Notify(k, CASE decision = "held" -> "hold"
                     [] decision = "unverified" -> "routine"
                     [] OTHER -> "alert")

Called == calls < MaxCalls /\ calls' = calls + 1

\* An upload, or `sitebin scan`: only the tripwire finds a report unverified.
Decide(k, decision) ==
    /\ Called /\ decision # "unverified" /\ OnScan(k, decision)
    /\ UNCHANGED <<clock, storeVars, csp, stats>>

\* onLockPurged: one line in the digest.
LockPurged(k) ==
    /\ Called /\ Notify(k, "routine")
    /\ UNCHANGED <<clock, storeVars, csp, stats>>

(***************************************************************************)
(* Reports.                                                                *)
(***************************************************************************)

Newest(S, n) == {i \in S : Cardinality({j \in S : j > i}) < n}

\* Mutant: the count is trusted, and goes on from -1.
KnownUncounted == IF counted = Nothing THEN 0 ELSE counted

Known == IF counted = Nothing THEN Cardinality(files) ELSE counted

\* AddReport: counted before it is written; a full directory loses its
\* oldest in one batch first.
AddReport(t, s, saved) ==
    LET full == Known >= MaxReports
        left == IF full THEN Newest(files, MaxReports - Batch) ELSE files
    IN  /\ reports' = Append(reports, [target |-> t, from |-> s, at |-> clock, saved |-> saved])
        /\ files' = IF saved THEN left \cup {Len(reports) + 1} ELSE left
        /\ counted' = (IF full THEN Cardinality(left) ELSE Known) + 1

\* reportAlert: what a report tells the operator of.
ReportAlert(t) == Notify(About[t], "alert")

\* fileReport: the limits, the fields, then the same report of the same day,
\* which is acknowledged like any other and spends what the first one spent.
FileReport(t, s, accepted, saved) ==
    IF ~accepted \/ (deduped[<<t, s>>] # Nothing /\ clock < deduped[<<t, s>>] + DedupeFor)
    THEN UNCHANGED <<storeVars, alertVars>>
    ELSE /\ deduped' = [deduped EXCEPT ![<<t, s>>] = clock]
         /\ AddReport(t, s, saved) /\ UNCHANGED purge
         /\ IF saved THEN ReportAlert(t) ELSE UNCHANGED alertVars

\* POST /api/report.
Report(t, s, accepted, saved) ==
    /\ Called /\ FileReport(t, s, accepted, saved)
    /\ UNCHANGED <<clock, csp, stats>>

\* The page's form: a bot's honeypot is thanked, a ticket that is not the
\* instance's, too young or too old is refused; it is good for any number of
\* reports meanwhile.
Submit(t, s, trap, rendered, accepted, saved) ==
    /\ Called
    /\ IF trap \/ rendered = Nothing \/ clock < rendered + TicketMin \/ clock > rendered + TicketMax
       THEN UNCHANGED <<storeVars, alertVars>>
       ELSE FileReport(t, s, accepted, saved)
    /\ UNCHANGED <<clock, csp, stats>>

\* PurgeReports, of the sweep: listed, removed one by one without the mutex,
\* counted anew by the next report.
PurgeLists ==
    /\ ~purge.on
    /\ purge' = [on |-> TRUE, todo |-> {i \in files : reports[i].at + ReportRetention < clock}]
    /\ UNCHANGED <<clock, reports, files, counted, deduped, alertVars, csp, stats, calls>>

PurgeRemoves ==
    /\ \E i \in purge.todo : files' = files \ {i} /\ purge' = [purge EXCEPT !.todo = @ \ {i}]
    /\ UNCHANGED <<clock, reports, counted, deduped, alertVars, csp, stats, calls>>

PurgeEnds ==
    /\ purge.on /\ purge.todo = {}
    /\ purge' = NoPurge /\ counted' = Nothing
    /\ UNCHANGED <<clock, reports, files, deduped, alertVars, csp, stats, calls>>

(***************************************************************************)
(* CSP reports.                                                            *)
(***************************************************************************)

\* cspAggregator.add: what is pending is due once a window is over.
FlushDue == csp.until # Nothing /\ clock >= csp.until

\* tripwire: a destination the rules name, on a page of this very site,
\* within the site's verifications an hour and the slots there are.
Trips(k, known, own, allowed, slot) == known /\ own /\ allowed /\ csp.trips[slot] = Nothing

CspReport(k, known, own, allowed, slot) ==
    /\ Called
    /\ LET n == [csp.pending EXCEPT ![k] = @ + 1] IN
       /\ stats' = [x \in Keys |-> IF FlushDue /\ n[x] > 0 THEN [n |-> stats[x].n + n[x], at |-> clock]
                                   ELSE stats[x]]
       /\ csp' = [pending |-> IF FlushDue THEN NoCsp.pending ELSE n,
                  until   |-> IF csp.until = Nothing \/ FlushDue THEN clock + ReportFlush ELSE csp.until,
                  trips   |-> IF Trips(k, known, own, allowed, slot)
                              THEN [csp.trips EXCEPT ![slot] = k] ELSE csp.trips]
    /\ UNCHANGED <<clock, storeVars, alertVars>>

\* CheckExfil has read the site's files, or failed ("none").
Verified(slot, decision) ==
    /\ csp.trips[slot] # Nothing
    /\ csp' = [csp EXCEPT !.trips[slot] = Nothing]
    /\ IF decision = "none" THEN UNCHANGED alertVars ELSE OnScan(csp.trips[slot], decision)
    /\ UNCHANGED <<clock, storeVars, stats, calls>>

Tick == clock < LastTime /\ clock' = clock + 1
        /\ UNCHANGED <<storeVars, alertVars, csp, stats, calls>>

\* What is in memory is gone with the process, the digest too.
Restart == Called /\ Fresh /\ UNCHANGED <<clock, reports, files, stats>>

ReportsNext ==
    \/ \E k \in Keys :
          \/ \E d \in Decisions : Decide(k, d)
          \/ LockPurged(k)
          \/ \E known, own, allowed \in BOOLEAN, sl \in Slots : CspReport(k, known, own, allowed, sl)
    \/ \E t \in Targets, s \in Sources, accepted, saved \in BOOLEAN :
          \/ Report(t, s, accepted, saved)
          \/ \E trap \in BOOLEAN, rendered \in 0 .. clock \cup {Nothing} :
                Submit(t, s, trap, rendered, accepted, saved)
    \/ \E sl \in Slots, d \in Decisions \cup {"none"} : Verified(sl, d)
    \/ PurgeLists \/ PurgeRemoves \/ PurgeEnds \/ Flush \/ Tick \/ Restart

ReportsSpec == ReportsInit /\ [][ReportsNext]_rvars

(***************************************************************************)
(* What it promises.                                                       *)
(***************************************************************************)

Mailed(i) == events[i].told = "mailed" /\ events[i].kind = "alert"

\* Nothing the operator is to hear goes missing while the process runs: a
\* hold is mailed at once; what was held back waits in the queue with the
\* timer armed, and what found the queue full is counted for a digest that
\* will go out, and never for one that is empty (alerter, notify and flush).
NothingUnheard ==
    /\ \A i \in DOMAIN events : events[i].kind = "hold" => events[i].told = "mailed"
    /\ queue = {i \in DOMAIN events : events[i].told = "queued"}
    /\ dropped = Cardinality({i \in DOMAIN events : events[i].told = "counted"})
    /\ dropped > 0 => queue # {}
    /\ queue # {} => due # Nothing

\* A flood is no mail bomb: one alert a key in its hour, and Burst in any.
FloodIsHeld ==
    \A i \in DOMAIN events : Mailed(i) =>
        LET within(w) == {j \in DOMAIN events : j <= i /\ Mailed(j) /\ events[i].at < events[j].at + w} IN
        /\ Cardinality(within(BurstWindow)) <= Burst
        /\ \A j \in within(PerKey) : j # i => events[j].key # events[i].key

\* And what costs nothing to cause holds back no real alert: one that waits
\* waits for alerts of its own key or for Burst of them that were mailed
\* ("forged reports cannot push real alerts back an hour"; a hold spends
\* neither).
HeldBackForAReason ==
    \A i \in DOMAIN events : events[i].kind = "alert" /\ ~Mailed(i) =>
        LET before(w) == {j \in DOMAIN events : j < i /\ Mailed(j) /\ events[i].at < events[j].at + w} IN
        \/ \E j \in before(PerKey) : events[j].key = events[i].key
        \/ Cardinality(before(BurstWindow)) >= Burst

\* Reports never fill the volume, and one goes before its time is over only
\* for the newer ones that a full directory keeps instead of it: the count in
\* memory never falls behind the directory, whatever purges and failed writes
\* come between.
ReportsStay ==
    /\ Cardinality(files) <= MaxReports
    /\ counted = Nothing \/ counted >= Cardinality(files)
    /\ \A i \in DOMAIN reports \ files :
          \/ ~reports[i].saved \/ reports[i].at + ReportRetention < clock
          \/ Cardinality({j \in DOMAIN reports : j > i}) > MaxReports - Batch

\* Whoever is thanked for a report he filed before has it among those that
\* were written, unless he was told then that it was not.
ThanksAreFounded ==
    \A t \in Targets, s \in Sources : deduped[<<t, s>>] # Nothing =>
        \E i \in DOMAIN reports :
            reports[i].target = t /\ reports[i].from = s /\ reports[i].at = deduped[<<t, s>>]

\* A hostile page controls how often it reports, and still writes a site's
\* stats file at most once a window, restarts or not.
WritesAreSpaced ==
    \A k \in Keys : stats'[k] # stats[k] => clock >= stats[k].at + ReportFlush

=============================================================================
