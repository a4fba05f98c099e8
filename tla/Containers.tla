------------------------------ MODULE Containers ------------------------------
(***************************************************************************)
(* Container sites (ee/containers/manager.go, httpapi/containers.go,       *)
(* store/container.go): the core records what a project should do, the     *)
(* manager makes the Docker Engine do it and records what it saw.          *)
(*                                                                         *)
(* A project is reconciled by its own worker (every tick, or when kicked), *)
(* which reads the site under the project's lock, and by the full scan,    *)
(* which reads all sites first and comes to each later.  Stop and holdOff  *)
(* take the same lock.  Whatever is recorded is recorded under that lock;  *)
(* the owner's wishes change at any time without it.                       *)
(*                                                                         *)
(* A compose file stands for its hash; Need says how many services it      *)
(* declares, 0 for one that does not parse.  All sites are one owner's.    *)
(***************************************************************************)
EXTENDS Naturals, FiniteSets, FiniteSetsExt

CONSTANTS
    Projects,
    Files,
    Need,
    Plans,        \* max_containers, as the owner's plan may say it
    NoFile,
    MaxSeq,
    MaxChanges,   \* what owner, operator and plan do
    MaxBreaks     \* failures of the Engine or of a lookup, containers that vanish

ContainersAssumption ==
    /\ Need \in [Files -> Nat] /\ NoFile \notin Files
    /\ Plans \subseteq Nat /\ Plans # {}

VARIABLES
    want,      \* meta.json: mode, Enabled, lock and expiry, RestartSeq; the file
    seen,      \* meta.json: the observed half of ContainerMeta
    up,        \* the Engine: the projects that have containers
    known,     \* the projects the tick looks at
    waiting,   \* the projects whose retry is not due
    worker,    \* what holds each project's lock, and how far it is
    ending,    \* a Stop waiting for the lock: by itself, or to leave the mode
    scan,      \* the full scan: what it read and has to come to
    plan,      \* max_containers
    leftover,  \* containers a refused start could not remove
    changes, breaks

cvars == <<want, seen, up, known, waiting, worker, ending, scan, plan,
          leftover, changes, breaks>>

Idle    == [step |-> "idle"]
NoScan  == [phase |-> "idle", read |-> <<>>, present |-> {}, todo |-> {}]
\* The status "error", by what it was: the owner's to mend, or tried again.
Stati   == {"stopped", "starting", "running", "refused", "failed"}
Wishes  == [in : BOOLEAN, on : BOOLEAN, ok : BOOLEAN, seq : 0 .. MaxSeq, file : Files]
Reports == [status : Stati, file : Files \cup {NoFile}, seq : 0 .. MaxSeq, count : Nat]

ContainersTypeOK ==
    /\ want \in [Projects -> Wishes]
    /\ \A p \in Projects : seen[p] \in Reports
    /\ up \subseteq Projects /\ known \subseteq Projects /\ waiting \subseteq Projects
    /\ \A p \in Projects : worker[p].step \in {"idle", "deploy", "started", "broken"}
    /\ ending \in [Projects -> {"no", "stop", "leave", "left"}]
    /\ scan.phase \in {"idle", "read", "listed", "over"}
    /\ scan.present \subseteq Projects /\ scan.todo \subseteq Projects
    /\ plan \in Plans /\ leftover \subseteq Projects
    /\ changes \in 0 .. MaxChanges /\ breaks \in 0 .. MaxBreaks

ContainersInit ==
    /\ \E f \in {g \in Files : Need[g] > 0} :
          want = [p \in Projects |-> [in |-> TRUE, on |-> TRUE, ok |-> TRUE, seq |-> 0, file |-> f]]
    /\ seen = [p \in Projects |-> [status |-> "starting", file |-> NoFile, seq |-> 0, count |-> 0]]
    /\ up = {} /\ known = {} /\ waiting = {}
    /\ worker = [p \in Projects |-> Idle]
    /\ ending = [p \in Projects |-> "no"]
    /\ scan = NoScan
    /\ plan \in Plans /\ leftover = {}
    /\ changes = 0 /\ breaks = 0

Wanted(w) == w.in /\ w.on /\ w.ok
Site(p) == [want |-> want[p], seen |-> seen[p]]
Current(c) == c.seen.file = c.want.file /\ c.seen.seq = c.want.seq

\* usedByOthers: services of the owner's other projects that count.
Counts(p) == Wanted(want[p]) /\ seen[p].status \in {"running", "starting"}
Used(P) == MapThenSumSet(LAMBDA p : IF Counts(p) THEN seen[p].count ELSE 0, P)

Free(p) == worker[p] = Idle
Breaks == breaks < MaxBreaks /\ breaks' = breaks + 1

(***************************************************************************)
(* Reconciling a project as c read it, present being what the scan listed. *)
(***************************************************************************)

Forget(p) == known' = known \ {p} /\ waiting' = waiting \ {p}
Report(p, r) == seen' = [seen EXCEPT ![p] = r]

\* teardown, logged: it may fail and leave the containers.
TearDown(p) ==
    \/ up' = up \ {p} /\ leftover' = leftover \ {p} /\ UNCHANGED breaks
    \/ p \in up /\ Breaks /\ UNCHANGED <<up, leftover>>

\* Not wanted any more, as c has it.
Down(p, c, listed) ==
    /\ Forget(p)
    /\ IF c.want.in /\ c.seen.status = "stopped" /\ ~listed
       THEN UNCHANGED <<up, seen, leftover, breaks>>
       ELSE /\ TearDown(p)
            /\ IF c.want.in THEN Report(p, [c.seen EXCEPT !.status = "stopped"]) ELSE UNCHANGED seen
    /\ UNCHANGED worker

Fail(p, c, permanent) ==
    /\ seen' = [seen EXCEPT ![p] =
          [status |-> IF permanent THEN "refused" ELSE "failed", count |-> 0,
           file |-> IF permanent THEN c.want.file ELSE c.seen.file,
           seq  |-> IF permanent THEN c.want.seq ELSE c.seen.seq]]
    /\ waiting' = IF permanent THEN waiting ELSE waiting \cup {p}
    /\ known' = known \cup {p}

\* apply, up to the Engine.  A file that does not parse and a plan that does
\* not allow it are the owner's to mend and end it for this file and this
\* restart; a lookup that fails is tried again.
Apply(p, c, by) ==
    \/ /\ Breaks /\ Fail(p, c, FALSE)
       /\ UNCHANGED <<up, worker, leftover>>
    \/ /\ Need[c.want.file] = 0 \/ Used(Projects \ {p}) + Need[c.want.file] > plan
       /\ Fail(p, c, TRUE)
       /\ \/ up' = up \ {p} /\ leftover' = leftover \ {p} /\ UNCHANGED breaks
          \/ p \in up /\ Breaks /\ leftover' = leftover \cup {p} /\ UNCHANGED up
       /\ UNCHANGED worker
    \/ /\ Need[c.want.file] > 0 /\ Used(Projects \ {p}) + Need[c.want.file] <= plan
       /\ Report(p, [c.seen EXCEPT !.status = "starting", !.count = Need[c.want.file]])
       /\ worker' = [worker EXCEPT ![p] = [step |-> "deploy", by |-> by, site |-> c, cancelled |-> FALSE]]
       /\ known' = known \cup {p}
       /\ UNCHANGED <<up, waiting, leftover, breaks>>

\* Mutant: what was applied is not compared with the restart that is asked.
ReconcileByFile(p, c, by, listed) ==
    \/ ~Wanted(c.want) /\ Down(p, c, listed)
    \/ /\ Wanted(c.want) /\ c.seen.file = c.want.file
       /\ known' = known \cup {p} /\ UNCHANGED <<seen, up, waiting, worker, leftover, breaks>>
    \/ /\ Wanted(c.want) /\ c.seen.file # c.want.file /\ p \notin waiting
       /\ Apply(p, c, by)

\* reconcile.  A running project the scan found no containers of is applied
\* again; of one it found some of, the services' states may be recorded, with
\* the rest as it was read.
Reconcile(p, c, by, listed) ==
    \/ ~Wanted(c.want) /\ Down(p, c, listed)
    \/ /\ Wanted(c.want) /\ Current(c)
       /\ IF by = "scan" /\ c.seen.status = "running" /\ ~listed
          THEN Apply(p, [c EXCEPT !.seen.file = NoFile], by)
          ELSE /\ \/ UNCHANGED seen
                  \/ by = "scan" /\ c.seen.status = "running" /\ Report(p, c.seen)
               /\ known' = known \cup {p}
               /\ UNCHANGED <<up, waiting, worker, leftover, breaks>>
    \/ /\ Wanted(c.want) /\ ~Current(c)
       /\ IF p \in waiting
          THEN known' = known \cup {p} /\ UNCHANGED <<seen, up, waiting, worker, leftover, breaks>>
          ELSE Apply(p, c, by)

\* The tick: the worker reads the site under the lock.
Tick(p) ==
    /\ p \in known /\ Free(p)
    /\ Reconcile(p, Site(p), "tick", FALSE)
    /\ UNCHANGED <<want, ending, scan, plan, changes>>

RetryIsDue(p) ==
    /\ p \in waiting
    /\ waiting' = waiting \ {p}
    /\ UNCHANGED <<want, seen, up, known, worker, ending, scan, plan, changes, breaks, leftover>>

\* deploy: whatever there was is replaced; or it breaks half way and is torn
\* down again, unless that fails too.  A Stop cancels it.
Deploy(p) ==
    /\ worker[p].step = "deploy"
    /\ \/ /\ ~worker[p].cancelled
          /\ up' = up \cup {p} /\ leftover' = leftover \ {p}
          /\ worker' = [worker EXCEPT ![p].step = "started"]
          /\ UNCHANGED breaks
       \/ /\ worker[p].cancelled
          /\ TearDown(p)
          /\ worker' = [worker EXCEPT ![p] = Idle]
       \/ /\ ~worker[p].cancelled /\ Breaks
          /\ \/ up' = up \ {p} \/ up' = up \cup {p}
          /\ worker' = [worker EXCEPT ![p].step = "broken"]
          /\ UNCHANGED leftover
    /\ UNCHANGED <<want, seen, known, waiting, ending, scan, plan, changes>>

\* The end of apply, with what it was asked to apply.
Applied(p) ==
    LET c == worker[p].site
    IN  /\ \/ /\ worker[p].step = "started"
              /\ Report(p, [status |-> "running", file |-> c.want.file, seq |-> c.want.seq,
                            count |-> Need[c.want.file]])
              /\ waiting' = waiting \ {p}
              /\ UNCHANGED known
           \/ /\ worker[p].step = "broken"
              /\ Fail(p, c, FALSE)
        /\ worker' = [worker EXCEPT ![p] = Idle]
        /\ UNCHANGED <<want, up, ending, scan, plan, changes, breaks, leftover>>

(***************************************************************************)
(* Stop.                                                                   *)
(***************************************************************************)

\* A Stop cancels the apply under way and then waits for the lock.
Cancels(p) ==
    worker' = IF worker[p].step = "deploy" THEN [worker EXCEPT ![p].cancelled = TRUE] ELSE worker

\* Under the lock: torn down and recorded stopped; a failing teardown is the
\* caller's error, and a site is not taken out of container mode then.
Stop(p) ==
    /\ ending[p] \in {"stop", "leave"} /\ Free(p)
    /\ \/ /\ up' = up \ {p} /\ leftover' = leftover \ {p}
          /\ Report(p, [seen[p] EXCEPT !.status = "stopped"])
          /\ ending' = [ending EXCEPT ![p] = IF @ = "leave" THEN "left" ELSE "no"]
          /\ UNCHANGED breaks
       \/ /\ Breaks
          /\ ending' = [ending EXCEPT ![p] = "no"]
          /\ UNCHANGED <<up, seen, leftover>>
    /\ UNCHANGED <<want, known, waiting, worker, scan, plan, changes>>

\* leaveContainerMode and the mode write, with the links purged; or one of
\* them is refused, and the mode stays.
Left(p) ==
    /\ ending[p] = "left"
    /\ \/ want' = [want EXCEPT ![p].on = FALSE, ![p].in = FALSE]
       \/ UNCHANGED want
    /\ ending' = [ending EXCEPT ![p] = "no"]
    /\ UNCHANGED <<seen, up, known, waiting, worker, scan, plan, changes, breaks, leftover>>

(***************************************************************************)
(* The full scan.                                                          *)
(***************************************************************************)

ScanReads ==
    /\ scan.phase = "idle"
    /\ scan' = [scan EXCEPT !.phase = "read", !.read = [p \in Projects |-> Site(p)]]
    /\ UNCHANGED <<want, seen, up, known, waiting, worker, ending, plan, changes, breaks, leftover>>

\* The containers there are, after the sites were read; both are old when the
\* scan comes to a site.
ScanLists ==
    /\ scan.phase = "read"
    /\ scan' = [scan EXCEPT !.phase = "listed", !.present = up, !.todo = Projects]
    /\ UNCHANGED <<want, seen, up, known, waiting, worker, ending, plan, changes, breaks, leftover>>

\* What belongs to no wanted site is torn down; a site is reconciled, unless
\* its worker is at it.
ScanComesTo(p) ==
    /\ scan.phase = "listed" /\ p \in scan.todo
    /\ \/ /\ scan.read[p].want.in /\ ~Free(p)
          /\ UNCHANGED <<seen, up, known, waiting, worker, leftover, breaks>>
       \/ /\ scan.read[p].want.in /\ Free(p)
          /\ Reconcile(p, scan.read[p], "scan", p \in scan.present)
       \/ /\ ~scan.read[p].want.in /\ Free(p)
          /\ TearDown(p)
          /\ UNCHANGED <<seen, known, waiting, worker>>
    /\ scan' = [scan EXCEPT !.todo = @ \ {p}]
    /\ UNCHANGED <<want, ending, plan, changes>>

\* enforcePlans reads again: of an owner over the plan the newest projects
\* are held off, one by one, until the rest fits.
ScanEnforces ==
    /\ scan.phase = "listed" /\ scan.todo = {}
    /\ \A p \in Projects : worker[p] # Idle => worker[p].by # "scan"
    /\ IF Used(Projects) > plan
       THEN \E P \in SUBSET {p \in Projects : Counts(p)} :
              /\ Used(Projects \ P) <= plan
              /\ \E q \in P : Used(Projects \ (P \ {q})) > plan
              /\ scan' = [scan EXCEPT !.phase = "over", !.todo = P,
                                      !.read = [p \in Projects |-> Site(p)]]
       ELSE scan' = NoScan
    /\ UNCHANGED <<want, seen, up, known, waiting, worker, ending, plan, changes, breaks, leftover>>

\* holdOff: recorded against the file and the restart it was read with, so
\* that it does not start again by itself.
HoldOff(p) ==
    /\ scan.phase = "over" /\ p \in scan.todo /\ Free(p)
    /\ \/ /\ up' = up \ {p} /\ leftover' = leftover \ {p}
          /\ LET c == scan.read[p]
             IN  Report(p, [c.seen EXCEPT !.status = "stopped", !.file = c.want.file, !.seq = c.want.seq])
          /\ UNCHANGED breaks
       \/ /\ Breaks /\ UNCHANGED <<up, seen, leftover>>
    /\ scan' = IF scan.todo = {p} THEN NoScan ELSE [scan EXCEPT !.todo = @ \ {p}]
    /\ UNCHANGED <<want, known, waiting, worker, ending, plan, changes>>

(***************************************************************************)
(* Owner, operator, plan; the Engine and the server.                       *)
(***************************************************************************)

Change == changes < MaxChanges /\ changes' = changes + 1

\* Start and restart: enabled, and the sequence moves in any case.
Start(p) ==
    /\ Change /\ want[p].in /\ want[p].seq < MaxSeq
    /\ want' = [want EXCEPT ![p].on = TRUE, ![p].seq = @ + 1]
    /\ Report(p, [seen[p] EXCEPT !.status = "starting"])
    /\ known' = known \cup {p} /\ waiting' = waiting \ {p}
    /\ UNCHANGED <<up, worker, ending, scan, plan, breaks, leftover>>

\* The owner's Stop, and the operator's lock: the wish is recorded first.
AskStop(p) ==
    /\ Change /\ want[p].in /\ ending[p] = "no"
    /\ \/ want[p].on /\ want' = [want EXCEPT ![p].on = FALSE]
       \/ want[p].ok /\ want' = [want EXCEPT ![p].ok = FALSE]
    /\ ending' = [ending EXCEPT ![p] = "stop"]
    /\ Cancels(p)
    /\ UNCHANGED <<seen, up, known, waiting, scan, plan, breaks, leftover>>

\* Leaving the mode, and deletion: stopped first, recorded after.
AskLeave(p) ==
    /\ Change /\ want[p].in /\ ending[p] = "no"
    /\ ending' = [ending EXCEPT ![p] = "leave"]
    /\ Cancels(p)
    /\ UNCHANGED <<want, seen, up, known, waiting, scan, plan, breaks, leftover>>

\* The lock is released: the restart sequence moves and the project is kicked.
Unlock(p) ==
    /\ Change /\ want[p].in /\ ~want[p].ok /\ want[p].seq < MaxSeq
    /\ want' = [want EXCEPT ![p].ok = TRUE, ![p].seq = @ + 1]
    /\ known' = known \cup {p} /\ waiting' = waiting \ {p}
    /\ UNCHANGED <<seen, up, worker, ending, scan, plan, breaks, leftover>>

EditFile(p, f) ==
    /\ Change /\ want[p].in /\ want[p].file # f
    /\ want' = [want EXCEPT ![p].file = f]
    /\ UNCHANGED <<seen, up, known, waiting, worker, ending, scan, plan, breaks, leftover>>

PlanChanges(n) ==
    /\ Change /\ n # plan
    /\ plan' = n
    /\ UNCHANGED <<want, seen, up, known, waiting, worker, ending, scan, breaks, leftover>>

Vanish(p) ==
    /\ p \in up /\ Breaks
    /\ up' = up \ {p} /\ leftover' = leftover \ {p}
    /\ UNCHANGED <<want, seen, known, waiting, worker, ending, scan, plan, changes>>

\* The server starts again: what the manager remembers is gone.
Restart ==
    /\ Breaks
    /\ known' = {} /\ waiting' = {} /\ scan' = NoScan
    /\ worker' = [p \in Projects |-> Idle]
    /\ ending' = [p \in Projects |-> "no"]
    /\ UNCHANGED <<want, seen, up, plan, leftover, changes>>

Works(p) == Deploy(p) \/ Applied(p)
Ends(p)  == Stop(p) \/ Left(p)
Scan     == ScanReads \/ ScanLists \/ ScanEnforces \/ \E p \in Projects : ScanComesTo(p) \/ HoldOff(p)

ContainersNext ==
    \/ \E p \in Projects : \/ Tick(p) \/ RetryIsDue(p) \/ Works(p) \/ Ends(p)
                           \/ Start(p) \/ AskStop(p) \/ AskLeave(p) \/ Unlock(p) \/ Vanish(p)
                           \/ \E f \in Files : EditFile(p, f)
    \/ Scan
    \/ \E n \in Plans : PlanChanges(n)
    \/ Restart

\* What holds the lock lets it go, a Stop and the scan get it in the end, and
\* the scan comes round.  The tick's fairness is not needed.
ContainersFairness ==
    /\ \A p \in Projects : WF_cvars(Works(p)) /\ WF_cvars(RetryIsDue(p)) /\ SF_cvars(Ends(p))
    /\ SF_cvars(Scan)

ContainersSpec == ContainersInit /\ [][ContainersNext]_cvars /\ ContainersFairness

(***************************************************************************)
(* What the manager promises.                                              *)
(***************************************************************************)

Settled ==
    /\ \A p \in Projects :
          /\ ~Wanted(want[p]) => p \notin up
          /\ Wanted(want[p]) => Current(Site(p)) /\ (seen[p].status = "running" => p \in up)
          /\ seen[p].status \in {"stopped", "refused"} => p \notin up \ leftover
    /\ Used(Projects) <= plan

\* Once owner, operator, plan and Engine leave it alone, every project comes
\* to rest: one that should not run has no containers; one that should was
\* started from its present file and for the last restart asked, or failed or
\* was held off for exactly these; what is recorded is what runs; and the
\* owner's projects fit the plan.  The scan works from what it read before a
\* Stop, a Start or an edit, and two projects may start side by side.
Converges == <>[]Settled

\* manager.go:562-565: a failure that is not the owner's is retried after a
\* pause.  The code breaks it where the file is put back to the one applied before: the
\* project runs on, recorded as failed and not counted.
FailureIsRetried ==
    \A p \in Projects :
        seen[p].status = "failed" /\ Wanted(want[p]) => ~Current(Site(p)) \/ p \notin up
=============================================================================
