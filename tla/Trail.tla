--------------------------------- MODULE Trail ---------------------------------
(***************************************************************************)
(* The provenance logs (internal/provenance, httpapi/provenance.go,        *)
(* ee/provenance.go): who made a change and from where, one bounded log    *)
(* beside each site and one beside the owner's account.  A change is       *)
(* recorded after its handler answered, a creation in both logs and a      *)
(* deletion in the account's; bursts are one line; the sweep drops what is *)
(* past its retention, unless it is evidence.                              *)
(*                                                                         *)
(* A line is an action, its first and latest time, and here the events it  *)
(* stands for (history).  Addresses, clients and credentials are People.   *)
(***************************************************************************)
EXTENDS Naturals, Sequences, FiniteSets

CONSTANTS
    Sites, Owner, People, Requests,
    Keep,          \* MaxEntries
    Window,        \* MergeWindow
    Retention, HeldFor,
    LastTime, MaxEvents, MaxHolds, MaxRestarts, Nothing

TrailAssumption ==
    /\ Owner \notin Sites /\ Keep \in Nat \ {0} /\ Window \in Nat
    /\ Retention \in Nat /\ HeldFor \in Nat /\ HeldFor >= Retention
    /\ LastTime \in Nat /\ MaxEvents \in Nat /\ MaxHolds \in Nat /\ MaxRestarts \in Nat

\* Whose logs there are.
Logs == Sites \cup {Owner}

VARIABLES
    now,
    alive,     \* the sites that exist
    locked,    \* under the operator's lock
    suspended, \* the account
    log,
    req,       \* what each request is doing, and the lines it is about to write
    named,     \* the action `recorded` holds for the upload route
    sweep,
    did,       \* history: what happened, in order
    kept,      \* history: the events that were written down
    pushed,    \* history: the events pushed out by MaxEntries
    origins,   \* history: the creations that opened their log
    since,     \* history: since when a subject is held as evidence
    holds, restarts

rvars == <<now, alive, locked, suspended, log, req, named, sweep, did, kept, pushed, origins, since,
           holds, restarts>>
heldVars == <<locked, suspended, since, holds, restarts>>

Idle == [at |-> "idle", todo |-> <<>>]
NoSweep == [at |-> "idle", todo |-> {}, when |-> 0]

TrailTypeOK ==
    /\ now \in 0 .. LastTime /\ alive \subseteq Sites /\ locked \subseteq Sites /\ suspended \in BOOLEAN
    /\ \A s \in Logs : \A i \in DOMAIN log[s] :
         log[s][i].first <= log[s][i].last /\ log[s][i].of \subseteq DOMAIN did
    /\ \A r \in Requests : req[r].at \in {"idle", "working", "recording"}
    /\ named \in {"upload", "replace"}
    /\ kept \subseteq DOMAIN did /\ pushed \subseteq kept

TrailInit ==
    /\ now = 0 /\ alive = {} /\ locked = {} /\ suspended = FALSE
    /\ log = [s \in Logs |-> <<>>] /\ req = [r \in Requests |-> Idle]
    /\ named = "upload" /\ sweep = NoSweep
    /\ did = <<>> /\ kept = {} /\ pushed = {} /\ origins = {}
    /\ since = [s \in Logs |-> Nothing] /\ holds = 0 /\ restarts = 0

(***************************************************************************)
(* One log (Record, Purge), under the subject's lock.                      *)
(***************************************************************************)

Origin(action)     == action \in {"create", "signup"}
Standalone(action) == action \in {"create", "signup", "site-create", "site-delete"}

\* An entry continues the last line when nothing but its time differs, and
\* it is neither earlier nor long after.
Mergeable(last, e) ==
    /\ ~Standalone(e.action) /\ last.action = e.action /\ last.who = e.who
    /\ e.last >= last.last /\ e.last <= last.last + Window

Merged(last, e) == [last EXCEPT !.last = e.last, !.of = @ \cup e.of]

\* Mutant: the oldest lines go, whatever they are.
CapPlainly(es) == IF Len(es) <= Keep THEN es ELSE SubSeq(es, Len(es) - Keep + 1, Len(es))

CapEntries(es) ==
    IF Len(es) <= Keep THEN es
    ELSE IF Origin(es[1].action) THEN <<es[1]>> \o SubSeq(es, Len(es) - Keep + 2, Len(es))
    ELSE SubSeq(es, Len(es) - Keep + 1, Len(es))

Written(es, e) ==
    IF es # <<>> /\ Mergeable(es[Len(es)], e)
    THEN [es EXCEPT ![Len(es)] = Merged(@, e)]
    ELSE CapEntries(Append(es, e))

Told(es) == UNION {es[i].of : i \in DOMAIN es}

\* Mutant: a burst is as old as its first event.
PurgedByFirst(es, before) == SelectSeq(es, LAMBDA e : e.first >= before)

Purged(es, before) == SelectSeq(es, LAMBDA e : e.last >= before)

Before(t, age) == IF t > age THEN t - age ELSE 0

(***************************************************************************)
(* Requests.                                                               *)
(***************************************************************************)

Event(s, action)    == [subject |-> s, action |-> action, time |-> now]
Happened(s, action) == did' = Append(did, Event(s, action))

\* entryFor: stamped with the time of the answer.
Entry(s, action, who) ==
    [subject |-> s, action |-> action, who |-> who, first |-> now, last |-> now, of |-> {Len(did) + 1}]

Recording(r, es) == req' = [req EXCEPT ![r] = [at |-> "recording", todo |-> es]]

Free(r) == req[r].at = "idle" /\ Len(did) < MaxEvents

\* uploadFiles begins: the gate has authenticated who.
Upload(r, s, who, replace) ==
    /\ Free(r) /\ s \in alive \ locked
    /\ req' = [req EXCEPT ![r] = [at |-> "working", todo |-> <<>>, site |-> s, who |-> who, replace |-> replace]]
    /\ UNCHANGED <<now, alive, heldVars, log, named, sweep, did, kept, pushed, origins>>

\* It answers: written, written and held, or refused.  `recorded` names the
\* change after the route, or after the handler's note.
Answer(r) ==
    /\ req[r].at = "working" /\ req[r].site \in alive /\ Len(did) < MaxEvents
    /\ LET action == IF req[r].replace THEN "replace" ELSE named IN
       /\ named' = action
       /\ Recording(r, <<Entry(req[r].site, action, req[r].who)>>)
    /\ Happened(req[r].site, IF req[r].replace THEN "replace" ELSE "upload")
    /\ UNCHANGED <<now, alive, heldVars, log, sweep, kept, pushed, origins>>

\* A replace that fails leaves the site as it was; a plain upload may have
\* written some of its files by then.  Neither is recorded.
Fail(r) ==
    /\ req[r].at = "working"
    /\ \/ Len(did) < MaxEvents /\ ~req[r].replace /\ req[r].site \in alive /\ Happened(req[r].site, "upload")
       \/ UNCHANGED did
    /\ req' = [req EXCEPT ![r] = Idle]
    /\ UNCHANGED <<now, alive, heldVars, log, named, sweep, kept, pushed, origins>>

\* MCP, WebDAV, FTP name the change themselves, and what a write that failed
\* half-way had written by then.
WriteDirectly(r, s, who) ==
    /\ Free(r) /\ s \in alive \ locked
    /\ Happened(s, "upload")
    /\ Recording(r, <<Entry(s, "upload", who)>>)
    /\ UNCHANGED <<now, alive, heldVars, log, named, sweep, kept, pushed, origins>>

\* recordCreate: the site's log, then the owner's.
Create(r, s, who) ==
    /\ Free(r) /\ s \notin alive /\ ~suspended /\ \A i \in DOMAIN did : did[i].subject # s
    /\ alive' = alive \cup {s}
    /\ Len(did) + 1 < MaxEvents
    /\ did' = did \o <<Event(s, "create"), Event(Owner, "site-create")>>
    /\ Recording(r, <<Entry(s, "create", who),
                     [Entry(Owner, "site-create", who) EXCEPT !.of = {Len(did) + 2}]>>)
    /\ UNCHANGED <<now, heldVars, log, named, sweep, kept, pushed, origins>>

\* deleteSite: the site's log goes with it, and the owner's tells.
Delete(r, s, who) ==
    /\ Free(r) /\ s \in alive \ locked
    /\ alive' = alive \ {s} /\ log' = [log EXCEPT ![s] = <<>>]
    /\ Happened(Owner, "site-delete")
    /\ Recording(r, <<Entry(Owner, "site-delete", who)>>)
    /\ UNCHANGED <<now, heldVars, named, sweep, kept, pushed, origins>>

\* The first sign-in is the sign-up.
SignIn(r, who) ==
    /\ Free(r) /\ ~suspended
    /\ LET action == IF \E i \in DOMAIN did : did[i].action = "signup" THEN "signin" ELSE "signup" IN
       Happened(Owner, action) /\ Recording(r, <<Entry(Owner, action, who)>>)
    /\ UNCHANGED <<now, alive, heldVars, log, named, sweep, kept, pushed, origins>>

\* RecordProvenance: never for a subject that is gone.
Record(r) ==
    /\ req[r].at = "recording"
    /\ LET e == Head(req[r].todo)  s == e.subject
           next == IF s = Owner \/ s \in alive THEN Written(log[s], e) ELSE log[s]
       IN  /\ log' = [log EXCEPT ![s] = next]
           /\ kept' = IF next # log[s] THEN kept \cup e.of ELSE kept
           /\ pushed' = pushed \cup (Told(log[s]) \ Told(next))
           /\ origins' = IF log[s] = <<>> /\ Origin(e.action) /\ next # <<>> THEN origins \cup e.of ELSE origins
    /\ req' = [req EXCEPT ![r] = IF Len(@.todo) = 1 THEN Idle ELSE [@ EXCEPT !.todo = Tail(@)]]
    /\ UNCHANGED <<now, alive, heldVars, named, sweep, did>>

(***************************************************************************)
(* The operator.                                                           *)
(***************************************************************************)

Held(s, ls, susp) == IF s = Owner THEN susp \/ ls # {} ELSE s \in ls

Hold(ls, susp) ==
    /\ holds < MaxHolds /\ holds' = holds + 1
    /\ locked' = ls /\ suspended' = susp
    /\ since' = [s \in Logs |-> IF ~Held(s, ls, susp) THEN Nothing
                                    ELSE IF Held(s, locked, suspended) THEN since[s] ELSE now]
    /\ UNCHANGED <<now, alive, log, req, named, sweep, did, kept, pushed, origins, restarts>>

Lock(s)   == s \in alive \ locked /\ Hold(locked \cup {s}, suspended)
Unlock(s) == s \in locked /\ Hold(locked \ {s}, suspended)
Suspend   == Hold(locked, ~suspended)

(***************************************************************************)
(* The sweep: one time for all of it, the sites as they were listed.       *)
(***************************************************************************)

SweepLists ==
    /\ sweep.at = "idle"
    /\ sweep' = [at |-> "sites", todo |-> alive \ locked, when |-> now]
    /\ UNCHANGED <<now, alive, heldVars, log, req, named, did, kept, pushed, origins>>

PurgeSite(s) ==
    /\ sweep.at = "sites" /\ s \in sweep.todo
    /\ sweep' = [sweep EXCEPT !.todo = @ \ {s}]
    /\ log' = [log EXCEPT ![s] = Purged(@, Before(sweep.when, Retention))]
    /\ UNCHANGED <<now, alive, heldVars, req, named, did, kept, pushed, origins>>

\* lockHolds is asked, and then the log is purged.
AskHolds ==
    /\ sweep.at = "sites" /\ sweep.todo = {}
    /\ sweep' = [at |-> "account", todo |-> {}, when |-> sweep.when,
                 age |-> IF Held(Owner, locked, suspended) THEN HeldFor ELSE Retention]
    /\ UNCHANGED <<now, alive, heldVars, log, req, named, did, kept, pushed, origins>>

PurgeAccount ==
    /\ sweep.at = "account"
    /\ log' = [log EXCEPT ![Owner] = Purged(@, Before(sweep.when, sweep.age))]
    /\ sweep' = NoSweep
    /\ UNCHANGED <<now, alive, heldVars, req, named, did, kept, pushed, origins>>

Tick ==
    /\ now < LastTime /\ now' = now + 1
    /\ UNCHANGED <<alive, heldVars, log, req, named, sweep, did, kept, pushed, origins>>

\* A restart ends every request and the sweep.
Restart ==
    /\ restarts < MaxRestarts /\ restarts' = restarts + 1
    /\ req' = [r \in Requests |-> Idle] /\ named' = "upload" /\ sweep' = NoSweep
    /\ UNCHANGED <<now, alive, locked, suspended, since, holds, log, did, kept, pushed, origins>>

TrailNext ==
    \/ \E r \in Requests :
         \/ \E s \in Sites, who \in People :
              \/ \E replace \in BOOLEAN : Upload(r, s, who, replace)
              \/ WriteDirectly(r, s, who) \/ Create(r, s, who) \/ Delete(r, s, who)
         \/ \E who \in People : SignIn(r, who)
         \/ Answer(r) \/ Fail(r) \/ Record(r)
    \/ \E s \in Sites : Lock(s) \/ Unlock(s) \/ PurgeSite(s)
    \/ Suspend \/ SweepLists \/ AskHolds \/ PurgeAccount \/ Tick \/ Restart

TrailSpec == TrailInit /\ [][TrailNext]_rvars

(***************************************************************************)
(* Properties.                                                             *)
(***************************************************************************)

\* How long an event is owed: the retention, and longer for a subject that
\* was held as evidence before that was over and has been held since.
Owed(i, s) ==
    LET t == did[i].time IN
    \/ now <= t + Retention
    \/ /\ since[s] # Nothing /\ since[s] <= t + Retention
       /\ s \in Sites \/ now <= t + HeldFor

Stands(s) == s = Owner \/ s \in alive

\* An event once written down is told by a line that covers its time for as
\* long as it is owed, unless MaxEntries later lines pushed it out; a
\* creation that opened its log is never pushed out.
TrailIsKept ==
    /\ \A i \in kept \ pushed : \A s \in {did[i].subject} :
         Stands(s) /\ Owed(i, s)
           => \E k \in DOMAIN log[s] :
                i \in log[s][k].of /\ log[s][k].first <= did[i].time /\ did[i].time <= log[s][k].last
    /\ origins \cap pushed = {}

\* The last line of a log is of the action that was made ("an action other
\* than the route's (a replace)" is that request's note).
LinesNameTheAction ==
    \A s \in Sites : \A k \in DOMAIN log[s] : \A i \in log[s][k].of : log[s][k].action = did[i].action

===============================================================================
