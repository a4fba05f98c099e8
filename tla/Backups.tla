------------------------------- MODULE Backups --------------------------------
(***************************************************************************)
(* The Backups tab of one site (internal/httpapi/backups.go) over the      *)
(* agent that takes and lists the instance's snapshots (internal/snapshots *)
(* agent.go).  A restore takes minutes: it asks for a snapshot of the      *)
(* files it will replace, streams the version into a staging tree, stops a *)
(* container project and commits; the site may change hands, type, admins  *)
(* or password, and its files may change, between any two of these.        *)
(*                                                                         *)
(* The files are the time of the write that made them.  Versions with the  *)
(* same files are one to the code and several here.  Sites with no         *)
(* OwnerSince (from before the field existed), the rate limit and a        *)
(* snapshot that is pruned while it is read are left out.                  *)
(*                                                                         *)
(* Bounds: LastTime events, MaxChanges of what others do to the site,      *)
(* MaxFaults failures and crashes.                                         *)
(***************************************************************************)
EXTENDS Naturals

CONSTANTS
    Requests, People, None,
    LastTime, MaxChanges, MaxFaults

BackupsAssumption ==
    /\ None \notin Requests \cup People /\ People # {}
    /\ LastTime \in Nat /\ MaxChanges \in Nat /\ MaxFaults \in Nat

VARIABLES
    meta,       \* meta.json: owner, since, admins, password, type, enabled
    files,      \* the site's files
    wrote,      \* when they last changed
    claim,      \* the request that holds the site's one replace
    snapshots, indexed,
    run,        \* the backup-now run under backupMu
    lastBackup, \* the last one finished
    req,        \* the restores
    plan,       \* the owner's plan allows container mode
    now, changes, faults

bvars == <<meta, files, wrote, claim, snapshots, indexed, run, lastBackup, req, plan, now, changes, faults>>
agent == <<snapshots, indexed, run, lastBackup>>

Times  == 0 .. LastTime
Metas  == [owner : People, since : Times, admins : SUBSET People, password : Nat,
           container : BOOLEAN, enabled : BOOLEAN]
\* tenure is the since of the owner whose files these were.
Snaps  == [at : Times, files : Times, container : BOOLEAN, tenure : Times]
Runs   == [started : Times, snap : Snaps]
Roles  == {"owner", "admin", "password"}
Phases == {"idle", "claimed", "asked", "running", "taken", "staging", "staged", "stopping", "halting", "stopped", "committed", "failed", "over"}
Blank  == [at |-> "idle", who |-> None, role |-> "owner", was |-> None, version |-> None,
           asked |-> 0, taken |-> None, restart |-> FALSE]

Asks == [at : Phases, who : People \cup {None}, role : Roles, was : Metas \cup {None},
         version : Snaps \cup {None}, asked : Nat, taken : Snaps \cup {None}, restart : BOOLEAN]

BackupsTyped ==
    /\ meta \in Metas /\ files \in Times /\ wrote \in Times
    /\ snapshots \subseteq Snaps /\ indexed \subseteq snapshots
    /\ run \in [r : Requests \cup {None}, started : Times] \cup {None}
    /\ lastBackup \in Runs \cup {None}
    /\ req \in [Requests -> Asks] /\ now \in Times

BackupsTypeOK ==
    /\ BackupsTyped /\ claim \in Requests \cup {None} /\ plan \in BOOLEAN
    /\ changes \in 0 .. MaxChanges /\ faults \in 0 .. MaxFaults

BackupsInit ==
    /\ meta \in {[owner |-> p, since |-> 0, admins |-> A, password |-> 0, container |-> c, enabled |-> c] :
                    p \in People, A \in SUBSET People, c \in BOOLEAN}
    /\ meta.owner \notin meta.admins
    /\ files = 0 /\ wrote = 0 /\ claim = None
    /\ snapshots = {} /\ indexed = {} /\ run = None /\ lastBackup = None
    /\ req = [r \in Requests |-> Blank] /\ plan = TRUE /\ now = 0 /\ changes = 0 /\ faults = 0

Tick     == now < LastTime /\ now' = now + 1
NoTick   == UNCHANGED <<now, changes, faults>>
Fault    == faults < MaxFaults /\ faults' = faults + 1
Step(r, from, to) == req[r].at = from /\ req' = [req EXCEPT ![r].at = to]

\* A way out: the claim and the staging tree go (rep.Abort).
Ends(r) ==
    /\ req' = [req EXCEPT ![r] = [Blank EXCEPT !.at = "over"]]
    /\ claim' = IF claim = r THEN None ELSE claim

(***************************************************************************)
(* What a caller may restore.                                              *)
(***************************************************************************)

Manages(m, p, role, password) ==
    CASE role = "owner"    -> m.owner = p
      [] role = "admin"    -> p \in m.admins
      [] role = "password" -> m.password = password

\* None from before its current owner got the site.
Offered == {s \in indexed : s.at >= meta.since}

\* restoreStillFits: what is checked again after the snapshot, before the
\* project stops and, under the site lock, at the commit.
StillFits(r) ==
    LET q == req[r] IN
    /\ meta.container = q.version.container
    /\ meta.owner = q.was.owner /\ meta.since = q.was.since
    /\ Manages(meta, q.who, q.role, q.was.password)

\* Mutant: the check is not made at the commit.
Unguarded(r) == TRUE

Guard(r) == StillFits(r)

(***************************************************************************)
(* The snapshot before (handleBackupNow).                                  *)
(***************************************************************************)

\* The version is offered and of the site's type, and the site has no other
\* replace under way.
Restore(r, p, role, s) ==
    /\ req[r].at = "idle" /\ s \in Offered /\ Manages(meta, p, role, meta.password)
    /\ s.container = meta.container /\ claim = None
    /\ claim' = r
    /\ req' = [req EXCEPT ![r] = [Blank EXCEPT !.at = "claimed", !.who = p, !.role = role,
                                               !.was = meta, !.version = s]]
    /\ UNCHANGED <<meta, files, wrote, agent, plan>> /\ NoTick

\* Only what happens from the next event on is after the asking.
AskBackup(r) ==
    /\ req[r].at = "claimed"
    /\ req' = [req EXCEPT ![r].at = "asked", ![r].asked = now + 1]
    /\ UNCHANGED <<meta, files, wrote, claim, agent, plan>> /\ NoTick

\* Mutant: whatever run ended last is shared.
ShareAny(r) == lastBackup # None

\* A run begun after the request asked is its own too.
Share(r) == lastBackup # None /\ lastBackup.started >= req[r].asked

Shared(r) ==
    /\ req[r].at = "asked" /\ run = None /\ Share(r)
    /\ req' = [req EXCEPT ![r].at = "taken", ![r].taken = lastBackup.snap]
    /\ UNCHANGED <<meta, files, wrote, claim, agent, plan>> /\ NoTick

\* backupMu: one run at a time, for a restore here or (None) of another site.
StartRun(r) ==
    /\ run = None /\ Tick
    /\ IF r = None THEN UNCHANGED req ELSE ~Share(r) /\ Step(r, "asked", "running")
    /\ run' = [r |-> r, started |-> now']
    /\ UNCHANGED <<meta, files, wrote, claim, snapshots, indexed, lastBackup, plan, changes, faults>>

Snap(at) == [at |-> at, files |-> files, container |-> meta.container, tenure |-> meta.since]

\* The run reads the files some time after it began; what it made is
\* indexed at once.
EndRun ==
    /\ run # None /\ run' = None
    /\ LET s == Snap(run.started) IN
       /\ snapshots' = snapshots \cup {s} /\ indexed' = indexed \cup {s}
       /\ lastBackup' = [started |-> run.started, snap |-> s]
       /\ req' = IF run.r = None THEN req ELSE [req EXCEPT ![run.r].at = "taken", ![run.r].taken = s]
    /\ UNCHANGED <<meta, files, wrote, claim, plan>> /\ NoTick

FailRun ==
    /\ run # None /\ Fault /\ run' = None
    /\ IF run.r = None THEN UNCHANGED <<req, claim>> ELSE Ends(run.r)
    /\ UNCHANGED <<meta, files, wrote, snapshots, indexed, lastBackup, plan, changes, now>>

\* The timers take snapshots of their own; a scan indexes them.
Nightly ==
    /\ Tick /\ snapshots' = snapshots \cup {Snap(now')}
    /\ UNCHANGED <<meta, files, wrote, claim, indexed, run, lastBackup, req, plan, changes, faults>>

IndexNow ==
    /\ indexed # snapshots /\ indexed' = snapshots
    /\ UNCHANGED <<meta, files, wrote, claim, snapshots, run, lastBackup, req, plan>> /\ NoTick

(***************************************************************************)
(* The replace (restoreBackup).                                            *)
(***************************************************************************)

CheckTaken(r) ==
    /\ req[r].at = "taken"
    /\ IF StillFits(r) THEN Step(r, "taken", "staging") /\ UNCHANGED claim ELSE Ends(r)
    /\ UNCHANGED <<meta, files, wrote, agent, plan>> /\ NoTick

Stage(r) ==
    /\ Step(r, "staging", "staged")
    /\ UNCHANGED <<meta, files, wrote, claim, agent, plan>> /\ NoTick

FailStage(r) ==
    /\ req[r].at = "staging" /\ Fault /\ Ends(r)
    /\ UNCHANGED <<meta, files, wrote, agent, plan, changes, now>>

\* meta.json is read and checked again; whether the project is to run again
\* is taken from this reading.
CheckStaged(r) ==
    /\ req[r].at = "staged"
    /\ IF StillFits(r)
       THEN /\ req' = [req EXCEPT ![r].at = IF meta.container THEN "stopping" ELSE "stopped",
                                  ![r].restart = meta.container /\ meta.enabled]
            /\ UNCHANGED claim
       ELSE Ends(r)
    /\ UNCHANGED <<meta, files, wrote, agent, plan>> /\ NoTick

MarkStopped(r) ==
    /\ Step(r, "stopping", "halting") /\ meta' = [meta EXCEPT !.enabled = FALSE]
    /\ UNCHANGED <<files, wrote, claim, agent, plan>> /\ NoTick

StopProject(r) ==
    /\ Step(r, "halting", "stopped")
    /\ UNCHANGED <<meta, files, wrote, claim, agent, plan>> /\ NoTick

Commit(r) ==
    /\ Step(r, "stopped", "committed") /\ Guard(r)
    /\ files' = req[r].version.files /\ wrote' = now /\ claim' = None
    /\ UNCHANGED <<meta, agent, plan>> /\ NoTick

\* The stop or the commit fails, or the check at the commit refuses.
NoCommit(r) ==
    /\ req[r].at \in {"halting", "stopped"} /\ Step(r, req[r].at, "failed")
    /\ IF req[r].at = "stopped" /\ ~Guard(r) THEN NoTick ELSE Fault /\ UNCHANGED <<now, changes>>
    /\ claim' = None
    /\ UNCHANGED <<meta, files, wrote, agent, plan>>

\* Deferred: it runs again, unless its plan no longer allows it.
StartAgain(r) ==
    /\ req[r].at \in {"committed", "failed"} /\ Ends(r)
    /\ meta' = IF req[r].restart /\ plan THEN [meta EXCEPT !.enabled = TRUE] ELSE meta
    /\ UNCHANGED <<files, wrote, agent, plan>> /\ NoTick

\* The server stops; a run of the agent's goes on without its asker.
Crash ==
    /\ Fault /\ claim' = None
    /\ req' = [r \in Requests |-> IF req[r].at = "idle" THEN req[r] ELSE [Blank EXCEPT !.at = "over"]]
    /\ run' = IF run = None THEN None ELSE [run EXCEPT !.r = None]
    /\ UNCHANGED <<meta, files, wrote, snapshots, indexed, lastBackup, plan, changes, now>>

(***************************************************************************)
(* Everything else that happens to the site meanwhile.                     *)
(***************************************************************************)

Change == changes < MaxChanges /\ changes' = changes + 1

\* An upload of one file takes no replace.
Write ==
    /\ Change /\ Tick /\ files' = now' /\ wrote' = now'
    /\ UNCHANGED <<meta, claim, agent, req, plan, faults>>

Transfer(p) ==
    /\ Change /\ p # meta.owner /\ Tick
    /\ meta' = [meta EXCEPT !.owner = p, !.since = now', !.admins = {}, !.password = @ + 1]
    /\ UNCHANGED <<files, wrote, claim, agent, req, plan, faults>>

RemoveAdmin(p) ==
    /\ Change /\ p \in meta.admins /\ meta' = [meta EXCEPT !.admins = @ \ {p}]
    /\ UNCHANGED <<files, wrote, claim, agent, req, plan, now, faults>>

RotatePassword ==
    /\ Change /\ meta' = [meta EXCEPT !.password = @ + 1]
    /\ UNCHANGED <<files, wrote, claim, agent, req, plan, now, faults>>

\* Leaving container mode stops the project before the mode is written.
SwitchType ==
    /\ Change /\ meta' = [meta EXCEPT !.container = ~@, !.enabled = FALSE]
    /\ UNCHANGED <<files, wrote, claim, agent, req, plan, now, faults>>

StartOrStop ==
    /\ Change /\ meta.container /\ (plan \/ meta.enabled)
    /\ meta' = [meta EXCEPT !.enabled = ~@]
    /\ UNCHANGED <<files, wrote, claim, agent, req, plan, now, faults>>

LosePlan ==
    /\ Change /\ plan /\ plan' = FALSE
    /\ UNCHANGED <<meta, files, wrote, claim, agent, req, now, faults>>

BackupsNext ==
    \/ \E r \in Requests, p \in People, role \in Roles, s \in snapshots : Restore(r, p, role, s)
    \/ \E r \in Requests : AskBackup(r) \/ Shared(r) \/ CheckTaken(r) \/ Stage(r) \/ FailStage(r)
    \/ \E r \in Requests : CheckStaged(r) \/ MarkStopped(r) \/ StopProject(r) \/ Commit(r) \/ NoCommit(r) \/ StartAgain(r)
    \/ \E r \in Requests \cup {None} : StartRun(r)
    \/ EndRun \/ FailRun \/ Nightly \/ IndexNow \/ Crash
    \/ \E p \in People : Transfer(p) \/ RemoveAdmin(p)
    \/ Write \/ RotatePassword \/ SwitchType \/ StartOrStop \/ LosePlan

BackupsSpec == BackupsInit /\ [][BackupsNext]_bvars

(***************************************************************************)
(* Properties.                                                             *)
(***************************************************************************)

Commits(r) == req[r].at = "stopped" /\ req'[r].at = "committed"

\* A restore that took minutes puts files in place only for someone who
\* still manages the site, only of a site of its type, and never files from
\* before its owner got it.
RestoreStands ==
    \A r \in Requests : Commits(r) =>
        /\ Manages(meta, req[r].who, req[r].role, req[r].was.password)
        /\ req[r].version.container = meta.container
        /\ req[r].version.tenure = meta.since

\* What a restore replaces is in the snapshot taken before it, unless it was
\* written after the restore asked for that snapshot.
RestoreCanBeUndone ==
    \A r \in Requests : Commits(r) => wrote >= req[r].asked \/ req[r].taken.files = files

(***************************************************************************)
(* What makes them inductive.                                              *)
(***************************************************************************)

\* A snapshot of this owner's time holds what was his, and one since the last
\* write holds what there is.
SnapsInv ==
    /\ meta.since <= now /\ wrote <= now
    /\ \A s \in snapshots :
          /\ s.at <= now /\ (s.at >= meta.since => s.tenure = meta.since)
          /\ wrote >= s.at \/ s.files = files

RunsInv ==
    /\ lastBackup # None => lastBackup.snap \in snapshots /\ lastBackup.snap.at = lastBackup.started
    /\ run # None => run.started <= now
    /\ run # None /\ run.r # None => req[run.r].at = "running" /\ run.started >= req[run.r].asked

\* A request keeps the version it chose, of the owner it read, and once it has
\* its snapshot that is one made after it asked.
AskInv(q) ==
    /\ q.at \notin {"idle", "over"} => q.version \in Snaps /\ q.was \in Metas /\ q.version.tenure = q.was.since
    /\ q.at = "asked" => q.asked <= now + 1
    /\ q.at \in {"taken", "staging", "staged", "stopping", "halting", "stopped"} =>
          q.taken \in snapshots /\ q.taken.at >= q.asked

BackupsInv == SnapsInv /\ RunsInv /\ \A r \in Requests : AskInv(req[r])

\* What backups.go:357 says: a project stopped for a restore runs again
\* afterwards, whatever happens.  The code breaks it: a crash, or a write of
\* meta.json that fails, between the stop and the restart leaves it stopped.
RunsAgainAfterwards ==
    [][\A r \in Requests : (req[r].restart /\ plan /\ req'[r].at = "over") => meta'.enabled]_bvars
=============================================================================
