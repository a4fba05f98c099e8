---------------------------- MODULE SiteContent ----------------------------
(***************************************************************************)
(* The content of one site (internal/store/replace.go, files.go, zip.go,   *)
(* staged.go): replacements that stage under tmp/ and commit entry by      *)
(* entry, uploads, transfers that become visible on Close, removals, and   *)
(* the restore of a snapshot (httpapi/backups.go), which is a replacement  *)
(* with a guard and a project to stop and start again.                     *)
(*                                                                         *)
(* Everything under the site lock that is one step to the rest of the      *)
(* server is one action.  A commit is not: the file server, FTP's removals *)
(* and a crash all see it half done.                                       *)
(***************************************************************************)
EXTENDS Naturals

CONSTANTS
    Replaces,   \* replacements by upload
    Restores,   \* replacements from a snapshot
    Uploads,    \* SaveFile and ExtractZip requests
    Transfers,  \* files written through a WebDAV or FTP handle
    Sessions,   \* FTP removals, which ask and act without the site lock
    Paths,      \* top-level entries of the content root
    Old, Absent, Unlocked, Operator, Nobody,
    MaxOwners,  \* how often the site may change hands
    MaxCrashes  \* how often the server may crash

Reps    == Replaces \cup Restores
Writers == Reps \cup Uploads \cup Transfers

ASSUME ContentAssumption ==
    /\ Replaces \cap Restores = {}
    /\ Old \notin Writers /\ Absent \notin Writers \cup {Old}
    /\ {Unlocked, Operator} \cap (Writers \cup {Old}) = {} /\ Unlocked # Operator
    /\ Nobody \notin Reps
    /\ MaxOwners \in Nat /\ MaxCrashes \in Nat

VARIABLES
    content,   \* the content root
    moved,     \* what each replacement's .replace-commit-* directory holds
    listing,   \* entries the running commit has yet to remove
    before,    \* history: the content when the running commit listed it
    siteLock,  \* the commit that holds the site lock
    claim,     \* Store.replacing: the replacement in flight
    lock,      \* meta.json: the operator's lock, or the hold a verdict placed
    live,      \* the site folder and its meta.json exist
    owner,     \* meta.json: the owner and since when, a number that only grows
    project,   \* meta.json: the container project is to run, is stopped, or may not run
    rep,       \* each replacement
    file,      \* each transfer and each removal
    crashed    \* how often the server has been restarted

commitVars == <<content, moved, listing, before>>
metaVars   == <<lock, live, owner, project>>
vars == <<commitVars, siteLock, claim, metaVars, rep, file, crashed>>

Working == {"gate", "staging", "fresh", "stopped", "locked", "settled", "moved",
            "emptying", "filling", "unlock", "release", "failed", "abort"}

RepRecords  == [at : Working \cup {"idle", "ended"}, staged : SUBSET Paths,
                was : 0 .. MaxOwners, restart : BOOLEAN]
FileRecords == [at : {"idle", "open", "swept", "asked", "ended"}, path : Paths \cup {Absent}]

TypeOK ==
    /\ content \in [Paths -> Writers \cup {Old, Absent}]
    /\ before \in [Paths -> Writers \cup {Old, Absent}]
    /\ moved \in [Reps -> SUBSET Paths]
    /\ listing \subseteq Paths \cup Transfers
    /\ siteLock \in Reps \cup {Nobody} /\ claim \in Reps \cup {Nobody}
    /\ lock \in Writers \cup {Old, Unlocked, Operator}
    /\ live \in BOOLEAN /\ project \in {"runs", "stopped", "barred"}
    /\ owner \in 0 .. MaxOwners /\ crashed \in 0 .. MaxCrashes
    /\ rep \in [Reps -> RepRecords] /\ file \in [Transfers \cup Sessions -> FileRecords]

Unasked == [at |-> "idle", staged |-> {}, was |-> 0, restart |-> FALSE]
Empty   == [p \in Paths |-> Absent]

Unopened == [at |-> "idle", path |-> Absent]
Closed   == [at |-> "ended", path |-> Absent]

Init ==
    /\ content = [p \in Paths |-> Old] /\ before = Empty
    /\ moved = [r \in Reps |-> {}] /\ listing = {}
    /\ siteLock = Nobody /\ claim = Nobody
    /\ lock = Unlocked /\ live = TRUE /\ owner = 0 /\ project = "runs"
    /\ rep = [r \in Reps |-> Unasked]
    /\ file = [f \in Transfers \cup Sessions |-> Unopened]
    /\ crashed = 0

\* The staging directory is of use until it is moved or given up.
Goto(r, at) ==
    LET kept == IF at \in {"moved", "unlock", "failed", "abort"} THEN {} ELSE rep[r].staged
    IN  rep' = [rep EXCEPT ![r] = [rep[r] EXCEPT !.at = at, !.staged = kept]]

\* Mutant: what is still to be started again is forgotten with the request.
EndForgets(r) == rep' = [rep EXCEPT ![r] = [Unasked EXCEPT !.at = "ended"]]

\* Over, but for a project that is still to be started again.
End(r) == rep' = [rep EXCEPT ![r] = [Unasked EXCEPT !.at = "ended", !.restart = rep[r].restart]]

(***************************************************************************)
(* Until the commit.                                                       *)
(***************************************************************************)

\* The gate: the site as the handler was given it.
Gate(r) ==
    /\ rep[r].at = "idle" /\ live /\ lock = Unlocked
    /\ rep' = [rep EXCEPT ![r].at = "gate", ![r].was = IF r \in Restores THEN owner ELSE 0]
    /\ UNCHANGED <<commitVars, siteLock, claim, metaVars, file, crashed>>

Busy(r) ==
    /\ rep[r].at = "gate" /\ claim # Nobody
    /\ End(r)
    /\ UNCHANGED <<commitVars, siteLock, claim, metaVars, file, crashed>>

\* Mutant: an error on the way leaves the claim taken.
BeginLeaks(r) ==
    /\ rep[r].at = "gate" /\ claim = Nobody
    /\ \/ /\ Goto(r, "staging") /\ moved' = [s \in Reps |-> {}]
       \/ /\ End(r) /\ UNCHANGED moved
    /\ claim' = r
    /\ UNCHANGED <<content, listing, before, siteLock, metaVars, file, crashed>>

\* One replacement at a time; what a broken commit left goes now.  Measuring
\* the site or making the staging directory may fail.
Begin(r) ==
    /\ rep[r].at = "gate" /\ claim = Nobody
    /\ \/ /\ Goto(r, "staging") /\ claim' = r
          /\ moved' = [s \in Reps |-> {}]
       \/ /\ End(r) /\ UNCHANGED <<claim, moved>>
    /\ UNCHANGED <<content, listing, before, siteLock, metaVars, file, crashed>>

StageFile(r, p) ==
    /\ rep[r].at = "staging" /\ p \notin rep[r].staged
    /\ rep' = [rep EXCEPT ![r].staged = @ \cup {p}]
    /\ UNCHANGED <<commitVars, siteLock, claim, metaVars, file, crashed>>

\* A write over the caps, a bad path, a body cut off: never committed.
StageFails(r) ==
    /\ rep[r].at = "staging"
    /\ Goto(r, "failed")
    /\ UNCHANGED <<commitVars, siteLock, claim, metaVars, file, crashed>>

StillFits(r) == live /\ owner = rep[r].was

\* A restore looks again before it stops the project.
LookAgain(r) ==
    /\ r \in Restores /\ rep[r].at = "staging" /\ StillFits(r)
    /\ Goto(r, "fresh")
    /\ UNCHANGED <<commitVars, siteLock, claim, metaVars, file, crashed>>

StopProject(r) ==
    /\ rep[r].at = "fresh" /\ siteLock = Nobody
    /\ IF live
       THEN /\ rep' = [rep EXCEPT ![r].at = "stopped", ![r].restart = (project = "runs")]
            /\ project' = IF project = "runs" THEN "stopped" ELSE project
       ELSE Goto(r, "failed") /\ UNCHANGED project
    /\ UNCHANGED <<commitVars, siteLock, claim, lock, live, owner, file, crashed>>

\* Given up: a failed write, a client gone, a version cut short, a project
\* that will not stop.
Abort(r) ==
    /\ rep[r].at \in {"staging", "fresh", "stopped", "failed"}
    /\ Goto(r, "abort")
    /\ UNCHANGED <<commitVars, siteLock, claim, metaVars, file, crashed>>

AbortEnds(r) ==
    /\ rep[r].at = "abort" /\ ~rep[r].restart
    /\ claim' = Nobody /\ End(r)
    /\ UNCHANGED <<commitVars, siteLock, metaVars, file, crashed>>

\* The project runs again whatever became of the restore, unless its plan no
\* longer allows it or the site is gone.
StartAgain(r) ==
    /\ rep[r].restart /\ rep[r].at \in {"abort", "ended"} /\ siteLock = Nobody
    /\ project' \in IF live THEN {"runs", "barred"} ELSE {project}
    /\ rep' = [rep EXCEPT ![r].restart = FALSE]
    /\ UNCHANGED <<commitVars, siteLock, claim, lock, live, owner, file, crashed>>

(***************************************************************************)
(* Commit.                                                                 *)
(***************************************************************************)

\* Mutant: the next replacement may begin before this commit is over.
TakeLockAndRelease(r) ==
    /\ rep[r].at \in {"staging", "fresh", "stopped", "failed"} /\ siteLock = Nobody
    /\ rep[r].at = "staging" => r \in Replaces
    /\ siteLock' = r /\ claim' = Nobody
    /\ Goto(r, IF rep[r].at = "failed" THEN "unlock" ELSE "locked")
    /\ UNCHANGED <<commitVars, metaVars, file, crashed>>

TakeLock(r) ==
    /\ rep[r].at \in {"staging", "fresh", "stopped", "failed"} /\ siteLock = Nobody
    /\ rep[r].at = "staging" => r \in Replaces
    /\ siteLock' = r
    /\ Goto(r, IF rep[r].at = "failed" THEN "unlock" ELSE "locked")
    /\ UNCHANGED <<commitVars, claim, metaVars, file, crashed>>

\* Mutant: a restore goes in whoever the site belongs to by now.
CheckUnguarded(r) ==
    /\ rep[r].at = "locked"
    /\ IF live /\ lock = Unlocked
       THEN \/ Goto(r, "settled") /\ lock' \in {Unlocked, r}
            \/ Goto(r, "unlock") /\ UNCHANGED lock
       ELSE Goto(r, "unlock") /\ UNCHANGED lock
    /\ UNCHANGED <<commitVars, siteLock, claim, live, owner, project, file, crashed>>

\* meta.json as it is now: gone, locked or handed over refuses the commit;
\* then the verdict, which may hold the site or fail.
Check(r) ==
    /\ rep[r].at = "locked"
    /\ IF live /\ lock = Unlocked /\ (r \in Restores => StillFits(r))
       THEN \/ Goto(r, "settled") /\ lock' \in {Unlocked, r}
            \/ Goto(r, "unlock") /\ UNCHANGED lock
       ELSE Goto(r, "unlock") /\ UNCHANGED lock
    /\ UNCHANGED <<commitVars, siteLock, claim, live, owner, project, file, crashed>>

\* The staging directory moves into the site folder as one; if it cannot,
\* nothing was touched.
MoveIn(r) ==
    /\ rep[r].at = "settled"
    /\ \/ Goto(r, "moved") /\ moved' = [moved EXCEPT ![r] = rep[r].staged]
       \/ Goto(r, "unlock") /\ UNCHANGED moved
    /\ UNCHANGED <<content, listing, before, siteLock, claim, metaVars, file, crashed>>

\* What the commit finds in the content root, the temp files of transfers
\* included.
Found == {p \in Paths : content[p] # Absent} \cup {f \in Transfers : file[f].at = "open"}

\* The last step that may fail without a trace.
ListOld(r) ==
    /\ rep[r].at = "moved"
    /\ \/ Goto(r, "emptying") /\ listing' = Found /\ before' = content /\ UNCHANGED moved
       \/ Goto(r, "unlock") /\ moved' = [moved EXCEPT ![r] = {}] /\ UNCHANGED <<listing, before>>
    /\ UNCHANGED <<content, siteLock, claim, metaVars, file, crashed>>

RemoveOld(r, x) ==
    /\ rep[r].at = "emptying" /\ x \in listing
    /\ listing' = listing \ {x}
    /\ IF x \in Paths
       THEN content' = [content EXCEPT ![x] = Absent] /\ UNCHANGED file
       ELSE file' = [file EXCEPT ![x].at = IF @ = "open" THEN "swept" ELSE @] /\ UNCHANGED content
    /\ UNCHANGED <<moved, before, siteLock, claim, metaVars, rep, crashed>>

\* Mutant: entries go in while old ones are still there.
FillEarly(r) ==
    /\ rep[r].at = "emptying"
    /\ listing' = {} /\ Goto(r, "filling") /\ before' = Empty
    /\ UNCHANGED <<content, moved, siteLock, claim, metaVars, file, crashed>>

Fill(r) ==
    /\ rep[r].at = "emptying" /\ listing = {}
    /\ Goto(r, "filling") /\ before' = Empty
    /\ UNCHANGED <<content, moved, listing, siteLock, claim, metaVars, file, crashed>>

Place(r, p) ==
    /\ rep[r].at = "filling" /\ p \in moved[r]
    /\ content' = [content EXCEPT ![p] = r]
    /\ moved' = [moved EXCEPT ![r] = @ \ {p}]
    /\ UNCHANGED <<listing, before, siteLock, claim, metaVars, rep, file, crashed>>

\* Removing or renaming fails: what is not in place is kept.
Break(r) ==
    /\ rep[r].at \in {"emptying", "filling"}
    /\ Goto(r, "unlock") /\ listing' = {} /\ before' = Empty
    /\ UNCHANGED <<content, moved, siteLock, claim, metaVars, file, crashed>>

Landed(r) ==
    /\ rep[r].at = "filling" /\ moved[r] = {}
    /\ Goto(r, "unlock")
    /\ UNCHANGED <<commitVars, siteLock, claim, metaVars, file, crashed>>

Unlock(r) ==
    /\ rep[r].at = "unlock"
    /\ siteLock' = Nobody /\ Goto(r, "release")
    /\ UNCHANGED <<commitVars, claim, metaVars, file, crashed>>

Release(r) ==
    /\ rep[r].at = "release"
    /\ claim' = Nobody /\ End(r)
    /\ UNCHANGED <<commitVars, siteLock, metaVars, file, crashed>>

(***************************************************************************)
(* The rest of what changes a site's content.                              *)
(***************************************************************************)

\* SaveFile, ExtractZip: the files that fit go in, the last of them may hold
\* the site.  (uploads are one-shot: an upload writes one version.)
Upload(u) ==
    /\ siteLock = Nobody /\ live /\ lock = Unlocked
    /\ \A p \in Paths : content[p] # u
    /\ \E P \in SUBSET Paths : content' = [p \in Paths |-> IF p \in P THEN u ELSE content[p]]
    /\ lock' \in {Unlocked, u}
    /\ UNCHANGED <<moved, listing, before, siteLock, claim, live, owner, project, rep, file, crashed>>

\* DeleteFile, and a WebDAV DELETE.
DeleteFile(p) ==
    /\ siteLock = Nobody /\ live /\ lock = Unlocked /\ content[p] # Absent
    /\ content' = [content EXCEPT ![p] = Absent]
    /\ UNCHANGED <<moved, listing, before, siteLock, claim, metaVars, rep, file, crashed>>

\* RenameChecked: WebDAV's MOVE and FTP's RNTO.  Under its new name a content
\* may hold the site.
Rename(p, q) ==
    /\ siteLock = Nobody /\ live /\ lock = Unlocked /\ p # q /\ content[p] # Absent
    /\ content' = [content EXCEPT ![q] = content[p], ![p] = Absent]
    /\ lock' \in {Unlocked, content[p]}
    /\ UNCHANGED <<moved, listing, before, siteLock, claim, live, owner, project, rep, file, crashed>>

\* A handle is opened without the site lock; its bytes go to a temp file.
OpenStaged(f) ==
    /\ f \in Transfers /\ file[f].at = "idle"
    /\ \E p \in Paths : file' = [file EXCEPT ![f] = [at |-> "open", path |-> p]]
    /\ UNCHANGED <<commitVars, siteLock, claim, metaVars, rep, crashed>>

\* Close: discarded when the site is gone or locked by now, lost when a
\* commit swept the temp file away, renamed into place otherwise.
Close(f) ==
    /\ f \in Transfers /\ file[f].at \in {"open", "swept"} /\ siteLock = Nobody
    /\ file' = [file EXCEPT ![f] = Closed]
    /\ \/ /\ live /\ lock = Unlocked /\ file[f].at = "open"
          /\ content' = [content EXCEPT ![file[f].path] = f]
          /\ lock' \in {Unlocked, f}
       \/ UNCHANGED <<content, lock>>
    /\ UNCHANGED <<moved, listing, before, siteLock, claim, live, owner, project, rep, crashed>>

\* FTP's DELE and RMD: the question and the removal, neither under the lock.
AskRemove(f) ==
    /\ f \in Sessions /\ file[f].at = "idle" /\ live /\ lock = Unlocked
    /\ \E p \in Paths : file' = [file EXCEPT ![f] = [at |-> "asked", path |-> p]]
    /\ UNCHANGED <<commitVars, siteLock, claim, metaVars, rep, crashed>>

FtpRemove(f) ==
    /\ f \in Sessions /\ file[f].at = "asked"
    /\ file' = [file EXCEPT ![f] = Closed]
    /\ IF content[file[f].path] = Absent
       THEN UNCHANGED <<content, before>>
       ELSE /\ content' = [content EXCEPT ![file[f].path] = Absent]
            /\ before' = [before EXCEPT ![file[f].path] = Absent]
    /\ UNCHANGED <<moved, listing, siteLock, claim, metaVars, rep, crashed>>

\* The operator's lock and its release, a transfer, the removal of the site.
SetLock ==
    /\ siteLock = Nobody /\ live /\ lock' \in {Unlocked, Operator} /\ lock' # lock
    /\ UNCHANGED <<commitVars, siteLock, claim, live, owner, project, rep, file, crashed>>

HandOver ==
    /\ siteLock = Nobody /\ live /\ lock = Unlocked
    /\ owner < MaxOwners /\ owner' = owner + 1
    /\ UNCHANGED <<commitVars, siteLock, claim, lock, live, project, rep, file, crashed>>

Delete ==
    /\ siteLock = Nobody /\ live
    /\ live' = FALSE /\ project' = "barred" /\ lock' = Unlocked
    /\ content' = [p \in Paths |-> Absent] /\ moved' = [r \in Reps |-> {}]
    /\ UNCHANGED <<listing, before, siteLock, claim, owner, rep, file, crashed>>

\* The process dies: the locks, the claim and every request go, the files stay.
\* (With no request under way nothing would change.)
Crash ==
    /\ crashed < MaxCrashes /\ crashed' = crashed + 1
    /\ siteLock' = Nobody /\ claim' = Nobody /\ listing' = {} /\ before' = Empty
    /\ rep' = [r \in Reps |-> IF rep[r].at = "idle" THEN rep[r]
                              ELSE [Unasked EXCEPT !.at = "ended"]]
    /\ file' = [f \in DOMAIN file |-> IF file[f].at = "idle" THEN file[f] ELSE Closed]
    /\ rep' # rep \/ file' # file
    /\ UNCHANGED <<content, moved, metaVars>>

(***************************************************************************)
(* The specification.                                                      *)
(***************************************************************************)

\* What a request does once it has begun.
Goes(r) ==
    \/ Busy(r) \/ Begin(r) \/ LookAgain(r) \/ StopProject(r)
    \/ Abort(r) \/ AbortEnds(r) \/ StartAgain(r)
    \/ TakeLock(r) \/ Check(r) \/ MoveIn(r) \/ ListOld(r)
    \/ \E x \in Paths \cup Transfers : RemoveOld(r, x)
    \/ Fill(r) \/ (\E p \in Paths : Place(r, p)) \/ Break(r) \/ Landed(r)
    \/ Unlock(r) \/ Release(r)

RepStep(r) ==
    \/ Gate(r) \/ (\E p \in Paths : StageFile(r, p)) \/ StageFails(r) \/ Goes(r)

FileStep(f) == OpenStaged(f) \/ Close(f) \/ AskRemove(f) \/ FtpRemove(f)

Next ==
    \/ \E r \in Reps : RepStep(r)
    \/ \E f \in Transfers \cup Sessions : FileStep(f)
    \/ \E u \in Uploads : Upload(u)
    \/ \E p \in Paths : DeleteFile(p) \/ \E q \in Paths : Rename(p, q)
    \/ SetLock \/ HandOver \/ Delete \/ Crash

\* A request that has begun goes on or is given up: the server's deadlines
\* cut off a body that stops coming, and a Go mutex starves nobody.
Fairness == \A r \in Reps : WF_vars(Goes(r))

Spec     == Init /\ [][Next]_vars
FairSpec == Spec /\ Fairness

(***************************************************************************)
(* The refinement of ContentSwitch.                                        *)
(***************************************************************************)

Shown ==
    IF siteLock # Nobody /\ rep[siteLock].at = "emptying" THEN before
    ELSE [p \in Paths |->
            IF siteLock # Nobody /\ rep[siteLock].at = "filling" /\ p \in moved[siteLock]
            THEN siteLock ELSE content[p]]

Committing(r) == rep[r].at \in {"moved", "emptying", "filling"}

Rest == {rp \in Reps \X Paths : rp[2] \in moved[rp[1]] /\ ~Committing(rp[1])}

Switching == INSTANCE ContentSwitch WITH content <- Shown, rest <- Rest

\* "A failed upload leaves the site exactly as it was", and a commit changes
\* all of the content at once to whoever holds the site lock, or breaks without
\* mixing two uploads and without losing what is not in place (replace.go,
\* Commit).
ImplementsSwitch == Switching!Spec

(***************************************************************************)
(* Properties.                                                             *)
(***************************************************************************)

\* A .replace-commit-* directory loses a file only by its being put in place,
\* to the next replacement once no commit runs, or with the site: no other
\* replacement clears away what a running commit has yet to place.
UploadIsKept ==
    [][\A r \in Reps : \A p \in moved[r] \ moved'[r] :
          \/ content'[p] = r
          \/ ~live'
          \/ rep[r].at = "moved" /\ rep'[r].at = "unlock"
          \/ rep[r].at = "ended"]_vars

\* What the backups hold from before a change of owner is not put into the new
\* owner's site: a restore's files go in only while the site belongs to whom it
\* belonged when the restore was asked for (backups.go, restoreStillFits).
RestoresStayHome ==
    [][\A r \in Restores : \A p \in moved[r] \ moved'[r] :
          content[p] # r /\ content'[p] = r => owner = rep[r].was]_vars

\* A claim ends, on every way out, "or the site would answer 409 until a
\* restart" (replace.go, BeginReplace).
ClaimEnds == \A r \in Reps : claim = r ~> claim # r

\* A project a restore stopped "runs again afterwards whatever happens"
\* (backups.go, restoreBackup): it is started, or its plan bars it, or the site
\* is deleted, whether the restore is committed, refused or given up.  Only the
\* death of the process leaves it stopped.
ProjectRunsAgain == project = "stopped" ~> project # "stopped" \/ crashed > 0

\* What a replacement and a restore take they give back.
GivesBack == ClaimEnds /\ ProjectRunsAgain
=============================================================================
