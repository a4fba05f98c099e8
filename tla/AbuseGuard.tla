----------------------------- MODULE AbuseGuard -----------------------------
(***************************************************************************)
(* The abuse guard of one site (internal/store/guard.go) and every way a   *)
(* file gets into the content it guards: uploads and zips, staged WebDAV   *)
(* and FTP transfers, replacements, renames, containers, and the deletes   *)
(* FTP makes without the site lock.                                        *)
(*                                                                         *)
(* The guard settles its verdict in meta.json BEFORE the file it judges is *)
(* renamed into place, so nothing it holds is ever served; the two are     *)
(* separate steps here, and so is every read of the content made outside   *)
(* the site lock (the tripwire, `sitebin scan`, leaving container mode).   *)
(***************************************************************************)
EXTENDS Naturals, FiniteSets

CONSTANTS
    Workers,       \* requests that change or scan the site
    FtpSessions,   \* FTP sessions that delete
    Active,        \* content paths a browser runs (index.html)
    Passive,       \* content paths it does not (kit.txt)
    Kits,          \* contents the rules block; every other content is Clean
    Clean,
    Absent,        \* no file at the path
    Containers,    \* TRUE: the site may be a container site
    Suspensions    \* TRUE: the owner's account may be suspended and unsuspended

ASSUME GuardAssumption ==
    /\ Active \cap Passive = {}
    /\ {Clean, Absent} \cap Kits = {} /\ Clean # Absent
    /\ Workers \cap FtpSessions = {}
    /\ "nobody" \notin Workers \cup Active \cup Passive
    /\ Containers \in BOOLEAN /\ Suspensions \in BOOLEAN

Paths    == Active \cup Passive
Contents == Kits \cup {Clean, Absent}
Trees    == [Paths -> Contents]
Sev(p)   == IF p \in Active THEN "block" ELSE "flag"

VARIABLES
    content,    \* the content root
    lock,       \* who locked the site: the scanner, the account, the operator, no one
    findings,   \* unreviewed findings in meta.json
    reviewed,   \* fingerprints the operator released, and at which severity
    mode,       \* file site or container site
    running,    \* the containers run and write into the content root
    marker,     \* the trust marker
    waved,      \* history: kits a trusted tier was let serve
    siteLock,   \* the worker that holds the site lock between two steps
    work,       \* what each worker and each FTP session is doing
    crossed     \* history: something fell into a leave or a scan

vars == <<content, lock, findings, reviewed, mode, running, marker, waved, siteLock, work, crossed>>
metaVars == <<lock, findings, reviewed, mode, running, marker, waved>>

Nobody == "nobody"
Finding == [kit : Kits, path : Paths, sev : {"block", "flag"}]
Results == Kits \X Paths

Idle == [step |-> "idle", tree |-> [p \in Paths |-> Absent], hits |-> {}, whole |-> FALSE, path |-> Nobody]
Steps == {"idle", "staged", "place", "judge", "leaveStop", "leaveScan", "switch", "checked"}

TypeOK ==
    /\ content \in Trees
    /\ lock \in {"no", "scanner", "account", "admin"}
    /\ findings \subseteq Finding
    /\ reviewed \subseteq Kits \X {"block", "flag"}
    /\ mode \in {"files", "container"}
    /\ running \in BOOLEAN /\ marker \in BOOLEAN
    /\ waved \subseteq Kits /\ crossed \in BOOLEAN
    /\ siteLock \in Workers \cup {Nobody}
    /\ work \in [Workers \cup FtpSessions ->
          [step : Steps, tree : Trees, hits : SUBSET Results, whole : BOOLEAN, path : Paths \cup {Nobody}]]

Init ==
    /\ content = [p \in Paths |-> Absent]
    /\ lock = "no" /\ findings = {} /\ reviewed = {}
    /\ mode = "files" /\ running = FALSE
    /\ marker \in BOOLEAN /\ waved = {}
    /\ siteLock = Nobody
    /\ work = [w \in Workers \cup FtpSessions |-> Idle]
    /\ crossed = FALSE

(***************************************************************************)
(* The verdict: judge, exemption, reviewedContent, mergeFindings.          *)
(***************************************************************************)

Hits(t, where) == {r \in Results : r[2] \in where /\ t[r[2]] = r[1]}

\* Mutant: a release covers nothing.
IsReviewedNever(r) == FALSE /\ r \in Results

\* Reviewed with a blocking finding covers any severity; reviewed as a flag
\* covers flags.
IsReviewed(r) ==
    \/ <<r[1], "block">> \in reviewed
    \/ Sev(r[2]) = "flag" /\ <<r[1], "flag">> \in reviewed

\* What a scan result leaves in meta.json.  asServed judges a container site
\* as the file site it is about to become.
Settle(hits, asServed) ==
    LET new    == {r \in hits : ~IsReviewed(r)}
        blocks == {r \in new : Sev(r[2]) = "block"}
        exempt == marker \/ (mode = "container" /\ ~asServed)
        fresh  == {[kit |-> r[1], path |-> r[2], sev |-> Sev(r[2])] : r \in new}
    IN  /\ findings' = {f \in findings : \A g \in fresh : g.path # f.path} \cup fresh
        /\ lock' = IF blocks # {} /\ lock = "no" /\ ~exempt THEN "scanner" ELSE lock
        /\ waved' = IF lock = "no" /\ marker THEN waved \cup {r[1] : r \in blocks} ELSE waved

(***************************************************************************)
(* Uploads, staged transfers and replacements.                             *)
(***************************************************************************)

\* The gate saw an unlocked site; what the caller sends becomes a tree that
\* differs from the content in one path (an upload, a transfer) or in all
\* (a replacement).
Stage(w) ==
    /\ work[w].step = "idle" /\ lock = "no"
    /\ \E t \in Trees, touched \in {{p} : p \in Paths} \cup {Paths} :
          /\ Cardinality(touched) = 1 => \A p \in touched : t[p] # Absent
          /\ \A p \in Paths \ touched : t[p] = Absent
          /\ work' = [work EXCEPT ![w] =
                [Idle EXCEPT !.step = "staged", !.tree = t,
                             !.whole = (touched = Paths), !.hits = Hits(t, touched)]]
    /\ UNCHANGED <<content, metaVars, siteLock>>

\* Mutant: the lock is not asked for again under the site lock.
SettleUnchecked(w) ==
    /\ work[w].step = "staged" /\ siteLock = Nobody
    /\ Settle(work[w].hits, FALSE)
    /\ siteLock' = w
    /\ work' = [work EXCEPT ![w].step = "place"]
    /\ UNCHANGED <<content, reviewed, mode, running, marker>>

\* Under the site lock: a site locked since then refuses the write; else the
\* verdict is settled and the files wait to be put in place.
CheckAndSettle(w) ==
    /\ work[w].step = "staged" /\ siteLock = Nobody
    /\ IF lock # "no"
         THEN /\ work' = [work EXCEPT ![w] = Idle]
              /\ UNCHANGED <<content, metaVars, siteLock>>
         ELSE /\ Settle(work[w].hits, FALSE)
              /\ siteLock' = w
              /\ work' = [work EXCEPT ![w].step = "place"]
              /\ UNCHANGED <<content, reviewed, mode, running, marker>>

\* The rename, or the replacement's clearing and moving, held or not; a held
\* file is put in place as evidence.
PutInPlace(w) ==
    /\ work[w].step = "place"
    /\ content' = IF work[w].whole THEN work[w].tree
                  ELSE [p \in Paths |-> IF work[w].tree[p] # Absent THEN work[w].tree[p]
                                        ELSE IF p = work[w].path THEN Absent
                                        ELSE content[p]]
    /\ siteLock' = Nobody
    /\ work' = [work EXCEPT ![w] = Idle]
    /\ UNCHANGED metaVars

\* RenameChecked: a file whose extension changes is judged as its new name
\* before it gets it; one that keeps its kind was judged when it was written.
Rename(w) ==
    /\ work[w].step = "idle" /\ siteLock = Nobody /\ lock = "no"
    /\ \E p, q \in Paths :
          LET moved == [Idle.tree EXCEPT ![q] = content[p]]
          IN  /\ p # q /\ content[p] # Absent
              /\ Settle(IF Sev(p) # Sev(q) THEN Hits(moved, {q}) ELSE {}, FALSE)
              /\ work' = [work EXCEPT ![w] =
                    [Idle EXCEPT !.step = "place", !.tree = moved, !.path = p]]
    /\ siteLock' = w
    /\ UNCHANGED <<content, reviewed, mode, running, marker>>

\* DeleteFile, and a WebDAV delete: checked and made under the site lock.
DeleteFile(w) ==
    /\ work[w].step = "idle" /\ siteLock = Nobody /\ lock = "no"
    /\ \E p \in Paths : content' = [content EXCEPT ![p] = Absent]
    /\ UNCHANGED <<metaVars, siteLock, work>>

(***************************************************************************)
(* Scans of what is on disk: the tripwire, `sitebin scan`, container mode. *)
(***************************************************************************)

\* scanContent reads without the site lock.
ScanContent(w) ==
    /\ work[w].step = "idle"
    /\ work' = [work EXCEPT ![w] = [Idle EXCEPT !.step = "judge", !.hits = Hits(content, Paths)]]
    /\ UNCHANGED <<content, metaVars, siteLock>>

\* CheckExfil and ApplyScan settle what was read, under the lock.
JudgeScan(w) ==
    /\ work[w].step = "judge" /\ siteLock = Nobody
    /\ Settle(work[w].hits, FALSE)
    /\ work' = [work EXCEPT ![w] = Idle]
    /\ UNCHANGED <<content, reviewed, mode, running, marker, siteLock>>

EnterContainerMode(w) ==
    /\ Containers /\ work[w].step = "idle" /\ siteLock = Nobody
    /\ mode = "files" /\ lock = "no"
    /\ mode' = "container" /\ running' = TRUE
    /\ UNCHANGED <<content, lock, findings, reviewed, marker, waved, siteLock, work>>

\* The containers write what they like, judged by nobody.
ContainerWrite ==
    /\ mode = "container" /\ running
    /\ \E p \in Paths, c \in Contents : content' = [content EXCEPT ![p] = c]
    /\ UNCHANGED <<metaVars, siteLock, work>>

\* applySettings leaving container mode: stop the containers, scan the tree,
\* settle it as served, and only then write the mode.
LeaveStop(w) ==
    /\ work[w].step = "idle" /\ mode = "container" /\ lock = "no"
    /\ running' = FALSE
    /\ work' = [work EXCEPT ![w] = [Idle EXCEPT !.step = "leaveStop"]]
    /\ UNCHANGED <<content, lock, findings, reviewed, mode, marker, waved, siteLock>>

LeaveScan(w) ==
    /\ work[w].step = "leaveStop"
    /\ work' = [work EXCEPT ![w].step = "leaveScan", ![w].hits = Hits(content, Paths)]
    /\ UNCHANGED <<content, metaVars, siteLock>>

\* Mutant: the tree is judged with the container exemption.
ScanAsContainer(w) ==
    /\ work[w].step = "leaveScan" /\ siteLock = Nobody
    /\ Settle(work[w].hits, FALSE)
    /\ work' = [work EXCEPT ![w] =
          IF lock = "no" /\ lock' = "scanner" THEN Idle ELSE [Idle EXCEPT !.step = "switch"]]
    /\ UNCHANGED <<content, reviewed, mode, running, marker, siteLock>>

ScanBeforeServing(w) ==
    /\ work[w].step = "leaveScan" /\ siteLock = Nobody
    /\ Settle(work[w].hits, TRUE)
    /\ work' = [work EXCEPT ![w] =
          IF lock = "no" /\ lock' = "scanner" THEN Idle ELSE [Idle EXCEPT !.step = "switch"]]
    /\ UNCHANGED <<content, reviewed, mode, running, marker, siteLock>>

SwitchToFiles(w) ==
    /\ work[w].step = "switch" /\ siteLock = Nobody
    /\ mode' = "files"
    /\ work' = [work EXCEPT ![w] = Idle]
    /\ UNCHANGED <<content, lock, findings, reviewed, running, marker, waved, siteLock>>

(***************************************************************************)
(* The operator, the tier, and FTP's deletes.                              *)
(***************************************************************************)

Review ==
    /\ reviewed' = reviewed \cup {<<f.kit, f.sev>> : f \in findings}
    /\ findings' = {}

Lock ==
    /\ siteLock = Nobody /\ lock # "admin"
    /\ lock' = "admin"
    /\ UNCHANGED <<content, findings, reviewed, mode, running, marker, waved, siteLock, work>>

Suspend ==
    /\ Suspensions /\ siteLock = Nobody /\ lock = "no"
    /\ lock' = "account"
    /\ UNCHANGED <<content, findings, reviewed, mode, running, marker, waved, siteLock, work>>

\* ReleaseLock("account"): over an unreviewed kit that would have been held
\* the lock becomes the scanner's.
Unsuspend ==
    LET blocking == {f \in findings : f.sev = "block"}
        exempt   == marker \/ mode = "container"
    IN  /\ siteLock = Nobody /\ lock = "account"
        /\ lock' = IF blocking # {} /\ ~exempt THEN "scanner" ELSE "no"
        /\ waved' = IF marker THEN waved \cup {f.kit : f \in blocking} ELSE waved
        /\ UNCHANGED <<content, findings, reviewed, mode, running, marker, siteLock, work>>

\* SetLock(nil) is the operator's review as well.
Unlock ==
    /\ siteLock = Nobody /\ lock # "no"
    /\ lock' = "no" /\ Review
    /\ UNCHANGED <<content, mode, running, marker, waved, siteLock, work>>

ClearFindings ==
    /\ siteLock = Nobody /\ findings # {}
    /\ Review
    /\ UNCHANGED <<content, lock, mode, running, marker, waved, siteLock, work>>

\* SetTrusted takes no lock.
SetTrusted ==
    /\ lock = "no"
    /\ marker' = ~marker
    /\ UNCHANGED <<content, lock, findings, reviewed, mode, running, waved, siteLock, work>>

\* FTP asks CheckUnlocked, then removes, with no site lock around the two.
FtpCheck(f) ==
    /\ work[f].step = "idle" /\ lock = "no"
    /\ \E p \in Paths :
          /\ content[p] # Absent
          /\ work' = [work EXCEPT ![f] = [Idle EXCEPT !.step = "checked", !.path = p]]
    /\ UNCHANGED <<content, metaVars, siteLock>>

FtpRemove(f) ==
    /\ work[f].step = "checked"
    /\ content' = [content EXCEPT ![work[f].path] = Absent]
    /\ work' = [work EXCEPT ![f] = Idle]
    /\ UNCHANGED <<metaVars, siteLock>>

\* A worker is between stopping the containers and writing the mode while
\* another request is under way or the account is suspended; or one has read a
\* kit of a locked site that another kit has replaced, and its verdict will
\* put the old one's finding in the place of the new one's.
Leaving(w) == work[w].step \in {"leaveStop", "leaveScan", "switch"}

Crossing ==
    \E w \in Workers :
        \/ /\ Leaving(w)
           /\ lock = "account" \/ \E v \in Workers \ {w} : work[v].step # "idle"
        \/ /\ work[w].step = "judge" /\ lock # "no"
           /\ \E r \in work[w].hits : content[r[2]] \in Kits \ {r[1]}

Step ==
    \/ \E w \in Workers :
          \/ Stage(w) \/ CheckAndSettle(w) \/ PutInPlace(w) \/ Rename(w) \/ DeleteFile(w)
          \/ ScanContent(w) \/ JudgeScan(w)
          \/ EnterContainerMode(w) \/ LeaveStop(w) \/ LeaveScan(w)
          \/ ScanBeforeServing(w) \/ SwitchToFiles(w)
    \/ \E f \in FtpSessions : FtpCheck(f) \/ FtpRemove(f)
    \/ ContainerWrite \/ Lock \/ Suspend \/ Unsuspend \/ Unlock \/ ClearFindings \/ SetTrusted

Next == Step /\ crossed' = (crossed \/ Crossing')

Spec == Init /\ [][Next]_vars

(***************************************************************************)
(* Properties.                                                             *)
(***************************************************************************)

\* The README's promise: a blocking hit on an untrusted tier locks the site
\* before the file is visible.  Whatever order uploads, renames, scans,
\* unlocks, reviews and mode switches come in, a kit in an active file of an
\* unlocked file site is one the operator released as that, or one let in
\* while the tier was trusted.
KitsServedAreReleased ==
    lock = "no" /\ mode = "files" =>
        \A p \in Active : content[p] \in Kits =>
            <<content[p], "block">> \in reviewed \/ content[p] \in waved

\* What the code keeps of that promise: it holds for ever unless a site left
\* container mode beside another request or a suspension, or a scan's verdict
\* came after another kit had replaced the one it read (mergeFindings keeps
\* the newer verdict of a file, and an unlock then reviews the older kit).
NoKitServed == crossed \/ KitsServedAreReleased

\* guard.go, CheckUnlocked: "a session that began before the lock cannot
\* touch the evidence".  The content of a locked file site changes only by
\* the write the lock was placed for: the kit itself, put in place as evidence.
PlacesEvidence ==
    \E w \in Workers :
        /\ siteLock = w /\ work[w].step = "place"
        /\ \E p \in Active : work[w].tree[p] \in Kits

EvidenceUntouched ==
    [][lock # "no" /\ mode = "files" /\ content' # content => PlacesEvidence]_vars

\* What the code keeps of it: every writer but an FTP delete that asked
\* before the lock came.
FrozenContent ==
    [][lock # "no" /\ mode = "files" /\ content' # content =>
        PlacesEvidence \/ \E f \in FtpSessions : FtpRemove(f)]_vars

\* "Released means reviewed": the guard locks a site only over a kit the
\* operator has not released as a blocking one.
ReleasedStaysReleased ==
    [][lock # "scanner" /\ lock' = "scanner" =>
        \E f \in findings' : f.sev = "block" /\ <<f.kit, "block">> \notin reviewed]_vars
=============================================================================
