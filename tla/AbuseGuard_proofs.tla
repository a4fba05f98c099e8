-------------------------- MODULE AbuseGuard_proofs --------------------------
(***************************************************************************)
(* Proofs about AbuseGuard, for any requests, FTP sessions, paths and      *)
(* kits.  The promise to visitors, NoKitServed, is about one moment; its   *)
(* proof follows each kit from the scan that found it, through the verdict *)
(* settled in meta.json, to the rename that puts the file in place.        *)
(***************************************************************************)
EXTENDS AbuseGuard, TLAPS

Works == [step : Steps, tree : Trees, hits : SUBSET Results, whole : BOOLEAN, path : Paths \cup {Nobody}]

(***************************************************************************)
(* Type correctness.                                                       *)
(***************************************************************************)

LEMMA IdleType == Idle \in Works
  BY GuardAssumption DEF Idle, Works, Steps, Trees, Contents, Results

LEMMA HitsType == ASSUME NEW t \in Trees, NEW where PROVE Hits(t, where) \subseteq Results
  BY DEF Hits

\* What a verdict leaves in meta.json has its type.
LEMMA SettleType ==
    ASSUME NEW hits \in SUBSET Results, NEW b \in BOOLEAN, TypeOK, Settle(hits, b)
    PROVE  /\ findings' \subseteq Finding
           /\ lock' \in {"no", "scanner", "account", "admin"}
           /\ waved' \subseteq Kits
  <1> DEFINE new == {r \in hits : ~IsReviewed(r)}
             blocks == {r \in new : Sev(r[2]) = "block"}
             fresh == {[kit |-> r[1], path |-> r[2], sev |-> Sev(r[2])] : r \in new}
  <1>1. new \subseteq Results /\ blocks \subseteq Results
    OBVIOUS
  <1>2. \A r \in Results : r[1] \in Kits /\ r[2] \in Paths
    BY DEF Results
  <1>3. \A p \in Paths : Sev(p) \in {"block", "flag"}
    BY DEF Sev
  <1>4. fresh \subseteq Finding
    BY <1>1, <1>2, <1>3 DEF Finding
  <1>5. findings' = {f \in findings : \A g \in fresh : g.path # f.path} \cup fresh
    BY Zenon DEF Settle
  <1>6. lock' \in {lock, "scanner"}
    BY DEF Settle
  <1>7. waved' \subseteq waved \cup {r[1] : r \in blocks}
    BY DEF Settle
  <1> QED
    BY <1>1, <1>2, <1>4, <1>5, <1>6, <1>7 DEF TypeOK

LEMMA InitType == Init => TypeOK
  <1> SUFFICES ASSUME Init PROVE TypeOK
    OBVIOUS
  <1>1. content \in Trees
    BY GuardAssumption DEF Init, Trees, Contents
  <1>2. work \in [Workers \cup FtpSessions -> Works]
    BY IdleType DEF Init
  <1> QED
    BY <1>1, <1>2 DEF Init, TypeOK, Works

\* The state a worker's record may change to.
LEMMA WorkType ==
    ASSUME TypeOK, NEW w \in Workers \cup FtpSessions, NEW rec \in Works,
           work' = [work EXCEPT ![w] = rec]
    PROVE  work' \in [Workers \cup FtpSessions -> Works]
  BY DEF TypeOK, Works

LEMMA NextType == TypeOK /\ [Next]_vars => TypeOK'
  <1> SUFFICES ASSUME TypeOK, [Next]_vars PROVE TypeOK'
    OBVIOUS
  <1>0. /\ work \in [Workers \cup FtpSessions -> Works]
        /\ \A w \in Workers \cup FtpSessions : work[w] \in Works
    BY DEF TypeOK, Works
  <1>c. CASE UNCHANGED vars
    BY <1>c DEF vars, TypeOK
  <1>d. ASSUME Next PROVE crossed' \in BOOLEAN
    BY <1>d DEF Next
  <1>e. ASSUME Step,
               content' \in Trees,
               /\ lock' \in {"no", "scanner", "account", "admin"}
               /\ findings' \subseteq Finding
               /\ reviewed' \subseteq Kits \X {"block", "flag"}
               /\ mode' \in {"files", "container"}
               /\ running' \in BOOLEAN /\ marker' \in BOOLEAN /\ waved' \subseteq Kits,
               siteLock' \in Workers \cup {Nobody},
               work' \in [Workers \cup FtpSessions -> Works],
               Next
        PROVE  TypeOK'
    BY <1>d, <1>e DEF TypeOK, Works
  <1>1. ASSUME NEW w \in Workers, Stage(w), Next PROVE TypeOK'
    <2>1. PICK t \in Trees, touched \in {{p} : p \in Paths} \cup {Paths} :
            work' = [work EXCEPT ![w] = [Idle EXCEPT !.step = "staged", !.tree = t,
                             !.whole = (touched = Paths), !.hits = Hits(t, touched)]]
      BY <1>1 DEF Stage
    <2>2. Hits(t, touched) \subseteq Results
      BY HitsType
    <2>3. [Idle EXCEPT !.step = "staged", !.tree = t, !.whole = (touched = Paths),
                       !.hits = Hits(t, touched)] \in Works
      BY <2>2, IdleType DEF Works, Steps
    <2>4. work' \in [Workers \cup FtpSessions -> Works]
      BY <2>1, <2>3, WorkType
    <2> QED
      BY <1>1, <2>4, <1>d DEF Stage, metaVars, TypeOK, Works
  <1>2. ASSUME NEW w \in Workers, CheckAndSettle(w), Next PROVE TypeOK'
    <2>1. work[w].hits \in SUBSET Results
      BY <1>0 DEF Works
    <2>2. CASE lock # "no"
      BY <2>2, <1>2, <1>d, IdleType, <1>0 DEF CheckAndSettle, metaVars, TypeOK, Works
    <2>3. CASE lock = "no"
      <3>1. Settle(work[w].hits, FALSE)
        BY <2>3, <1>2 DEF CheckAndSettle
      <3>2. work' \in [Workers \cup FtpSessions -> Works]
        BY <2>3, <1>2, <1>0 DEF CheckAndSettle, Works, Steps
      <3> QED
        BY <3>1, <3>2, <2>1, <2>3, <1>2, <1>d, SettleType DEF CheckAndSettle, TypeOK, Works
    <2> QED
      BY <2>2, <2>3
  <1>3. ASSUME NEW w \in Workers, PutInPlace(w), Next PROVE TypeOK'
    <2>1. work[w].tree \in Trees
      BY <1>0 DEF Works
    <2>2. content' \in Trees
      BY <2>1, <1>3, GuardAssumption DEF PutInPlace, TypeOK, Trees, Contents
    <2>3. work' \in [Workers \cup FtpSessions -> Works]
      BY <1>3, IdleType, WorkType DEF PutInPlace
    <2> QED
      BY <2>2, <2>3, <1>3, <1>d DEF PutInPlace, metaVars, TypeOK, Works
  <1>4. ASSUME NEW w \in Workers, Rename(w), Next PROVE TypeOK'
    <2>1. PICK p \in Paths, q \in Paths :
            /\ Settle(IF Sev(p) # Sev(q) THEN Hits([Idle.tree EXCEPT ![q] = content[p]], {q}) ELSE {}, FALSE)
            /\ work' = [work EXCEPT ![w] =
                 [Idle EXCEPT !.step = "place", !.tree = [Idle.tree EXCEPT ![q] = content[p]], !.path = p]]
      BY <1>4 DEF Rename
    <2>2. [Idle.tree EXCEPT ![q] = content[p]] \in Trees
      BY IdleType DEF Works, Trees, TypeOK
    <2>3. [Idle EXCEPT !.step = "place", !.tree = [Idle.tree EXCEPT ![q] = content[p]], !.path = p] \in Works
      BY <2>2, IdleType DEF Works, Steps
    <2>4. work' \in [Workers \cup FtpSessions -> Works]
      BY <2>1, <2>3, WorkType
    <2>5. (IF Sev(p) # Sev(q) THEN Hits([Idle.tree EXCEPT ![q] = content[p]], {q}) ELSE {}) \in SUBSET Results
      BY <2>2, HitsType
    <2>6. /\ findings' \subseteq Finding
          /\ lock' \in {"no", "scanner", "account", "admin"}
          /\ waved' \subseteq Kits
      BY <2>1, <2>5, SettleType
    <2> QED
      BY <2>4, <2>6, <1>4, <1>d DEF Rename, TypeOK, Works
  <1>5. ASSUME NEW w \in Workers, DeleteFile(w), Next PROVE TypeOK'
    BY <1>5, <1>d, GuardAssumption DEF DeleteFile, metaVars, TypeOK, Trees, Contents
  <1>6. ASSUME NEW w \in Workers, ScanContent(w), Next PROVE TypeOK'
    <2>1. Hits(content, Paths) \subseteq Results
      BY HitsType DEF TypeOK
    <2>2. [Idle EXCEPT !.step = "judge", !.hits = Hits(content, Paths)] \in Works
      BY <2>1, IdleType DEF Works, Steps
    <2>3. work' \in [Workers \cup FtpSessions -> Works]
      BY <2>2, <1>6, WorkType DEF ScanContent
    <2> QED
      BY <2>3, <1>6, <1>d DEF ScanContent, metaVars, TypeOK, Works
  <1>7. ASSUME NEW w \in Workers, JudgeScan(w), Next PROVE TypeOK'
    <2>1. work[w].hits \in SUBSET Results
      BY <1>0 DEF Works
    <2>2. work' \in [Workers \cup FtpSessions -> Works]
      BY <1>7, IdleType, WorkType DEF JudgeScan
    <2> QED
      BY <2>1, <2>2, <1>7, <1>d, SettleType DEF JudgeScan, TypeOK, Works
  <1>8. ASSUME NEW w \in Workers, EnterContainerMode(w), Next PROVE TypeOK'
    BY <1>8, <1>d DEF EnterContainerMode, TypeOK
  <1>9. ASSUME NEW w \in Workers, LeaveStop(w), Next PROVE TypeOK'
    <2>1. [Idle EXCEPT !.step = "leaveStop"] \in Works
      BY IdleType DEF Works, Steps
    <2>2. work' \in [Workers \cup FtpSessions -> Works]
      BY <2>1, <1>9, WorkType DEF LeaveStop
    <2> QED
      BY <2>2, <1>9, <1>d DEF LeaveStop, TypeOK, Works
  <1>10. ASSUME NEW w \in Workers, LeaveScan(w), Next PROVE TypeOK'
    <2>1. Hits(content, Paths) \subseteq Results
      BY HitsType DEF TypeOK
    <2>2. work' \in [Workers \cup FtpSessions -> Works]
      BY ZenonT(30), <2>1, <1>10, <1>0 DEF LeaveScan, Works, Steps
    <2> QED
      BY <2>2, <1>10, <1>d DEF LeaveScan, metaVars, TypeOK, Works
  <1>11. ASSUME NEW w \in Workers, ScanBeforeServing(w), Next PROVE TypeOK'
    <2>1. work[w].hits \in SUBSET Results
      BY <1>0 DEF Works
    <2>2. [Idle EXCEPT !.step = "switch"] \in Works
      BY IdleType DEF Works, Steps
    <2>3. work' \in [Workers \cup FtpSessions -> Works]
      BY <2>2, <1>11, IdleType, <1>0 DEF ScanBeforeServing
    <2> QED
      BY <2>1, <2>3, <1>11, <1>d, SettleType DEF ScanBeforeServing, TypeOK, Works
  <1>12. ASSUME NEW w \in Workers, SwitchToFiles(w), Next PROVE TypeOK'
    <2>1. work' \in [Workers \cup FtpSessions -> Works]
      BY <1>12, IdleType, WorkType DEF SwitchToFiles
    <2> QED
      BY <2>1, <1>12, <1>d DEF SwitchToFiles, TypeOK, Works
  <1>13. ASSUME NEW f \in FtpSessions, FtpCheck(f), Next PROVE TypeOK'
    <2>1. PICK p \in Paths : work' = [work EXCEPT ![f] = [Idle EXCEPT !.step = "checked", !.path = p]]
      BY <1>13 DEF FtpCheck
    <2>2. [Idle EXCEPT !.step = "checked", !.path = p] \in Works
      BY IdleType DEF Works, Steps
    <2>3. work' \in [Workers \cup FtpSessions -> Works]
      BY <2>1, <2>2, WorkType
    <2> QED
      BY <2>3, <1>13, <1>d DEF FtpCheck, metaVars, TypeOK, Works
  <1>14. ASSUME NEW f \in FtpSessions, FtpRemove(f), Next PROVE TypeOK'
    <2>1. work' \in [Workers \cup FtpSessions -> Works]
      BY <1>14, IdleType, WorkType DEF FtpRemove
    <2>2. content' \in Trees
      BY <1>14, GuardAssumption DEF FtpRemove, TypeOK, Trees, Contents
    <2> QED
      BY <2>1, <2>2, <1>14, <1>d DEF FtpRemove, metaVars, TypeOK, Works
  <1>15. ASSUME ContainerWrite, Next PROVE TypeOK'
    BY <1>15, <1>d DEF ContainerWrite, metaVars, TypeOK, Trees
  <1>16. ASSUME Lock \/ Suspend, Next PROVE TypeOK'
    BY <1>16, <1>d DEF Lock, Suspend, TypeOK
  <1>17. ASSUME Unsuspend, Next PROVE TypeOK'
    <2>1. /\ lock' \in {"no", "scanner"}
          /\ waved' \subseteq waved \cup {f.kit : f \in findings}
      BY <1>17 DEF Unsuspend
    <2>2. \A f \in findings : f.kit \in Kits
      BY DEF TypeOK, Finding
    <2> QED
      BY <2>1, <2>2, <1>17, <1>d DEF Unsuspend, TypeOK
  <1>18. ASSUME Unlock \/ ClearFindings, Next PROVE TypeOK'
    <2>1. \A f \in findings : f.kit \in Kits /\ f.sev \in {"block", "flag"}
      BY DEF TypeOK, Finding
    <2>2. reviewed' \subseteq Kits \X {"block", "flag"} /\ findings' = {}
      BY <2>1, <1>18 DEF Unlock, ClearFindings, Review, TypeOK
    <2> QED
      BY <2>2, <1>18, <1>d DEF Unlock, ClearFindings, TypeOK
  <1>19. ASSUME SetTrusted, Next PROVE TypeOK'
    BY <1>19, <1>d DEF SetTrusted, TypeOK
  <1> QED
    BY <1>c, <1>1, <1>2, <1>3, <1>4, <1>5, <1>6, <1>7, <1>8, <1>9, <1>10, <1>11, <1>12,
       <1>13, <1>14, <1>15, <1>16, <1>17, <1>18, <1>19 DEF Next, Step

\* Every reachable state is well-typed.
THEOREM TypeCorrect == Spec => []TypeOK
  BY InitType, NextType, PTL DEF Spec

(***************************************************************************)
(* The inductive invariant.  It says where a blocking kit can be between   *)
(* the scan that found it and the file in place.                           *)
(***************************************************************************)

\* A kit that may be served: released as a blocking one, or let in.
Served(k) == <<k, "block">> \in reviewed \/ k \in waved

\* The unreviewed finding of a kit at an active path.
Found(k, p) == [kit |-> k, path |-> p, sev |-> "block"] \in findings

\* A kit that may stand at an active path: served, or locked away and
\* written down, so that whoever unlocks the site reviews it.
Covered(k, p) == Served(k) \/ (lock # "no" /\ Found(k, p))

CoveredTree(t) == \A p \in Active : t[p] \in Kits => Covered(t[p], p)

\* What is staged was scanned whole; a worker that places holds the site lock,
\* and its tree is covered, or the site is a container site.
StagedInv ==
    \A w \in Workers : work[w].step = "staged" => work[w].hits = Hits(work[w].tree, Paths)

PlaceAt(w) ==
    work[w].step = "place" =>
        /\ siteLock = w
        /\ ~crossed => mode = "container" \/ CoveredTree(work[w].tree)
        /\ lock # "no" => \E p \in Active : work[w].tree[p] \in Kits

PlaceInv ==
    /\ \A w \in Workers : PlaceAt(w)
    /\ siteLock # Nobody => work[siteLock].step = "place"

\* A worker that leaves container mode alone: nothing writes, what it read
\* covers what is there, and what it settled covers it too.
LeaveInv ==
    ~crossed => \A w \in Workers :
        Leaving(w) =>
            /\ mode = "container" /\ ~running
            /\ work[w].step = "leaveScan" => Hits(content, Active) \subseteq work[w].hits
            /\ work[w].step = "switch" => CoveredTree(content)

FilesInv == ~crossed /\ mode = "files" => CoveredTree(content)

\* The history variable misses nothing that is still going on.
CrossedInv == Crossing => crossed

\* An unreviewed blocking finding is of a kit nobody has released.
UnreviewedInv == \A f \in findings : f.sev = "block" => <<f.kit, "block">> \notin reviewed

GuardInv == StagedInv /\ PlaceInv /\ LeaveInv /\ FilesInv /\ CrossedInv /\ UnreviewedInv

(***************************************************************************)
(* What a verdict does to a kit that was scanned, and to the others.       *)
(***************************************************************************)

\* A scanned blocking kit is covered by its verdict; only a container site's
\* own verdict leaves one uncovered.
LEMMA SettleCovers ==
    ASSUME TypeOK, NEW hits \in SUBSET Results, NEW b \in BOOLEAN, Settle(hits, b),
           reviewed' = reviewed, NEW r \in hits, r[2] \in Active
    PROVE  Covered(r[1], r[2])' \/ (mode = "container" /\ ~b)
  <1> DEFINE new == {x \in hits : ~IsReviewed(x)}
             blocks == {x \in new : Sev(x[2]) = "block"}
             fresh == {[kit |-> x[1], path |-> x[2], sev |-> Sev(x[2])] : x \in new}
  <1>1. Sev(r[2]) = "block"
    BY DEF Sev
  <1>2. CASE IsReviewed(r)
    BY <1>1, <1>2 DEF IsReviewed, Covered, Served
  <1>3. CASE ~IsReviewed(r)
    <2>1. r \in blocks
      BY <1>1, <1>3
    <2>2. [kit |-> r[1], path |-> r[2], sev |-> "block"] \in fresh
      BY <1>1, <1>3
    <2>3. findings' = {f \in findings : \A g \in fresh : g.path # f.path} \cup fresh
      BY Zenon DEF Settle
    <2>4. Found(r[1], r[2])'
      BY <2>2, <2>3 DEF Found
    <2>5. CASE lock' # "no"
      BY <2>4, <2>5 DEF Covered
    <2>6. CASE lock' = "no" /\ marker
      <3>1. lock = "no"
        BY <2>6 DEF Settle
      <3>2. waved' = waved \cup {x[1] : x \in blocks}
        BY <3>1, <2>6 DEF Settle
      <3>3. r[1] \in waved'
        BY <3>2, <2>1
      <3> QED
        BY <3>3 DEF Covered, Served
    <2>7. CASE lock' = "no" /\ ~marker
      <3>1. lock' = IF blocks # {} /\ lock = "no" /\ ~(marker \/ (mode = "container" /\ ~b))
                    THEN "scanner" ELSE lock
        BY DEF Settle
      <3> QED
        BY <3>1, <2>1, <2>7
    <2> QED
      BY <2>5, <2>6, <2>7
  <1> QED
    BY <1>2, <1>3

\* A verdict uncovers nothing, unless it puts another kit's finding in the
\* place of this one's.
LEMMA SettleKeeps ==
    ASSUME TypeOK, NEW hits \in SUBSET Results, NEW b \in BOOLEAN, Settle(hits, b),
           reviewed' = reviewed, NEW k \in Kits, NEW p \in Active, Covered(k, p),
           lock # "no" => \A r \in hits : r[2] = p => r[1] = k
    PROVE  Covered(k, p)'
  <1> DEFINE new == {x \in hits : ~IsReviewed(x)}
             fresh == {[kit |-> x[1], path |-> x[2], sev |-> Sev(x[2])] : x \in new}
  <1>1. CASE Served(k)
    BY <1>1 DEF Served, Covered, Settle
  <1>2. CASE ~Served(k)
    <2>1. lock # "no" /\ Found(k, p)
      BY <1>2 DEF Covered
    <2>2. lock' = lock
      BY <2>1 DEF Settle
    <2>3. findings' = {f \in findings : \A g \in fresh : g.path # f.path} \cup fresh
      BY Zenon DEF Settle
    <2>4. CASE \E x \in new : x[2] = p
      <3>1. PICK x \in new : x[2] = p
        BY <2>4
      <3>2. x[1] = k /\ Sev(p) = "block"
        BY <3>1, <2>1 DEF Sev
      <3>3. [kit |-> k, path |-> p, sev |-> "block"] \in fresh
        BY <3>1, <3>2
      <3> QED
        BY <3>3, <2>1, <2>2, <2>3 DEF Found, Covered
    <2>5. CASE \A x \in new : x[2] # p
      <3>1. \A g \in fresh : g.path # p
        BY <2>5
      <3> QED
        BY <3>1, <2>1, <2>2, <2>3 DEF Found, Covered
    <2> QED
      BY <2>4, <2>5
  <1> QED
    BY <1>1, <1>2

\* A verdict that leaves the site unlocked, or locks it, over a scanned kit.
LEMMA SettleLocks ==
    ASSUME TypeOK, NEW hits \in SUBSET Results, NEW b \in BOOLEAN, Settle(hits, b)
    PROVE  /\ lock # "no" => lock' = lock
           /\ lock = "no" /\ lock' # "no" =>
                /\ lock' = "scanner"
                /\ \E r \in hits : /\ r[2] \in Active /\ <<r[1], "block">> \notin reviewed
                                   /\ [kit |-> r[1], path |-> r[2], sev |-> "block"] \in findings'
           /\ UnreviewedInv /\ reviewed' = reviewed => UnreviewedInv'
           /\ waved \subseteq waved'
  <1> DEFINE new == {x \in hits : ~IsReviewed(x)}
             blocks == {x \in new : Sev(x[2]) = "block"}
             fresh == {[kit |-> x[1], path |-> x[2], sev |-> Sev(x[2])] : x \in new}
  <1>1. findings' = {f \in findings : \A g \in fresh : g.path # f.path} \cup fresh
    BY Zenon DEF Settle
  <1>2. \A x \in new : Sev(x[2]) = "block" => x[2] \in Active /\ <<x[1], "block">> \notin reviewed
    BY DEF Sev, IsReviewed
  <1>3. \A x \in blocks : [kit |-> x[1], path |-> x[2], sev |-> "block"] \in findings'
    BY <1>1
  <1>4. lock = "no" /\ lock' # "no" => lock' = "scanner" /\ blocks # {}
    BY DEF Settle
  <1>5. lock # "no" => lock' = lock
    BY DEF Settle
  <1>6. ASSUME UnreviewedInv, reviewed' = reviewed PROVE UnreviewedInv'
    BY <1>1, <1>2, <1>6 DEF UnreviewedInv
  <1>7. waved \subseteq waved'
    BY DEF Settle
  <1> QED
    BY <1>2, <1>3, <1>4, <1>5, <1>6, <1>7

(***************************************************************************)
(* What one step changes.                                                  *)
(***************************************************************************)

WorkerStep(w) ==
    \/ Stage(w) \/ CheckAndSettle(w) \/ PutInPlace(w) \/ Rename(w) \/ DeleteFile(w)
    \/ ScanContent(w) \/ JudgeScan(w)
    \/ EnterContainerMode(w) \/ LeaveStop(w) \/ LeaveScan(w)
    \/ ScanBeforeServing(w) \/ SwitchToFiles(w)

FtpStep == \E f \in FtpSessions : FtpCheck(f) \/ FtpRemove(f)

OperatorStep == Lock \/ Suspend \/ Unsuspend \/ Unlock \/ ClearFindings \/ SetTrusted

LEMMA StepCases ==
    Next => (\E w \in Workers : WorkerStep(w)) \/ FtpStep \/ ContainerWrite \/ OperatorStep
  BY Zenon DEF Next, Step, WorkerStep, FtpStep, OperatorStep

\* Only its own steps change a worker's record.
LEMMA OthersWork ==
    ASSUME TypeOK, Next, NEW v \in Workers, ~WorkerStep(v)
    PROVE  work'[v] = work[v]
  <1>0. /\ work \in [Workers \cup FtpSessions -> Works]
        /\ v \notin FtpSessions
    BY GuardAssumption DEF TypeOK, Works
  <1>1. ASSUME NEW w \in Workers, WorkerStep(w) PROVE work'[v] = work[v]
    <2>1. w # v
      BY <1>1
    <2>2. \/ UNCHANGED work
          \/ \E rec : work' = [work EXCEPT ![w] = rec]
          \/ \E a : work' = [work EXCEPT ![w].step = a]
          \/ \E a, b : work' = [work EXCEPT ![w].step = a, ![w].hits = b]
      <3>1. CASE Stage(w)
        BY <3>1 DEF Stage
      <3>2. CASE CheckAndSettle(w)
        BY <3>2 DEF CheckAndSettle
      <3>3. CASE PutInPlace(w)
        BY <3>3 DEF PutInPlace
      <3>4. CASE Rename(w)
        BY <3>4 DEF Rename
      <3>5. CASE DeleteFile(w) \/ EnterContainerMode(w)
        BY <3>5 DEF DeleteFile, EnterContainerMode
      <3>6. CASE ScanContent(w)
        BY <3>6 DEF ScanContent
      <3>7. CASE JudgeScan(w)
        BY <3>7 DEF JudgeScan
      <3>8. CASE LeaveStop(w)
        BY <3>8 DEF LeaveStop
      <3>9. CASE LeaveScan(w)
        BY <3>9 DEF LeaveScan
      <3>10. CASE ScanBeforeServing(w)
        BY <3>10 DEF ScanBeforeServing
      <3>11. CASE SwitchToFiles(w)
        BY <3>11 DEF SwitchToFiles
      <3> QED
        BY <1>1, <3>1, <3>2, <3>3, <3>4, <3>5, <3>6, <3>7, <3>8, <3>9, <3>10, <3>11 DEF WorkerStep
    <2> QED
      BY <2>1, <2>2, <1>0
  <1>2. CASE FtpStep
    BY <1>0, <1>2 DEF FtpStep, FtpCheck, FtpRemove
  <1>3. CASE ContainerWrite \/ OperatorStep
    BY <1>3 DEF ContainerWrite, OperatorStep, Lock, Suspend, Unsuspend, Unlock, ClearFindings, SetTrusted
  <1> QED
    BY <1>1, <1>2, <1>3, StepCases

\* Where its own step leaves a worker.
LEMMA OwnWork ==
    ASSUME TypeOK, NEW w \in Workers, WorkerStep(w)
    PROVE  /\ work'[w].step = "staged" => Stage(w)
           /\ work'[w].step = "place" => (CheckAndSettle(w) /\ lock = "no") \/ Rename(w)
           /\ work'[w].step = "leaveStop" => LeaveStop(w)
           /\ work'[w].step = "leaveScan" => LeaveScan(w)
           /\ work'[w].step = "switch" => ScanBeforeServing(w)
  <1>0. /\ work \in [Workers \cup FtpSessions -> Works] /\ Idle.step = "idle"
        /\ w \in Workers \cup FtpSessions
    BY DEF TypeOK, Works, Idle
  <1>1. CASE Stage(w)
    BY ZenonT(30), <1>0, <1>1 DEF Stage, Idle
  <1>2. CASE CheckAndSettle(w)
    BY <1>0, <1>2 DEF CheckAndSettle, Works
  <1>3. CASE PutInPlace(w) \/ JudgeScan(w) \/ SwitchToFiles(w)
    BY <1>0, <1>3 DEF PutInPlace, JudgeScan, SwitchToFiles
  <1>4. CASE Rename(w)
    BY ZenonT(30), <1>0, <1>4 DEF Rename, Idle
  <1>5. CASE DeleteFile(w) \/ EnterContainerMode(w)
    BY <1>0, <1>5 DEF DeleteFile, EnterContainerMode
  <1>6. CASE ScanContent(w)
    BY <1>0, <1>6 DEF ScanContent, Idle
  <1>7. CASE LeaveStop(w)
    BY <1>0, <1>7 DEF LeaveStop, Idle
  <1>8. CASE LeaveScan(w)
    BY <1>0, <1>8 DEF LeaveScan, Works
  <1>9. CASE ScanBeforeServing(w)
    BY <1>0, <1>9 DEF ScanBeforeServing, Idle
  <1> QED
    BY <1>1, <1>2, <1>3, <1>4, <1>5, <1>6, <1>7, <1>8, <1>9 DEF WorkerStep

\* While a worker holds the site lock between its two steps, the verdict
\* stands: nobody else settles, locks, unlocks, reviews or changes the mode.
LEMMA VerdictStands ==
    ASSUME TypeOK, PlaceInv, Next, siteLock # Nobody, ~PutInPlace(siteLock)
    PROVE  UNCHANGED <<siteLock, lock, mode, findings, reviewed, waved>>
  <1>1. ASSUME NEW w \in Workers, WorkerStep(w) PROVE UNCHANGED <<siteLock, lock, mode, findings, reviewed, waved>>
    <2>1. CASE PutInPlace(w)
      BY <2>1 DEF PutInPlace, PlaceInv, PlaceAt
    <2>2. CASE Stage(w) \/ ScanContent(w) \/ LeaveScan(w)
      BY <2>2 DEF Stage, ScanContent, LeaveScan, metaVars
    <2>3. CASE LeaveStop(w)
      BY <2>3 DEF LeaveStop
    <2> QED
      BY <1>1, <2>1, <2>2, <2>3
         DEF WorkerStep, CheckAndSettle, Rename, DeleteFile, JudgeScan, EnterContainerMode,
             ScanBeforeServing, SwitchToFiles
  <1>2. CASE FtpStep \/ ContainerWrite
    BY <1>2 DEF FtpStep, FtpCheck, FtpRemove, ContainerWrite, metaVars
  <1>3. CASE OperatorStep
    BY <1>3 DEF OperatorStep, Lock, Suspend, Unsuspend, Unlock, ClearFindings, SetTrusted
  <1> QED
    BY <1>1, <1>2, <1>3, StepCases

(***************************************************************************)
(* What covers a kit, across the steps that settle no verdict.             *)
(***************************************************************************)

LEMMA CoveredStill ==
    ASSUME UNCHANGED <<lock, findings, reviewed, waved>>, NEW k, NEW p
    PROVE  Covered(k, p)' = Covered(k, p)
  BY DEF Covered, Served, Found

\* The operator's steps uncover no kit of a file site; nor one of a site that
\* is leaving container mode, which no unsuspension meets.
LEMMA OperatorKeeps ==
    ASSUME TypeOK, OperatorStep, mode = "files" \/ lock # "account",
           NEW k \in Kits, NEW p \in Active, Covered(k, p)
    PROVE  Covered(k, p)'
  <1>1. CASE Lock \/ Suspend
    BY <1>1 DEF Lock, Suspend, Covered, Served, Found
  <1>2. CASE Unlock \/ ClearFindings
    <2>1. reviewed' = reviewed \cup {<<f.kit, f.sev>> : f \in findings} /\ waved' = waved
      BY <1>2 DEF Unlock, ClearFindings, Review
    <2>2. Found(k, p) => <<k, "block">> \in reviewed'
      BY <2>1 DEF Found
    <2> QED
      BY <2>1, <2>2 DEF Covered, Served
  <1>3. CASE SetTrusted
    BY <1>3 DEF SetTrusted, Covered, Served, Found
  <1>4. CASE Unsuspend
    <2> DEFINE blocking == {f \in findings : f.sev = "block"}
    <2>1. mode = "files"
      BY <1>4 DEF Unsuspend
    <2>2. /\ lock' = IF blocking # {} /\ ~marker THEN "scanner" ELSE "no"
          /\ waved' = IF marker THEN waved \cup {f.kit : f \in blocking} ELSE waved
          /\ findings' = findings /\ reviewed' = reviewed
      BY <1>4, <2>1 DEF Unsuspend
    <2>3. CASE Served(k)
      BY <2>2, <2>3 DEF Covered, Served
    <2>4. CASE Found(k, p) /\ marker
      BY <2>2, <2>4 DEF Covered, Served, Found
    <2>5. CASE Found(k, p) /\ ~marker
      BY <2>2, <2>5 DEF Covered, Found
    <2> QED
      BY <2>3, <2>4, <2>5 DEF Covered
  <1> QED
    BY <1>1, <1>2, <1>3, <1>4 DEF OperatorStep

(***************************************************************************)
(* The invariant is kept.                                                  *)
(***************************************************************************)

LEMMA StagedStep ==
    ASSUME TypeOK, StagedInv, Next
    PROVE  StagedInv'
  <1> SUFFICES ASSUME NEW w \in Workers, work'[w].step = "staged"
               PROVE  work'[w].hits = Hits(work'[w].tree, Paths)
    BY DEF StagedInv, Hits
  <1>1. CASE ~WorkerStep(w)
    BY <1>1, OthersWork DEF StagedInv
  <1>2. CASE WorkerStep(w)
    <2>0. Stage(w)
      BY <1>2, OwnWork
    <2>1. PICK t \in Trees, touched \in {{p} : p \in Paths} \cup {Paths} :
            /\ \A p \in Paths \ touched : t[p] = Absent
            /\ work' = [work EXCEPT ![w] = [Idle EXCEPT !.step = "staged", !.tree = t,
                             !.whole = (touched = Paths), !.hits = Hits(t, touched)]]
      BY <2>0, Zenon DEF Stage
    <2>2. work'[w].tree = t /\ work'[w].hits = Hits(t, touched)
      BY <2>1 DEF TypeOK, Idle
    <2>3. Hits(t, touched) = Hits(t, Paths)
      <3>1. \A x \in Results : x[1] \in Kits /\ x[2] \in Paths
        BY DEF Results
      <3>2. touched \subseteq Paths
        OBVIOUS
      <3>3. \A x \in Results : t[x[2]] = x[1] => x[2] \in touched
        BY <2>1, <3>1, GuardAssumption
      <3> QED
        BY <3>1, <3>2, <3>3 DEF Hits
    <2> QED
      BY <2>2, <2>3
  <1> QED
    BY <1>1, <1>2

\* A verdict on a staged or renamed tree covers it, or the site is a
\* container site; and a lock it places is over a kit of the tree.
LEMMA SettledTree ==
    ASSUME TypeOK, NEW t \in Trees, NEW hits \in SUBSET Results, Settle(hits, FALSE),
           reviewed' = reviewed, mode' = mode, lock = "no",
           hits \subseteq Hits(t, Paths),
           \A p \in Active : t[p] \in Kits =>
               <<t[p], p>> \in hits \/ mode = "container" \/ Covered(t[p], p)
    PROVE  /\ mode' = "container" \/ \A p \in Active : t[p] \in Kits => Covered(t[p], p)'
           /\ lock' # "no" => \E p \in Active : t[p] \in Kits
  <1>1. ASSUME NEW p \in Active, t[p] \in Kits, mode # "container" PROVE Covered(t[p], p)'
    <2>1. CASE <<t[p], p>> \in hits
      BY <2>1, <1>1, SettleCovers
    <2>2. CASE Covered(t[p], p)
      BY <2>2, <1>1, SettleKeeps
    <2> QED
      BY <1>1, <2>1, <2>2
  <1>2. ASSUME lock' # "no" PROVE \E p \in Active : t[p] \in Kits
    <2>1. PICK r \in hits : r[2] \in Active
      BY <1>2, SettleLocks
    <2>2. t[r[2]] = r[1] /\ r[1] \in Kits
      BY <2>1 DEF Hits, Results
    <2> QED
      BY <2>1, <2>2
  <1> QED
    BY <1>1, <1>2

LEMMA PlaceStep ==
    ASSUME TypeOK, StagedInv, PlaceInv, FilesInv, CrossedInv, Next
    PROVE  PlaceInv'
  <1>0. /\ work \in [Workers \cup FtpSessions -> Works] /\ Nobody \notin Workers
        /\ siteLock \in Workers \cup {Nobody}
    BY GuardAssumption DEF TypeOK, Works, Nobody
  <1>1. ASSUME NEW w \in Workers, work'[w].step = "place" PROVE PlaceAt(w)'
    <2>1. CASE ~WorkerStep(w)
      <3>1. work'[w] = work[w] /\ siteLock = w /\ siteLock # Nobody
        BY <1>1, <2>1, <1>0, OthersWork DEF PlaceInv, PlaceAt
      <3>2. UNCHANGED <<siteLock, lock, mode, findings, reviewed, waved>>
        BY <2>1, <3>1, VerdictStands DEF WorkerStep
      <3>3. crossed => crossed'
        BY DEF Next
      <3>4. PlaceAt(w)
        BY DEF PlaceInv
      <3> QED
        BY <3>1, <3>2, <3>3, <3>4, <1>1 DEF PlaceAt, CoveredTree, Covered, Served, Found
    <2>2. CASE CheckAndSettle(w) /\ lock = "no"
      <3> DEFINE t == work[w].tree
      <3>1. /\ t \in Trees /\ work[w].hits = Hits(t, Paths) /\ work[w].hits \in SUBSET Results
            /\ Settle(work[w].hits, FALSE) /\ siteLock' = w /\ mode' = mode /\ reviewed' = reviewed
            /\ work'[w].tree = t
        BY <2>2, <1>0 DEF CheckAndSettle, StagedInv, Works
      <3>2. \A p \in Active : t[p] \in Kits => <<t[p], p>> \in work[w].hits
        BY <3>1 DEF Hits, Results, Paths
      <3>3. /\ mode' = "container" \/ \A p \in Active : t[p] \in Kits => Covered(t[p], p)'
            /\ lock' # "no" => \E p \in Active : t[p] \in Kits
        BY <2>2, <3>1, <3>2, SettledTree
      <3> QED
        BY <3>1, <3>3 DEF PlaceAt, CoveredTree, Covered, Served, Found
    <2>3. CASE Rename(w)
      <3>1. PICK p \in Paths, q \in Paths :
              /\ Settle(IF Sev(p) # Sev(q) THEN Hits([Idle.tree EXCEPT ![q] = content[p]], {q}) ELSE {}, FALSE)
              /\ work' = [work EXCEPT ![w] =
                   [Idle EXCEPT !.step = "place", !.tree = [Idle.tree EXCEPT ![q] = content[p]], !.path = p]]
        BY <2>3 DEF Rename
      <3>t. PICK t : t = [Idle.tree EXCEPT ![q] = content[p]]
        OBVIOUS
      <3> DEFINE hits == IF Sev(p) # Sev(q) THEN Hits(t, {q}) ELSE {}
      <3>2. t \in Trees /\ \A x \in Paths : t[x] = IF x = q THEN content[p] ELSE Absent
        BY <3>t, IdleType DEF TypeOK, Works, Trees, Idle
      <3>3. hits \in SUBSET Results /\ hits \subseteq Hits(t, Paths)
        BY DEF Hits
      <3>4. siteLock' = w /\ mode' = mode /\ reviewed' = reviewed /\ lock = "no" /\ crossed => crossed'
        BY <2>3 DEF Rename, Next
      <3>5. work'[w].tree = t
        BY <3>1, <3>t, <1>0 DEF Idle
      <3>6. ASSUME NEW x \in Active, t[x] \in Kits, ~crossed
            PROVE  <<t[x], x>> \in hits \/ mode = "container" \/ Covered(t[x], x)
        <4>1. x = q /\ t[x] = content[p]
          BY <3>2, <3>6, GuardAssumption DEF Paths
        <4>2. CASE Sev(p) # Sev(q)
          BY <4>1, <4>2, <3>6 DEF Hits, Results
        <4>3. CASE Sev(p) = Sev(q)
          <5>1. p \in Active
            BY <4>1, <4>3 DEF Sev
          <5>2. mode = "files" => Covered(content[p], p)
            BY <5>1, <4>1, <3>6 DEF FilesInv, CoveredTree
          <5>3. Covered(content[p], p) => Covered(content[p], x)
            BY <2>3 DEF Rename, Covered
          <5> QED
            BY <5>2, <5>3, <4>1 DEF TypeOK
        <4> QED
          BY <4>2, <4>3
      <3>7. ~crossed => mode' = "container" \/ \A x \in Active : t[x] \in Kits => Covered(t[x], x)'
        BY <2>3, <3>t, <3>1, <3>2, <3>3, <3>6, SettledTree DEF Rename
      <3>8. lock' # "no" => \E x \in Active : t[x] \in Kits
        <4>1. SUFFICES ASSUME lock' # "no" PROVE \E x \in Active : t[x] \in Kits
          OBVIOUS
        <4>2. lock = "no"
          BY <2>3 DEF Rename
        <4>3. PICK h \in hits : h[2] \in Active
          BY <4>1, <4>2, <3>t, <3>1, <3>3, SettleLocks
        <4>4. t[h[2]] = h[1] /\ h[1] \in Kits
          BY <3>3, <4>3 DEF Hits, Results
        <4> QED
          BY <4>3, <4>4
      <3>9. siteLock' = w /\ (crossed => crossed')
        BY <2>3 DEF Rename, Next
      <3> HIDE DEF hits
      <3> QED
        BY <3>5, <3>7, <3>8, <3>9 DEF PlaceAt, CoveredTree, Covered, Served, Found
    <2> QED
      BY <1>1, <2>1, <2>2, <2>3, OwnWork
  <1>2. ASSUME siteLock' # Nobody PROVE work'[siteLock'].step = "place"
    <2>1. CASE \E w \in Workers : CheckAndSettle(w) \/ Rename(w)
      <3>1. PICK w \in Workers : CheckAndSettle(w) \/ Rename(w)
        BY <2>1
      <3>2. CASE CheckAndSettle(w)
        BY <3>2, <1>2, <1>0 DEF CheckAndSettle, Works
      <3>3. CASE Rename(w)
        <4>1. siteLock' = w
          BY <3>3 DEF Rename
        <4>2. PICK p \in Paths, q \in Paths :
                work' = [work EXCEPT ![w] =
                  [Idle EXCEPT !.step = "place", !.tree = [Idle.tree EXCEPT ![q] = content[p]], !.path = p]]
          BY <3>3 DEF Rename
        <4>3. work'[w].step = "place"
          BY <4>2, <1>0 DEF Idle
        <4> QED
          BY <4>1, <4>2, <4>3
      <3> QED
        BY <3>1, <3>2, <3>3
    <2>2. CASE \A w \in Workers : ~CheckAndSettle(w) /\ ~Rename(w)
      <3>1. siteLock' = siteLock
        <4>1. ASSUME NEW w \in Workers, WorkerStep(w) PROVE siteLock' = siteLock
          BY <2>2, <4>1, <1>2
             DEF WorkerStep, Stage, PutInPlace, DeleteFile, ScanContent, JudgeScan, EnterContainerMode,
                 LeaveStop, LeaveScan, ScanBeforeServing, SwitchToFiles
        <4>2. FtpStep \/ ContainerWrite \/ OperatorStep => siteLock' = siteLock
          BY DEF FtpStep, FtpCheck, FtpRemove, ContainerWrite, OperatorStep,
                 Lock, Suspend, Unsuspend, Unlock, ClearFindings, SetTrusted
        <4> QED
          BY <4>1, <4>2, StepCases
      <3>2. siteLock \in Workers /\ work[siteLock].step = "place"
        BY <3>1, <1>2, <1>0 DEF PlaceInv
      <3>3. ~WorkerStep(siteLock)
        <4>1. ASSUME WorkerStep(siteLock) PROVE PutInPlace(siteLock)
          BY <4>1, <3>2, <2>2
             DEF WorkerStep, Stage, DeleteFile, ScanContent, JudgeScan, EnterContainerMode,
                 LeaveStop, LeaveScan, ScanBeforeServing, SwitchToFiles
        <4>2. PutInPlace(siteLock) => siteLock' = Nobody
          BY DEF PutInPlace
        <4> QED
          BY <4>1, <4>2, <1>2
      <3> QED
        BY <3>1, <3>2, <3>3, OthersWork
    <2> QED
      BY <2>1, <2>2
  <1> QED
    BY <1>1, <1>2 DEF PlaceInv, PlaceAt

LEMMA CrossedStep == CrossedInv /\ [Next]_vars => CrossedInv'
  <1>1. Next => CrossedInv'
    BY DEF Next, CrossedInv
  <1>2. CrossedInv /\ UNCHANGED vars => CrossedInv'
    BY DEF vars, CrossedInv, Crossing, Leaving
  <1> QED
    BY <1>1, <1>2

LEMMA UnreviewedStep ==
    ASSUME TypeOK, UnreviewedInv, Next
    PROVE  UnreviewedInv'
  <1>0. \A w \in Workers : work[w].hits \in SUBSET Results
    BY DEF TypeOK
  <1>1. ASSUME NEW w \in Workers, WorkerStep(w) PROVE UnreviewedInv'
    <2>1. CASE UNCHANGED <<findings, reviewed>>
      BY <2>1 DEF UnreviewedInv
    <2>2. CASE reviewed' = reviewed /\ \E hits \in SUBSET Results, b \in BOOLEAN : Settle(hits, b)
      BY <2>2, SettleLocks
    <2>3. CASE Rename(w)
      <3>1. PICK p \in Paths, q \in Paths :
              Settle(IF Sev(p) # Sev(q) THEN Hits([Idle.tree EXCEPT ![q] = content[p]], {q}) ELSE {}, FALSE)
        BY <2>3 DEF Rename
      <3>2. (IF Sev(p) # Sev(q) THEN Hits([Idle.tree EXCEPT ![q] = content[p]], {q}) ELSE {}) \in SUBSET Results
        BY DEF Hits
      <3>3. reviewed' = reviewed
        BY <2>3 DEF Rename
      <3> QED
        BY <3>1, <3>2, <3>3, <2>2
    <2>4. CASE CheckAndSettle(w) \/ JudgeScan(w) \/ ScanBeforeServing(w)
      <3>1. UNCHANGED <<findings, reviewed>>
            \/ (reviewed' = reviewed /\ \E b \in BOOLEAN : Settle(work[w].hits, b))
        BY <2>4 DEF CheckAndSettle, JudgeScan, ScanBeforeServing, metaVars
      <3> QED
        BY <3>1, <1>0, <2>1, <2>2
    <2>5. CASE Stage(w) \/ PutInPlace(w) \/ DeleteFile(w) \/ ScanContent(w) \/ LeaveScan(w)
      BY <2>1, <2>5 DEF Stage, PutInPlace, DeleteFile, ScanContent, LeaveScan, metaVars
    <2>6. CASE EnterContainerMode(w) \/ LeaveStop(w) \/ SwitchToFiles(w)
      BY <2>1, <2>6 DEF EnterContainerMode, LeaveStop, SwitchToFiles
    <2> QED
      BY <1>1, <2>3, <2>4, <2>5, <2>6 DEF WorkerStep
  <1>2. CASE FtpStep \/ ContainerWrite
    BY <1>2 DEF FtpStep, FtpCheck, FtpRemove, ContainerWrite, metaVars, UnreviewedInv
  <1>3. CASE OperatorStep
    BY <1>3 DEF OperatorStep, Lock, Suspend, Unsuspend, Unlock, ClearFindings, SetTrusted, Review, UnreviewedInv
  <1> QED
    BY <1>1, <1>2, <1>3, StepCases

\* The content after a step is covered when each kit in it is.
LEMMA CoveredContent ==
    CoveredTree(content)' <=> \A k \in Kits, p \in Active : content'[p] = k => Covered(k, p)'
  BY DEF CoveredTree, Covered, Served, Found

LEMMA CoveredNow == CoveredTree(content) <=> \A k \in Kits, p \in Active : content[p] = k => Covered(k, p)
  BY DEF CoveredTree

\* What is in the site while a worker leaves container mode, alone.
LeaveAt(w) ==
    /\ mode = "container" /\ ~running
    /\ work[w].step = "leaveScan" => \A k \in Kits, p \in Active : content[p] = k => <<k, p>> \in work[w].hits
    /\ work[w].step = "switch" => \A k \in Kits, p \in Active : content[p] = k => Covered(k, p)

LEMMA LeaveNow ==
    ASSUME LeaveInv, ~crossed, NEW w \in Workers, Leaving(w)
    PROVE  LeaveAt(w)
  <1>1. Hits(content, Active) = {r \in Kits \X Paths : r[2] \in Active /\ content[r[2]] = r[1]}
    BY DEF Hits, Results
  <1>2. \A k \in Kits, p \in Active : content[p] = k => <<k, p>> \in Hits(content, Active)
    BY <1>1 DEF Paths
  <1> QED
    BY <1>2, CoveredNow DEF LeaveInv, LeaveAt

LEMMA LeaveThen ==
    ASSUME ~crossed' => \A w \in Workers : Leaving(w)' => LeaveAt(w)'
    PROVE  LeaveInv'
  <1>1. Hits(content, Active)' = {r \in Kits \X Paths : r[2] \in Active /\ content'[r[2]] = r[1]}
    BY DEF Hits, Results
  <1>2. \A H : (\A k \in Kits, p \in Active : content'[p] = k => <<k, p>> \in H) => Hits(content, Active)' \subseteq H
    BY <1>1
  <1> QED
    BY <1>2, CoveredContent DEF LeaveInv, LeaveAt

LEMMA LeaveStep ==
    ASSUME TypeOK, PlaceInv, LeaveInv, CrossedInv, Next
    PROVE  LeaveInv'
  <1>0. /\ work \in [Workers \cup FtpSessions -> Works] /\ content \in Trees
        /\ ~crossed' => ~crossed /\ ~Crossing /\ ~Crossing'
    BY DEF TypeOK, Works, Next, CrossedInv
  <1> SUFFICES ASSUME ~crossed', NEW w \in Workers, Leaving(w)'
               PROVE  LeaveAt(w)'
    BY LeaveThen
  <1>1. /\ ~crossed /\ ~Crossing /\ ~Crossing' /\ lock' # "account"
        /\ \A v \in Workers \ {w} : work'[v].step = "idle"
    BY <1>0 DEF Crossing, Leaving
  <1>2. CASE WorkerStep(w)
    <2>1. CASE LeaveStop(w)
      BY <2>1, <1>0 DEF LeaveStop, Idle, LeaveAt
    <2>2. CASE LeaveScan(w)
      <3>1. /\ mode = "container" /\ ~running /\ work'[w].step = "leaveScan"
            /\ work'[w].hits = Hits(content, Paths) /\ UNCHANGED <<content, mode, running>>
        BY <2>2, <1>0, <1>1, LeaveNow DEF LeaveScan, LeaveAt, Leaving, metaVars, Works
      <3>2. \A k \in Kits, p \in Active : content[p] = k => <<k, p>> \in Hits(content, Paths)
        BY DEF Hits, Results, Paths
      <3> QED
        BY <3>1, <3>2 DEF LeaveAt
    <2>3. CASE ScanBeforeServing(w) /\ work'[w].step = "switch"
      <3>1. LeaveAt(w) /\ work[w].step = "leaveScan"
        BY <2>3, <1>1, LeaveNow DEF ScanBeforeServing, Leaving
      <3>2. /\ work[w].hits \in SUBSET Results
            /\ Settle(work[w].hits, TRUE) /\ UNCHANGED <<content, mode, running, reviewed>>
        BY <2>3, <1>0 DEF ScanBeforeServing, Works
      <3>3. ASSUME NEW k \in Kits, NEW p \in Active, content[p] = k PROVE Covered(k, p)'
        <4>1. PICK r \in work[w].hits : r = <<k, p>>
          BY <3>1, <3>3 DEF LeaveAt
        <4>2. Covered(r[1], r[2])'
          BY <3>2, <4>1, SettleCovers
        <4> QED
          BY <4>1, <4>2 DEF Covered, Served, Found
      <3> QED
        BY <3>1, <3>2, <3>3, <2>3 DEF LeaveAt
    <2> QED
      BY <1>2, <2>1, <2>2, <2>3, OwnWork DEF Leaving
  <1>3. CASE ~WorkerStep(w)
    <2>1. work'[w] = work[w] /\ Leaving(w)
      BY <1>3, OthersWork DEF Leaving
    <2>2. /\ LeaveAt(w) /\ mode = "container" /\ ~running /\ lock # "account"
          /\ \A v \in Workers \ {w} : work[v].step = "idle"
      BY <1>1, <2>1, LeaveNow DEF LeaveAt, Crossing
    <2>3. ASSUME UNCHANGED <<lock, findings, reviewed, mode, running, waved>>,
                 \A p \in Active : content'[p] \in {content[p], Absent}
          PROVE  LeaveAt(w)'
      BY <2>1, <2>2, <2>3, GuardAssumption DEF LeaveAt, Covered, Served, Found
    <2>4. CASE \E v \in Workers : WorkerStep(v)
      <3>1. PICK v \in Workers : WorkerStep(v)
        BY <2>4
      <3>2. v # w /\ work[v].step = "idle" /\ work'[v].step = "idle"
        BY <3>1, <1>1, <1>3, <2>2
      <3>3. DeleteFile(v)
        <4>1. ~EnterContainerMode(v)
          BY <2>2 DEF EnterContainerMode
        <4>2. ~Stage(v) /\ ~ScanContent(v) /\ ~LeaveStop(v) /\ ~Rename(v)
          BY ZenonT(30), <3>2, <1>0 DEF Stage, ScanContent, LeaveStop, Rename, Idle
        <4> QED
          BY <3>1, <3>2, <4>1, <4>2
             DEF WorkerStep, CheckAndSettle, PutInPlace, JudgeScan, LeaveScan, ScanBeforeServing, SwitchToFiles
      <3>4. /\ UNCHANGED <<lock, findings, reviewed, mode, running, waved>>
            /\ \A p \in Active : content'[p] \in {content[p], Absent}
        BY <3>3, <1>0 DEF DeleteFile, metaVars, Trees, Paths
      <3> QED
        BY <2>3, <3>4
    <2>5. CASE FtpStep
      <3>1. /\ UNCHANGED <<lock, findings, reviewed, mode, running, waved>>
            /\ \A p \in Active : content'[p] \in {content[p], Absent}
        BY <2>5, <1>0 DEF FtpStep, FtpCheck, FtpRemove, metaVars, Trees, Paths
      <3> QED
        BY <2>3, <3>1
    <2>6. CASE ContainerWrite
      BY <2>2, <2>6 DEF ContainerWrite
    <2>7. CASE OperatorStep
      <3>1. UNCHANGED <<content, mode, running>>
        BY <2>7 DEF OperatorStep, Lock, Suspend, Unsuspend, Unlock, ClearFindings, SetTrusted
      <3>2. \A k \in Kits, p \in Active : Covered(k, p) => Covered(k, p)'
        BY <2>2, <2>7, OperatorKeeps
      <3> QED
        BY <2>1, <2>2, <3>1, <3>2 DEF LeaveAt
    <2> QED
      BY <2>4, <2>5, <2>6, <2>7, StepCases
  <1> QED
    BY <1>2, <1>3

\* Every kit at an active path of a file site is covered.
LEMMA FilesStep ==
    ASSUME TypeOK, PlaceInv, LeaveInv, FilesInv, CrossedInv, Next
    PROVE  FilesInv'
  <1>0. /\ work \in [Workers \cup FtpSessions -> Works] /\ content \in Trees
        /\ ~crossed' => ~crossed /\ ~Crossing
    BY DEF TypeOK, Works, Next, CrossedInv
  <1> SUFFICES ASSUME ~crossed', mode' = "files", NEW k \in Kits, NEW p \in Active, content'[p] = k
               PROVE  Covered(k, p)'
    BY CoveredContent DEF FilesInv
  <1>1. ~crossed /\ ~Crossing
    BY <1>0
  <1>2. mode = "files" /\ content[p] = k => Covered(k, p)
    BY <1>1, CoveredNow DEF FilesInv
  <1>3. ASSUME UNCHANGED <<lock, findings, reviewed, mode, waved>>, content'[p] \in {content[p], Absent}
        PROVE  Covered(k, p)'
    BY <1>2, <1>3, GuardAssumption DEF Covered, Served, Found
  <1>4. ASSUME NEW hits \in SUBSET Results, NEW b \in BOOLEAN, Settle(hits, b), UNCHANGED <<content, reviewed, mode>>,
               lock # "no" => \A r \in hits : r[2] = p => r[1] = k
        PROVE  Covered(k, p)'
    BY <1>2, <1>4, SettleKeeps
  <1>5. ASSUME NEW w \in Workers, WorkerStep(w) PROVE Covered(k, p)'
    <2>0. work[w].hits \in SUBSET Results /\ work[w].tree \in Trees
      BY <1>0 DEF Works
    <2>1. CASE Stage(w) \/ ScanContent(w) \/ LeaveScan(w) \/ LeaveStop(w)
      BY <2>1, <1>3 DEF Stage, ScanContent, LeaveScan, LeaveStop, metaVars
    <2>2. CASE CheckAndSettle(w)
      <3>1. CASE lock = "no"
        BY <2>2, <3>1, <2>0, <1>4 DEF CheckAndSettle
      <3>2. CASE lock # "no"
        BY <2>2, <3>2, <1>3 DEF CheckAndSettle, metaVars
      <3> QED
        BY <3>1, <3>2
    <2>3. CASE PutInPlace(w)
      <3>1. /\ UNCHANGED <<lock, findings, reviewed, mode, waved>>
            /\ content'[p] \in {work[w].tree[p], content[p], Absent}
        BY <2>3, <2>0 DEF PutInPlace, metaVars, Trees, Paths
      <3>2. CoveredTree(work[w].tree)
        BY <2>3, <1>1, <3>1 DEF PutInPlace, PlaceInv, PlaceAt
      <3>3. content'[p] = work[w].tree[p] => Covered(k, p)
        BY <3>2 DEF CoveredTree
      <3> QED
        BY <3>1, <3>3, <1>3, CoveredStill
    <2>4. CASE Rename(w)
      <3>1. PICK x \in Paths, q \in Paths :
              Settle(IF Sev(x) # Sev(q) THEN Hits([Idle.tree EXCEPT ![q] = content[x]], {q}) ELSE {}, FALSE)
        BY <2>4 DEF Rename
      <3>2. (IF Sev(x) # Sev(q) THEN Hits([Idle.tree EXCEPT ![q] = content[x]], {q}) ELSE {}) \in SUBSET Results
        BY DEF Hits
      <3>3. UNCHANGED <<content, reviewed, mode>> /\ lock = "no"
        BY <2>4 DEF Rename
      <3> QED
        BY <3>1, <3>2, <3>3, <1>4
    <2>5. CASE DeleteFile(w)
      BY <2>5, <1>0, <1>3 DEF DeleteFile, metaVars, Trees, Paths
    <2>6. CASE JudgeScan(w)
      <3>1. Settle(work[w].hits, FALSE) /\ UNCHANGED <<content, reviewed, mode>> /\ work[w].step = "judge"
        BY <2>6 DEF JudgeScan
      <3>2. lock # "no" => \A r \in work[w].hits : content[r[2]] \notin Kits \ {r[1]}
        BY <1>1, <3>1 DEF Crossing
      <3> QED
        BY <3>1, <3>2, <2>0, <1>4
    <2>7. CASE EnterContainerMode(w)
      BY <2>7 DEF EnterContainerMode
    <2>8. CASE ScanBeforeServing(w)
      <3>1. mode = "container" /\ mode' = mode
        BY <2>8, <1>1, LeaveNow DEF ScanBeforeServing, Leaving, LeaveAt
      <3> QED
        BY <3>1
    <2>9. CASE SwitchToFiles(w)
      <3>1. LeaveAt(w) /\ work[w].step = "switch" /\ UNCHANGED <<content, lock, findings, reviewed, waved>>
        BY <2>9, <1>1, LeaveNow DEF SwitchToFiles, Leaving
      <3> QED
        BY <3>1, CoveredStill DEF LeaveAt
    <2> QED
      BY <1>5, <2>1, <2>2, <2>3, <2>4, <2>5, <2>6, <2>7, <2>8, <2>9 DEF WorkerStep
  <1>6. CASE FtpStep
    BY <1>6, <1>0, <1>3 DEF FtpStep, FtpCheck, FtpRemove, metaVars, Trees, Paths
  <1>7. CASE ContainerWrite
    BY <1>7 DEF ContainerWrite, metaVars
  <1>8. CASE OperatorStep
    <2>1. UNCHANGED <<content, mode>>
      BY <1>8 DEF OperatorStep, Lock, Suspend, Unsuspend, Unlock, ClearFindings, SetTrusted
    <2> QED
      BY <1>8, <2>1, <1>2, OperatorKeeps
  <1> QED
    BY <1>5, <1>6, <1>7, <1>8, StepCases

(***************************************************************************)
(* The theorems.                                                           *)
(***************************************************************************)

LEMMA GuardInit == Init => GuardInv
  <1> SUFFICES ASSUME Init PROVE GuardInv
    OBVIOUS
  <1>1. /\ \A w \in Workers : work[w].step = "idle" /\ work[w].hits = {}
        /\ siteLock = Nobody /\ findings = {} /\ \A p \in Paths : content[p] = Absent
    BY DEF Init, Idle
  <1>2. CoveredTree(content)
    BY <1>1, GuardAssumption DEF CoveredTree, Paths
  <1> QED
    BY <1>1, <1>2
       DEF GuardInv, StagedInv, PlaceInv, PlaceAt, LeaveInv, Leaving, FilesInv, CrossedInv, Crossing, UnreviewedInv

LEMMA GuardStep == TypeOK /\ GuardInv /\ [Next]_vars => GuardInv'
  <1>1. ASSUME TypeOK, GuardInv, Next PROVE GuardInv'
    BY <1>1, StagedStep, PlaceStep, LeaveStep, FilesStep, CrossedStep, UnreviewedStep DEF GuardInv
  <1>2. ASSUME GuardInv, UNCHANGED vars PROVE GuardInv'
    BY <1>2 DEF vars, GuardInv, StagedInv, PlaceInv, PlaceAt, LeaveInv, Leaving, FilesInv, CrossedInv, Crossing,
                UnreviewedInv, CoveredTree, Covered, Served, Found, Hits
  <1> QED
    BY <1>1, <1>2

\* Where a kit can be, between the scan that finds it and the file in place.
THEOREM GuardInvariant == Spec => []GuardInv
  BY TypeCorrect, GuardInit, GuardStep, PTL DEF Spec

\* A kit in an active file of an unlocked file site was released as a blocking
\* one or let in by a trusted tier, in every order of uploads, renames, scans,
\* unlocks, reviews and mode switches but the crossings the model names.
THEOREM NoKitServedHolds == Spec => []NoKitServed
  <1>1. GuardInv => NoKitServed
    BY DEF GuardInv, FilesInv, NoKitServed, KitsServedAreReleased, CoveredTree, Covered, Served
  <1> QED
    BY <1>1, GuardInvariant, PTL

\* The content of a locked file site changes only by the write the lock was
\* placed for, or by an FTP delete that asked before the lock came.
THEOREM FrozenContentHolds == Spec => FrozenContent
  <1> DEFINE Frozen == lock # "no" /\ mode = "files" /\ content' # content =>
                          PlacesEvidence \/ \E f \in FtpSessions : FtpRemove(f)
  <1>1. TypeOK /\ GuardInv /\ [Next]_vars => [Frozen]_vars
    <2> SUFFICES ASSUME TypeOK, GuardInv, Next, lock # "no", mode = "files", content' # content
                 PROVE  PlacesEvidence \/ \E f \in FtpSessions : FtpRemove(f)
      OBVIOUS
    <2>1. ASSUME NEW w \in Workers, WorkerStep(w) PROVE PlacesEvidence
      <3>1. PutInPlace(w)
        BY <2>1 DEF WorkerStep, Stage, CheckAndSettle, Rename, DeleteFile, ScanContent, JudgeScan,
                    EnterContainerMode, LeaveStop, LeaveScan, ScanBeforeServing, SwitchToFiles
      <3> QED
        BY <3>1 DEF PutInPlace, GuardInv, PlaceInv, PlaceAt, PlacesEvidence
    <2>2. CASE FtpStep
      BY <2>2 DEF FtpStep, FtpCheck
    <2>3. ~ContainerWrite /\ ~OperatorStep
      BY DEF ContainerWrite, OperatorStep, Lock, Suspend, Unsuspend, Unlock, ClearFindings, SetTrusted
    <2> QED
      BY <2>1, <2>2, <2>3, StepCases
  <1> QED
    BY <1>1, TypeCorrect, GuardInvariant, PTL DEF Spec, FrozenContent

\* The guard locks a site only over a kit nobody has released as a blocking one.
THEOREM ReleasedStaysReleasedHolds == Spec => ReleasedStaysReleased
  <1> DEFINE Over == \E f \in findings' : f.sev = "block" /\ <<f.kit, "block">> \notin reviewed
             Kept == lock # "scanner" /\ lock' = "scanner" => Over
  <1>1. TypeOK /\ GuardInv /\ [Next]_vars => [Kept]_vars
    <2> SUFFICES ASSUME TypeOK, GuardInv, Next, lock # "scanner", lock' = "scanner"
                 PROVE  Over
      OBVIOUS
    <2>1. ASSUME NEW hits \in SUBSET Results, NEW b \in BOOLEAN, Settle(hits, b) PROVE Over
      BY <2>1, SettleLocks
    <2>2. ASSUME NEW w \in Workers, WorkerStep(w) PROVE Over
      <3>1. work[w].hits \in SUBSET Results
        BY DEF TypeOK
      <3>2. CASE Rename(w)
        <4>1. PICK p \in Paths, q \in Paths :
                Settle(IF Sev(p) # Sev(q) THEN Hits([Idle.tree EXCEPT ![q] = content[p]], {q}) ELSE {}, FALSE)
          BY <3>2 DEF Rename
        <4>2. (IF Sev(p) # Sev(q) THEN Hits([Idle.tree EXCEPT ![q] = content[p]], {q}) ELSE {}) \in SUBSET Results
          BY DEF Hits
        <4> QED
          BY <4>1, <4>2, <2>1
      <3>3. CASE CheckAndSettle(w) \/ JudgeScan(w) \/ ScanBeforeServing(w)
        <4>1. lock' = lock \/ \E b \in BOOLEAN : Settle(work[w].hits, b)
          BY <3>3 DEF CheckAndSettle, JudgeScan, ScanBeforeServing, metaVars
        <4> QED
          BY <4>1, <3>1, <2>1
      <3> QED
        BY <2>2, <3>2, <3>3
           DEF WorkerStep, Stage, PutInPlace, DeleteFile, ScanContent, EnterContainerMode,
               LeaveStop, LeaveScan, SwitchToFiles, metaVars
    <2>3. CASE FtpStep \/ ContainerWrite
      BY <2>3 DEF FtpStep, FtpCheck, FtpRemove, ContainerWrite, metaVars
    <2>4. CASE OperatorStep
      <3>1. Unsuspend
        BY <2>4 DEF OperatorStep, Lock, Suspend, Unlock, ClearFindings, SetTrusted
      <3>2. \E f \in findings : f.sev = "block"
        BY <3>1 DEF Unsuspend
      <3> QED
        BY <3>1, <3>2 DEF Unsuspend, GuardInv, UnreviewedInv
    <2> QED
      BY <2>2, <2>3, <2>4, StepCases
  <1> QED
    BY <1>1, TypeCorrect, GuardInvariant, PTL DEF Spec, ReleasedStaysReleased
=============================================================================
