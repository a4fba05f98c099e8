------------------------- MODULE MCParts_more_proofs -------------------------
(***************************************************************************)
(* More promises of MCParts, proved as in MCParts_proofs: of backups, tags,*)
(* accounts, the restoring of the instance, tiers, site rules and tools.   *)
(***************************************************************************)
EXTENDS MCParts, Sequences, WellFoundedInduction, TLAPS

(***************************************************************************)
(* Backups.                                                                *)
(***************************************************************************)

BackupsGood == which = "backups" => B!BackupsTyped /\ B!BackupsInv

LEMMA BackupConstants == None \notin Restores /\ None \notin Some /\ LastEvent \in Nat
  BY PartsAssumption DEF B!BackupsAssumption

LEMMA BlankIsAsk ==
    ASSUME NEW at \in {"idle", "over"}, NEW q, q = [B!Blank EXCEPT !.at = at]
    PROVE  q \in B!Asks /\ q.at = at
  BY DEF B!Blank, B!Asks, B!Phases, B!Roles

LEMMA BackupsBegin == Init => BackupsGood
  <1> SUFFICES ASSUME B!BackupsInit PROVE B!BackupsTyped /\ B!BackupsInv
    BY DEF Init, BackupsGood
  <1> USE BackupConstants DEF B!BackupsInit
  <1>1. v1 \in B!Metas /\ v1.since = 0
    BY DEF B!Metas, B!Times
  <1>2. B!Blank \in B!Asks /\ B!Blank.at = "idle"
    BY DEF B!Blank, B!Asks, B!Phases, B!Roles
  <1>3. B!BackupsTyped
    BY <1>1, <1>2 DEF B!BackupsTyped, B!Times
  <1>4. B!BackupsInv
    BY <1>1, <1>2 DEF B!BackupsInv, B!SnapsInv, B!RunsInv, B!AskInv
  <1> QED
    BY <1>3, <1>4

\* One request moves; the site's files change at most by a commit.
LEMMA RequestGoes ==
    ASSUME B!BackupsTyped, B!BackupsInv, NEW r \in Restores, NEW q \in B!Asks,
           v9' = [v9 EXCEPT ![r] = q], v9[r].at # "running", B!AskInv(q)',
           v1' \in B!Metas, v1'.since = v1.since,
           (UNCHANGED <<v2, v3>>) \/ (v2' \in B!Times /\ v3' = v11),
           UNCHANGED <<v5, v6, v7, v8, v11>>
    PROVE  B!BackupsTyped' /\ B!BackupsInv'
  <1>1. v9'[r] = q /\ \A x \in Restores : x # r => v9'[x] = v9[x]
    BY DEF B!BackupsTyped
  <1>2. B!BackupsTyped'
    BY DEF B!BackupsTyped
  <1>3. B!SnapsInv'
    BY DEF B!BackupsTyped, B!BackupsInv, B!SnapsInv, B!Snaps, B!Times
  <1>4. B!RunsInv'
    <2>1. v7 # None /\ v7.r # None => v7.r # r /\ v7.r \in Restores
      BY DEF B!BackupsTyped, B!BackupsInv, B!RunsInv
    <2> QED
      BY <1>1, <2>1 DEF B!BackupsInv, B!RunsInv
  <1>5. \A x \in Restores : x # r => B!AskInv(v9[x])'
    <2> TAKE x \in Restores
    <2> HAVE x # r
    <2>1. v9'[x] = v9[x] /\ B!AskInv(v9[x])
      BY <1>1 DEF B!BackupsInv
    <2> QED
      BY <2>1 DEF B!AskInv
  <1>6. \A x \in Restores : B!AskInv(v9[x])'
    BY <1>1, <1>5 DEF B!AskInv
  <1> QED
    BY <1>2, <1>3, <1>4, <1>6 DEF B!BackupsInv

Holding == {"taken", "staging", "staged", "stopping", "halting", "stopped"}

\* It moves on with what it has, or gives up.
LEMMA RequestSteps ==
    ASSUME B!BackupsTyped, B!BackupsInv, NEW r \in Restores, NEW from, NEW to \in B!Phases \ {"idle", "over", "asked"},
           B!Step(r, from, to), from \notin {"idle", "over", "running"}, to \in Holding => from \in Holding,
           v1' \in B!Metas, v1'.since = v1.since,
           (UNCHANGED <<v2, v3>>) \/ (v2' \in B!Times /\ v3' = v11),
           UNCHANGED <<v5, v6, v7, v8, v11>>
    PROVE  B!BackupsTyped' /\ B!BackupsInv'
  <1>1. PICK q : q = [v9[r] EXCEPT !.at = to]
    OBVIOUS
  <1>2. v9[r].at = from /\ v9' = [v9 EXCEPT ![r] = q] /\ v9[r] \in B!Asks
    BY <1>1 DEF B!Step, B!BackupsTyped
  <1>3. q \in B!Asks /\ q.at = to /\ q.version = v9[r].version /\ q.was = v9[r].was /\ q.asked = v9[r].asked /\ q.taken = v9[r].taken
    BY <1>1, <1>2 DEF B!Asks
  <1>4. B!AskInv(v9[r])
    BY DEF B!BackupsInv
  <1>5. B!AskInv(q)'
    BY <1>2, <1>3, <1>4 DEF B!AskInv, Holding
  <1> QED
    BY <1>2, <1>3, <1>5, RequestGoes

LEMMA RequestEnds ==
    ASSUME B!BackupsTyped, B!BackupsInv, NEW r \in Restores, v9[r].at # "running", B!Ends(r),
           v1' \in B!Metas, v1'.since = v1.since, UNCHANGED <<v2, v3, v5, v6, v7, v8, v11>>
    PROVE  B!BackupsTyped' /\ B!BackupsInv'
  <1>1. PICK q : q = [B!Blank EXCEPT !.at = "over"]
    OBVIOUS
  <1>2. v9' = [v9 EXCEPT ![r] = q]
    BY <1>1 DEF B!Ends
  <1>3. q \in B!Asks /\ q.at = "over"
    BY <1>1, BlankIsAsk
  <1>4. B!AskInv(q)'
    BY <1>3 DEF B!AskInv
  <1> QED
    BY <1>2, <1>3, <1>4, RequestGoes

\* The version is of its owner's time, so of his files.
LEMMA RestoreKeeps ==
    ASSUME B!BackupsTyped, B!BackupsInv, NEW r \in Restores, NEW p \in Some, NEW role \in B!Roles, NEW s \in v5,
           B!Restore(r, p, role, s)
    PROVE  B!BackupsTyped' /\ B!BackupsInv'
  <1>1. PICK q : q = [B!Blank EXCEPT !.at = "claimed", !.who = p, !.role = role, !.was = v1, !.version = s]
    OBVIOUS
  <1>2. /\ v9[r].at = "idle" /\ v9' = [v9 EXCEPT ![r] = q] /\ s.at >= v1.since
        /\ UNCHANGED <<v1, v2, v3, v5, v6, v7, v8, v11>>
    BY <1>1 DEF B!Restore, B!Offered, B!agent, B!NoTick
  <1>3. v1 \in B!Metas /\ s \in B!Snaps
    BY DEF B!BackupsTyped
  <1>4. q \in B!Asks /\ q.at = "claimed" /\ q.was = v1 /\ q.version = s
    BY <1>1, <1>3 DEF B!Blank, B!Asks, B!Phases, B!Roles
  <1>5. s.tenure = v1.since
    BY <1>2 DEF B!BackupsInv, B!SnapsInv
  <1>6. B!AskInv(q)'
    BY <1>3, <1>4, <1>5 DEF B!AskInv
  <1> QED
    BY <1>2, <1>3, <1>4, <1>6, RequestGoes

LEMMA AskingKeeps ==
    ASSUME B!BackupsTyped, B!BackupsInv, NEW r \in Restores, B!AskBackup(r)
    PROVE  B!BackupsTyped' /\ B!BackupsInv'
  <1>0. PICK t \in Nat : t = v11 + 1
    BY DEF B!BackupsTyped, B!Times
  <1>1. PICK q : q = [v9[r] EXCEPT !.at = "asked", !.asked = t]
    OBVIOUS
  <1>2. /\ v9[r].at = "claimed" /\ v9[r] \in B!Asks /\ v9' = [v9 EXCEPT ![r] = q]
        /\ UNCHANGED <<v1, v2, v3, v5, v6, v7, v8, v11>>
    BY <1>0, <1>1 DEF B!AskBackup, B!BackupsTyped, B!agent, B!NoTick
  <1>3. q \in B!Asks /\ q.at = "asked" /\ q.version = v9[r].version /\ q.was = v9[r].was /\ q.asked = t
    BY <1>1, <1>2 DEF B!Asks, B!Phases
  <1>4. B!AskInv(v9[r])
    BY DEF B!BackupsInv
  <1>5. B!AskInv(q)'
    BY <1>0, <1>2, <1>3, <1>4 DEF B!AskInv, B!BackupsTyped, B!Times
  <1>6. v1' \in B!Metas
    BY <1>2 DEF B!BackupsTyped
  <1> QED
    BY <1>2, <1>3, <1>5, <1>6, RequestGoes

LEMMA SharedKeeps ==
    ASSUME B!BackupsTyped, B!BackupsInv, NEW r \in Restores, B!Shared(r)
    PROVE  B!BackupsTyped' /\ B!BackupsInv'
  <1>0. PICK s : s = v8.snap
    OBVIOUS
  <1>1. PICK q : q = [v9[r] EXCEPT !.at = "taken", !.taken = s]
    OBVIOUS
  <1>2. /\ v9[r].at = "asked" /\ v9[r] \in B!Asks /\ v9' = [v9 EXCEPT ![r] = q]
        /\ v8 # None /\ v8.started >= v9[r].asked
        /\ UNCHANGED <<v1, v2, v3, v5, v6, v7, v8, v11>>
    BY <1>0, <1>1 DEF B!Shared, B!Share, B!BackupsTyped, B!agent, B!NoTick
  <1>3. s \in v5 /\ s.at >= v9[r].asked /\ s \in B!Snaps
    BY <1>0, <1>2 DEF B!BackupsInv, B!RunsInv, B!BackupsTyped
  <1>4. /\ q \in B!Asks /\ q.at = "taken" /\ q.version = v9[r].version /\ q.was = v9[r].was
        /\ q.asked = v9[r].asked /\ q.taken = s
    BY <1>1, <1>2, <1>3 DEF B!Asks, B!Phases
  <1>5. B!AskInv(v9[r])
    BY DEF B!BackupsInv
  <1>6. B!AskInv(q)'
    BY <1>2, <1>3, <1>4, <1>5 DEF B!AskInv
  <1>7. v1' \in B!Metas
    BY <1>2 DEF B!BackupsTyped
  <1> QED
    BY <1>2, <1>4, <1>6, <1>7, RequestGoes

LEMMA CheckStagedKeeps ==
    ASSUME B!BackupsTyped, B!BackupsInv, NEW r \in Restores, B!CheckStaged(r)
    PROVE  B!BackupsTyped' /\ B!BackupsInv'
  <1>1. v9[r].at = "staged" /\ v1' \in B!Metas /\ UNCHANGED <<v1, v2, v3, v5, v6, v7, v8, v11>>
    BY DEF B!CheckStaged, B!BackupsTyped, B!agent, B!NoTick
  <1>2. CASE B!Ends(r)
    BY <1>1, <1>2, RequestEnds
  <1>3. CASE ~B!Ends(r)
    <2>0. PICK to, again : /\ to = (IF v1.container THEN "stopping" ELSE "stopped")
                           /\ again = (v1.container /\ v1.enabled)
      OBVIOUS
    <2>1. PICK q : q = [v9[r] EXCEPT !.at = to, !.restart = again]
      OBVIOUS
    <2>2. v9' = [v9 EXCEPT ![r] = q] /\ v9[r] \in B!Asks
      BY <1>3, <2>0, <2>1 DEF B!CheckStaged, B!BackupsTyped
    <2>3. again \in BOOLEAN /\ to \in {"stopping", "stopped"}
      BY <2>0 DEF B!BackupsTyped, B!Metas
    <2>4. /\ q \in B!Asks /\ q.at = to /\ q.version = v9[r].version /\ q.was = v9[r].was
          /\ q.asked = v9[r].asked /\ q.taken = v9[r].taken
      BY <2>1, <2>2, <2>3 DEF B!Asks, B!Phases
    <2>5. B!AskInv(v9[r])
      BY DEF B!BackupsInv
    <2>6. B!AskInv(q)'
      BY <1>1, <2>3, <2>4, <2>5 DEF B!AskInv
    <2> QED
      BY <1>1, <2>2, <2>4, <2>6, RequestGoes
  <1> QED
    BY <1>2, <1>3

LEMMA RestartKeepsMeta ==
    ASSUME B!BackupsTyped, NEW on \in BOOLEAN, NEW m, m = [v1 EXCEPT !.enabled = on]
    PROVE  m \in B!Metas /\ m.since = v1.since
  BY DEF B!BackupsTyped, B!Metas

LEMMA RequestsKeep ==
    ASSUME B!BackupsTyped, B!BackupsInv, NEW r \in Restores,
           \/ B!CheckTaken(r) \/ B!Stage(r) \/ B!FailStage(r) \/ B!MarkStopped(r) \/ B!StopProject(r)
           \/ B!Commit(r) \/ B!NoCommit(r) \/ B!StartAgain(r)
    PROVE  B!BackupsTyped' /\ B!BackupsInv'
  <1> USE DEF B!agent, B!NoTick
  <1>0. v1 \in B!Metas
    BY DEF B!BackupsTyped
  <1>1. CASE B!CheckTaken(r)
    <2>1. CASE B!Ends(r)
      BY <1>0, <1>1, <2>1, RequestEnds DEF B!CheckTaken
    <2>2. CASE B!Step(r, "taken", "staging")
      BY <1>0, <1>1, <2>2, RequestSteps DEF B!CheckTaken, B!Phases, Holding
    <2> QED
      BY <1>1, <2>1, <2>2 DEF B!CheckTaken
  <1>2. CASE B!Stage(r)
    BY <1>0, <1>2, RequestSteps DEF B!Stage, B!Phases, Holding
  <1>3. CASE B!FailStage(r)
    BY <1>0, <1>3, RequestEnds DEF B!FailStage
  <1>4. CASE B!MarkStopped(r)
    <2>1. v1' \in B!Metas /\ v1'.since = v1.since
      BY <1>4, RestartKeepsMeta DEF B!MarkStopped
    <2> QED
      BY <1>4, <2>1, RequestSteps DEF B!MarkStopped, B!Phases, Holding
  <1>5. CASE B!StopProject(r)
    BY <1>0, <1>5, RequestSteps DEF B!StopProject, B!Phases, Holding
  <1>6. CASE B!Commit(r)
    <2>1. v9[r].at = "stopped" /\ v9[r].version \in B!Snaps
      BY <1>6 DEF B!Commit, B!Step, B!BackupsInv, B!AskInv
    <2>2. v2' \in B!Times /\ v3' = v11
      BY <1>6, <2>1 DEF B!Commit, B!Snaps
    <2> QED
      BY <1>0, <1>6, <2>2, RequestSteps DEF B!Commit, B!Phases, Holding
  <1>7. CASE B!NoCommit(r)
    <2>1. B!Step(r, v9[r].at, "failed") /\ v9[r].at \in {"halting", "stopped"}
      BY <1>7 DEF B!NoCommit
    <2>2. UNCHANGED <<v1, v2, v3, v5, v6, v7, v8, v11>>
      BY <1>7 DEF B!NoCommit
    <2> QED
      BY <1>0, <2>1, <2>2, RequestSteps DEF B!Phases, Holding
  <1>8. CASE B!StartAgain(r)
    <2>1. v1' \in B!Metas /\ v1'.since = v1.since
      BY <1>0, <1>8, RestartKeepsMeta DEF B!StartAgain
    <2> QED
      BY <1>8, <2>1, RequestEnds DEF B!StartAgain
  <1> QED
    BY <1>1, <1>2, <1>3, <1>4, <1>5, <1>6, <1>7, <1>8

(***************************************************************************)
(* The agent's runs.                                                       *)
(***************************************************************************)

LEMMA TimeGoes ==
    ASSUME B!BackupsTyped, B!Tick
    PROVE  v11 \in Nat /\ v11' = v11 + 1 /\ v11' \in B!Times
  BY BackupConstants DEF B!BackupsTyped, B!Tick, B!Times

LEMMA RunStarts ==
    ASSUME B!BackupsTyped, B!BackupsInv, NEW r \in Restores \cup {None}, B!StartRun(r)
    PROVE  B!BackupsTyped' /\ B!BackupsInv'
  <1>1. /\ v7 = None /\ v11 \in Nat /\ v11' = v11 + 1 /\ v11' \in B!Times
        /\ UNCHANGED <<v1, v2, v3, v5, v6, v8>>
    BY TimeGoes DEF B!StartRun
  <1>2. PICK n : n = [r |-> r, started |-> v11']
    OBVIOUS
  <1>3. n.r = r /\ n.started = v11' /\ v7' = n /\ n \in [r : Restores \cup {None}, started : B!Times]
    BY <1>1, <1>2 DEF B!StartRun
  <1>4. B!SnapsInv'
    BY <1>1 DEF B!BackupsTyped, B!BackupsInv, B!SnapsInv, B!Snaps, B!Metas, B!Times
  <1>5. CASE r = None
    <2>1. v9' = v9
      BY <1>5 DEF B!StartRun
    <2>2. B!BackupsTyped'
      BY <1>1, <1>3, <2>1 DEF B!BackupsTyped
    <2>3. B!RunsInv'
      BY <1>1, <1>3, <1>5 DEF B!BackupsInv, B!RunsInv, B!Times
    <2>4. \A x \in Restores : B!AskInv(v9[x])'
      BY <1>1, <2>1 DEF B!BackupsInv, B!AskInv, B!BackupsTyped, B!Asks
    <2> QED
      BY <1>4, <2>2, <2>3, <2>4 DEF B!BackupsInv
  <1>6. CASE r # None
    <2>1. PICK q : q = [v9[r] EXCEPT !.at = "running"]
      OBVIOUS
    <2>2. /\ r \in Restores /\ v9[r].at = "asked" /\ v9' = [v9 EXCEPT ![r] = q]
          /\ v9[r] \in B!Asks
      BY <1>6, <2>1 DEF B!StartRun, B!Step, B!BackupsTyped
    <2>3. /\ q \in B!Asks /\ q.at = "running" /\ q.version = v9[r].version /\ q.was = v9[r].was
          /\ q.asked = v9[r].asked
      BY <2>1, <2>2 DEF B!Asks, B!Phases
    <2>4. v9'[r] = q /\ \A x \in Restores : x # r => v9'[x] = v9[x]
      BY <2>2 DEF B!BackupsTyped
    <2>5. B!AskInv(v9[r]) /\ v9[r].asked <= v11 + 1
      BY <2>2 DEF B!BackupsInv, B!AskInv
    <2>6. B!BackupsTyped'
      BY <1>1, <1>3, <2>2, <2>3 DEF B!BackupsTyped
    <2>7. B!RunsInv'
      BY <1>1, <1>3, <2>3, <2>4, <2>5 DEF B!BackupsInv, B!RunsInv, B!Times, B!Asks
    <2>8. ASSUME NEW x \in Restores PROVE B!AskInv(v9[x])'
      <3>1. CASE x = r
        BY <2>2, <2>3, <2>4, <2>5, <3>1 DEF B!AskInv
      <3>2. CASE x # r
        BY <1>1, <2>4, <3>2 DEF B!BackupsInv, B!AskInv, B!BackupsTyped, B!Asks
      <3> QED
        BY <3>1, <3>2
    <2> QED
      BY <1>4, <2>6, <2>7, <2>8 DEF B!BackupsInv
  <1> QED
    BY <1>5, <1>6

\* What a run reads is there as it ends, after the run began.
LEMMA SnapIsTaken ==
    ASSUME B!BackupsTyped, B!BackupsInv, NEW at \in B!Times, at <= v11, NEW s, s = B!Snap(at)
    PROVE  /\ s \in B!Snaps /\ s.at = at /\ s.tenure = v1.since /\ s.files = v2
  BY DEF B!BackupsTyped, B!Snap, B!Snaps, B!Metas

LEMMA RunEnds ==
    ASSUME B!BackupsTyped, B!BackupsInv, B!EndRun
    PROVE  B!BackupsTyped' /\ B!BackupsInv'
  <1>1. PICK t : t = v7.started
    OBVIOUS
  <1>2. PICK s : s = B!Snap(t)
    OBVIOUS
  <1>3. /\ v7 # None /\ v7' = None /\ v5' = v5 \cup {s} /\ v6' = v6 \cup {s}
        /\ v8' = [started |-> t, snap |-> s]
        /\ v9' = IF v7.r = None THEN v9 ELSE [v9 EXCEPT ![v7.r].at = "taken", ![v7.r].taken = s]
        /\ UNCHANGED <<v1, v2, v3, v11>>
    BY <1>1, <1>2 DEF B!EndRun, B!NoTick
  <1>4. v7.r \in Restores \cup {None} /\ t \in B!Times /\ t <= v11
    BY <1>1, <1>3 DEF B!BackupsTyped, B!BackupsInv, B!RunsInv
  <1>5. s \in B!Snaps /\ s.at = t /\ s.tenure = v1.since /\ s.files = v2
    BY <1>2, <1>4, SnapIsTaken
  <1>6. v8' \in B!Runs /\ v8'.snap = s /\ v8'.started = t
    BY <1>3, <1>4, <1>5 DEF B!Runs
  <1>7. B!SnapsInv'
    BY <1>3, <1>4, <1>5 DEF B!BackupsInv, B!SnapsInv
  <1>8. B!RunsInv'
    BY <1>3, <1>5, <1>6 DEF B!RunsInv
  <1>9. v1 \in B!Metas /\ v2' \in B!Times /\ v3' \in B!Times /\ v11' \in B!Times /\ v5' \subseteq B!Snaps /\ v6' \subseteq v5'
    BY <1>3, <1>5 DEF B!BackupsTyped
  <1>10. CASE v7.r = None
    <2>1. B!BackupsTyped'
      BY <1>3, <1>6, <1>9, <1>10 DEF B!BackupsTyped
    <2>2. \A x \in Restores : B!AskInv(v9[x])'
      BY <1>3, <1>10 DEF B!BackupsInv, B!AskInv
    <2> QED
      BY <1>7, <1>8, <2>1, <2>2 DEF B!BackupsInv
  <1>11. CASE v7.r # None
    <2>0. PICK r \in Restores : r = v7.r
      BY <1>4, <1>11
    <2>1. PICK q : q = [v9[r] EXCEPT !.at = "taken", !.taken = s]
      OBVIOUS
    <2>2. v9' = [v9 EXCEPT ![r] = q] /\ v9[r] \in B!Asks
      BY <1>3, <1>11, <2>0, <2>1 DEF B!BackupsTyped
    <2>3. v9[r].at = "running" /\ t >= v9[r].asked /\ B!AskInv(v9[r])
      BY <1>1, <1>3, <1>11, <2>0 DEF B!BackupsInv, B!RunsInv
    <2>4. /\ q \in B!Asks /\ q.at = "taken" /\ q.version = v9[r].version /\ q.was = v9[r].was
          /\ q.asked = v9[r].asked /\ q.taken = s
      BY <1>5, <2>1, <2>2 DEF B!Asks, B!Phases
    <2>5. v9'[r] = q /\ \A x \in Restores : x # r => v9'[x] = v9[x]
      BY <2>2 DEF B!BackupsTyped
    <2>6. B!BackupsTyped'
      BY <1>3, <1>6, <1>9, <2>2, <2>4 DEF B!BackupsTyped
    <2>7. ASSUME NEW x \in Restores PROVE B!AskInv(v9[x])'
      <3>1. CASE x = r
        BY <1>3, <1>5, <2>3, <2>4, <2>5, <3>1 DEF B!AskInv
      <3>2. CASE x # r
        <4>1. v9'[x] = v9[x] /\ B!AskInv(v9[x]) /\ v11' = v11 /\ v5 \subseteq v5'
          BY <1>3, <2>5, <3>2 DEF B!BackupsInv
        <4> QED
          BY <4>1 DEF B!AskInv
      <3> QED
        BY <3>1, <3>2
    <2> QED
      BY <1>7, <1>8, <2>6, <2>7 DEF B!BackupsInv
  <1> QED
    BY <1>10, <1>11

LEMMA RunFails ==
    ASSUME B!BackupsTyped, B!BackupsInv, B!FailRun
    PROVE  B!BackupsTyped' /\ B!BackupsInv'
  <1>1. v7 # None /\ v7' = None /\ UNCHANGED <<v1, v2, v3, v5, v6, v8, v11>>
    BY DEF B!FailRun
  <1>2. B!SnapsInv' /\ B!RunsInv'
    BY <1>1 DEF B!BackupsInv, B!SnapsInv, B!RunsInv
  <1>3. CASE v7.r = None
    BY <1>1, <1>2, <1>3 DEF B!FailRun, B!BackupsTyped, B!BackupsInv, B!AskInv
  <1>4. CASE v7.r # None
    <2>1. PICK r \in Restores : r = v7.r
      BY <1>1, <1>4 DEF B!BackupsTyped
    <2>2. PICK q : q = [B!Blank EXCEPT !.at = "over"]
      OBVIOUS
    <2>3. v9' = [v9 EXCEPT ![r] = q] /\ q \in B!Asks /\ q.at = "over"
      BY <1>4, <2>1, <2>2, BlankIsAsk DEF B!FailRun, B!Ends
    <2>4. v9'[r] = q /\ \A x \in Restores : x # r => v9'[x] = v9[x]
      BY <2>3 DEF B!BackupsTyped
    <2>5. \A x \in Restores : B!AskInv(v9[x])'
      BY <1>1, <2>3, <2>4 DEF B!BackupsInv, B!AskInv
    <2>6. B!BackupsTyped'
      BY <1>1, <2>3 DEF B!BackupsTyped
    <2> QED
      BY <1>2, <2>5, <2>6 DEF B!BackupsInv
  <1> QED
    BY <1>3, <1>4

LEMMA CrashKeeps ==
    ASSUME B!BackupsTyped, B!BackupsInv, B!Crash
    PROVE  B!BackupsTyped' /\ B!BackupsInv'
  <1>1. PICK q : q = [B!Blank EXCEPT !.at = "over"]
    OBVIOUS
  <1>2. /\ v9' = [r \in Restores |-> IF v9[r].at = "idle" THEN v9[r] ELSE q]
        /\ UNCHANGED <<v1, v2, v3, v5, v6, v8, v11>>
    BY <1>1 DEF B!Crash
  <1>3. q \in B!Asks /\ q.at = "over"
    BY <1>1, BlankIsAsk
  <1>4. \A x \in Restores : v9'[x] \in B!Asks /\ v9'[x].at \in {"idle", "over"}
    BY <1>2, <1>3 DEF B!BackupsTyped
  <1>5. CASE v7 = None
    <2>1. v7' = None
      BY <1>5 DEF B!Crash
    <2> QED
      BY <1>2, <1>4, <2>1 DEF B!BackupsTyped, B!BackupsInv, B!SnapsInv, B!RunsInv, B!AskInv
  <1>6. CASE v7 # None
    <2>1. v7' = [v7 EXCEPT !.r = None] /\ v7 \in [r : Restores \cup {None}, started : B!Times]
      BY <1>6 DEF B!Crash, B!BackupsTyped
    <2>2. v7' \in [r : Restores \cup {None}, started : B!Times] /\ v7'.r = None /\ v7'.started = v7.started
      BY <2>1
    <2> QED
      BY <1>2, <1>4, <1>6, <2>2 DEF B!BackupsTyped, B!BackupsInv, B!SnapsInv, B!RunsInv, B!AskInv
  <1> QED
    BY <1>5, <1>6

(***************************************************************************)
(* The site changes; what was taken of it stays what it was.               *)
(***************************************************************************)

\* Requests and runs are none the worse for time and snapshots.
LEMMA AskersWait ==
    ASSUME B!BackupsTyped, B!BackupsInv, UNCHANGED <<v7, v8, v9>>, v5 \subseteq v5', v11' \in B!Times, v11 <= v11'
    PROVE  B!RunsInv' /\ \A r \in Restores : B!AskInv(v9[r])'
  <1>1. v11 \in Nat /\ v11' \in Nat /\ (v7 # None => v7.started \in Nat)
    BY DEF B!BackupsTyped, B!Times
  <1>2. B!RunsInv'
    BY <1>1 DEF B!BackupsInv, B!RunsInv
  <1>3. \A r \in Restores : B!AskInv(v9[r])'
    BY <1>1 DEF B!BackupsInv, B!AskInv, B!BackupsTyped, B!Asks
  <1> QED
    BY <1>2, <1>3

LEMMA SiteChangesKeep ==
    ASSUME B!BackupsTyped, B!BackupsInv,
           \/ B!Nightly \/ B!IndexNow \/ B!Write \/ B!RotatePassword \/ B!SwitchType \/ B!StartOrStop \/ B!LosePlan
           \/ \E p \in Some : B!Transfer(p) \/ B!RemoveAdmin(p)
    PROVE  B!BackupsTyped' /\ B!BackupsInv'
  <1> USE DEF B!agent, B!NoTick
  <1>0. /\ v11 \in Nat /\ v11 <= v11 /\ v11 \in B!Times /\ v1 \in B!Metas /\ v3 \in Nat /\ v1.since \in Nat
        /\ \A s \in v5 : s.at \in Nat
    BY DEF B!BackupsTyped, B!Times, B!Metas, B!Snaps
  <1>1. CASE B!Nightly
    <2>1. v11' = v11 + 1 /\ v11' \in B!Times /\ UNCHANGED <<v1, v2, v3, v6, v7, v8, v9>>
      BY <1>1, TimeGoes DEF B!Nightly
    <2>2. PICK s : s = B!Snap(v11')
      OBVIOUS
    <2>3. v5' = v5 \cup {s}
      BY <1>1, <2>2 DEF B!Nightly
    <2>4. s \in B!Snaps /\ s.at = v11' /\ s.tenure = v1.since /\ s.files = v2
      BY <2>1, <2>2 DEF B!BackupsTyped, B!Snap, B!Snaps, B!Metas
    <2>5. B!SnapsInv'
      BY <1>0, <2>1, <2>3, <2>4 DEF B!BackupsInv, B!SnapsInv
    <2>6. B!BackupsTyped'
      BY <2>1, <2>3, <2>4 DEF B!BackupsTyped
    <2>7. v11 <= v11'
      BY <1>0, <2>1
    <2> QED
      BY <2>1, <2>3, <2>5, <2>6, <2>7, AskersWait DEF B!BackupsInv
  <1>2. CASE B!IndexNow
    <2>1. UNCHANGED <<v1, v2, v3, v5, v7, v8, v9, v11>> /\ v6' \subseteq v5
      BY <1>2 DEF B!IndexNow
    <2>2. B!BackupsTyped' /\ B!SnapsInv'
      BY <2>1 DEF B!BackupsTyped, B!BackupsInv, B!SnapsInv
    <2> QED
      BY <1>0, <2>1, <2>2, AskersWait DEF B!BackupsInv
  <1>3. CASE B!Write
    <2>1. v11' = v11 + 1 /\ v11' \in B!Times /\ v2' = v11' /\ v3' = v11' /\ UNCHANGED <<v1, v5, v6, v7, v8, v9>>
      BY <1>3, TimeGoes DEF B!Write
    <2>2. B!SnapsInv'
      BY <1>0, <2>1 DEF B!BackupsInv, B!SnapsInv
    <2>3. B!BackupsTyped'
      BY <2>1 DEF B!BackupsTyped
    <2>4. v11 <= v11'
      BY <1>0, <2>1
    <2> QED
      BY <2>1, <2>2, <2>3, <2>4, AskersWait DEF B!BackupsInv
  <1>4. ASSUME NEW p \in Some, B!Transfer(p)
        PROVE  B!BackupsTyped' /\ B!BackupsInv'
    <2>1. v11' = v11 + 1 /\ v11' \in B!Times /\ UNCHANGED <<v2, v3, v5, v6, v7, v8, v9>>
      BY <1>4, TimeGoes DEF B!Transfer
    <2>2. v1' \in B!Metas /\ v1'.since = v11'
      <3>1. PICK n \in Nat : n = v1.password + 1
        BY <1>0 DEF B!Metas
      <3>2. v1' = [v1 EXCEPT !.owner = p, !.since = v11', !.admins = {}, !.password = n]
        BY <1>4, <2>1, <3>1 DEF B!Transfer
      <3> QED
        BY <1>0, <2>1, <3>2 DEF B!Metas
    <2>3. B!SnapsInv'
      BY <1>0, <2>1, <2>2 DEF B!BackupsInv, B!SnapsInv
    <2>4. B!BackupsTyped'
      BY <2>1, <2>2 DEF B!BackupsTyped
    <2>5. v11 <= v11'
      BY <1>0, <2>1
    <2> QED
      BY <2>1, <2>3, <2>4, <2>5, AskersWait DEF B!BackupsInv
  <1>5. ASSUME UNCHANGED <<v2, v3, v5, v6, v7, v8, v9, v11>>, v1' \in B!Metas, v1'.since = v1.since
        PROVE  B!BackupsTyped' /\ B!BackupsInv'
    <2>1. B!BackupsTyped' /\ B!SnapsInv'
      BY <1>5 DEF B!BackupsTyped, B!BackupsInv, B!SnapsInv
    <2> QED
      BY <1>0, <1>5, <2>1, AskersWait DEF B!BackupsInv
  <1>6. ASSUME NEW p \in Some, B!RemoveAdmin(p)
        PROVE  B!BackupsTyped' /\ B!BackupsInv'
    <2>1. v1' \in B!Metas /\ v1'.since = v1.since
      BY <1>0, <1>6 DEF B!RemoveAdmin, B!Metas
    <2> QED
      BY <1>5, <1>6, <2>1 DEF B!RemoveAdmin
  <1>7. CASE B!RotatePassword
    <2>1. v1' \in B!Metas /\ v1'.since = v1.since
      <3>1. PICK n \in Nat : n = v1.password + 1
        BY <1>0 DEF B!Metas
      <3>2. v1' = [v1 EXCEPT !.password = n]
        BY <1>7, <3>1 DEF B!RotatePassword
      <3> QED
        BY <1>0, <3>2 DEF B!Metas
    <2> QED
      BY <1>5, <1>7, <2>1 DEF B!RotatePassword
  <1>8. CASE B!SwitchType
    <2>1. v1' \in B!Metas /\ v1'.since = v1.since
      BY <1>0, <1>8 DEF B!SwitchType, B!Metas
    <2> QED
      BY <1>5, <1>8, <2>1 DEF B!SwitchType
  <1>9. CASE B!StartOrStop
    <2>1. v1' \in B!Metas /\ v1'.since = v1.since
      BY <1>0, <1>9 DEF B!StartOrStop, B!Metas
    <2> QED
      BY <1>5, <1>9, <2>1 DEF B!StartOrStop
  <1>10. CASE B!LosePlan
    BY <1>0, <1>5, <1>10 DEF B!LosePlan
  <1> QED
    BY <1>1, <1>2, <1>3, <1>4, <1>6, <1>7, <1>8, <1>9, <1>10

LEMMA BackupsGoOn == BackupsGood /\ [Next]_slots => BackupsGood'
  <1> SUFFICES ASSUME BackupsGood, [Next]_slots, which' = "backups" PROVE B!BackupsTyped' /\ B!BackupsInv'
    BY DEF BackupsGood
  <1>1. which = "backups" /\ [B!BackupsNext]_(B!bvars)
    BY DEF Next, slots, B!bvars, B!agent
  <1>2. B!BackupsTyped /\ B!BackupsInv
    BY <1>1 DEF BackupsGood
  <1>3. CASE UNCHANGED B!bvars
    BY <1>2, <1>3 DEF B!bvars, B!agent, B!BackupsTyped, B!BackupsInv, B!SnapsInv, B!RunsInv, B!AskInv
  <1>4. CASE B!BackupsNext
    BY <1>2, <1>4, RestoreKeeps, AskingKeeps, SharedKeeps, CheckStagedKeeps, RequestsKeep, RunStarts, RunEnds,
       RunFails, CrashKeeps, SiteChangesKeep DEF B!BackupsNext
  <1> QED
    BY <1>1, <1>3, <1>4

\* Only the commit commits, on the check made with it.
LEMMA OnlyCommit ==
    ASSUME B!BackupsTyped, B!BackupsInv, [B!BackupsNext]_(B!bvars), NEW r \in Restores, B!Commits(r)
    PROVE  B!StillFits(r)
  <1>1. v9[r].at = "stopped" /\ v9'[r].at = "committed"
    BY DEF B!Commits
  <1>2. v9' # v9
    BY <1>1
  <1>3. ASSUME NEW x \in Restores, NEW q, v9' = [v9 EXCEPT ![x] = q] PROVE x = r /\ q.at = "committed"
    BY <1>1, <1>3 DEF B!BackupsTyped
  <1>4. ASSUME NEW x \in Restores, NEW from, NEW to, B!Step(x, from, to)
        PROVE  x = r /\ to = "committed" /\ from = "stopped"
    <2>1. v9[x] \in B!Asks
      BY DEF B!BackupsTyped
    <2>2. x = r /\ [v9[x] EXCEPT !.at = to].at = "committed" /\ v9[x].at = from
      BY <1>3, <1>4 DEF B!Step
    <2> QED
      BY <1>1, <2>1, <2>2 DEF B!Asks
  <1>5. ASSUME NEW x \in Restores PROVE ~B!Ends(x)
    <2>1. PICK q : q = [B!Blank EXCEPT !.at = "over"]
      OBVIOUS
    <2>2. q.at = "over"
      BY <2>1 DEF B!Blank
    <2>3. ~(v9' = [v9 EXCEPT ![x] = q])
      BY <1>3, <2>2
    <2> QED
      BY <2>1, <2>3 DEF B!Ends
  <1>6. ASSUME NEW x \in Restores, B!Commit(x) PROVE x = r /\ B!StillFits(r)
    BY <1>4, <1>6 DEF B!Commit, B!Guard
  <1>7. ASSUME NEW x \in Restores,
               B!CheckTaken(x) \/ B!Stage(x) \/ B!FailStage(x) \/ B!MarkStopped(x) \/ B!StopProject(x)
               \/ B!NoCommit(x) \/ B!StartAgain(x)
        PROVE  FALSE
    BY <1>4, <1>5, <1>7 DEF B!CheckTaken, B!Stage, B!FailStage, B!MarkStopped, B!StopProject, B!NoCommit, B!StartAgain
  <1>8. ASSUME NEW x \in Restores, NEW f, NEW y, v9' = [v9 EXCEPT ![x].at = f, ![x].asked = y] PROVE f = "committed"
    BY <1>1, <1>8 DEF B!BackupsTyped, B!Asks
  <1>9. ASSUME NEW x \in Restores, NEW f, NEW y, v9' = [v9 EXCEPT ![x].at = f, ![x].taken = y] PROVE f = "committed"
    BY <1>1, <1>9 DEF B!BackupsTyped, B!Asks
  <1>10. ASSUME NEW x \in Restores, NEW f, NEW y, v9' = [v9 EXCEPT ![x].at = f, ![x].restart = y] PROVE f = "committed"
    BY <1>1, <1>10 DEF B!BackupsTyped, B!Asks
  <1>11. ASSUME NEW x \in Restores, B!AskBackup(x) \/ B!Shared(x) \/ B!CheckStaged(x) PROVE FALSE
    <2>1. ~B!AskBackup(x)
      BY <1>8 DEF B!AskBackup
    <2>2. ~B!Shared(x)
      BY <1>9 DEF B!Shared
    <2>3. ~B!CheckStaged(x)
      BY <1>5, <1>10 DEF B!CheckStaged
    <2> QED
      BY <1>11, <2>1, <2>2, <2>3
  <1>12. ASSUME NEW x \in Restores, NEW p \in Some, NEW role \in B!Roles, NEW s \in v5, B!Restore(x, p, role, s)
         PROVE  FALSE
    <2>1. PICK q : q = [B!Blank EXCEPT !.at = "claimed", !.who = p, !.role = role, !.was = v1, !.version = s]
      OBVIOUS
    <2>2. q.at = "claimed" /\ v9' = [v9 EXCEPT ![x] = q]
      BY <1>12, <2>1 DEF B!Restore, B!Blank
    <2> QED
      BY <1>3, <2>2
  <1>13. ASSUME NEW x \in Restores \cup {None}, B!StartRun(x) PROVE FALSE
    BY <1>2, <1>4, <1>13 DEF B!StartRun
  <1>14. ~B!EndRun
    <2>1. ASSUME B!EndRun PROVE FALSE
      <3>1. v7.r # None /\ v7.r \in Restores
        BY <1>2, <2>1 DEF B!EndRun, B!BackupsTyped
      <3>2. PICK s : s = B!Snap(v7.started)
        OBVIOUS
      <3>3. v9' = [v9 EXCEPT ![v7.r].at = "taken", ![v7.r].taken = s]
        BY <2>1, <3>1, <3>2 DEF B!EndRun
      <3> QED
        BY <1>9, <3>1, <3>3
    <2> QED
      BY <2>1
  <1>15. ~B!FailRun
    <2>1. B!FailRun => v7 # None /\ (v7.r # None => B!Ends(v7.r))
      BY <1>2 DEF B!FailRun
    <2> QED
      BY <1>2, <1>5, <2>1 DEF B!FailRun, B!BackupsTyped
  <1>16. ~B!Crash
    <2>1. B!Crash => v9'[r] = [B!Blank EXCEPT !.at = "over"]
      BY <1>1 DEF B!Crash
    <2>2. [B!Blank EXCEPT !.at = "over"].at = "over"
      BY DEF B!Blank
    <2> QED
      BY <1>1, <2>1, <2>2
  <1>17. ~(B!Nightly \/ B!IndexNow \/ B!Write \/ B!RotatePassword \/ B!SwitchType \/ B!StartOrStop \/ B!LosePlan
           \/ \E p \in Some : B!Transfer(p) \/ B!RemoveAdmin(p))
    BY <1>2 DEF B!Nightly, B!IndexNow, B!Write, B!RotatePassword, B!SwitchType, B!StartOrStop, B!LosePlan,
                B!Transfer, B!RemoveAdmin
  <1>18. B!BackupsNext
    BY <1>2 DEF B!bvars
  <1> QED
    BY <1>6, <1>7, <1>11, <1>12, <1>13, <1>14, <1>15, <1>16, <1>17, <1>18 DEF B!BackupsNext

\* Of any restores, people and events, however the site changes hands, type,
\* admins, password and files while one runs, and wherever the server stops: what
\* is put in place is the owner's own, asked for by somebody who still manages the
\* site, and what it replaces is in a snapshot or was written since it asked.
THEOREM RestoresHold == Spec => RestoresStand
  <1>1. BackupsGood /\ [Next]_slots => [which = "backups" => B!RestoreStands /\ B!RestoreCanBeUndone]_slots
    <2> SUFFICES ASSUME BackupsGood, Next, which = "backups", NEW r \in Restores, B!Commits(r)
                 PROVE  /\ B!Manages(v1, v9[r].who, v9[r].role, v9[r].was.password)
                        /\ v9[r].version.container = v1.container
                        /\ v9[r].version.tenure = v1.since
                        /\ v3 >= v9[r].asked \/ v9[r].taken.files = v2
      BY DEF B!RestoreStands, B!RestoreCanBeUndone
    <2>1. B!BackupsTyped /\ B!BackupsInv /\ [B!BackupsNext]_(B!bvars)
      BY DEF BackupsGood, Next
    <2>2. B!StillFits(r)
      BY <2>1, OnlyCommit
    <2>3. v9[r].at = "stopped" /\ B!AskInv(v9[r])
      BY <2>1 DEF B!Commits, B!BackupsInv
    <2>4. v9[r].version.tenure = v1.since
      BY <2>2, <2>3 DEF B!StillFits, B!AskInv
    <2>5. v9[r].taken \in v5 /\ v9[r].taken.at >= v9[r].asked
      BY <2>3 DEF B!AskInv
    <2>6. v3 \in Nat /\ v9[r].asked \in Nat /\ v9[r].taken.at \in Nat
      BY <2>1, <2>5 DEF B!BackupsTyped, B!Asks, B!Snaps, B!Times
    <2>7. v3 >= v9[r].taken.at \/ v9[r].taken.files = v2
      BY <2>1, <2>5 DEF B!BackupsInv, B!SnapsInv
    <2> QED
      BY <2>2, <2>4, <2>5, <2>6, <2>7 DEF B!StillFits
  <1> QED
    BY <1>1, BackupsBegin, BackupsGoOn, PTL DEF Spec, RestoresStand

(***************************************************************************)
(* Tags.                                                                   *)
(***************************************************************************)

TagsGood == which = "tags" => G!TagsTyped /\ G!TagsInv

LEMMA TagsBegin == Init => TagsGood
  <1> SUFFICES ASSUME G!TagsInit PROVE G!TagsTyped /\ G!TagsInv
    BY DEF Init, TagsGood
  <1> USE DEF G!TagsInit
  <1>1. v3 \in G!Labels
    BY DEF G!Labels
  <1>2. \A f \in Others : v7[f].op = "none"
    BY DEF G!NoForm
  <1>3. G!TagsTyped
    BY <1>1 DEF G!TagsTyped, G!Singles
  <1>4. G!TagsInv
    BY <1>2 DEF G!TagsInv, G!WalksInv, G!Account
  <1> QED
    BY <1>3, <1>4

LEMMA WalksAreWalks ==
    ASSUME G!TagsTyped, NEW f \in Others, G!Account(f)
    PROVE  v7[f] \in G!Walks
  BY DEF G!TagsTyped, G!Account, G!Singles, G!NoForm

\* One form becomes something else: no walk, or one that has all its sites before it.
LEMMA FormTurns ==
    ASSUME G!TagsTyped, G!TagsInv, NEW f \in Others, NEW q \in G!Walks \cup G!Singles,
           v7' = [v7 EXCEPT ![f] = q], UNCHANGED <<v1, v3, v8>>,
           q \in G!Walks => /\ q.op = "rename" => q.key # q.to
                            /\ \A s \in v1 : q.key \in v3[s] => s \in q.todo
    PROVE  G!TagsTyped' /\ G!TagsInv'
  <1>1. v7'[f] = q /\ \A g \in Others : g # f => v7'[g] = v7[g]
    BY DEF G!TagsTyped
  <1>2. G!TagsTyped'
    BY DEF G!TagsTyped
  <1>3. ASSUME NEW g \in Others, G!Account(g)'
        PROVE  /\ v7'[g].op = "rename" => v7'[g].key # v7'[g].to
               /\ \A s \in v1 : v7'[g].key \in v3[s] => s \in v7'[g].todo \cup v7'[g].left \cup v7'[g].late
    <2>1. CASE g = f
      <3>1. q \in G!Walks
        BY <1>1, <1>3, <2>1 DEF G!Account, G!Singles, G!NoForm
      <3> QED
        BY <1>1, <2>1, <3>1
    <2>2. CASE g # f
      BY <1>1, <1>3, <2>2 DEF G!TagsInv, G!WalksInv, G!Account
    <2> QED
      BY <2>1, <2>2
  <1> QED
    BY <1>2, <1>3 DEF G!TagsInv, G!WalksInv

\* Labels go, or are on sites that are not the account's.
LEMMA LabelsGo ==
    ASSUME G!TagsTyped, G!TagsInv, UNCHANGED v7, v3' \in G!Labels, v8' = v3', v1' \subseteq Some,
           \A s \in v1' : v3'[s] \subseteq v3[s] /\ (s \in v1 \/ v3'[s] = {})
    PROVE  G!TagsTyped' /\ G!TagsInv'
  <1>1. G!TagsTyped'
    BY DEF G!TagsTyped
  <1>2. G!TagsInv'
    BY DEF G!TagsInv, G!WalksInv, G!Account
  <1> QED
    BY <1>1, <1>2

LEMMA PutOnKeeps ==
    ASSUME NEW fs \in [Others -> G!Walks \cup G!Singles], \A g \in Others : G!Account(g) => fs[g] \in G!Walks,
           NEW s \in Some, NEW k, NEW p, p = G!PutOn(fs, s, k)
    PROVE  /\ p \in [Others -> G!Walks \cup G!Singles]
           /\ \A g \in Others :
                 /\ ~(G!Account(g) /\ v7[g].key = k) => p[g] = fs[g]
                 /\ G!Account(g) /\ v7[g].key = k =>
                       /\ p[g] \in G!Walks /\ p[g].op = fs[g].op /\ p[g].key = fs[g].key /\ p[g].to = fs[g].to
                       /\ p[g].todo = fs[g].todo /\ p[g].left = fs[g].left /\ p[g].late = fs[g].late \cup {s}
  <1>1. ASSUME NEW w \in G!Walks
        PROVE  LET u == [w EXCEPT !.late = w.late \cup {s}] IN
               /\ u \in G!Walks /\ u.op = w.op /\ u.key = w.key /\ u.to = w.to
               /\ u.todo = w.todo /\ u.left = w.left /\ u.late = w.late \cup {s}
    BY <1>1 DEF G!Walks
  <1>2. ASSUME NEW g \in Others
        PROVE  p[g] = IF G!Account(g) /\ v7[g].key = k THEN [fs[g] EXCEPT !.late = fs[g].late \cup {s}] ELSE fs[g]
    BY DEF G!PutOn
  <1>3. p = [g \in Others |-> p[g]]
    BY DEF G!PutOn
  <1>4. ASSUME NEW g \in Others, G!Account(g), v7[g].key = k
        PROVE  /\ p[g] \in G!Walks /\ p[g].op = fs[g].op /\ p[g].key = fs[g].key /\ p[g].to = fs[g].to
               /\ p[g].todo = fs[g].todo /\ p[g].left = fs[g].left /\ p[g].late = fs[g].late \cup {s}
    BY ZenonT(30), <1>1, <1>2, <1>4
  <1>5. \A g \in Others : p[g] \in G!Walks \cup G!Singles
    BY <1>2, <1>4
  <1> QED
    BY <1>2, <1>3, <1>4, <1>5

\* Every walk notes a label put on meanwhile.
LEMMA AddKeepsTags ==
    ASSUME G!TagsTyped, G!TagsInv, NEW f \in Others, G!Add(f)
    PROVE  G!TagsTyped' /\ G!TagsInv'
  <1>1. PICK s, k : s = v7[f].site /\ k = v7[f].key
    OBVIOUS
  <1>2. v7[f] \in [op : {"add", "register"}, site : Some, key : TagKeys, group : TagGroups \cup {None}]
    BY DEF G!Add, G!TagsTyped, G!Walks, G!Singles, G!NoForm
  <1>3. s \in Some /\ k \in TagKeys /\ ~G!Account(f) /\ v7[f].op = "add"
    BY <1>1, <1>2 DEF G!Account, G!Add
  <1>4. PICK refused : refused = (s \notin v1 \/ s \in v2 \/ G!Cardinality(v3[s] \cup {k}) > TagsPerSite)
    OBVIOUS
  <1>5. PICK q : q = IF refused \/ v7[f].group = None THEN G!NoForm ELSE [v7[f] EXCEPT !.op = "register"]
    OBVIOUS
  <1>6. PICK fs : fs = [v7 EXCEPT ![f] = q]
    OBVIOUS
  <1>7. q \in G!Singles /\ q \notin G!Walks
    <2>1. CASE q = G!NoForm
      BY <2>1 DEF G!NoForm, G!Singles, G!Walks
    <2>2. CASE q = [v7[f] EXCEPT !.op = "register"]
      <3>1. q \in [op : {"add", "register"}, site : Some, key : TagKeys, group : TagGroups \cup {None}] /\ q.op = "register"
        BY <1>2, <2>2
      <3> QED
        BY <3>1 DEF G!Singles, G!Walks
    <2> QED
      BY <1>5, <2>1, <2>2
  <1>8. /\ v3' = IF refused THEN v3 ELSE [v3 EXCEPT ![s] = v3[s] \cup {k}]
        /\ v8' = IF refused THEN v8 ELSE [v8 EXCEPT ![s] = v8[s] \cup {k}]
        /\ v7' = IF refused THEN fs ELSE G!PutOn(fs, s, k)
        /\ v1' = v1
    BY <1>1, <1>4, <1>5, <1>6 DEF G!Add
  <1>9. CASE refused
    BY <1>6, <1>7, <1>8, <1>9, FormTurns
  <1>10. CASE ~refused
    <2>1. v3 = v8 /\ v3 \in G!Labels
      BY DEF G!TagsInv, G!TagsTyped
    <2>2. v3' = v8' /\ v3' \in G!Labels /\ v3'[s] = v3[s] \cup {k} /\ \A t \in Some : t # s => v3'[t] = v3[t]
      BY <1>3, <1>8, <1>10, <2>1 DEF G!Labels
    <2>3. fs \in [Others -> G!Walks \cup G!Singles] /\ fs[f] = q /\ \A g \in Others : g # f => fs[g] = v7[g]
      BY <1>6, <1>7 DEF G!TagsTyped
    <2>4. \A g \in Others : G!Account(g) => fs[g] \in G!Walks
      BY <1>3, <2>3, WalksAreWalks
    <2>5. /\ v7' \in [Others -> G!Walks \cup G!Singles]
          /\ \A g \in Others :
                 /\ ~(G!Account(g) /\ v7[g].key = k) => v7'[g] = fs[g]
                 /\ G!Account(g) /\ v7[g].key = k =>
                       /\ v7'[g] \in G!Walks /\ v7'[g].op = fs[g].op /\ v7'[g].key = fs[g].key /\ v7'[g].to = fs[g].to
                       /\ v7'[g].todo = fs[g].todo /\ v7'[g].left = fs[g].left /\ v7'[g].late = fs[g].late \cup {s}
      <3>1. PICK p : p = G!PutOn(fs, s, k)
        OBVIOUS
      <3> QED
        BY <1>3, <1>8, <1>10, <2>3, <2>4, <3>1, PutOnKeeps
    <2>6. G!TagsTyped'
      BY <1>8, <2>2, <2>5 DEF G!TagsTyped
    <2>7. ASSUME NEW g \in Others, G!Account(g)'
          PROVE  /\ v7'[g].op = "rename" => v7'[g].key # v7'[g].to
                 /\ \A t \in v1 : v7'[g].key \in v3'[t] => t \in v7'[g].todo \cup v7'[g].left \cup v7'[g].late
      <3>1. g # f
        <4>1. CASE g = f
          <5>1. v7'[g] = q /\ q.op \notin {"rename", "delete"}
            BY <1>3, <1>7, <2>3, <2>5, <4>1 DEF G!Singles, G!NoForm
          <5> QED
            BY <2>7, <5>1 DEF G!Account
        <4> QED
          BY <4>1
      <3>2. G!Account(g) /\ fs[g] = v7[g]
        BY <2>3, <2>5, <2>7, <3>1 DEF G!Account
      <3>3. /\ v7[g].op = "rename" => v7[g].key # v7[g].to
            /\ \A t \in v1 : v7[g].key \in v3[t] => t \in v7[g].todo \cup v7[g].left \cup v7[g].late
        BY <3>2 DEF G!TagsInv, G!WalksInv
      <3>4. CASE v7[g].key = k
        BY <2>2, <2>5, <3>2, <3>3, <3>4 DEF G!TagsTyped
      <3>5. CASE v7[g].key # k
        BY <2>2, <2>5, <3>2, <3>3, <3>5 DEF G!TagsTyped
      <3> QED
        BY <3>4, <3>5
    <2> QED
      BY <1>8, <2>2, <2>6, <2>7 DEF G!TagsInv, G!WalksInv
  <1> QED
    BY <1>9, <1>10

\* A site that is walked does not carry the old tag any more, or is left, or
\* is not the account's; who walks for the new tag notes it.
LEMMA RetagKeepsTags ==
    ASSUME G!TagsTyped, G!TagsInv, NEW f \in Others, NEW s \in Some, G!Retag(f, s)
    PROVE  G!TagsTyped' /\ G!TagsInv'
  <1>1. G!Account(f) /\ v7[f] \in G!Walks /\ s \in v7[f].todo
    BY WalksAreWalks DEF G!Retag
  <1>2. PICK takes \in BOOLEAN :
           /\ takes => s \in v1
           /\ v3' = IF takes THEN [v3 EXCEPT ![s] = G!Edited(f, v3[s])] ELSE v3
           /\ v8' = IF takes THEN [v8 EXCEPT ![s] = G!Edited(f, v8[s])] ELSE v8
           /\ \E next :
                 /\ next = [v7 EXCEPT ![f].todo = v7[f].todo \ {s},
                                      ![f].left = IF s \in v1 /\ ~takes THEN v7[f].left \cup {s} ELSE v7[f].left]
                 /\ v7' = IF v7[f].to \in v3'[s] \ v3[s] THEN G!PutOn(next, s, v7[f].to) ELSE next
    BY DEF G!Retag
  <1>3. PICK q : q = [v7[f] EXCEPT !.todo = v7[f].todo \ {s},
                                   !.left = IF s \in v1 /\ ~takes THEN v7[f].left \cup {s} ELSE v7[f].left]
    OBVIOUS
  <1>4. /\ q \in G!Walks /\ q.op = v7[f].op /\ q.key = v7[f].key /\ q.to = v7[f].to /\ q.late = v7[f].late
        /\ q.todo = v7[f].todo \ {s}
        /\ q.left = IF s \in v1 /\ ~takes THEN v7[f].left \cup {s} ELSE v7[f].left
    BY <1>1, <1>3 DEF G!Walks
  <1>5. PICK fs :
           /\ fs = [v7 EXCEPT ![f].todo = v7[f].todo \ {s},
                              ![f].left = IF s \in v1 /\ ~takes THEN v7[f].left \cup {s} ELSE v7[f].left]
           /\ v7' = IF v7[f].to \in v3'[s] \ v3[s] THEN G!PutOn(fs, s, v7[f].to) ELSE fs
    BY <1>2
  <1>6. v7' = (IF v7[f].to \in v3'[s] \ v3[s] THEN G!PutOn(fs, s, v7[f].to) ELSE fs) /\ v1' = v1
    BY <1>5 DEF G!Retag
  <1>7. fs \in [Others -> G!Walks \cup G!Singles] /\ fs[f] = q /\ \A g \in Others : g # f => fs[g] = v7[g]
    <2>1. fs = [v7 EXCEPT ![f] = q]
      BY <1>1, <1>3, <1>5 DEF G!TagsTyped, G!Walks
    <2> QED
      BY <1>4, <2>1 DEF G!TagsTyped
  <1>8. \A g \in Others : G!Account(g) => fs[g] \in G!Walks
    BY <1>4, <1>7, WalksAreWalks
  <1>9. PICK e : e = G!Edited(f, v3[s])
    OBVIOUS
  <1>10. /\ v3 = v8 /\ v3 \in G!Labels /\ v7[f].key \in TagKeys /\ v7[f].to \in TagKeys
         /\ v7[f].op = "rename" => v7[f].key # v7[f].to
    BY <1>1 DEF G!TagsInv, G!TagsTyped, G!WalksInv, G!Walks
  <1>11. /\ e \subseteq TagKeys /\ v7[f].key \notin e
         /\ e \subseteq v3[s] \cup {v7[f].to} /\ (v7[f].op = "delete" => e \subseteq v3[s])
    BY <1>9, <1>10 DEF G!Edited, G!Labels
  <1>12. /\ v3' = v8' /\ v3' \in G!Labels /\ v3'[s] = (IF takes THEN e ELSE v3[s])
         /\ \A t \in Some : t # s => v3'[t] = v3[t]
    BY <1>2, <1>9, <1>10, <1>11 DEF G!Labels
  <1>13. /\ v7' \in [Others -> G!Walks \cup G!Singles]
         /\ \A g \in Others :
               \/ v7'[g] = fs[g] /\ ~(v7[f].to \in v3'[s] \ v3[s] /\ G!Account(g) /\ v7[g].key = v7[f].to)
               \/ /\ G!Account(g) /\ v7'[g] \in G!Walks /\ v7'[g].op = fs[g].op /\ v7'[g].key = fs[g].key
                  /\ v7'[g].to = fs[g].to /\ v7'[g].todo = fs[g].todo /\ v7'[g].left = fs[g].left
                  /\ v7'[g].late = fs[g].late \cup {s}
    <2>1. CASE v7[f].to \in v3'[s] \ v3[s]
      <3>1. PICK p, k : p = G!PutOn(fs, s, k) /\ k = v7[f].to
        OBVIOUS
      <3>2. v7' = p
        BY <1>6, <2>1, <3>1
      <3>3. /\ p \in [Others -> G!Walks \cup G!Singles]
            /\ \A g \in Others :
                 /\ ~(G!Account(g) /\ v7[g].key = k) => p[g] = fs[g]
                 /\ G!Account(g) /\ v7[g].key = k =>
                       /\ p[g] \in G!Walks /\ p[g].op = fs[g].op /\ p[g].key = fs[g].key /\ p[g].to = fs[g].to
                       /\ p[g].todo = fs[g].todo /\ p[g].left = fs[g].left /\ p[g].late = fs[g].late \cup {s}
        BY <1>7, <1>8, <3>1, PutOnKeeps
      <3> QED
        BY <3>1, <3>2, <3>3
    <2>2. CASE ~(v7[f].to \in v3'[s] \ v3[s])
      BY <1>6, <1>7, <2>2
    <2> QED
      BY <2>1, <2>2
  <1>14. G!TagsTyped'
    BY <1>6, <1>12, <1>13 DEF G!TagsTyped
  <1>15. ASSUME NEW g \in Others, G!Account(g)'
         PROVE  /\ v7'[g].op = "rename" => v7'[g].key # v7'[g].to
                /\ \A t \in v1 : v7'[g].key \in v3'[t] => t \in v7'[g].todo \cup v7'[g].left \cup v7'[g].late
    <2>0. G!Account(g) /\ v7'[g].op = v7[g].op /\ v7'[g].key = v7[g].key /\ v7'[g].to = v7[g].to
      BY <1>4, <1>7, <1>13, <1>15 DEF G!Account
    <2>1. /\ v7[g].op = "rename" => v7[g].key # v7[g].to
          /\ \A t \in v1 : v7[g].key \in v3[t] => t \in v7[g].todo \cup v7[g].left \cup v7[g].late
      BY <2>0 DEF G!TagsInv, G!WalksInv
    <2>2. /\ fs[g].todo \subseteq v7'[g].todo /\ fs[g].left \subseteq v7'[g].left /\ fs[g].late \subseteq v7'[g].late
          /\ v7[f].to \in v3'[s] \ v3[s] /\ v7[g].key = v7[f].to => s \in v7'[g].late
      BY <1>13, <2>0
    <2>3. ASSUME NEW t \in v1, v7[g].key \in v3'[t]
          PROVE  t \in v7'[g].todo \cup v7'[g].left \cup v7'[g].late
      <3>1. CASE t # s
        <4>1. t \in v7[g].todo \cup v7[g].left \cup v7[g].late
          BY <1>12, <2>1, <2>3, <3>1 DEF G!TagsTyped
        <4> QED
          BY <1>4, <1>7, <2>2, <3>1, <4>1
      <3>2. CASE t = s /\ g = f
        <4>1. ~takes
          BY <1>11, <1>12, <2>3, <3>2
        <4> QED
          BY <1>4, <1>7, <2>2, <2>3, <3>2, <4>1
      <3>3. CASE t = s /\ g # f
        <4>1. CASE v7[g].key \in v3[s]
          BY <1>7, <2>1, <2>2, <2>3, <3>3, <4>1
        <4>2. CASE v7[g].key \notin v3[s]
          BY <1>11, <1>12, <2>2, <2>3, <3>3, <4>2
        <4> QED
          BY <4>1, <4>2
      <3> QED
        BY <3>1, <3>2, <3>3
    <2> QED
      BY <2>0, <2>1, <2>3
  <1> QED
    BY <1>6, <1>12, <1>14, <1>15 DEF G!TagsInv, G!WalksInv

LEMMA AsksKeepTags ==
    ASSUME G!TagsTyped, G!TagsInv, NEW f \in Others, NEW k \in TagKeys,
           \/ \E s \in Some, g \in TagGroups \cup {None} : G!AskAdd(f, s, k, g)
           \/ \E adds \in BOOLEAN : G!AskAdmin(f, k, adds)
           \/ \E g \in TagGroups \cup {None} : G!AskGroup(f, k, g)
           \/ \E to \in TagKeys, confirmed \in BOOLEAN : G!AskRename(f, k, to, confirmed)
           \/ G!AskDelete(f, k),
           v6 \subseteq TagKeys
    PROVE  G!TagsTyped' /\ G!TagsInv'
  <1>0. ASSUME NEW q \in G!Walks \cup G!Singles, G!Post(f, q),
               q \in G!Walks => (q.op = "rename" => q.key # q.to) /\ \A s \in v1 : q.key \in v3[s] => s \in q.todo
        PROVE  G!TagsTyped' /\ G!TagsInv'
    BY <1>0, FormTurns DEF G!Post, G!Become, G!siteVars
  <1>1. ASSUME NEW s \in Some, NEW g \in TagGroups \cup {None}, G!AskAdd(f, s, k, g)
        PROVE  G!TagsTyped' /\ G!TagsInv'
    <2>1. PICK q : q = [op |-> "add", site |-> s, key |-> k, group |-> IF G!Known(k) THEN None ELSE g]
      OBVIOUS
    <2>2. q \in G!Singles /\ q \notin G!Walks
      BY <2>1 DEF G!Singles, G!Walks
    <2> QED
      BY <1>0, <1>1, <2>1, <2>2 DEF G!AskAdd
  <1>2. ASSUME NEW adds \in BOOLEAN, G!AskAdmin(f, k, adds)
        PROVE  G!TagsTyped' /\ G!TagsInv'
    <2>1. PICK q : q = [op |-> "admin", next |-> IF adds THEN v6 \cup {k} ELSE v6 \ {k}]
      OBVIOUS
    <2>2. q \in G!Singles /\ q \notin G!Walks
      BY <2>1 DEF G!Singles, G!Walks
    <2> QED
      BY <1>0, <1>2, <2>1, <2>2 DEF G!AskAdmin
  <1>3. ASSUME NEW g \in TagGroups \cup {None}, G!AskGroup(f, k, g)
        PROVE  G!TagsTyped' /\ G!TagsInv'
    <2>0. PICK u \in BOOLEAN : u = G!InUse(k)
      BY DEF G!InUse
    <2>1. PICK q : q = [op |-> "group", key |-> k, group |-> g, used |-> u]
      OBVIOUS
    <2>2. q \in G!Singles /\ q \notin G!Walks
      BY <2>1 DEF G!Singles, G!Walks
    <2> QED
      BY <1>0, <1>3, <2>0, <2>1, <2>2 DEF G!AskGroup
  <1>4. G!Carrying(k) \subseteq Some /\ v3 \in G!Labels /\ \A s \in v1 : k \in v3[s] => s \in G!Carrying(k)
    BY DEF G!Carrying, G!TagsTyped
  <1>5. ASSUME NEW to \in TagKeys, NEW confirmed \in BOOLEAN, G!AskRename(f, k, to, confirmed)
        PROVE  G!TagsTyped' /\ G!TagsInv'
    <2>1. PICK q : q = [op |-> "rename", key |-> k, to |-> to, confirmed |-> confirmed, todo |-> G!Carrying(k),
                        listed |-> v3, left |-> {}, late |-> {}]
      OBVIOUS
    <2>2. q \in G!Walks /\ q.key = k /\ q.to = to /\ q.todo = G!Carrying(k)
      BY <1>4, <2>1 DEF G!Walks
    <2> QED
      BY <1>0, <1>4, <1>5, <2>1, <2>2 DEF G!AskRename
  <1>6. ASSUME G!AskDelete(f, k)
        PROVE  G!TagsTyped' /\ G!TagsInv'
    <2>1. PICK q : q = [op |-> "delete", key |-> k, to |-> k, confirmed |-> TRUE, todo |-> G!Carrying(k),
                        listed |-> v3, left |-> {}, late |-> {}]
      OBVIOUS
    <2>2. q \in G!Walks /\ q.key = k /\ q.op = "delete" /\ q.todo = G!Carrying(k)
      BY <1>4, <2>1 DEF G!Walks
    <2> QED
      BY <1>0, <1>4, <1>6, <2>1, <2>2 DEF G!AskDelete
  <1> QED
    BY <1>1, <1>2, <1>3, <1>5, <1>6

LEMMA FormsOfTagsEnd ==
    ASSUME G!TagsTyped, G!TagsInv, NEW f \in Others,
           G!Register(f) \/ G!SetAdminTags(f) \/ G!SetGroup(f) \/ G!WalkEnds(f)
    PROVE  G!TagsTyped' /\ G!TagsInv'
  <1>1. PICK q : q = G!NoForm
    OBVIOUS
  <1>2. q \in G!Singles /\ q \notin G!Walks
    BY <1>1 DEF G!Singles, G!NoForm, G!Walks
  <1>3. v7' = [v7 EXCEPT ![f] = q] /\ UNCHANGED <<v1, v3, v8>>
    BY <1>1 DEF G!Register, G!SetAdminTags, G!SetGroup, G!WalkEnds, G!Become, G!siteVars
  <1> QED
    BY <1>2, <1>3, FormTurns

LEMMA SitesKeepTags ==
    ASSUME G!TagsTyped, G!TagsInv,
           \/ \E s \in Some : G!Moves(s) \/ G!Lock(s) \/ \E k \in TagKeys : G!Remove(s, k) \/ G!OthersAdd(s, k)
           \/ \E g \in TagGroups : G!CreateGroup(g) \/ G!DeleteGroup(g)
           \/ G!Restart
    PROVE  G!TagsTyped' /\ G!TagsInv'
  <1>0. v3 = v8 /\ v3 \in G!Labels /\ v1 \subseteq Some
    BY DEF G!TagsInv, G!TagsTyped
  <1>1. ASSUME NEW s \in Some, G!Moves(s)
        PROVE  G!TagsTyped' /\ G!TagsInv'
    <2>1. v3' \in G!Labels /\ v8' = v3' /\ v1' \subseteq Some /\ v7' = v7
      BY <1>0, <1>1 DEF G!Moves, G!Labels
    <2>2. \A t \in v1' : v3'[t] \subseteq v3[t] /\ (t \in v1 \/ v3'[t] = {})
      BY <1>0, <1>1, <2>1 DEF G!Moves, G!Labels
    <2> QED
      BY <2>1, <2>2, LabelsGo
  <1>2. ASSUME NEW s \in Some, NEW k \in TagKeys, G!Remove(s, k)
        PROVE  G!TagsTyped' /\ G!TagsInv'
    <2>1. v3' \in G!Labels /\ v8' = v3' /\ v1' = v1 /\ v7' = v7
      BY <1>0, <1>2 DEF G!Remove, G!Labels
    <2>2. \A t \in v1' : v3'[t] \subseteq v3[t] /\ t \in v1
      BY <1>0, <1>2, <2>1 DEF G!Remove, G!Labels
    <2> QED
      BY <1>0, <2>1, <2>2, LabelsGo
  <1>3. ASSUME NEW s \in Some, NEW k \in TagKeys, G!OthersAdd(s, k)
        PROVE  G!TagsTyped' /\ G!TagsInv'
    <2>1. v3' \in G!Labels /\ v8' = v3' /\ v1' = v1 /\ v7' = v7
      BY <1>0, <1>3 DEF G!OthersAdd, G!Labels
    <2>2. \A t \in v1' : v3'[t] \subseteq v3[t] /\ t \in v1
      BY <1>0, <1>3, <2>1 DEF G!OthersAdd, G!Labels
    <2> QED
      BY <1>0, <2>1, <2>2, LabelsGo
  <1>4. ASSUME UNCHANGED <<v1, v3, v7, v8>>
        PROVE  G!TagsTyped' /\ G!TagsInv'
    BY <1>0, <1>4, LabelsGo
  <1>5. ASSUME NEW s \in Some, G!Lock(s) PROVE UNCHANGED <<v1, v3, v7, v8>>
    BY <1>5 DEF G!Lock
  <1>6. ASSUME NEW g \in TagGroups, G!CreateGroup(g) \/ G!DeleteGroup(g) PROVE UNCHANGED <<v1, v3, v7, v8>>
    BY <1>6 DEF G!CreateGroup, G!DeleteGroup, G!siteVars
  <1>7. CASE G!Restart
    <2>1. v7' = [f \in Others |-> G!NoForm] /\ UNCHANGED <<v1, v3, v8>>
      BY <1>7 DEF G!Restart, G!siteVars
    <2>2. \A f \in Others : v7'[f].op = "none"
      BY <2>1 DEF G!NoForm
    <2>3. G!TagsTyped'
      BY <2>1 DEF G!TagsTyped, G!Singles
    <2> QED
      BY <1>0, <2>1, <2>2, <2>3 DEF G!TagsInv, G!WalksInv, G!Account
  <1> QED
    BY <1>1, <1>2, <1>3, <1>4, <1>5, <1>6, <1>7

LEMMA OwnTagsAreKeys ==
    ASSUME G!TagsTyped, v6 \subseteq TagKeys, [G!TagsNext]_(G!tvars)
    PROVE  v6' \subseteq TagKeys
  <1>1. ASSUME NEW f \in Others, G!SetAdminTags(f) PROVE v6' \subseteq TagKeys
    BY SMTT(30), <1>1 DEF G!SetAdminTags, G!TagsTyped, G!Walks, G!Singles, G!NoForm
  <1>2. CASE UNCHANGED G!tvars
    BY ZenonT(30), <1>2 DEF G!tvars
  <1>3. CASE G!TagsNext
    BY ZenonT(30), <1>1, <1>3 DEF G!TagsNext, G!AskAdd, G!AskAdmin, G!AskGroup, G!AskRename, G!AskDelete, G!Post, G!Add, G!Register,
       G!SetGroup, G!WalkEnds, G!Retag, G!Moves, G!Lock, G!Remove, G!OthersAdd, G!CreateGroup, G!DeleteGroup, G!Restart
  <1> QED
    BY <1>2, <1>3

TagsKept == TagsGood /\ (which = "tags" => v6 \subseteq TagKeys)

LEMMA TagsGoOn == TagsKept /\ [Next]_slots => TagsKept'
  <1> SUFFICES ASSUME TagsKept, [Next]_slots, which' = "tags"
               PROVE  G!TagsTyped' /\ G!TagsInv' /\ v6' \subseteq TagKeys
    BY DEF TagsKept, TagsGood
  <1>1. which = "tags" /\ [G!TagsNext]_(G!tvars)
    BY DEF Next, slots, G!tvars
  <1>2. G!TagsTyped /\ G!TagsInv /\ v6 \subseteq TagKeys
    BY <1>1 DEF TagsKept, TagsGood
  <1>3. CASE UNCHANGED G!tvars
    BY <1>2, <1>3 DEF G!tvars, G!TagsTyped, G!TagsInv, G!WalksInv, G!Account
  <1>4. ASSUME G!TagsNext PROVE G!TagsTyped' /\ G!TagsInv'
    BY <1>2, <1>4, AsksKeepTags, AddKeepsTags, RetagKeepsTags, FormsOfTagsEnd, SitesKeepTags DEF G!TagsNext
  <1> QED
    BY <1>1, <1>2, <1>3, <1>4, OwnTagsAreKeys

\* Of any sites, tags, groups and forms posted at once, however sites are moved,
\* locked and labelled while an account-wide change walks them: a site carries what
\* its owner asked for and nothing else, and a rename or delete that names no site
\* it left is done.
THEOREM LabelsHold == Spec => LabelsAreKept
  <1>1. Init => TagsKept
    BY TagsBegin DEF TagsKept, Init, G!TagsInit
  <1>2. TagsKept => (which = "tags" => G!LabelsAreTheOwners)
    BY DEF TagsKept, TagsGood, G!TagsInv, G!LabelsAreTheOwners
  <1>3. TagsKept /\ [Next]_slots => [which = "tags" => G!AccountWideIsDone]_slots
    BY DEF TagsKept, TagsGood, G!TagsInv, G!WalksInv, G!AccountWideIsDone
  <1> QED
    BY <1>1, <1>2, <1>3, TagsGoOn, PTL DEF Spec, LabelsAreKept

(***************************************************************************)
(* Accounts.                                                               *)
(***************************************************************************)

AccountsGood == which = "accounts" => A!AccountsTyped /\ A!AccountsInv

LEMMA AccountsBegin == Init => AccountsGood
  <1> SUFFICES ASSUME A!AccountsInit PROVE A!AccountsTyped /\ A!AccountsInv
    BY DEF Init, AccountsGood
  <1> USE DEF A!AccountsInit
  <1>1. PICK s \in Some : v2 = [t \in Some |-> IF t = s THEN "mine" ELSE "none"] /\ v3 = {s}
    OBVIOUS
  <1>2. A!AccountsTyped
    BY <1>1 DEF A!AccountsTyped
  <1>3. A!SessionsInv /\ A!OrderInv /\ A!TakersInv
    BY DEF A!SessionsInv, A!Signed, A!OrderInv, A!TakersInv
  <1>4. A!UnmetInv /\ A!LocksInv /\ A!ErasureInv
    BY <1>1 DEF A!UnmetInv, A!LocksInv, A!ErasureInv, A!ErasureTakesItsSites, A!Agrees, A!At
  <1> QED
    BY <1>2, <1>3, <1>4 DEF A!AccountsInv

LEMMA AccountsStayTyped == A!AccountsTyped /\ A!AccountsNext => A!AccountsTyped'
  <1> SUFFICES ASSUME A!AccountsTyped, A!AccountsNext PROVE A!AccountsTyped'
    OBVIOUS
  <1> USE DEF A!AccountsTyped
  <1>1. ASSUME NEW c \in Browsers, A!SignInReads(c) \/ A!SignInSets(c) \/ A!SignOut(c) PROVE A!AccountsTyped'
    BY <1>1 DEF A!SignInReads, A!SignInSets, A!SignOut
  <1>2. ASSUME NEW k \in SiteTakers, A!Make(k) \/ A!Link(k) \/ \E s \in Some : A!Allow(k, s) PROVE A!AccountsTyped'
    <2>1. CASE A!Make(k)
      BY <2>1 DEF A!Make
    <2>2. CASE A!Link(k)
      BY <2>2 DEF A!Link, A!Upset
    <2>3. CASE \E s \in Some : A!Allow(k, s)
      BY <2>3 DEF A!Allow
    <2> QED
      BY <1>2, <2>1, <2>2, <2>3
  <1>3. ASSUME NEW kind \in A!Kinds, A!OrderStart(kind) PROVE A!AccountsTyped'
    BY <1>3 DEF A!OrderStart, A!Orders
  <1>4. CASE A!MarkSuspended \/ A!MarkLifted
    <2>1. v5 \in A!Orders
      BY <1>4 DEF A!MarkSuspended, A!MarkLifted, A!At
    <2>2. [v5 EXCEPT !.step = "list"] \in A!Orders
      BY <2>1 DEF A!Orders
    <2>3. v1' \in [there : BOOLEAN, suspended : BOOLEAN, version : Nat]
      <3>1. v1 \in [there : BOOLEAN, suspended : BOOLEAN, version : Nat]
        OBVIOUS
      <3>2. PICK n \in Nat : n = v1.version + 1
        BY <3>1
      <3>3. v1' = [v1 EXCEPT !.suspended = TRUE, !.version = n] \/ v1' = [v1 EXCEPT !.suspended = FALSE]
        BY <1>4, <3>2 DEF A!MarkSuspended, A!MarkLifted
      <3> QED
        BY <3>1, <3>3
    <2>4. v5' = [v5 EXCEPT !.step = "list"] /\ UNCHANGED <<v2, v3, v4, v6, v7, v8, v9, v11, v12>>
      BY <1>4 DEF A!MarkSuspended, A!MarkLifted
    <2> QED
      BY <2>2, <2>3, <2>4
  <1>5. CASE A!List
    <2>1. PICK mine : mine = {s \in v3 : v2[s] \in {"mine", "gone"}}
      OBVIOUS
    <2>2. mine \in SUBSET Some /\ \A s \in mine : mine \ {s} \in SUBSET Some
      BY <2>1
    <2>3. v5' = [v5 EXCEPT !.step = "walk", !.todo = mine] \/ \E s \in mine : v5' = [v5 EXCEPT !.step = "walk", !.todo = mine \ {s}, !.failed = TRUE]
      BY <1>5, <2>1 DEF A!List
    <2>4. v5 \in A!Orders
      BY <1>5 DEF A!List
    <2>5. PICK td \in SUBSET Some : \/ v5' = [v5 EXCEPT !.step = "walk", !.todo = td]
                                   \/ v5' = [v5 EXCEPT !.step = "walk", !.todo = td, !.failed = TRUE]
      BY <2>2, <2>3
    <2>6. v5' \in A!Orders
      BY <2>4, <2>5 DEF A!Orders
    <2> QED
      BY <1>5, <2>6 DEF A!List
  <1>6. CASE A!WalkEnds
    BY <1>6 DEF A!WalkEnds, A!Orders
  <1>7. CASE A!CheckErase
    <2>1. v3' \in SUBSET Some
      BY <1>7 DEF A!CheckErase, A!Mine
    <2>2. v5' \in A!Orders \cup {None}
      BY <1>7, <2>1 DEF A!CheckErase, A!At, A!Orders
    <2> QED
      BY <1>7, <2>1, <2>2 DEF A!CheckErase
  <1>8. CASE A!EraseAccount
    BY <1>8 DEF A!EraseAccount
  <1>9. ASSUME NEW s \in Some, A!Walk(s) PROVE A!AccountsTyped'
    <2>3. v5 \in A!Orders
      BY <1>9 DEF A!Walk
    <2>4. /\ [v5 EXCEPT !.todo = @ \ {s}] \in A!Orders
          /\ [v5 EXCEPT !.todo = @ \ {s}, !.failed = TRUE] \in A!Orders
      BY <2>3 DEF A!Orders
    <2>1. v5' \in A!Orders
      BY <1>9, <2>4 DEF A!Walk
    <2>2. v4' \in [Some -> {"no", "account", "operator"}]
      BY <1>9 DEF A!Walk
    <2> QED
      BY <1>9, <2>1, <2>2 DEF A!Walk
  <1>10. ASSUME NEW s \in Some, A!EraseSite(s) PROVE A!AccountsTyped'
    <2>1. v5 \in A!Orders
      BY <1>10 DEF A!EraseSite, A!At
    <2>2. [v5 EXCEPT !.todo = @ \ {s}] \in A!Orders
      BY <2>1 DEF A!Orders
    <2>3. v5' \in A!Orders \cup {None}
      BY ZenonT(30), <1>10, <2>2 DEF A!EraseSite
    <2> QED
      BY <1>10, <2>3 DEF A!EraseSite
  <1>11. ASSUME NEW s \in Some, A!OperatorHolds(s) \/ A!OperatorLifts(s) \/ A!SiteGoes(s) \/ A!SiteMoves(s)
         PROVE  A!AccountsTyped'
    BY SMTT(30), <1>11 DEF A!OperatorHolds, A!OperatorLifts, A!SiteGoes, A!SiteMoves
  <1> QED
    BY <1>1, <1>2, <1>3, <1>4, <1>5, <1>6, <1>7, <1>8, <1>9, <1>10, <1>11 DEF A!AccountsNext

\* Sessions: versions only grow, and with a suspension.
LEMMA SessionsStay == A!AccountsTyped /\ A!SessionsInv /\ A!AccountsNext => A!SessionsInv' /\ A!EndedStayEnded
  <1> SUFFICES ASSUME A!AccountsTyped, A!SessionsInv, A!AccountsNext PROVE A!SessionsInv' /\ A!EndedStayEnded
    OBVIOUS
  <1> USE PartsAssumption DEF A!AccountsTyped, A!SessionsInv, A!Signed, A!EndedStayEnded, A!SignedIn, A!AccountsAssumption
  <1>1. CASE \E c \in Browsers : A!SignInReads(c)
    BY <1>1 DEF A!SignInReads
  <1>2. CASE \E c \in Browsers : A!SignInSets(c)
    BY <1>2 DEF A!SignInSets
  <1>3. CASE \E c \in Browsers : A!SignOut(c)
    BY <1>3 DEF A!SignOut
  <1>4. CASE A!MarkSuspended
    BY <1>4 DEF A!MarkSuspended
  <1>5. CASE A!MarkLifted
    BY <1>5 DEF A!MarkLifted
  <1>6. CASE A!EraseAccount
    BY ZenonT(30), <1>6 DEF A!EraseAccount
  <1>7. CASE UNCHANGED <<v1, v8, v9>>
    BY ZenonT(30), <1>7
  <1> QED
    BY ZenonT(30), <1>1, <1>2, <1>3, <1>4, <1>5, <1>6, <1>7
    DEF A!AccountsNext, A!Allow, A!Make, A!Link, A!OrderStart, A!List, A!Walk, A!WalkEnds, A!CheckErase,
        A!EraseSite, A!OperatorHolds, A!OperatorLifts, A!SiteGoes, A!SiteMoves

\* Sites that are to be taken are not there until they are made.
LEMMA TakersStay == A!AccountsTyped /\ A!TakersInv /\ A!OrderInv /\ A!AccountsNext => A!TakersInv'
  <1> SUFFICES ASSUME A!AccountsTyped, A!TakersInv, A!OrderInv, A!AccountsNext PROVE A!TakersInv'
    OBVIOUS
  <1> USE PartsAssumption DEF A!AccountsTyped, A!TakersInv, A!AccountsAssumption
  <1>1. ASSUME NEW k \in SiteTakers, NEW s \in Some, A!Allow(k, s) PROVE A!TakersInv'
    BY <1>1 DEF A!Allow
  <1>2. ASSUME NEW k \in SiteTakers, A!Make(k) PROVE A!TakersInv'
    <2>1. /\ v7[k] \in [step : {"allowed", "made"}, site : Some]
          /\ v7'[k] = [v7[k] EXCEPT !.step = "made"] /\ \A j \in SiteTakers : j # k => v7'[j] = v7[j]
          /\ v2'[v7[k].site] = "mine" /\ \A s \in Some : s # v7[k].site => v2'[s] = v2[s]
      BY <1>2 DEF A!Make
    <2> QED
      BY <2>1
  <1>3. ASSUME NEW k \in SiteTakers, A!Link(k) PROVE A!TakersInv'
    BY <1>3 DEF A!Link
  <1>4. ASSUME NEW s \in Some, A!EraseSite(s) PROVE A!TakersInv'
    BY <1>4 DEF A!EraseSite
  <1>5. ASSUME NEW s \in Some, A!SiteGoes(s) \/ A!SiteMoves(s) PROVE A!TakersInv'
    BY <1>5 DEF A!SiteGoes, A!SiteMoves
  <1>6. CASE UNCHANGED <<v2, v7>>
    BY <1>6
  <1> QED
    BY <1>1, <1>2, <1>3, <1>4, <1>5, <1>6
    DEF A!AccountsNext, A!SignInReads, A!SignInSets, A!SignOut, A!OrderStart, A!MarkSuspended, A!MarkLifted, A!List,
        A!Walk, A!WalkEnds, A!CheckErase, A!EraseAccount, A!OperatorHolds, A!OperatorLifts

\* Orders: the one under way is the one that is owed, and whom it lists is marked.
LEMMA OrderStays ==
  A!AccountsTyped /\ A!OrderInv /\ A!TakersInv /\ A!UnmetInv /\ A!AccountsNext => A!OrderInv'
  <1> SUFFICES ASSUME A!AccountsTyped, A!OrderInv, A!TakersInv, A!UnmetInv, A!AccountsNext PROVE A!OrderInv'
    OBVIOUS
  <1> USE PartsAssumption DEF A!AccountsTyped, A!OrderInv, A!AccountsAssumption
  <1>1. ASSUME NEW c \in Browsers, A!SignOut(c) PROVE A!OrderInv'
    BY <1>1 DEF A!SignOut
  <1>2. ASSUME NEW k \in SiteTakers, A!Make(k) PROVE A!OrderInv'
    <2>1. v2[v7[k].site] = "none"
      BY <1>2 DEF A!Make, A!TakersInv
    <2>2. \A s \in Some : v2[s] # "none" => v2'[s] = v2[s]
      BY <1>2, <2>1 DEF A!Make
    <2> QED
      BY <1>2, <2>2 DEF A!Make, A!Orders
  <1>3. ASSUME NEW k \in SiteTakers, A!Link(k) PROVE A!OrderInv'
    BY <1>3 DEF A!Link
  <1>4. ASSUME NEW kind \in A!Kinds, A!OrderStart(kind) PROVE A!OrderInv'
    BY <1>4 DEF A!OrderStart, A!Kinds
  <1>5. CASE A!MarkSuspended
    BY <1>5 DEF A!MarkSuspended, A!At, A!Orders
  <1>6. CASE A!MarkLifted
    BY <1>6 DEF A!MarkLifted, A!At, A!Orders
  <1>7. CASE A!List
    <2>1. v5 \in A!Orders /\ v5'.kind = v5.kind /\ v5'.step = "walk" /\ v5.step = "list"
      BY ZenonT(30), <1>7 DEF A!List, A!Orders
    <2>3. PICK mine : mine = {s \in v3 : v2[s] \in {"mine", "gone"}}
      OBVIOUS
    <2>4. v5' = [v5 EXCEPT !.step = "walk", !.todo = mine] \/ \E s \in mine : v5' = [v5 EXCEPT !.step = "walk", !.todo = mine \ {s}, !.failed = TRUE]
      BY <1>7, <2>3 DEF A!List
    <2>5. PICK td \in SUBSET mine : \/ v5' = [v5 EXCEPT !.step = "walk", !.todo = td]
                                   \/ v5' = [v5 EXCEPT !.step = "walk", !.todo = td, !.failed = TRUE]
      BY <2>4
    <2>6. v5'.todo = td
      BY <2>1, <2>5 DEF A!Orders
    <2>2. v5'.todo \subseteq {s \in v3 : v2[s] \in {"mine", "gone"}}
      BY <2>3, <2>6
    <2> QED
      BY <1>7, <2>1, <2>2 DEF A!List
  <1>8. CASE A!WalkEnds \/ A!EraseAccount
    BY <1>8 DEF A!WalkEnds, A!EraseAccount
  <1>9. CASE A!CheckErase
    <2>1. v5 \in A!Orders /\ v5.kind = "erase"
      BY <1>9 DEF A!CheckErase, A!At
    <2>2. CASE v5' = None
      BY <2>2
    <2>3. CASE v5' = [v5 EXCEPT !.step = "erase", !.todo = v3'] /\ v6' = v6
      <3>1. v5'.kind = "erase" /\ v5'.step = "erase" /\ v5'.todo = v3'
        BY <2>1, <2>3 DEF A!Orders
      <3>2. \A s \in v3 : v2[s] # "none"
        BY DEF A!UnmetInv
      <3> QED
        BY <1>9, <2>1, <2>3, <3>1, <3>2 DEF A!CheckErase, A!Mine
    <2> QED
      BY <1>9, <2>2, <2>3 DEF A!CheckErase
  <1>10. ASSUME NEW s \in Some, A!Walk(s) PROVE A!OrderInv'
    <2>1. v5 \in A!Orders /\ v5'.kind = v5.kind /\ v5'.step = v5.step /\ v5'.todo = v5.todo \ {s}
      BY ZenonT(30), <1>10 DEF A!Walk, A!Orders
    <2>2. \A t \in Some : t # s /\ t \in v3 => t \in v3'
      BY <1>10 DEF A!Walk
    <2> QED
      BY <1>10, <2>1, <2>2 DEF A!Walk, A!Orders
  <1>11. ASSUME NEW s \in Some, A!EraseSite(s) PROVE A!OrderInv'
    <2>1. CASE v5' = None
      BY <2>1
    <2>2. CASE v5' = [v5 EXCEPT !.todo = @ \ {s}] /\ v2' = [v2 EXCEPT ![s] = IF @ = "mine" THEN "gone" ELSE @]
      <3>1. v5 \in A!Orders /\ v5'.kind = v5.kind /\ v5'.step = v5.step /\ v5'.todo = v5.todo \ {s}
        BY <1>11, <2>2 DEF A!EraseSite, A!At, A!Orders
      <3> QED
        BY <1>11, <2>2, <3>1 DEF A!EraseSite, A!Orders
    <2> QED
      BY <1>11, <2>1, <2>2 DEF A!EraseSite
  <1>12. ASSUME NEW s \in Some, A!SiteGoes(s) \/ A!SiteMoves(s) PROVE A!OrderInv'
    BY <1>12 DEF A!SiteGoes, A!SiteMoves, A!Orders
  <1>13. CASE UNCHANGED <<v1, v2, v3, v5, v6>>
    BY <1>13
  <1> QED
    BY <1>1, <1>2, <1>3, <1>4, <1>5, <1>6, <1>7, <1>8, <1>9, <1>10, <1>11, <1>12, <1>13
    DEF A!AccountsNext, A!SignInReads, A!SignInSets, A!Allow, A!OperatorHolds, A!OperatorLifts

\* A walk over a site; the sites it has before it are fewer by that one.
LEMMA WalkSteps ==
    ASSUME A!AccountsTyped, A!OrderInv, NEW s \in Some, A!Walk(s)
    PROVE  /\ v5 \in A!Orders /\ s \in v5.todo /\ v5.step = "walk" /\ v5.kind \in {"suspend", "lift"}
           /\ v5'.kind = v5.kind /\ v5'.step = "walk" /\ v5'.todo = v5.todo \ {s}
           /\ v2[s] # "none" /\ (v2[s] = "mine" => s \in v3)
           /\ \A t \in Some : t # s => (t \in v3' <=> t \in v3) /\ (t \in v11' <=> t \in v11) /\ v4'[t] = v4[t]
           /\ \/ /\ v5'.failed = v5.failed
                 /\ IF v2[s] = "gone" THEN s \notin v3' /\ v4'[s] = v4[s]
                    ELSE /\ v3' = v3
                         /\ v5.kind = "suspend" => v4'[s] # "no"
                         /\ v5.kind = "lift" => v4'[s] # "account"
              \/ v5'.failed /\ UNCHANGED <<v3, v4, v11>>
  <1> USE DEF A!AccountsTyped
  <1>1. v5 \in A!Orders /\ s \in v5.todo /\ v5.step = "walk"
    BY DEF A!Walk
  <1>2. /\ v5.kind \in {"suspend", "lift"}
        /\ v2[s] # "none" /\ (v2[s] = "mine" => s \in v3)
    BY <1>1 DEF A!Walk, A!OrderInv, A!Orders, A!Kinds
  <1>3. v5'.kind = v5.kind /\ v5'.step = "walk" /\ v5'.todo = v5.todo \ {s}
    BY <1>1 DEF A!Walk, A!Orders
  <1>4. \A t \in Some : t # s => (t \in v3' <=> t \in v3) /\ (t \in v11' <=> t \in v11) /\ v4'[t] = v4[t]
    BY DEF A!Walk
  <1>5. \/ /\ v5' = [v5 EXCEPT !.todo = @ \ {s}]
           /\ IF v2[s] = "gone" THEN s \notin v3' /\ v4'[s] = v4[s]
              ELSE /\ v3' = v3
                   /\ v5.kind = "suspend" => v4'[s] # "no"
                   /\ v5.kind = "lift" => v4'[s] # "account"
        \/ v5' = [v5 EXCEPT !.todo = @ \ {s}, !.failed = TRUE] /\ UNCHANGED <<v3, v4, v11>>
    BY <1>1, <1>2 DEF A!Walk
  <1>6. \/ /\ v5'.failed = v5.failed
           /\ IF v2[s] = "gone" THEN s \notin v3' /\ v4'[s] = v4[s]
              ELSE /\ v3' = v3
                   /\ v5.kind = "suspend" => v4'[s] # "no"
                   /\ v5.kind = "lift" => v4'[s] # "account"
        \/ v5'.failed /\ UNCHANGED <<v3, v4, v11>>
    BY <1>1, <1>5 DEF A!Orders
  <1> QED
    BY <1>1, <1>2, <1>3, <1>4, <1>6

\* What was never marked was never met.
LEMMA UnmetStays ==
  A!AccountsTyped /\ A!UnmetInv /\ A!OrderInv /\ A!TakersInv /\ A!AccountsNext => A!UnmetInv'
  <1> SUFFICES ASSUME A!AccountsTyped, A!UnmetInv, A!OrderInv, A!TakersInv, A!AccountsNext PROVE A!UnmetInv'
    OBVIOUS
  <1> USE PartsAssumption DEF A!AccountsTyped, A!UnmetInv, A!AccountsAssumption
  <1>1. ASSUME UNCHANGED <<v2, v3, v4, v11>>, v1'.there => v1.there PROVE A!UnmetInv'
    BY <1>1
  <1>2. ASSUME NEW k \in SiteTakers, A!Make(k) PROVE A!UnmetInv'
    <2>1. v7[k].site \in Some /\ v2[v7[k].site] = "none"
      BY <1>2 DEF A!Make, A!TakersInv
    <2> QED
      BY <1>2, <2>1 DEF A!Make
  <1>3. ASSUME NEW k \in SiteTakers, A!Link(k) PROVE A!UnmetInv'
    <2>1. v7[k].site \in Some /\ v2[v7[k].site] # "none"
      BY <1>3 DEF A!Link, A!TakersInv
    <2>2. v3 \subseteq v3' /\ v3' \subseteq v3 \cup {v7[k].site}
      BY <1>3 DEF A!Link
    <2> QED
      BY <1>3, <2>1, <2>2 DEF A!Link
  <1>4. CASE A!CheckErase
    BY <1>4 DEF A!CheckErase, A!Mine
  <1>5. CASE A!EraseAccount
    BY <1>5 DEF A!EraseAccount
  <1>6. ASSUME NEW s \in Some, A!Walk(s) PROVE A!UnmetInv'
    <2>1. UNCHANGED <<v1, v2>>
      BY <1>6 DEF A!Walk
    <2>2. s \in v3' \/ v2[s] \notin {"none", "mine"}
      BY <1>6, WalkSteps
    <2> QED
      BY <1>6, <2>1, <2>2, WalkSteps
  <1>7. ASSUME NEW s \in Some, A!EraseSite(s) PROVE A!UnmetInv'
    BY <1>7 DEF A!EraseSite
  <1>8. ASSUME NEW s \in Some, A!OperatorHolds(s) PROVE A!UnmetInv'
    BY <1>8 DEF A!OperatorHolds
  <1>9. ASSUME NEW s \in Some, A!OperatorLifts(s) PROVE A!UnmetInv'
    BY <1>9 DEF A!OperatorLifts
  <1>10. ASSUME NEW s \in Some, A!SiteGoes(s) \/ A!SiteMoves(s) PROVE A!UnmetInv'
    BY <1>10 DEF A!SiteGoes, A!SiteMoves
  <1>11. CASE A!MarkSuspended \/ A!MarkLifted \/ \E c \in Browsers : A!SignOut(c)
    BY <1>11, <1>1 DEF A!MarkSuspended, A!MarkLifted, A!SignOut
  <1> QED
    BY <1>1, <1>2, <1>3, <1>4, <1>5, <1>6, <1>7, <1>8, <1>9, <1>10, <1>11
    DEF A!AccountsNext, A!SignInReads, A!SignInSets, A!Allow, A!OrderStart, A!List, A!WalkEnds

\* The holds agree with the order the stack gave last, or that is still to be done.
LEMMA LocksStay ==
  /\ A!AccountsTyped /\ A!LocksInv /\ A!UnmetInv /\ A!OrderInv /\ A!TakersInv
  /\ A!AccountsNext
  => A!LocksInv'
  <1> SUFFICES ASSUME A!AccountsTyped, A!LocksInv, A!UnmetInv, A!OrderInv, A!TakersInv, A!AccountsNext
               PROVE  A!LocksInv'
    OBVIOUS
  <1> USE PartsAssumption DEF A!AccountsTyped, A!LocksInv, A!Agrees, A!Open, A!AccountsAssumption
  <1>1. CASE UNCHANGED <<v1, v2, v3, v4, v5, v6, v11>>
    BY <1>1
  <1>2. ASSUME NEW c \in Browsers, A!SignOut(c) PROVE A!LocksInv'
    BY <1>2 DEF A!SignOut
  <1>3. ASSUME NEW k \in SiteTakers, A!Make(k) PROVE A!LocksInv'
    <2>1. v7[k].site \in Some /\ v2[v7[k].site] = "none"
      BY <1>3 DEF A!Make, A!TakersInv
    <2>2. v7[k].site \notin v3
      BY <2>1 DEF A!UnmetInv
    <2> QED
      BY <1>3, <2>1, <2>2 DEF A!Make
  <1>4. ASSUME NEW k \in SiteTakers, A!Link(k) PROVE A!LocksInv'
    <2>1. \A s \in v3' \ v3 : v2[s] = "mine" /\ v1.there => s \in v11 /\ v4[s] # "account"
      BY <1>4 DEF A!Link, A!UnmetInv
    <2> QED
      BY <1>4, <2>1 DEF A!Link
  <1>5. ASSUME NEW kind \in A!Kinds, A!OrderStart(kind) PROVE A!LocksInv'
    <2>1. v5'.step = "begin"
      BY <1>5 DEF A!OrderStart
    <2> QED
      BY <1>5, <2>1 DEF A!OrderStart, A!Kinds
  <1>6. CASE A!MarkSuspended \/ A!MarkLifted
    <2>1. v5 \in A!Orders /\ v6 \in {"suspend", "lift"}
      BY <1>6 DEF A!MarkSuspended, A!MarkLifted, A!At, A!OrderInv
    <2>2. v5'.step = "list" /\ v6' = v6
      BY <1>6, <2>1 DEF A!MarkSuspended, A!MarkLifted, A!Orders
    <2> QED
      BY <2>1, <2>2
  <1>7. CASE A!List
    <2>1. v5 \in A!Orders /\ v6 \in {"suspend", "lift"}
      BY <1>7 DEF A!List, A!OrderInv, A!Orders, A!Kinds
    <2>2. PICK mine : mine = {s \in v3 : v2[s] \in {"mine", "gone"}}
      OBVIOUS
    <2>3. v5' = [v5 EXCEPT !.step = "walk", !.todo = mine] \/ \E s \in mine : v5' = [v5 EXCEPT !.step = "walk", !.todo = mine \ {s}, !.failed = TRUE]
      BY <1>7, <2>2 DEF A!List
    <2>4. v5'.todo = mine \/ v5'.failed
      BY <2>1, <2>3 DEF A!Orders
    <2> QED
      BY <1>7, <2>1, <2>2, <2>4 DEF A!List
  <1>8. CASE A!WalkEnds
    <2>1. v5 \in A!Orders /\ v5.todo = {} /\ v5.step = "walk" /\ v5.kind = v6
      BY <1>8 DEF A!WalkEnds, A!OrderInv
    <2>2. CASE v5.failed
      BY <1>8, <2>1, <2>2 DEF A!WalkEnds, A!OrderInv, A!Kinds, A!Orders
    <2>3. CASE ~v5.failed
      <3>1. \A s \in v3 : v1.there /\ v2[s] = "mine" => A!Agrees(s)
        BY <1>8, <2>1, <2>3 DEF A!WalkEnds
      <3> QED
        BY <1>8, <3>1 DEF A!WalkEnds
    <2> QED
      BY <2>2, <2>3
  <1>9. CASE A!CheckErase
    <2>1. v6 = "erase" /\ v6' \notin {"suspend", "lift"}
      BY <1>9 DEF A!CheckErase, A!At, A!OrderInv, A!Kinds
    <2>2. \A s \in v3' \ v3 : v2[s] = "mine" /\ v1.there => s \in v11 /\ v4[s] # "account"
      BY <1>9 DEF A!CheckErase, A!UnmetInv, A!Mine
    <2> QED
      BY <1>9, <2>1, <2>2 DEF A!CheckErase
  <1>10. ASSUME NEW s \in Some, A!Walk(s) PROVE A!LocksInv'
    <2>1. UNCHANGED <<v1, v2, v6>> /\ v5.kind = v6 /\ v1.there /\ (v1.suspended <=> v5.kind = "suspend")
      BY <1>10 DEF A!Walk, A!OrderInv
    <2>2. v6 \in {"suspend", "lift"} /\ v5.step = "walk" /\ v5'.step = "walk" /\ v5 # None
      BY <1>10, <2>1, WalkSteps
    <2>3. ASSUME NEW t \in v3', v2[t] = "mine" PROVE (A!Agrees(t) \/ A!Open(t))'
      <3>1. CASE v5'.failed
        BY <2>1, <2>2, <3>1
      <3>2. CASE ~v5'.failed /\ t = s
        BY <1>10, <2>1, <2>2, <2>3, <3>2, WalkSteps
      <3>3. CASE ~v5'.failed /\ t # s
        <4>3. t \in Some
          BY <1>10, <2>3 DEF A!Walk
        <4>1. /\ t \in v3 /\ v4'[t] = v4[t] /\ (t \in v11' <=> t \in v11)
              /\ (t \in v5'.todo <=> t \in v5.todo) /\ ~v5.failed
          BY <1>10, <2>3, <3>3, <4>3, WalkSteps
        <4>2. A!Agrees(t) \/ t \in v5.todo
          BY <2>1, <2>2, <2>3, <4>1
        <4> QED
          BY <2>1, <2>2, <4>1, <4>2
      <3> QED
        BY <3>1, <3>2, <3>3
    <2> QED
      BY <2>1, <2>3
  <1>11. ASSUME NEW s \in Some, A!EraseSite(s) PROVE A!LocksInv'
    <2>1. v6 = "erase" /\ v6' = v6
      BY <1>11 DEF A!EraseSite, A!At, A!OrderInv
    <2> QED
      BY <1>11, <2>1 DEF A!EraseSite
  <1>12. CASE A!EraseAccount
    BY <1>12 DEF A!EraseAccount
  <1>13. ASSUME NEW s \in Some, A!OperatorHolds(s) \/ A!OperatorLifts(s) PROVE A!LocksInv'
    BY <1>13 DEF A!OperatorHolds, A!OperatorLifts
  <1>14. ASSUME NEW s \in Some, A!SiteGoes(s) \/ A!SiteMoves(s) PROVE A!LocksInv'
    BY <1>14 DEF A!SiteGoes, A!SiteMoves
  <1> QED
    BY <1>1, <1>2, <1>3, <1>4, <1>5, <1>6, <1>7, <1>8, <1>9, <1>10, <1>11, <1>12, <1>13, <1>14
    DEF A!AccountsNext, A!SignInReads, A!SignInSets, A!Allow

\* An erasure past its check has every site of the account before it, but those taken since.
LEMMA ErasureStays ==
  A!AccountsTyped /\ A!ErasureInv /\ A!OrderInv /\ A!AccountsNext => A!ErasureInv'
  <1> SUFFICES ASSUME A!AccountsTyped, A!ErasureInv, A!OrderInv, A!AccountsNext PROVE A!ErasureInv'
    OBVIOUS
  <1> USE PartsAssumption DEF A!AccountsTyped, A!ErasureInv, A!ErasureTakesItsSites, A!Mine, A!At, A!AccountsAssumption
  <1>1. CASE UNCHANGED <<v2, v5, v12>> /\ v1'.there = v1.there
    BY <1>1
  <1>2. ASSUME NEW c \in Browsers, A!SignOut(c) PROVE A!ErasureInv'
    BY <1>2 DEF A!SignOut
  <1>3. ASSUME NEW k \in SiteTakers, A!Make(k) PROVE A!ErasureInv'
    BY <1>3 DEF A!Make, A!PastCheck
  <1>4. ASSUME NEW kind \in A!Kinds, A!OrderStart(kind) PROVE A!ErasureInv'
    BY <1>4 DEF A!OrderStart
  <1>5. CASE A!MarkSuspended \/ A!MarkLifted \/ A!List \/ A!WalkEnds
    <2>1. v2' = v2 /\ v12' = v12 /\ v1'.there = v1.there
      BY <1>5 DEF A!MarkSuspended, A!MarkLifted, A!List, A!WalkEnds
    <2>2. v5' = None \/ v5'.step \in {"list", "walk"}
      <3>1. v5 \in A!Orders
        BY <1>5 DEF A!MarkSuspended, A!MarkLifted, A!List, A!WalkEnds
      <3>2. CASE A!List
        <4>1. PICK mine : mine = {s \in v3 : v2[s] \in {"mine", "gone"}}
          OBVIOUS
        <4>2. v5' = [v5 EXCEPT !.step = "walk", !.todo = mine] \/ \E s \in mine : v5' = [v5 EXCEPT !.step = "walk", !.todo = mine \ {s}, !.failed = TRUE]
          BY <3>2, <4>1 DEF A!List
        <4> QED
          BY <3>1, <4>2 DEF A!Orders
      <3> QED
        BY <1>5, <3>1, <3>2 DEF A!MarkSuspended, A!MarkLifted, A!WalkEnds, A!Orders
    <2> QED
      BY <2>1, <2>2
  <1>6. CASE A!CheckErase
    <2>1. v5 \in A!Orders
      BY <1>6 DEF A!CheckErase
    <2>2. v5' # None => v5'.todo = v3' /\ A!Mine \subseteq v3'
      BY <1>6, <2>1 DEF A!CheckErase, A!Orders
    <2> QED
      BY <1>6, <2>2 DEF A!CheckErase
  <1>7. CASE A!EraseAccount
    BY <1>7 DEF A!EraseAccount
  <1>8. ASSUME NEW s \in Some, A!Walk(s) PROVE A!ErasureInv'
    <2>1. v5'.step = "walk" /\ UNCHANGED <<v1, v2, v12>>
      BY <1>8, WalkSteps DEF A!Walk
    <2> QED
      BY <2>1
  <1>9. ASSUME NEW s \in Some, A!EraseSite(s) PROVE A!ErasureInv'
    <2>1. v5 \in A!Orders /\ v1.there
      BY <1>9 DEF A!EraseSite, A!OrderInv
    <2>2. v5' = None \/ (v5'.todo = v5.todo \ {s} /\ v2' = [v2 EXCEPT ![s] = IF @ = "mine" THEN "gone" ELSE @])
      BY <1>9, <2>1 DEF A!EraseSite, A!Orders
    <2> QED
      BY <1>9, <2>1, <2>2 DEF A!EraseSite
  <1>10. ASSUME NEW s \in Some, A!SiteGoes(s) \/ A!SiteMoves(s) PROVE A!ErasureInv'
    BY <1>10 DEF A!SiteGoes, A!SiteMoves
  <1> QED
    BY <1>1, <1>2, <1>3, <1>4, <1>5, <1>6, <1>7, <1>8, <1>9, <1>10
    DEF A!AccountsNext, A!SignInReads, A!SignInSets, A!Allow, A!Link, A!OperatorHolds, A!OperatorLifts

LEMMA AccountsGoOn == AccountsGood /\ [Next]_slots => AccountsGood' /\ (which = "accounts" => [A!EndedStayEnded]_slots)
  <1> SUFFICES ASSUME AccountsGood, [Next]_slots, which = "accounts" \/ which' = "accounts"
               PROVE  A!AccountsTyped' /\ A!AccountsInv' /\ A!EndedStayEnded
    BY DEF AccountsGood
  <1>1. which = "accounts" /\ [A!AccountsNext]_(A!accountsVars)
    BY DEF Next, slots, A!accountsVars
  <1>2. A!AccountsTyped /\ A!AccountsInv
    BY <1>1 DEF AccountsGood
  <1>3. CASE UNCHANGED A!accountsVars
    BY <1>2, <1>3
    DEF A!accountsVars, A!AccountsTyped, A!AccountsInv, A!SessionsInv, A!Signed, A!OrderInv, A!TakersInv, A!UnmetInv,
        A!LocksInv, A!Agrees, A!Open, A!ErasureInv, A!ErasureTakesItsSites, A!Mine, A!At, A!EndedStayEnded, A!SignedIn
  <1>4. CASE A!AccountsNext
    BY <1>2, <1>4, AccountsStayTyped, SessionsStay, TakersStay, OrderStays, UnmetStays, LocksStay, ErasureStays DEF A!AccountsInv
  <1> QED
    BY <1>1, <1>3, <1>4

\* Of any browsers, takers, sites and number of upsets: once the stack's order is
\* answered with success the holds agree with it, an erased account leaves no site
\* but one taken past the check, and a session that ended stays ended.
THEOREM OrdersHold == Spec => OrdersAreCarriedOut
  <1>1. AccountsGood => (which = "accounts" => A!LocksFollowTheOrder /\ A!ErasureTakesItsSites)
    BY PartsAssumption
    DEF AccountsGood, A!AccountsInv, A!LocksInv, A!Agrees, A!Open, A!LocksFollowTheOrder, A!ErasureInv, A!AccountsAssumption, A!Kinds
  <1>2. AccountsGood /\ [Next]_slots => [which = "accounts" => A!EndedStayEnded]_slots
    BY AccountsGoOn
  <1> QED
    BY <1>1, <1>2, AccountsBegin, AccountsGoOn, PTL DEF Spec, OrdersAreCarriedOut

(***************************************************************************)
(* Restoring the instance.                                                 *)
(***************************************************************************)

InstanceGood == which = "instance" => I!InstanceTyped /\ I!InstanceInv

InstanceKept == I!InstanceTyped' /\ I!StateInv' /\ I!TreesInv' /\ I!OwnDataIsKept' /\ I!StartsWhole

\* A tree gets a name, or leaves it.
LEMMA NamesGiven ==
    ASSUME I!InstanceTyped, NEW c \in Copies, NEW t \in I!Contents \cup {None}
    PROVE  /\ v3' = [v3 EXCEPT ![c] = [tree |-> t, since |-> v10]] \/ (v3' = [v3 EXCEPT ![c].tree = t])
                => /\ v3' \in [Copies -> [tree : I!Contents \cup {None}, since : Nat]]
                   /\ v3'[c].tree = t /\ \A k \in Copies : k # c => v3'[k] = v3[k]
  <1>1. v10 \in Nat
    BY PartsAssumption DEF I!InstanceTyped, I!Days, I!InstanceRestoreAssumption
  <1>2. v3 \in [Copies -> [tree : I!Contents \cup {None}, since : Nat]]
    BY DEF I!InstanceTyped
  <1>3. CASE v3' = [v3 EXCEPT ![c] = [tree |-> t, since |-> v10]]
    BY <1>1, <1>2, <1>3
  <1>4. CASE v3' = [v3 EXCEPT ![c].tree = t]
    BY <1>2, <1>4
  <1> QED
    BY <1>3, <1>4

LEMMA OwnIsATree == I!Own \in I!Contents /\ I!Own # None /\ I!Own.whole
  <1>1. I!Own = [holds |-> "own", of |-> 0, whole |-> TRUE]
    BY DEF I!Own
  <1>2. I!Own \in I!Contents /\ I!Own.whole
    BY <1>1 DEF I!Contents
  <1> QED
    BY <1>2, PartsAssumption DEF I!InstanceRestoreAssumption

LEMMA InstanceMaking ==
    ASSUME I!InstanceTyped, I!InstanceInv
    PROVE  /\ (\E c \in Copies \cup {None}, d \in I!Days : I!Ask(c, d)) => InstanceKept
           /\ I!StartExtracting => InstanceKept
           /\ I!Extracted => InstanceKept
           /\ I!TakeLock => InstanceKept
           /\ I!StopInstance => InstanceKept
           /\ I!CannotPrepare => InstanceKept
  <1> USE PartsAssumption DEF I!InstanceRestoreAssumption, I!InstanceTyped, I!InstanceInv, I!StateInv, I!Saved, I!TreesInv,
          I!OwnDataIsKept, I!StartsWhole, InstanceKept, I!Running, I!There, I!Step, I!Save, I!Goes, I!Steady, I!NoFault, I!Fault, I!trees, I!GiveUp, I!Idle
  <1>1. ASSUME NEW c \in Copies \cup {None}, NEW d \in I!Days, I!Ask(c, d) PROVE InstanceKept
    <2>1. PICK n \in Nat : n = IF c = None THEN d ELSE IF v4[c] # 0 THEN v4[c] ELSE v3[c].since
      <3>1. d \in Nat
        BY DEF I!Days
      <3>2. c \in Copies => v4[c] \in Nat /\ v3[c].since \in Nat
        OBVIOUS
      <3> QED
        BY <3>1, <3>2
    <2>2. /\ v5'.state = "preparing" /\ v5'.copy = c /\ v5'.incoming = None /\ v5'.previous = None
          /\ v5' \in [state : I!Running \cup {"idle", "done", "failed", "rolled-back"},
                     copy : Copies \cup {None}, incoming : Copies \cup {None, "staging"},
                     previous : Copies \cup {None}, of : Nat, live : Nat]
      <3>1. v5' = [state |-> "preparing", copy |-> c, incoming |-> None, previous |-> None, of |-> n, live |-> v5.live]
        BY <1>1, <2>1 DEF I!Ask
      <3> QED
        BY <3>1
    <2> QED
      BY <1>1, <2>2 DEF I!Ask
  <1>2. ASSUME I!StartExtracting PROVE InstanceKept
    <2>1. v2' \in I!Contents
      BY <1>2 DEF I!StartExtracting, I!Snap, I!Contents
    <2>2. v5' \in [state : I!Running \cup {"idle", "done", "failed", "rolled-back"},
                  copy : Copies \cup {None}, incoming : Copies \cup {None, "staging"},
                  previous : Copies \cup {None}, of : Nat, live : Nat]
      BY <1>2 DEF I!StartExtracting
    <2> QED
      BY <1>2, <2>1, <2>2 DEF I!StartExtracting
  <1>3. ASSUME I!Extracted PROVE InstanceKept
    <2>1. v2' \in I!Contents /\ v2'.whole
      BY <1>3 DEF I!Extracted, I!Snap, I!Contents
    <2> QED
      BY <1>3, <2>1 DEF I!Extracted
  <1>4. ASSUME I!TakeLock PROVE InstanceKept
    BY <1>4 DEF I!TakeLock
  <1>5. ASSUME I!StopInstance PROVE InstanceKept
    BY <1>5 DEF I!StopInstance
  <1>6. ASSUME I!CannotPrepare PROVE InstanceKept
    BY ZenonT(30), <1>6 DEF I!CannotPrepare
  <1> QED
    BY <1>1, <1>2, <1>3, <1>4, <1>5, <1>6

LEMMA InstanceSwapping ==
    ASSUME I!InstanceTyped, I!InstanceInv
    PROVE  /\ (\E c \in Copies : I!Mark(c)) => InstanceKept
           /\ I!Swap => InstanceKept
           /\ (\E c \in Copies : I!Aside(c)) => InstanceKept
           /\ I!SetOrigin => InstanceKept
           /\ I!Place => InstanceKept
           /\ I!CannotSwap => InstanceKept
           /\ I!ForgetOrigin => InstanceKept
           /\ I!Starting => InstanceKept
           /\ I!Healthy => InstanceKept
           /\ I!Finish => InstanceKept
  <1> USE PartsAssumption DEF I!InstanceRestoreAssumption, I!InstanceTyped, I!InstanceInv, I!StateInv, I!Saved, I!TreesInv,
          I!OwnDataIsKept, I!StartsWhole, InstanceKept, I!Running, I!There, I!Step, I!Save, I!Goes, I!Steady, I!NoFault, I!Fault, I!trees, I!Free, I!Incoming
  <1>1. ASSUME NEW c \in Copies, I!Mark(c) PROVE InstanceKept
    BY ZenonT(30), <1>1 DEF I!Mark
  <1>2. ASSUME I!Swap PROVE InstanceKept
    BY <1>2 DEF I!Swap
  <1>3. ASSUME NEW c \in Copies, I!Aside(c) PROVE InstanceKept
    <2>1. /\ v3' \in [Copies -> [tree : I!Contents \cup {None}, since : Nat]]
          /\ v3'[c].tree = v1 /\ \A k \in Copies : k # c => v3'[k] = v3[k]
      BY ZenonT(30), <1>3, NamesGiven DEF I!Aside
    <2>2. v1 # None /\ v3[c].tree = None /\ c = v5.previous
      BY <1>3 DEF I!Aside
    <2> QED
      BY <1>3, <2>1, <2>2 DEF I!Aside
  <1>4. ASSUME I!SetOrigin PROVE InstanceKept
    <2>1. v4' \in [Copies -> Nat]
      BY <1>4 DEF I!SetOrigin, I!Days
    <2> QED
      BY <1>4, <2>1 DEF I!SetOrigin
  <1>5. ASSUME I!Place PROVE InstanceKept
    <2>1. CASE v5.copy = None
      <3>1. v1' = v2 /\ v2' = None /\ v2 # None /\ v2.whole
        BY <1>5, <2>1 DEF I!Place
      <3>2. v6 = "place" /\ v6' = "forget" /\ v1 = None /\ UNCHANGED <<v3, v4, v5, v7, v8, v9, v10>>
        BY <1>5, <2>1 DEF I!Place
      <3>3. I!Own # None
        BY OwnIsATree
      <3> QED
        BY <3>1, <3>2, <3>3
    <2>2. CASE v5.copy # None
      <3>1. PICK c \in Copies : c = v5.copy
        BY <2>2
      <3>2. /\ v3' \in [Copies -> [tree : I!Contents \cup {None}, since : Nat]]
            /\ v3'[c].tree = None /\ \A k \in Copies : k # c => v3'[k] = v3[k]
        BY <1>5, <2>2, <3>1, NamesGiven DEF I!Place
      <3>3. v1' = v3[c].tree /\ v1' # None /\ v2' = v2
        BY <1>5, <2>2, <3>1 DEF I!Place
      <3> QED
        BY <1>5, <3>1, <3>2, <3>3 DEF I!Place
    <2> QED
      BY <2>1, <2>2
  <1>6. ASSUME I!CannotSwap PROVE InstanceKept
    <2>1. /\ v5'.state = "failed" /\ v5'.previous = None /\ v5'.copy = v5.copy
          /\ v5' \in [state : I!Running \cup {"idle", "done", "failed", "rolled-back"},
                     copy : Copies \cup {None}, incoming : Copies \cup {None, "staging"},
                     previous : Copies \cup {None}, of : Nat, live : Nat]
      BY <1>6 DEF I!CannotSwap
    <2>2. CASE v6 = "aside"
      BY <1>6, <2>1, <2>2 DEF I!CannotSwap
    <2>3. CASE v6 = "place"
      <3>1. PICK c \in Copies : c = v5.previous
        BY <2>3
      <3>2. /\ v3' \in [Copies -> [tree : I!Contents \cup {None}, since : Nat]]
            /\ v3'[c].tree = None /\ \A k \in Copies : k # c => v3'[k] = v3[k]
        BY <1>6, <2>3, <3>1, NamesGiven DEF I!CannotSwap
      <3>3. v1' = v3[c].tree /\ v1' # None /\ v1 = None
        BY <1>6, <2>3, <3>1 DEF I!CannotSwap
      <3>4. v4' \in [Copies -> Nat]
        BY <1>6, <2>3 DEF I!CannotSwap
      <3>5. v6' = "idle" /\ v2' = None /\ v8' = TRUE /\ UNCHANGED <<v7, v9, v10>>
        BY <1>6 DEF I!CannotSwap
      <3>6. I!Own # None
        BY OwnIsATree
      <3>7. I!InstanceTyped'
        BY <2>1, <3>2, <3>3, <3>4, <3>5
      <3>8. I!StateInv'
        BY <2>1, <3>5
      <3>9. I!TreesInv' /\ I!StartsWhole
        BY <2>1, <3>2, <3>3, <3>5
      <3>10. I!OwnDataIsKept'
        BY <3>2, <3>3, <3>5, <3>6
      <3> QED
        BY <3>7, <3>8, <3>9, <3>10
    <2> QED
      BY <1>6, <2>2, <2>3 DEF I!CannotSwap
  <1>7. ASSUME I!ForgetOrigin PROVE InstanceKept
    BY <1>7 DEF I!ForgetOrigin
  <1>8. ASSUME I!Starting PROVE InstanceKept
    BY <1>8 DEF I!Starting
  <1>9. ASSUME I!Healthy PROVE InstanceKept
    BY <1>9 DEF I!Healthy
  <1>10. ASSUME I!Finish PROVE InstanceKept
    BY <1>10 DEF I!Finish
  <1> QED
    BY <1>1, <1>2, <1>3, <1>4, <1>5, <1>6, <1>7, <1>8, <1>9, <1>10

LEMMA InstanceBack ==
    ASSUME I!InstanceTyped, I!InstanceInv
    PROVE  /\ I!Unhealthy => InstanceKept
           /\ (\E c \in Copies : I!BackAside(c)) => InstanceKept
           /\ I!BackInPlace => InstanceKept
           /\ I!BackClear => InstanceKept
           /\ I!BackStart => InstanceKept
  <1> USE PartsAssumption DEF I!InstanceRestoreAssumption, I!InstanceTyped, I!InstanceInv, I!StateInv, I!Saved, I!TreesInv,
          I!OwnDataIsKept, I!StartsWhole, InstanceKept, I!Running, I!There, I!Step, I!Save, I!Goes, I!Steady, I!NoFault, I!Fault, I!trees, I!Free
  <1>1. ASSUME I!Unhealthy PROVE InstanceKept
    BY <1>1 DEF I!Unhealthy
  <1>2. ASSUME NEW c \in Copies, I!BackAside(c) PROVE InstanceKept
    <2>1. /\ v3' \in [Copies -> [tree : I!Contents \cup {None}, since : Nat]]
          /\ v3'[c].tree = v1 /\ \A k \in Copies : k # c => v3'[k] = v3[k]
      BY ZenonT(30), <1>2, NamesGiven DEF I!BackAside
    <2>2. v3[c].tree = None /\ c # v5.previous
      BY <1>2 DEF I!BackAside
    <2>3. v4' \in [Copies -> Nat]
      BY <1>2 DEF I!BackAside
    <2> QED
      BY <1>2, <2>1, <2>2, <2>3 DEF I!BackAside
  <1>3. ASSUME I!BackInPlace PROVE InstanceKept
    BY <1>3 DEF I!BackInPlace
  <1>4. ASSUME I!BackClear PROVE InstanceKept
    BY <1>4 DEF I!BackClear
  <1>5. ASSUME I!BackStart PROVE InstanceKept
    BY <1>5 DEF I!BackStart
  <1> QED
    BY <1>1, <1>2, <1>3, <1>4, <1>5

LEMMA InstanceRecovering ==
    ASSUME I!InstanceTyped, I!InstanceInv
    PROVE  /\ I!Crash => InstanceKept
           /\ I!Recover => InstanceKept
           /\ (\E c \in Copies : I!RecoverAside(c)) => InstanceKept
           /\ I!RecoverBack => InstanceKept
           /\ I!RecoverStart => InstanceKept
  <1> USE PartsAssumption DEF I!InstanceRestoreAssumption, I!InstanceTyped, I!InstanceInv, I!StateInv, I!Saved, I!TreesInv,
          I!OwnDataIsKept, I!StartsWhole, InstanceKept, I!Running, I!There, I!Step, I!Save, I!Goes, I!Steady, I!NoFault, I!Fault, I!trees, I!Free, I!CutBetween, I!DropIncoming
  <1>1. ASSUME I!Crash PROVE InstanceKept
    BY <1>1 DEF I!Crash
  <1>2. ASSUME I!Recover PROVE InstanceKept
    <2>1. CASE v5.state \notin I!Running
      BY <1>2, <2>1 DEF I!Recover
    <2>2. CASE v5.state \in I!Running /\ I!CutBetween
      <3>1. PICK c \in Copies : c = v5.previous
        BY <2>2
      <3>2. /\ v6' = "recstart" /\ UNCHANGED <<v2, v5, v7, v8, v9, v10>>
            /\ v1' = v3[c].tree /\ v3' = [v3 EXCEPT ![c].tree = None] /\ v4' = [v4 EXCEPT ![c] = 0]
        BY <1>2, <2>2, <3>1 DEF I!Recover
      <3>3. /\ v3' \in [Copies -> [tree : I!Contents \cup {None}, since : Nat]]
            /\ v3'[c].tree = None /\ \A k \in Copies : k # c => v3'[k] = v3[k]
        BY <3>2, NamesGiven
      <3>4. v1' # None /\ v1 = None
        BY <2>2, <3>1, <3>2
      <3> QED
        BY <2>2, <3>1, <3>2, <3>3, <3>4
    <2>3. CASE v5.state = "swapping" /\ v1 # None /\ I!There(v5.previous)
      BY <1>2, <2>3 DEF I!Recover
    <2>4. CASE v5.state = "starting" /\ ~I!CutBetween
      BY <1>2, <2>4 DEF I!Recover
    <2>5. CASE /\ v5.state \in I!Running /\ ~I!CutBetween /\ v5.state # "starting"
               /\ ~(v5.state = "swapping" /\ v1 # None /\ I!There(v5.previous))
      BY <1>2, <2>5 DEF I!Recover
    <2> QED
      BY <2>1, <2>2, <2>3, <2>4, <2>5
  <1>3. ASSUME NEW c \in Copies, I!RecoverAside(c) PROVE InstanceKept
    <2>1. /\ v3' \in [Copies -> [tree : I!Contents \cup {None}, since : Nat]]
          /\ v3'[c].tree = v1 /\ \A k \in Copies : k # c => v3'[k] = v3[k]
      BY ZenonT(30), <1>3, NamesGiven DEF I!RecoverAside
    <2>2. v3[c].tree = None /\ c # v5.previous
      BY <1>3 DEF I!RecoverAside
    <2>3. v4' \in [Copies -> Nat]
      BY <1>3 DEF I!RecoverAside
    <2> QED
      BY <1>3, <2>1, <2>2, <2>3 DEF I!RecoverAside
  <1>4. ASSUME I!RecoverBack PROVE InstanceKept
    BY <1>4 DEF I!RecoverBack
  <1>5. ASSUME I!RecoverStart PROVE InstanceKept
    BY <1>5 DEF I!RecoverStart
  <1> QED
    BY <1>1, <1>2, <1>3, <1>4, <1>5

LEMMA InstanceRemoving ==
    ASSUME I!InstanceTyped, I!InstanceInv
    PROVE  /\ I!LookToPrune => InstanceKept
           /\ (\E c \in Copies : I!LookToDelete(c)) => InstanceKept
           /\ (\E c \in Copies : I!Remove(c)) => InstanceKept
           /\ I!NewDay => InstanceKept
  <1> USE PartsAssumption DEF I!InstanceRestoreAssumption, I!InstanceTyped, I!InstanceInv, I!StateInv, I!Saved, I!TreesInv,
          I!OwnDataIsKept, I!StartsWhole, InstanceKept, I!Running, I!There, I!Step, I!Save, I!Goes, I!Steady, I!NoFault, I!Fault, I!trees
  <1>1. ASSUME I!LookToPrune PROVE InstanceKept
    BY <1>1 DEF I!LookToPrune
  <1>2. ASSUME NEW c \in Copies, I!LookToDelete(c) PROVE InstanceKept
    BY <1>2 DEF I!LookToDelete
  <1>3. ASSUME NEW c \in Copies, I!Remove(c) PROVE InstanceKept
    <2>1. /\ v3' \in [Copies -> [tree : I!Contents \cup {None}, since : Nat]]
          /\ v3'[c].tree = None /\ \A k \in Copies : k # c => v3'[k] = v3[k]
      BY <1>3, NamesGiven DEF I!Remove
    <2>2. v4' \in [Copies -> Nat] /\ v9' \in BOOLEAN
      BY <1>3 DEF I!Remove
    <2>3. c \in v7 /\ v7' = v7 \ {c} /\ UNCHANGED <<v1, v2, v5, v6, v8, v10>>
          /\ v9' = (v9 \/ v3[c].tree = I!Own)
      BY <1>3 DEF I!Remove
    <2>4. v5.state \in I!Running => v5.previous # c
      BY <2>3
    <2>5. I!OwnDataIsKept'
      BY <2>1, <2>3
    <2>6. I!TreesInv'
      BY <2>1, <2>3, <2>4
    <2> QED
      BY <2>1, <2>2, <2>3, <2>5, <2>6
  <1>4. ASSUME I!NewDay PROVE InstanceKept
    BY <1>4 DEF I!NewDay, I!Days
  <1> QED
    BY <1>1, <1>2, <1>3, <1>4

LEMMA InstanceGoesOn ==
    InstanceGood /\ [Next]_slots => InstanceGood' /\ (which = "instance" => [I!StartsWhole]_slots)
  <1> SUFFICES ASSUME InstanceGood, [Next]_slots, which = "instance" \/ which' = "instance"
               PROVE  I!InstanceTyped' /\ I!InstanceInv' /\ [I!StartsWhole]_slots
    BY DEF InstanceGood
  <1>1. which = "instance" /\ [I!InstanceNext]_(I!ivars)
    BY DEF Next, slots, I!ivars
  <1>2. I!InstanceTyped /\ I!InstanceInv
    BY <1>1 DEF InstanceGood
  <1>3. CASE UNCHANGED I!ivars
    BY <1>2, <1>3
    DEF I!ivars, I!InstanceTyped, I!InstanceInv, I!StateInv, I!Saved, I!TreesInv, I!There, I!OwnDataIsKept, I!StartsWhole
  <1>4. CASE I!InstanceNext
    <2>1. InstanceKept
      BY <1>2, <1>4, InstanceMaking, InstanceSwapping, InstanceBack, InstanceRecovering, InstanceRemoving DEF I!InstanceNext
    <2> QED
      BY <2>1 DEF InstanceKept, I!InstanceInv
  <1> QED
    BY <1>1, <1>3, <1>4

\* Of any names for kept trees, days, restores, faults and crashes: whatever fails
\* and wherever the agent stops, the instance starts on whole data only, and the
\* data it ran on stays until its age or the operator has it removed.
THEOREM OwnDataHolds == Spec => OwnDataIsKept
  <1>1. Init => InstanceGood
    <2> SUFFICES ASSUME I!InstanceInit PROVE I!InstanceTyped /\ I!InstanceInv
      BY DEF Init, InstanceGood
    <2> USE PartsAssumption DEF I!InstanceInit, I!InstanceRestoreAssumption
    <2>1. I!Own \in I!Contents /\ I!Own # None /\ I!Own.whole
      BY OwnIsATree
    <2>5. v5 \in [state : I!Running \cup {"idle", "done", "failed", "rolled-back"},
                 copy : Copies \cup {None}, incoming : Copies \cup {None, "staging"},
                 previous : Copies \cup {None}, of : Nat, live : Nat]
      BY DEF I!Idle
    <2>6. v10 \in I!Days
      BY DEF I!Days
    <2>2. I!InstanceTyped
      BY <2>1, <2>5, <2>6 DEF I!InstanceTyped
    <2>3. I!StateInv
      BY DEF I!StateInv, I!Saved, I!Idle, I!Running
    <2>4. I!TreesInv /\ I!OwnDataIsKept
      BY <2>1 DEF I!TreesInv, I!There, I!OwnDataIsKept
    <2> QED
      BY <2>2, <2>3, <2>4 DEF I!InstanceInv
  <1>2. InstanceGood => (which = "instance" => I!OwnDataIsKept)
    BY DEF InstanceGood, I!InstanceInv
  <1>3. InstanceGood /\ [Next]_slots => [which = "instance" => I!StartsWhole]_slots
    BY InstanceGoesOn
  <1> QED
    BY <1>1, <1>2, <1>3, InstanceGoesOn, PTL DEF Spec, OwnDataIsKept

(***************************************************************************)
(* Tiers.                                                                  *)
(***************************************************************************)

TiersGood == which = "tiers" => T!TiersTyped /\ T!EventsInv

TiersKept == T!TiersTyped' /\ T!EventsInv' /\ T!KeepsGrace

LEMMA TiersConstants ==
    /\ None \notin Nat /\ TierCap \in [Tiers -> Nat] /\ EventTier \in [PlanEvents -> Tiers]
    /\ TiersHere \subseteq Tiers /\ TiersFree \subseteq Tiers /\ TierGrace \in Nat
  BY PartsAssumption DEF T!TiersAssumption

\* A restamp gives a site the cap it was asked to, and leaves a date the tier
\* imposed where it is when that is the cap it has.
LEMMA RestampIsLawful ==
    ASSUME NEW m \in T!Homes, NEW c \in Nat, NEW days \in Nat, v1 \in Nat
    PROVE  \E n \in T!Homes :
              /\ n = T!Restamped(m, c, days) /\ n.cap = c
              /\ c = m.cap /\ m.date # None /\ n.imposed => n.date = m.date
  <1> DEFINE new == T!RestampedDate(m, c, days)
             forced == c > 0 /\ (m.imposed \/ (m.date = None /\ days > 0))
  <1>1. m.cap \in Nat /\ m.date \in Nat \cup {None} /\ m.imposed \in BOOLEAN
    BY DEF T!Homes, T!Dates
  <1>2. new \in T!Dates /\ forced \in BOOLEAN
    <2>1. CASE c = 0
      BY <1>1, <2>1 DEF T!RestampedDate, T!Dates
    <2>2. CASE c > 0 /\ m.date = None
      BY <1>1, <2>2 DEF T!RestampedDate, T!Dates
    <2>3. CASE c > 0 /\ m.date # None
      <3>1. CASE T!Shrinks(m, c)
        BY <1>1, <2>3, <3>1, TiersConstants DEF T!RestampedDate, T!Dates, T!Shrinks, T!Grows
      <3>2. CASE ~T!Shrinks(m, c)
        BY <1>1, <2>3, <3>2, TiersConstants DEF T!RestampedDate, T!Dates, T!Shrinks, T!Grows
      <3> QED
        BY <3>1, <3>2
    <2> QED
      BY <2>1, <2>2, <2>3
  <1>3. c = m.cap /\ m.date # None /\ forced => new = m.date
    BY <1>1, TiersConstants DEF T!RestampedDate, T!Shrinks, T!Grows
  <1>4. T!Restamped(m, c, days) = [m EXCEPT !.cap = c, !.date = new, !.imposed = forced]
    BY DEF T!Restamped
  <1> HIDE DEF new, forced
  <1>5. PICK n \in T!Homes : n = [m EXCEPT !.cap = c, !.date = new, !.imposed = forced]
    BY <1>2 DEF T!Homes
  <1>6. n.cap = c /\ n.date = new /\ n.imposed = forced
    BY <1>5 DEF T!Homes
  <1> QED
    BY <1>3, <1>4, <1>5, <1>6

\* One site is written: the days it was granted are the days it has.
LEMMA OneSiteChanges ==
    ASSUME v5 \in [PlanSites -> T!Homes], NEW s \in PlanSites, NEW n \in T!Homes,
           v5' = [v5 EXCEPT ![s] = n],
           v5[s].live /\ v5[s].imposed /\ v5[s].date # None /\ n.imposed /\ n.cap = v5[s].cap
           => n.date # None /\ (n.date >= v5[s].date \/ T!StaleUpload(s))
    PROVE  v5' \in [PlanSites -> T!Homes] /\ T!KeepsGrace
  <1>1. v5' \in [PlanSites -> T!Homes] /\ v5'[s] = n /\ \A x \in PlanSites : x # s => v5'[x] = v5[x]
    OBVIOUS
  <1>2. \A x \in PlanSites : v5[x].date # None => v5[x].date >= v5[x].date
    BY DEF T!Homes, T!Dates
  <1> QED
    BY <1>1, <1>2 DEF T!KeepsGrace

LEMMA SitesStay ==
    ASSUME v5 \in [PlanSites -> T!Homes], v5' = v5
    PROVE  v5' \in [PlanSites -> T!Homes] /\ T!KeepsGrace
  <1>1. \A x \in PlanSites : v5[x].date # None => v5[x].date >= v5[x].date
    BY DEF T!Homes, T!Dates
  <1> QED
    BY <1>1 DEF T!KeepsGrace

\* A site is deleted, held, let go, or its marker dropped.
LEMMA SitesGo ==
    ASSUME v5 \in [PlanSites -> T!Homes], NEW s \in PlanSites,
           NEW live \in BOOLEAN, NEW held \in BOOLEAN, NEW marked \in BOOLEAN,
           v5' = [v5 EXCEPT ![s] = [v5[s] EXCEPT !.live = live, !.held = held, !.marked = marked]]
    PROVE  v5' \in [PlanSites -> T!Homes] /\ T!KeepsGrace
  <1>1. PICK n \in T!Homes : n = [v5[s] EXCEPT !.live = live, !.held = held, !.marked = marked]
    BY DEF T!Homes
  <1>2. n.date = v5[s].date
    BY <1>1 DEF T!Homes
  <1>3. v5[s].date # None => n.date >= v5[s].date
    BY <1>2 DEF T!Homes, T!Dates
  <1> QED
    BY <1>1, <1>2, <1>3, OneSiteChanges

\* What PayGate answers stands for configured tiers.
LEMMA PlansAreTiers ==
    ASSUME T!TiersTyped
    PROVE  /\ T!Asked \in Tiers \cup {"noplan", "outage", "stale"}
           /\ T!Asked \in Tiers \cup {"noplan", "outage"}
           /\ T!Strict(T!Asked) \subseteq Tiers
  <1>1. T!Asked \in Tiers \cup {"noplan", "outage"}
    BY DEF T!TiersTyped, T!Asked
  <1>2. T!Strict(T!Asked) \subseteq Tiers
    BY TiersConstants DEF T!Strict, T!Stored, T!TiersTyped
  <1> QED
    BY <1>1, <1>2

LEMMA EventsStay ==
    ASSUME T!EventsInv, UNCHANGED <<v6, v9, v10>>
    PROVE  T!EventsInv'
  BY DEF T!EventsInv, T!Applies

\* A walker takes up, goes on with or puts down what is no event.
LEMMA EventsGo ==
    ASSUME T!TiersTyped, T!EventsInv, UNCHANGED <<v9, v10>>, NEW k \in Some, NEW w \in T!Walks \cup {None},
           v6' = [v6 EXCEPT ![k] = w], w # None => w.why # "event"
    PROVE  T!EventsInv' /\ v6' \in [Some -> T!Walks \cup {None}]
  <1>1. /\ v6' \in [Some -> T!Walks \cup {None}] /\ v6'[k] = w
        /\ \A j \in Some : j # k => v6'[j] = v6[j]
    BY DEF T!TiersTyped
  <1>2. \A j \in Some, e \in PlanEvents : T!Applies(j, e)' => T!Applies(j, e) /\ j # k
    BY <1>1 DEF T!Applies
  <1>3. \A j \in Some : v6'[j] # None /\ v6'[j].why = "event" => v6'[j].event \in PlanEvents
    BY <1>1 DEF T!EventsInv
  <1> QED
    BY <1>1, <1>2, <1>3 DEF T!EventsInv

\* Plans, caches and days.
LEMMA PlansMove ==
    ASSUME T!TiersTyped, T!EventsInv, T!PlanChanges \/ T!CacheChanges \/ T!Day
    PROVE  TiersKept
  <1>0. UNCHANGED <<v4, v5, v6, v7, v8, v9, v10>>
    BY DEF T!PlanChanges, T!CacheChanges, T!Day
  <1>1. v1' \in Nat /\ v2' \in Tiers \cup {"noplan", "outage"} /\ v3' \in Tiers \cup {"noplan", "outage", "stale"}
    BY DEF T!PlanChanges, T!CacheChanges, T!Day, T!TiersTyped
  <1>2. T!TiersTyped'
    BY <1>0, <1>1 DEF T!TiersTyped
  <1>3. T!EventsInv'
    BY <1>0, EventsStay
  <1>4. v5 \in [PlanSites -> T!Homes]
    BY DEF T!TiersTyped
  <1> QED
    BY <1>0, <1>2, <1>3, <1>4, SitesStay DEF TiersKept

\* The account's walkers.
LEMMA WalksGo ==
    ASSUME T!TiersTyped, T!EventsInv, NEW k \in Some,
           \/ T!SyncStart(k) \/ T!SelectTier(k) \/ T!ApplyEvent(k) \/ T!EventFails(k) \/ T!RestampEnd(k)
           \/ \E e \in PlanEvents : T!Deliver(k, e)
           \/ \E s \in PlanSites : T!RestampSite(k, s)
    PROVE  TiersKept
  <1>0. /\ v1 \in Nat /\ v4 \in Tiers /\ v5 \in [PlanSites -> T!Homes] /\ v6 \in [Some -> T!Walks \cup {None}]
        /\ v6[k] \in T!Walks \cup {None} /\ T!Marked \in SUBSET PlanSites
        /\ v10 \in [PlanEvents -> Nat] /\ v9 \subseteq PlanEvents
    BY DEF T!TiersTyped, T!Marked
  <1>1. ASSUME T!SyncStart(k) PROVE TiersKept
    <2>1. PICK t \in T!Strict(T!Asked) \ {v4} :
             v6' = [v6 EXCEPT ![k] = [why |-> "sync", to |-> t, event |-> None, todo |-> T!Marked, failed |-> FALSE]]
      BY <1>1 DEF T!SyncStart
    <2>2. v3' = T!Asked /\ UNCHANGED <<v1, v2, v4, v5, v7, v8, v9, v10>>
      BY <1>1 DEF T!SyncStart
    <2>3. PICK w \in T!Walks : w = [why |-> "sync", to |-> t, event |-> None, todo |-> T!Marked, failed |-> FALSE]
      BY <1>0, <2>1, PlansAreTiers DEF T!Walks
    <2>4. w.why = "sync"
      BY <2>3
    <2>5. T!EventsInv' /\ v6' \in [Some -> T!Walks \cup {None}]
      BY <2>1, <2>2, <2>3, <2>4, EventsGo
    <2>6. T!TiersTyped'
      BY <2>2, <2>5, PlansAreTiers DEF T!TiersTyped
    <2> QED
      BY <1>0, <2>2, <2>5, <2>6, SitesStay DEF TiersKept
  <1>2. ASSUME T!SelectTier(k) PROVE TiersKept
    <2>1. PICK t \in TiersFree :
             /\ v4' = t
             /\ v6' = [v6 EXCEPT ![k] = [why |-> "told", to |-> t, event |-> None, todo |-> T!Marked, failed |-> FALSE]]
      BY <1>2 DEF T!SelectTier
    <2>2. UNCHANGED <<v1, v2, v3, v5, v7, v8, v9, v10>>
      BY <1>2 DEF T!SelectTier
    <2>3. PICK w \in T!Walks : w = [why |-> "told", to |-> t, event |-> None, todo |-> T!Marked, failed |-> FALSE]
      BY <1>0, <2>1, TiersConstants DEF T!Walks
    <2>4. w.why = "told"
      BY <2>3
    <2>5. T!EventsInv' /\ v6' \in [Some -> T!Walks \cup {None}]
      BY <2>1, <2>2, <2>3, <2>4, EventsGo
    <2>6. T!TiersTyped'
      BY <2>1, <2>2, <2>5, TiersConstants DEF T!TiersTyped
    <2> QED
      BY <1>0, <2>2, <2>5, <2>6, SitesStay DEF TiersKept
  <1>3. ASSUME T!ApplyEvent(k) PROVE TiersKept
    <2>0. UNCHANGED <<v1, v2, v3, v5, v7, v8, v9>>
      BY <1>3 DEF T!ApplyEvent
    <2>1. PICK e \in PlanEvents : e = v6[k].event
      BY <1>3 DEF T!ApplyEvent, T!EventsInv
    <2>2. /\ v6[k] # None /\ v6[k] \in T!Walks /\ v6[k].why = "event" /\ v4' = v6[k].to
          /\ v10' = [v10 EXCEPT ![e] = @ + 1]
      BY <1>0, <1>3, <2>1 DEF T!ApplyEvent
    <2>3. e \in v9 /\ v10[e] = 0 /\ \A j \in Some \ {k} : ~T!Applies(j, e)
      BY <2>1, <2>2 DEF T!EventsInv, T!Applies
    <2>4. /\ v10' \in [PlanEvents -> Nat] /\ v10'[e] = 1
          /\ \A x \in PlanEvents : x # e => v10'[x] = v10[x]
      BY <1>0, <2>2, <2>3
    <2>5. PICK w \in T!Walks \cup {None} :
             w = IF v6[k].to \in TiersHere THEN [v6[k] EXCEPT !.why = "told", !.todo = T!Marked] ELSE None
      BY <1>0, <2>2 DEF T!Walks
    <2>6. w # None => w.why # "event"
      BY <2>2, <2>5 DEF T!Walks
    <2>7. v6' = [v6 EXCEPT ![k] = w]
      BY <1>3, <2>5 DEF T!ApplyEvent
    <2>8. /\ v6' \in [Some -> T!Walks \cup {None}] /\ v6'[k] = w
          /\ \A j \in Some : j # k => v6'[j] = v6[j]
      BY <1>0, <2>7
    <2>9. \A j \in Some, x \in PlanEvents : T!Applies(j, x)' => j # k /\ T!Applies(j, x) /\ x # e
      BY <2>3, <2>6, <2>8 DEF T!Applies
    <2>10. \A j \in Some : v6'[j] # None /\ v6'[j].why = "event" => v6'[j].event \in PlanEvents
      BY <2>6, <2>8 DEF T!EventsInv
    <2>11. \A x \in PlanEvents : v10'[x] <= 1 /\ (x \notin v9' => v10'[x] = 0)
      BY <2>0, <2>3, <2>4 DEF T!EventsInv
    <2>12. \A j \in Some, x \in PlanEvents : T!Applies(j, x)' =>
              /\ x \in v9' /\ v10'[x] = 0
              /\ \A i \in Some \ {j} : ~T!Applies(i, x)'
      BY <2>0, <2>4, <2>9 DEF T!EventsInv
    <2>13. T!EventsInv'
      BY <2>10, <2>11, <2>12 DEF T!EventsInv
    <2>14. v4' \in Tiers
      BY <2>2 DEF T!Walks
    <2>15. T!TiersTyped'
      BY <2>0, <2>4, <2>8, <2>14 DEF T!TiersTyped
    <2> QED
      BY <1>0, <2>0, <2>13, <2>15, SitesStay DEF TiersKept
  <1>4. ASSUME T!EventFails(k) \/ T!RestampEnd(k) PROVE TiersKept
    <2>1. UNCHANGED <<v1, v2, v3, v5, v7, v8, v9, v10>> /\ v6' = [v6 EXCEPT ![k] = None]
      BY <1>4 DEF T!EventFails, T!RestampEnd
    <2>2. v4' \in Tiers
      BY <1>0, <1>4 DEF T!EventFails, T!RestampEnd, T!Walks
    <2>3. T!EventsInv' /\ v6' \in [Some -> T!Walks \cup {None}]
      BY <2>1, EventsGo
    <2>4. T!TiersTyped'
      BY <2>1, <2>2, <2>3 DEF T!TiersTyped
    <2> QED
      BY <1>0, <2>1, <2>3, <2>4, SitesStay DEF TiersKept
  <1>5. ASSUME NEW e \in PlanEvents, T!Deliver(k, e) PROVE TiersKept
    <2>0. UNCHANGED <<v1, v2, v3, v4, v5, v7, v8, v10>> /\ v6[k] = None /\ e \notin v9 /\ v9' = v9 \cup {e}
      BY <1>5 DEF T!Deliver
    <2>1. PICK w \in T!Walks : w = [why |-> "event", to |-> EventTier[e], event |-> e, todo |-> {}, failed |-> FALSE]
      BY TiersConstants DEF T!Walks
    <2>2. w.event = e
      BY <2>1
    <2>3. v6' = [v6 EXCEPT ![k] = w]
      BY <1>5, <2>1 DEF T!Deliver
    <2>4. /\ v6' \in [Some -> T!Walks \cup {None}] /\ v6'[k] = w
          /\ \A j \in Some : j # k => v6'[j] = v6[j]
      BY <1>0, <2>3
    <2>5. v10[e] = 0 /\ \A j \in Some : ~T!Applies(j, e)
      BY <2>0 DEF T!EventsInv
    <2>6. \A j \in Some, x \in PlanEvents : T!Applies(j, x)' => (j = k /\ x = e) \/ (j # k /\ x # e /\ T!Applies(j, x))
      BY <2>2, <2>4, <2>5 DEF T!Applies
    <2>7. \A j \in Some : v6'[j] # None /\ v6'[j].why = "event" => v6'[j].event \in PlanEvents
      BY <2>2, <2>4 DEF T!EventsInv
    <2>8. \A x \in PlanEvents : v10'[x] <= 1 /\ (x \notin v9' => v10'[x] = 0)
      BY <2>0 DEF T!EventsInv
    <2>9. \A j \in Some, x \in PlanEvents : T!Applies(j, x)' =>
              /\ x \in v9' /\ v10'[x] = 0
              /\ \A i \in Some \ {j} : ~T!Applies(i, x)'
      BY <2>0, <2>5, <2>6 DEF T!EventsInv
    <2>10. T!EventsInv'
      BY <2>7, <2>8, <2>9 DEF T!EventsInv
    <2>11. T!TiersTyped'
      BY <1>0, <2>0, <2>4 DEF T!TiersTyped
    <2> QED
      BY <1>0, <2>0, <2>10, <2>11, SitesStay DEF TiersKept
  <1>6. ASSUME NEW s \in PlanSites, T!RestampSite(k, s) PROVE TiersKept
    <2>0. /\ UNCHANGED <<v1, v2, v3, v4, v7, v8, v9, v10>>
          /\ v6[k] # None /\ v6[k] \in T!Walks /\ v6[k].why # "event"
      BY <1>0, <1>6 DEF T!RestampSite
    <2>1. PICK w \in T!Walks : v6' = [v6 EXCEPT ![k] = w] /\ w.why # "event"
      <3>1. v6' = [v6 EXCEPT ![k] = [v6[k] EXCEPT !.todo = @ \ {s}]]
            \/ v6' = [v6 EXCEPT ![k] = [v6[k] EXCEPT !.todo = @ \ {s}, !.failed = TRUE]]
        BY <1>0, <1>6 DEF T!RestampSite
      <3>2. /\ [v6[k] EXCEPT !.todo = @ \ {s}] \in T!Walks
            /\ [v6[k] EXCEPT !.todo = @ \ {s}, !.failed = TRUE] \in T!Walks
        BY <2>0 DEF T!Walks
      <3>3. /\ [v6[k] EXCEPT !.todo = @ \ {s}].why = v6[k].why
            /\ [v6[k] EXCEPT !.todo = @ \ {s}, !.failed = TRUE].why = v6[k].why
        BY <2>0 DEF T!Walks
      <3> QED
        BY <2>0, <3>1, <3>2, <3>3
    <2>2. T!EventsInv' /\ v6' \in [Some -> T!Walks \cup {None}]
      BY <2>0, <2>1, EventsGo
    <2>3. v5' \in [PlanSites -> T!Homes] /\ T!KeepsGrace
      <3>1. CASE v5' = v5
        BY <1>0, <3>1, SitesStay
      <3>2. CASE ~v5[s].live /\ v5' = [v5 EXCEPT ![s] = [v5[s] EXCEPT !.marked = FALSE]]
        <4>1. PICK n \in T!Homes : n = [v5[s] EXCEPT !.marked = FALSE]
          BY <1>0 DEF T!Homes
        <4>2. v5' = [v5 EXCEPT ![s] = n]
          BY <3>2, <4>1
        <4> QED
          BY <1>0, <3>2, <4>2, OneSiteChanges
      <3>3. CASE v5' = [v5 EXCEPT ![s] = T!Restamped(v5[s], TierCap[v6[k].to], TierGrace)]
        <4>1. TierCap[v6[k].to] \in Nat
          BY <2>0, TiersConstants DEF T!Walks
        <4>2. PICK n \in T!Homes :
                 /\ n = T!Restamped(v5[s], TierCap[v6[k].to], TierGrace) /\ n.cap = TierCap[v6[k].to]
                 /\ TierCap[v6[k].to] = v5[s].cap /\ v5[s].date # None /\ n.imposed => n.date = v5[s].date
          <5>1. PICK m \in T!Homes, c \in Nat : m = v5[s] /\ c = TierCap[v6[k].to]
            BY <1>0, <4>1
          <5>2. \E n \in T!Homes :
                  /\ n = T!Restamped(m, c, TierGrace) /\ n.cap = c
                  /\ c = m.cap /\ m.date # None /\ n.imposed => n.date = m.date
            BY <1>0, TiersConstants, RestampIsLawful
          <5> QED
            BY <5>1, <5>2
        <4>3. v5[s].date # None => v5[s].date >= v5[s].date
          BY <1>0 DEF T!Homes, T!Dates
        <4> QED
          BY <1>0, <3>3, <4>2, <4>3, OneSiteChanges
      <3>4. v5' = v5 \/ v5' = [v5 EXCEPT ![s] = IF ~@.live THEN [@ EXCEPT !.marked = FALSE]
                                              ELSE IF @.held THEN @
                                              ELSE T!Restamped(@, TierCap[v6[k].to], TierGrace)]
        BY <1>6 DEF T!RestampSite
      <3>5. CASE v5[s].live /\ v5[s].held
        BY <1>0, <3>4, <3>5, <3>1
      <3>6. CASE v5[s].live /\ ~v5[s].held
        BY <1>0, <3>4, <3>6, <3>1, <3>3
      <3>7. CASE ~v5[s].live
        BY <1>0, <3>4, <3>7, <3>1, <3>2
      <3> QED
        BY <3>5, <3>6, <3>7
    <2>4. T!TiersTyped'
      BY <2>0, <2>2, <2>3 DEF T!TiersTyped
    <2> QED
      BY <2>2, <2>3, <2>4 DEF TiersKept
  <1> QED
    BY <1>1, <1>2, <1>3, <1>4, <1>5, <1>6

\* The sweep and an expired site.
LEMMA SweepGoes ==
    ASSUME T!TiersTyped, T!EventsInv,
           T!SweepAsks \/ T!SweepRestamps \/ T!SweepDeletes \/ \E s \in PlanSites : T!SweepFinds(s)
    PROVE  TiersKept
  <1>0. /\ v1 \in Nat /\ v5 \in [PlanSites -> T!Homes] /\ v7 \in T!Deletions \cup {None}
        /\ UNCHANGED <<v6, v9, v10>>
    BY DEF T!TiersTyped, T!SweepAsks, T!SweepRestamps, T!SweepDeletes, T!SweepFinds
  <1>1. T!EventsInv'
    BY <1>0, EventsStay
  <1>2. ASSUME NEW s \in PlanSites, T!SweepFinds(s) PROVE TiersKept
    <2>1. UNCHANGED <<v1, v2, v3, v4, v5, v8>> /\ v7' = [site |-> s, at |-> v1, step |-> "due", to |-> None]
      BY <1>2 DEF T!SweepFinds
    <2>2. v7' \in T!Deletions
      BY <1>0, <2>1 DEF T!Deletions
    <2>3. T!TiersTyped'
      BY <1>0, <2>1, <2>2 DEF T!TiersTyped
    <2> QED
      BY <1>0, <1>1, <2>1, <2>3, SitesStay DEF TiersKept
  <1>3. ASSUME T!SweepAsks PROVE TiersKept
    <2>1. UNCHANGED <<v1, v2, v4, v5, v8>> /\ v3' = T!Asked /\ v7 # None /\ v7.step = "due"
      BY <1>3 DEF T!SweepAsks
    <2>2. v7' \in T!Deletions \cup {None}
      <3>1. CASE v7' = None
        BY <3>1
      <3>2. CASE v7' # None
        <4>1. PICK t \in T!Strict(T!Asked) : v7' = [v7 EXCEPT !.step = "asked", !.to = t]
          BY <1>3, <3>2 DEF T!SweepAsks
        <4>2. t \in Tiers
          BY PlansAreTiers
        <4> QED
          BY <1>0, <2>1, <4>1, <4>2 DEF T!Deletions
      <3> QED
        BY <3>1, <3>2
    <2>3. T!TiersTyped'
      BY <1>0, <2>1, <2>2, PlansAreTiers DEF T!TiersTyped
    <2> QED
      BY <1>0, <1>1, <2>1, <2>3, SitesStay DEF TiersKept
  <1>4. ASSUME T!SweepRestamps PROVE TiersKept
    <2>1. UNCHANGED <<v1, v2, v3, v4, v8>> /\ v7 # None /\ v7.step = "asked"
      BY <1>4 DEF T!SweepRestamps
    <2>2. v7.site \in PlanSites /\ v7.to \in Tiers /\ TierCap[v7.to] \in Nat
      BY <1>0, <2>1, TiersConstants DEF T!Deletions
    <2>3. PICK s \in PlanSites : s = v7.site
      BY <2>2
    <2>4. PICK n \in T!Homes :
             /\ n = T!Restamped(v5[s], TierCap[v7.to], 0) /\ n.cap = TierCap[v7.to]
             /\ TierCap[v7.to] = v5[s].cap /\ v5[s].date # None /\ n.imposed => n.date = v5[s].date
      <3>1. v5[s] \in T!Homes /\ 0 \in Nat
        BY <1>0
      <3>2. PICK m \in T!Homes, c \in Nat, days \in Nat : m = v5[s] /\ c = TierCap[v7.to] /\ days = 0
        BY <2>2, <3>1
      <3>3. \E n \in T!Homes :
              /\ n = T!Restamped(m, c, days) /\ n.cap = c
              /\ c = m.cap /\ m.date # None /\ n.imposed => n.date = m.date
        BY <1>0, RestampIsLawful
      <3> QED
        BY <3>2, <3>3
    <2>5. v5' = v5 \/ v5' = [v5 EXCEPT ![s] = n]
      BY <1>4, <2>3, <2>4 DEF T!SweepRestamps
    <2>6. v5[s].date # None => v5[s].date >= v5[s].date
      BY <1>0 DEF T!Homes, T!Dates
    <2>7. v5' \in [PlanSites -> T!Homes] /\ T!KeepsGrace
      BY <1>0, <2>4, <2>5, <2>6, SitesStay, OneSiteChanges
    <2>8. [v7 EXCEPT !.step = "condemned"] \in T!Deletions
      BY <1>0, <2>1 DEF T!Deletions
    <2>9. v7' \in T!Deletions \cup {None}
      BY <1>4, <2>8 DEF T!SweepRestamps
    <2>10. T!TiersTyped'
      BY <1>0, <2>1, <2>7, <2>9 DEF T!TiersTyped
    <2> QED
      BY <1>1, <2>7, <2>10 DEF TiersKept
  <1>5. ASSUME T!SweepDeletes PROVE TiersKept
    <2>1. UNCHANGED <<v1, v2, v3, v4, v8>> /\ v7' = None /\ v7 # None
      BY <1>5 DEF T!SweepDeletes
    <2>2. PICK s \in PlanSites : s = v7.site
      BY <1>0, <2>1 DEF T!Deletions
    <2>3. v5' = v5 \/ v5' = [v5 EXCEPT ![s].live = FALSE]
      BY <1>5, <2>2 DEF T!SweepDeletes
    <2>4. v5[s].held \in BOOLEAN /\ v5[s].marked \in BOOLEAN /\ v5[s].live \in BOOLEAN
      BY <1>0 DEF T!Homes
    <2>5. [v5[s] EXCEPT !.live = FALSE]
          = [v5[s] EXCEPT !.live = FALSE, !.held = v5[s].held, !.marked = v5[s].marked]
      BY <1>0 DEF T!Homes
    <2>6. v5' \in [PlanSites -> T!Homes] /\ T!KeepsGrace
      <3>1. CASE v5' = v5
        BY <1>0, <3>1, SitesStay
      <3>2. CASE v5' = [v5 EXCEPT ![s] = [v5[s] EXCEPT !.live = FALSE, !.held = v5[s].held, !.marked = v5[s].marked]]
        BY <1>0, <2>4, <3>2, SitesGo
      <3>3. v5' = v5 \/ v5' = [v5 EXCEPT ![s] = [v5[s] EXCEPT !.live = FALSE]]
        BY <2>3
      <3> QED
        BY <2>5, <3>1, <3>2, <3>3
    <2>7. T!TiersTyped'
      BY <2>1, <2>6, <1>0 DEF T!TiersTyped
    <2> QED
      BY <1>1, <2>6, <2>7 DEF TiersKept
  <1> QED
    BY <1>2, <1>3, <1>4, <1>5

\* Uploads, owners and operators.
LEMMA UploadsAndOwnersGo ==
    ASSUME T!TiersTyped, T!EventsInv,
           \/ \E u \in PlanUploads : T!UploadEnd(u) \/ \E s \in PlanSites : T!UploadStart(u, s)
           \/ \E s \in PlanSites : T!SetDate(s) \/ T!Hold(s) \/ T!OwnerDeletes(s)
    PROVE  TiersKept
  <1>0. /\ v1 \in Nat /\ v5 \in [PlanSites -> T!Homes]
        /\ v8 \in [PlanUploads -> [site : PlanSites, read : T!Homes] \cup {None}]
        /\ UNCHANGED <<v1, v2, v3, v4, v6, v7, v9, v10>>
    BY DEF T!TiersTyped, T!UploadEnd, T!UploadStart, T!SetDate, T!Hold, T!OwnerDeletes
  <1>1. T!EventsInv'
    BY <1>0, EventsStay
  <1>2. ASSUME v5' \in [PlanSites -> T!Homes], T!KeepsGrace,
               v8' \in [PlanUploads -> [site : PlanSites, read : T!Homes] \cup {None}]
        PROVE  TiersKept
    <2>1. T!TiersTyped'
      BY <1>0, <1>2 DEF T!TiersTyped
    <2> QED
      BY <1>1, <1>2, <2>1 DEF TiersKept
  <1>3. ASSUME NEW u \in PlanUploads, NEW s \in PlanSites, T!UploadStart(u, s) PROVE TiersKept
    <2>1. v5' = v5 /\ v8' = [v8 EXCEPT ![u] = [site |-> s, read |-> v5[s]]]
      BY <1>3 DEF T!UploadStart
    <2>2. v8' \in [PlanUploads -> [site : PlanSites, read : T!Homes] \cup {None}]
      BY <1>0, <2>1
    <2> QED
      BY <1>0, <1>2, <2>1, <2>2, SitesStay
  <1>4. ASSUME NEW u \in PlanUploads, T!UploadEnd(u) PROVE TiersKept
    <2>1. v8[u] # None /\ v8' = [v8 EXCEPT ![u] = None]
      BY <1>4 DEF T!UploadEnd
    <2>2. v8' \in [PlanUploads -> [site : PlanSites, read : T!Homes] \cup {None}] /\ v8'[u] = None
      BY <1>0, <2>1
    <2>3. PICK s \in PlanSites, read \in T!Homes : s = v8[u].site /\ read = v8[u].read
      BY <1>0, <2>1
    <2>4. CASE v5' = v5
      BY <1>0, <1>2, <2>2, <2>4, SitesStay
    <2>5. CASE v5' # v5
      <3>1. T!Renews(read) /\ v5' = [v5 EXCEPT ![s].date = v1 + read.cap]
        BY <1>4, <2>3, <2>5 DEF T!UploadEnd
      <3>2. read.cap \in Nat /\ v1 + read.cap \in Nat /\ v1 + read.cap > read.date /\ read.date \in Nat
        BY <1>0, <3>1 DEF T!Renews, T!Homes, T!Dates
      <3>3. PICK n \in T!Homes : n = [v5[s] EXCEPT !.date = v1 + read.cap]
        BY <1>0, <3>2 DEF T!Homes, T!Dates
      <3>4. n.date = v1 + read.cap
        BY <3>3 DEF T!Homes
      <3>5. n.date # None
        BY <3>2, <3>4, TiersConstants
      <3>6. read = v5[s] => n.date >= v5[s].date
        BY <3>2, <3>4
      <3>7. read # v5[s] => T!StaleUpload(s)
        BY <2>1, <2>2, <2>3 DEF T!StaleUpload
      <3>8. v5' = [v5 EXCEPT ![s] = n]
        BY <1>0, <3>1, <3>3
      <3> QED
        BY <1>0, <1>2, <2>2, <3>5, <3>6, <3>7, <3>8, OneSiteChanges
    <2> QED
      BY <2>4, <2>5
  <1>5. ASSUME NEW s \in PlanSites, T!SetDate(s) PROVE TiersKept
    <2>1. v8' = v8
      BY <1>5 DEF T!SetDate
    <2>2. PICK d \in 1..2 \cup {0} :
             v5' = [v5 EXCEPT ![s].date = IF d = 0 THEN None ELSE v1 + d, ![s].imposed = FALSE]
      BY <1>5 DEF T!SetDate
    <2>3. (IF d = 0 THEN None ELSE v1 + d) \in T!Dates
      BY <1>0 DEF T!Dates
    <2>4. PICK n \in T!Homes : n = [v5[s] EXCEPT !.date = IF d = 0 THEN None ELSE v1 + d, !.imposed = FALSE]
      BY <1>0, <2>3 DEF T!Homes
    <2>5. n.imposed = FALSE
      BY <2>4 DEF T!Homes
    <2>6. v5' = [v5 EXCEPT ![s] = n]
      BY <1>0, <2>2, <2>4
    <2> QED
      BY <1>0, <1>2, <2>1, <2>5, <2>6, OneSiteChanges
  <1>6. ASSUME NEW s \in PlanSites, T!Hold(s) \/ T!OwnerDeletes(s) PROVE TiersKept
    <2>1. v8' = v8
      BY <1>6 DEF T!Hold, T!OwnerDeletes
    <2>2. v5[s].held \in BOOLEAN /\ v5[s].marked \in BOOLEAN /\ v5[s].live \in BOOLEAN
      BY <1>0 DEF T!Homes
    <2>3. CASE T!Hold(s)
      <3>1. v5' = [v5 EXCEPT ![s] = [v5[s] EXCEPT !.held = ~v5[s].held]]
        BY <1>0, <2>3 DEF T!Hold
      <3>2. [v5[s] EXCEPT !.held = ~v5[s].held]
            = [v5[s] EXCEPT !.live = v5[s].live, !.held = ~v5[s].held, !.marked = v5[s].marked]
        BY <1>0 DEF T!Homes
      <3>3. (~v5[s].held) \in BOOLEAN
        BY <2>2
      <3>4. v5' = [v5 EXCEPT ![s] = [v5[s] EXCEPT !.live = v5[s].live, !.held = ~v5[s].held, !.marked = v5[s].marked]]
        BY <3>1, <3>2
      <3>5. v5' \in [PlanSites -> T!Homes] /\ T!KeepsGrace
        BY <1>0, <2>2, <3>3, <3>4, SitesGo
      <3> QED
        BY <1>0, <1>2, <2>1, <3>5
    <2>4. CASE T!OwnerDeletes(s)
      <3>1. v5' = [v5 EXCEPT ![s] = [v5[s] EXCEPT !.live = FALSE]]
        BY <1>0, <2>4 DEF T!OwnerDeletes
      <3>2. [v5[s] EXCEPT !.live = FALSE]
            = [v5[s] EXCEPT !.live = FALSE, !.held = v5[s].held, !.marked = v5[s].marked]
        BY <1>0 DEF T!Homes
      <3>3. v5' \in [PlanSites -> T!Homes] /\ T!KeepsGrace
        BY <1>0, <2>2, <3>1, <3>2, SitesGo
      <3> QED
        BY <1>0, <1>2, <2>1, <3>3
    <2> QED
      BY <1>6, <2>3, <2>4
  <1> QED
    BY <1>3, <1>4, <1>5, <1>6

LEMMA TiersGoOn ==
    TiersGood /\ [Next]_slots => TiersGood' /\ (which = "tiers" => [T!KeepsGrace]_slots)
  <1> SUFFICES ASSUME TiersGood, [Next]_slots, which = "tiers" \/ which' = "tiers"
               PROVE  T!TiersTyped' /\ T!EventsInv' /\ [T!KeepsGrace]_slots
    BY DEF TiersGood
  <1>1. which = "tiers" /\ [T!TiersNext]_(T!tiersVars)
    BY DEF Next, slots, T!tiersVars
  <1>2. T!TiersTyped /\ T!EventsInv
    BY <1>1 DEF TiersGood
  <1>3. CASE UNCHANGED T!tiersVars
    <2>1. T!TiersTyped' /\ T!EventsInv'
      BY <1>2, <1>3, EventsStay DEF T!tiersVars, T!TiersTyped
    <2>2. v5 \in [PlanSites -> T!Homes] /\ v5' = v5
      BY <1>2, <1>3 DEF T!tiersVars, T!TiersTyped
    <2> QED
      BY <2>1, <2>2, SitesStay
  <1>4. CASE T!TiersNext
    <2>1. TiersKept
      BY <1>2, <1>4, PlansMove, WalksGo, SweepGoes, UploadsAndOwnersGo DEF T!TiersNext
    <2> QED
      BY <2>1 DEF TiersKept
  <1> QED
    BY <1>1, <1>3, <1>4

\* Of any sites, tiers and caps, days of grace, walkers, uploads and webhook events:
\* an event is applied at most once however often it is delivered, and a date the
\* tier imposed comes no closer while the cap stays, with half-done restamps, the
\* sweep and outages in any order; an upload that went by a meta.json changed since
\* is the exception.
THEOREM PlansHold == Spec => PlansAreKept
  <1>1. Init => TiersGood
    <2> SUFFICES ASSUME T!TiersInit PROVE T!TiersTyped /\ T!EventsInv
      BY DEF Init, TiersGood
    <2>1. \A t \in TiersHere : T!Created(t) \in T!Homes
      BY TiersConstants DEF T!Created, T!Homes, T!Dates
    <2>2. v5 \in [PlanSites -> T!Homes]
      BY <2>1 DEF T!TiersInit
    <2>3. T!TiersTyped
      BY <2>2, TiersConstants DEF T!TiersInit, T!TiersTyped
    <2>4. T!EventsInv
      BY DEF T!TiersInit, T!EventsInv, T!Applies
    <2> QED
      BY <2>3, <2>4
  <1>2. TiersGood => (which = "tiers" => T!AppliedOnce)
    BY DEF TiersGood, T!EventsInv, T!AppliedOnce
  <1>3. TiersGood /\ [Next]_slots => [which = "tiers" => T!KeepsGrace]_slots
    BY TiersGoOn
  <1> QED
    BY <1>1, <1>2, <1>3, TiersGoOn, PTL DEF Spec, PlansAreKept

(***************************************************************************)
(* SiteRules.                                                              *)
(***************************************************************************)

RulesGood == which = "rules" => R!RulesTypeOK /\ R!EffectInv /\ R!LabelsInv

RulesKept == R!RulesTypeOK' /\ R!EffectInv' /\ R!LabelsInv'

\* The ports with an address, and the domains that serve the site or a port.
Declared == {e \in Others : v6[e] # None}
Serving  == {d \in v2 : v4[d] = None /\ (v1 = "files" \/ v8[d] \in Declared)}

RulesHere ==
    /\ \A d \in Some : v4[d] # None => d \in v2 /\ v4[d] # d /\ v4[d] \in Serving
    /\ v5 \in Some => v1 = "files" /\ v5 \in Serving
    /\ v5 = "off" => v1 = "files" /\ Serving # {}
    /\ \A e \in Others : v7[e] \in Some => v7[e] \in Serving
    /\ \A e \in Others \ Declared : v7[e] = "serve"

LabelsHere ==
    /\ \A e, f \in Declared : v6[e] = v6[f] => e = f
    /\ v10 = R!NoSync \/ v10.does \in {"sync", "clear"}
    /\ v10 = R!NoSync /\ ~v12 => \A e \in Declared : v6[e] \in DrawnLabels => v6[e] \in v9
    /\ v10.does = "sync" =>
          v1 = "container" /\ \A e \in Declared : v6[e] \in DrawnLabels => v6[e] \in v10.add
    /\ v10.does = "clear" => Declared = {}
    /\ ~v12 /\ v1 = "files" => Declared = {}

LEMMA RulesConstants ==
    /\ None \notin Some /\ None \notin Others /\ None \notin DrawnLabels
    /\ "id" \notin DrawnLabels /\ "id" # None /\ "serve" \notin Some /\ "off" \notin Some
  BY PartsAssumption DEF R!RulesAssumption

LEMMA DeclaredHere ==
    /\ R!Declared(R!Meta) = Declared /\ R!Declared(R!Meta)' = Declared'
    /\ \A d : R!HasTarget(R!Meta, d) <=> v1 = "files" \/ v8[d] \in Declared
    /\ \A d : R!HasTarget(R!Meta, d)' <=> v1' = "files" \/ v8'[d] \in Declared'
    /\ R!Serving = Serving /\ R!Serving' = Serving'
  BY DEF R!Declared, R!Meta, R!HasTarget, R!Serving, Declared, Serving

LEMMA InvHere ==
    /\ R!EffectInv <=> (~v11 => RulesHere)
    /\ R!EffectInv' <=> (~v11' => RulesHere')
    /\ R!LabelsInv <=> LabelsHere
    /\ R!LabelsInv' <=> LabelsHere'
  <1>1. R!EffectInv <=> (~v11 => RulesHere)
    BY DeclaredHere DEF R!EffectInv, RulesHere
  <1>2. R!EffectInv' <=> (~v11' => RulesHere')
    BY DeclaredHere DEF R!EffectInv, RulesHere
  <1>3. R!LabelsInv <=> LabelsHere
    BY DeclaredHere DEF R!LabelsInv, LabelsHere
  <1>4. R!LabelsInv' <=> LabelsHere'
    BY DeclaredHere DEF R!LabelsInv, LabelsHere
  <1> QED
    BY <1>1, <1>2, <1>3, <1>4

\* A domain that serves is not one that redirects.
LEMMA ServingDomainsServe ==
    ASSUME R!RulesTypeOK, NEW d \in Serving
    PROVE  R!ServesSite(R!Meta, d) /\ d \in Some
  <1>1. d \in v2 /\ v4[d] = None /\ R!HasTarget(R!Meta, d) /\ d \in Some
    BY DeclaredHere DEF Serving, R!RulesTypeOK
  <1>2. R!Meta.redirect = v4 /\ R!Meta.attached = v2
    BY DEF R!Meta
  <1>3. ~R!Followable(R!Meta, d)
    BY <1>1, <1>2 DEF R!Followable
  <1> QED
    BY <1>1, <1>2, <1>3 DEF R!ServesSite

LEMMA RulesTakeEffect ==
    ASSUME R!RulesTypeOK, R!EffectInv, R!LabelsInv
    PROVE  R!RulesInEffect /\ R!PortsHaveAddresses
  <1>0. /\ R!Meta.redirect = v4 /\ R!Meta.attached = v2 /\ R!Meta.rule = v7 /\ R!Meta.view = v5 /\ R!Meta.mode = v1
        /\ (~v11 => RulesHere) /\ LabelsHere
    BY InvHere DEF R!Meta
  <1>1. ASSUME ~v11, NEW d \in v2, v4[d] # None PROVE R!Followable(R!Meta, d)
    <2>1. d \in Some /\ v4[d] # d /\ v4[d] \in Serving
      BY <1>0, <1>1 DEF RulesHere, R!RulesTypeOK
    <2>2. v4[d] \in v2 /\ v4[v4[d]] = None /\ R!HasTarget(R!Meta, v4[d])
      BY <2>1, DeclaredHere DEF Serving
    <2> QED
      BY <1>0, <1>1, <2>1, <2>2 DEF R!Followable
  <1>2. ASSUME ~v11, v1 = "files" PROVE R!ViewRule(R!Meta) = v5
    <2>1. CASE v5 = "off"
      <3>1. PICK d \in Serving : TRUE
        BY <1>0, <1>2, <2>1 DEF RulesHere
      <3>2. \E x \in Some : R!ServesSite(R!Meta, x)
        BY <3>1, ServingDomainsServe
      <3> QED
        BY <1>0, <2>1, <3>2, RulesConstants DEF R!ViewRule
    <2>2. CASE v5 \in Some
      <3>1. R!ServesSite(R!Meta, v5)
        BY <1>0, <1>2, <2>2, ServingDomainsServe DEF RulesHere
      <3> QED
        BY <1>0, <2>2, <3>1, RulesConstants DEF R!ViewRule
    <2>3. CASE v5 = "serve"
      BY <1>0, <2>3, RulesConstants DEF R!ViewRule
    <2> QED
      BY <2>1, <2>2, <2>3 DEF R!RulesTypeOK, R!Rules
  <1>3. ASSUME ~v11, NEW e \in Others, v7[e] \in Some PROVE R!AddressRule(R!Meta, e) = v7[e]
    <2>1. R!ServesSite(R!Meta, v7[e])
      BY <1>0, <1>3, ServingDomainsServe DEF RulesHere
    <2> QED
      BY <1>0, <1>3, <2>1, RulesConstants DEF R!AddressRule
  <1>4. R!RulesInEffect
    <2>1. R!Declared(R!Meta) \subseteq Others
      BY DeclaredHere DEF Declared
    <2> QED
      BY <1>1, <1>2, <1>3, <2>1 DEF R!RulesInEffect
  <1>5. R!PortsHaveAddresses
    <2>1. \A e \in Declared : v6[e] \in DrawnLabels \cup {"id"}
      BY DEF Declared, R!RulesTypeOK
    <2>2. v10 = R!NoSync /\ ~v12 => {v6[e] : e \in Declared} \ {"id"} \subseteq v9
      BY <1>0, <2>1 DEF LabelsHere
    <2>3. R!Meta.label = v6
      BY DEF R!Meta
    <2> QED
      BY <1>0, <2>2, <2>3, DeclaredHere DEF R!PortsHaveAddresses, LabelsHere
  <1> QED
    BY <1>4, <1>5

\* The labels are as they were, and so are the index and who is at work on it.
LEMMA LabelsAreAsBefore ==
    ASSUME LabelsHere, UNCHANGED <<v1, v6, v9, v10, v12>>
    PROVE  LabelsHere'
  <1>1. Declared' = Declared
    BY DEF Declared
  <1> QED
    BY <1>1 DEF LabelsHere, R!NoSync

\* The rules are as they were, and what served still serves.
LEMMA RulesStayHere ==
    ASSUME RulesHere, UNCHANGED <<v1, v4, v5, v7>>, v2 \subseteq v2', Serving \subseteq Serving', Declared \subseteq Declared'
    PROVE  RulesHere'
  BY DEF RulesHere

LEMMA RulesAsBefore ==
    ASSUME RulesHere, UNCHANGED <<v1, v2, v4, v5, v6, v7, v8>>
    PROVE  RulesHere'
  <1>1. Declared' = Declared /\ Serving' = Serving
    BY DEF Declared, Serving
  <1> QED
    BY <1>1, RulesStayHere

\* A port is the main one, or there is none.
LEMMA MainIsAPort ==
    ASSUME NEW l, NEW x \in R!Main(l)
    PROVE  x \in Others \cup {None}
  BY DEF R!Main, R!Own

\* What a setter takes for a target serves.
LEMMA TargetsServe ==
    ASSUME NEW t \in Some
    PROVE  R!MayTarget(t) => t \in Serving
  BY DeclaredHere DEF R!MayTarget, Serving

\* The owner's setters.
LEMMA OwnersRule ==
    ASSUME R!RulesTypeOK, R!EffectInv, R!LabelsInv,
           \/ \E d, t \in Some : R!SetDomainRedirect(d, t)
           \/ \E d \in Some : R!ServeAgain(d)
           \/ \E r \in R!Rules : R!SetViewAddress(r) \/ \E e \in Others : R!SetAddressRule(e, r)
           \/ \E d \in Some, e \in Others : R!SetDomainTarget(d, e)
    PROVE  RulesKept
  <1>0. (~v11 => RulesHere) /\ LabelsHere /\ UNCHANGED <<v1, v2, v3, v6, v9, v10, v11, v12>>
    BY InvHere DEF R!SetDomainRedirect, R!ServeAgain, R!SetViewAddress, R!SetAddressRule, R!SetDomainTarget
  <1>1. LabelsHere' /\ Declared' = Declared
    BY <1>0, LabelsAreAsBefore DEF Declared
  <1>2. ASSUME v4' \in [Some -> Some \cup {None}], v5' \in R!Rules, v7' \in [Others -> R!Rules],
               v8' \in [Some -> Others \cup {None}], ~v11 => RulesHere'
        PROVE  RulesKept
    <2>1. R!RulesTypeOK'
      BY <1>0, <1>2 DEF R!RulesTypeOK, R!Rules
    <2> QED
      BY <1>0, <1>1, <1>2, <2>1, InvHere DEF RulesKept
  <1>t. /\ v4 \in [Some -> Some \cup {None}] /\ v5 \in R!Rules /\ v7 \in [Others -> R!Rules]
        /\ v8 \in [Some -> Others \cup {None}] /\ v2 \subseteq Some
    BY DEF R!RulesTypeOK
  <1>3. ASSUME NEW d \in Some, NEW t \in Some, R!SetDomainRedirect(d, t) PROVE RulesKept
    <2>1. /\ d \in v2 /\ t # d /\ t \in Serving /\ v4' = [v4 EXCEPT ![d] = t] /\ UNCHANGED <<v5, v7, v8>>
          /\ ~R!IsTarget(d)
      BY <1>3, TargetsServe DEF R!SetDomainRedirect
    <2>2. /\ \A x \in Some : v4[x] # d
          /\ v1 = "files" => v5 # d
          /\ \A e \in Declared : v7[e] # d
      BY <2>1, DeclaredHere DEF R!IsTarget
    <2>3. /\ v4' \in [Some -> Some \cup {None}] /\ v4'[d] = t
          /\ \A x \in Some : x # d => v4'[x] = v4[x]
      BY <1>t, <2>1
    <2>4. \A x \in Serving : x # d => x \in Serving'
      BY <1>0, <1>1, <1>t, <2>1, <2>3 DEF Serving
    <2>5. ASSUME ~v11 PROVE RulesHere'
      <3>0. RulesHere
        BY <1>0, <2>5
      <3>1. \A x \in Some : v4'[x] # None => x \in v2' /\ v4'[x] # x /\ v4'[x] \in Serving'
        BY <1>0, <2>1, <2>2, <2>3, <2>4, <3>0 DEF RulesHere
      <3>2. v5' \in Some => v1' = "files" /\ v5' \in Serving'
        BY <1>0, <2>1, <2>2, <2>4, <3>0 DEF RulesHere
      <3>3. v5' = "off" => v1' = "files" /\ Serving' # {}
        BY <1>0, <2>1, <2>4, <3>0 DEF RulesHere
      <3>4. \A e \in Others : v7'[e] \in Some => v7'[e] \in Serving'
        BY <2>1, <2>2, <2>4, <3>0, RulesConstants DEF RulesHere
      <3>5. \A e \in Others \ Declared' : v7'[e] = "serve"
        BY <1>1, <2>1, <3>0 DEF RulesHere
      <3> QED
        BY <3>1, <3>2, <3>3, <3>4, <3>5 DEF RulesHere
    <2> QED
      BY <1>2, <1>t, <2>1, <2>3, <2>5
  <1>4. ASSUME NEW d \in Some, R!ServeAgain(d) PROVE RulesKept
    <2>1. v4' = [v4 EXCEPT ![d] = None] /\ UNCHANGED <<v5, v7, v8>>
      BY <1>4 DEF R!ServeAgain
    <2>2. /\ v4' \in [Some -> Some \cup {None}] /\ v4'[d] = None
          /\ \A x \in Some : x # d => v4'[x] = v4[x]
      BY <1>t, <2>1
    <2>3. Serving \subseteq Serving'
      BY <1>0, <1>1, <1>t, <2>1, <2>2 DEF Serving
    <2>4. ASSUME ~v11 PROVE RulesHere'
      BY <1>0, <1>1, <2>1, <2>2, <2>3, <2>4 DEF RulesHere
    <2> QED
      BY <1>2, <1>t, <2>1, <2>2, <2>4
  <1>5. ASSUME NEW r \in R!Rules, R!SetViewAddress(r) PROVE RulesKept
    <2>1. /\ v1 = "files" /\ v5' = r /\ UNCHANGED <<v4, v7, v8>>
          /\ r = "off" => \E d \in Some : R!ServesSite(R!Meta, d)
          /\ r \in Some => r \in Serving
      BY <1>5, TargetsServe DEF R!SetViewAddress
    <2>2. Serving' = Serving
      BY <1>0, <1>1, <2>1 DEF Serving
    <2>3. ASSUME ~v11, r = "off" PROVE Serving # {}
      <3>1. PICK d \in Some : R!ServesSite(R!Meta, d)
        BY <2>1, <2>3
      <3>2. d \in v2 /\ R!HasTarget(R!Meta, d)
        BY <3>1 DEF R!ServesSite, R!Meta
      <3>3. CASE v4[d] = None
        BY <3>2, <3>3, DeclaredHere DEF Serving
      <3>4. CASE v4[d] # None
        BY <1>0, <2>3, <3>4 DEF RulesHere
      <3> QED
        BY <3>3, <3>4
    <2>4. ASSUME ~v11 PROVE RulesHere'
      BY <1>0, <1>1, <2>1, <2>2, <2>3, <2>4 DEF RulesHere
    <2> QED
      BY <1>2, <1>t, <2>1, <2>4
  <1>6. ASSUME NEW r \in R!Rules, NEW e \in Others, R!SetAddressRule(e, r) PROVE RulesKept
    <2>1. /\ e \in Declared /\ v7' = [v7 EXCEPT ![e] = r] /\ UNCHANGED <<v4, v5, v8>>
          /\ r \in Some => r \in Serving
      BY <1>6, TargetsServe, DeclaredHere DEF R!SetAddressRule
    <2>2. Serving' = Serving
      BY <1>0, <1>1, <2>1 DEF Serving
    <2>3. v7' \in [Others -> R!Rules] /\ v7'[e] = r /\ \A x \in Others : x # e => v7'[x] = v7[x]
      BY <1>t, <2>1
    <2>4. ASSUME ~v11 PROVE RulesHere'
      BY <1>0, <1>1, <2>1, <2>2, <2>3, <2>4 DEF RulesHere
    <2> QED
      BY <1>2, <1>t, <2>1, <2>3, <2>4
  <1>7. ASSUME NEW d \in Some, NEW e \in Others, R!SetDomainTarget(d, e) PROVE RulesKept
    <2>1. e \in Declared /\ v8' = [v8 EXCEPT ![d] = e] /\ UNCHANGED <<v4, v5, v7>>
      BY <1>7, DeclaredHere DEF R!SetDomainTarget
    <2>2. v8' \in [Some -> Others \cup {None}] /\ v8'[d] = e /\ \A x \in Some : x # d => v8'[x] = v8[x]
      BY <1>t, <2>1
    <2>3. Serving \subseteq Serving'
      BY <1>0, <1>1, <1>t, <2>1, <2>2 DEF Serving
    <2>4. ASSUME ~v11 PROVE RulesHere'
      BY <1>0, <1>1, <2>1, <2>3, <2>4, RulesStayHere
    <2> QED
      BY <1>2, <1>t, <2>1, <2>2, <2>4
  <1> QED
    BY <1>3, <1>4, <1>5, <1>6, <1>7

\* Domains are claimed, attached, detached and removed.
LEMMA DomainsComeAndGo ==
    ASSUME R!RulesTypeOK, R!EffectInv, R!LabelsInv, NEW d \in Some,
           \/ R!Remove(d) \/ R!SweepAttaches(d) \/ R!SweepDetaches(d)
           \/ \E now \in BOOLEAN : R!Claim(d, now)
    PROVE  RulesKept
  <1>0. (~v11 => RulesHere) /\ LabelsHere /\ UNCHANGED <<v1, v6, v9, v10, v12>>
    BY InvHere DEF R!Remove, R!SweepAttaches, R!SweepDetaches, R!Claim
  <1>1. LabelsHere' /\ Declared' = Declared
    BY <1>0, LabelsAreAsBefore DEF Declared
  <1>t. /\ v4 \in [Some -> Some \cup {None}] /\ v5 \in R!Rules /\ v7 \in [Others -> R!Rules]
        /\ v8 \in [Some -> Others \cup {None}] /\ v2 \subseteq v3 /\ v3 \subseteq Some /\ v11 \in BOOLEAN
    BY DEF R!RulesTypeOK
  <1>2. ASSUME v2' \subseteq v3', v3' \subseteq Some, v4' \in [Some -> Some \cup {None}], v5' \in R!Rules,
               v7' \in [Others -> R!Rules], v8' \in [Some -> Others \cup {None}], v11' \in BOOLEAN, ~v11' => RulesHere'
        PROVE  RulesKept
    <2>1. R!RulesTypeOK'
      BY <1>0, <1>2 DEF R!RulesTypeOK, R!Rules
    <2> QED
      BY <1>0, <1>1, <1>2, <2>1, InvHere DEF RulesKept
  <1>3. ASSUME NEW now \in BOOLEAN, R!Claim(d, now) PROVE RulesKept
    <2>1. /\ d \notin v3 /\ v3' = v3 \cup {d} /\ v2' \in {v2, v2 \cup {d}} /\ UNCHANGED <<v4, v5, v7, v11>>
      BY <1>3 DEF R!Claim
    <2>2. PICK main \in Others \cup {None} : v8' = IF v1 = "container" THEN R!Defaulted(v8, {d}, main) ELSE v8
      BY <1>3, MainIsAPort DEF R!Claim
    <2>3. v8' \in [Some -> Others \cup {None}] /\ \A x \in Some \ {d} : v8'[x] = v8[x]
      BY <1>t, <2>2 DEF R!Defaulted
    <2>4. Serving \subseteq Serving'
      BY <1>0, <1>1, <1>t, <2>1, <2>3 DEF Serving
    <2>5. ASSUME ~v11 PROVE RulesHere'
      BY <1>0, <1>1, <2>1, <2>4, <2>5, RulesStayHere
    <2> QED
      BY <1>2, <1>t, <2>1, <2>3, <2>5
  <1>4. ASSUME R!SweepAttaches(d) PROVE RulesKept
    <2>1. d \in v3 /\ v2' = v2 \cup {d} /\ UNCHANGED <<v3, v4, v5, v7, v8, v11>>
      BY <1>4 DEF R!SweepAttaches
    <2>2. Serving \subseteq Serving'
      BY <1>0, <1>1, <2>1 DEF Serving
    <2>3. ASSUME ~v11 PROVE RulesHere'
      BY <1>0, <1>1, <2>1, <2>2, <2>3, RulesStayHere
    <2> QED
      BY <1>2, <1>t, <2>1, <2>3
  <1>5. ASSUME R!SweepDetaches(d) PROVE RulesKept
    BY <1>2, <1>5, <1>t DEF R!SweepDetaches
  <1>6. ASSUME R!Remove(d) PROVE RulesKept
    <2>1. /\ v3' = v3 \ {d} /\ v2' = v2 \ {d} /\ v11' = v11
          /\ v4' = [x \in Some |-> IF x = d \/ v4[x] = d THEN None ELSE v4[x]]
          /\ v8' = [v8 EXCEPT ![d] = None]
      BY <1>6 DEF R!Remove
    <2> DEFINE left == [R!Meta EXCEPT !.attached = v2', !.redirect = v4', !.target = v8']
    <2>2. /\ v5' = IF v5 = d \/ (v5 = "off" /\ \A x \in Some : ~R!ServesSite(left, x)) THEN "serve" ELSE v5
          /\ v7' = [e \in Others |-> IF v7[e] = d \/ (v7[e] = "off" /\ ~R!ServesPort(left, e)) THEN "serve" ELSE v7[e]]
      BY <1>6 DEF R!Remove
    <2>3. left.attached = v2' /\ left.redirect = v4' /\ left.target = v8' /\ left.mode = v1 /\ left.label = v6
      BY DEF R!Meta
    <2>4. \A x : R!HasTarget(left, x) <=> v1 = "files" \/ v8'[x] \in Declared
      BY <2>3 DEF R!HasTarget, R!Declared, Declared
    <2>5. \A x : R!ServesSite(left, x) => x \in v2' /\ (v1 = "files" \/ v8'[x] \in Declared)
      BY <2>3, <2>4 DEF R!ServesSite
    <2> HIDE DEF left
    <2>6. v4' \in [Some -> Some \cup {None}] /\ v8' \in [Some -> Others \cup {None}]
      BY <1>t, <2>1
    <2>7. v5' \in R!Rules /\ v7' \in [Others -> R!Rules]
      BY <1>t, <2>2 DEF R!Rules
    <2>8. \A x \in Serving : x # d => x \in Serving'
      <3>1. \A x \in Some : x # d => v8'[x] = v8[x]
        BY <1>t, <2>1
      <3>2. \A x \in Some : v4[x] = None => v4'[x] = None
        BY <2>1
      <3> QED
        BY <1>0, <1>1, <1>t, <2>1, <3>1, <3>2 DEF Serving
    <2>9. ASSUME ~v11 PROVE RulesHere'
      <3>0. RulesHere
        BY <1>0, <2>9
      <3>1. \A x \in Some : v4'[x] # None => x \in v2' /\ v4'[x] # x /\ v4'[x] \in Serving'
        BY <2>1, <2>8, <3>0 DEF RulesHere
      <3>2. v5' \in Some => v1' = "files" /\ v5' \in Serving'
        <4>1. v5' \in Some => v5' = v5 /\ v5 # d
          BY <2>2, RulesConstants
        <4> QED
          BY <1>0, <2>8, <3>0, <4>1 DEF RulesHere
      <3>3. v5' = "off" => v1' = "files" /\ Serving' # {}
        <4> SUFFICES ASSUME v5' = "off" PROVE v1' = "files" /\ Serving' # {}
          OBVIOUS
        <4>1. v5 = "off" /\ \E x \in Some : R!ServesSite(left, x)
          BY <2>2
        <4>2. PICK x \in Some : x \in v2' /\ (v1 = "files" \/ v8'[x] \in Declared)
          BY <2>5, <4>1
        <4>3. CASE v4'[x] = None
          BY <1>0, <1>1, <3>0, <4>1, <4>2, <4>3 DEF Serving, RulesHere
        <4>4. CASE v4'[x] # None
          BY <1>0, <3>0, <3>1, <4>1, <4>4 DEF RulesHere
        <4> QED
          BY <4>3, <4>4
      <3>4. \A e \in Others : v7'[e] \in Some => v7'[e] \in Serving'
        <4>1. \A e \in Others : v7'[e] \in Some => v7'[e] = v7[e] /\ v7[e] # d
          BY <2>2, RulesConstants
        <4> QED
          BY <2>8, <3>0, <4>1 DEF RulesHere
      <3>5. \A e \in Others \ Declared' : v7'[e] = "serve"
        BY <1>1, <2>2, <3>0 DEF RulesHere
      <3> QED
        BY <3>1, <3>2, <3>3, <3>4, <3>5 DEF RulesHere
    <2> QED
      BY <1>2, <1>t, <2>1, <2>6, <2>7, <2>9
  <1> QED
    BY <1>3, <1>4, <1>5, <1>6

\* Ports come, with labels nobody holds.
LEMMA PortsCome ==
    ASSUME R!RulesTypeOK, R!EffectInv, R!LabelsInv, NEW ports \in SUBSET Others, NEW first \in Others \cup {None},
           NEW fresh \in [Others -> DrawnLabels \cup {None}], R!SyncPorts(ports, first, fresh)
    PROVE  RulesKept
  <1> DEFINE kept == ports \cap Declared
             new  == ports \ kept
  <1>1. PICK owned \in BOOLEAN : owned <=> \E e \in kept : v6[e] = "id"
    OBVIOUS
  <1> DEFINE needy == {e \in new : owned \/ e # first}
             taken == v9 \cup {v6[e] : e \in Others}
  <1>0. (~v11 => RulesHere) /\ LabelsHere /\ R!Declared(R!Meta) = Declared /\ Declared \subseteq Others
    BY InvHere, DeclaredHere DEF Declared
  <1>t. /\ v4 \in [Some -> Some \cup {None}] /\ v5 \in R!Rules /\ v7 \in [Others -> R!Rules]
        /\ v8 \in [Some -> Others \cup {None}] /\ v2 \subseteq Some /\ v11 \in BOOLEAN
        /\ v6 \in [Others -> DrawnLabels \cup {"id", None}]
    BY DEF R!RulesTypeOK
  <1>2. /\ v1 = "container" /\ v10 = R!NoSync /\ UNCHANGED <<v1, v2, v3, v4, v5, v9, v12>>
        /\ v7' = [e \in Others |-> IF e \in kept THEN v7[e] ELSE "serve"]
        /\ v11' = (v11 \/ Declared \ kept # {})
    BY <1>0 DEF R!SyncPorts
  <1>3. \A e \in Others : v6'[e] = IF e \in kept THEN v6[e] ELSE IF e \in new \ needy THEN "id"
                                   ELSE IF e \in needy THEN fresh[e] ELSE None
    <2>1. v6' = [e \in Others |-> CASE e \in kept -> v6[e] [] e \in new \ needy -> "id"
                                    [] e \in needy -> fresh[e] [] OTHER -> None]
      BY <1>0, <1>1 DEF R!SyncPorts
    <2>2. ASSUME NEW e \in Others PROVE e \in kept => e \notin new
      OBVIOUS
    <2>3. needy \subseteq new
      OBVIOUS
    <2> HIDE DEF kept, new, needy
    <2> QED
      BY <2>1, <2>2, <2>3
  <1>4. /\ \A e \in needy : fresh[e] \in DrawnLabels \ taken
        /\ \A e, f \in needy : e # f => fresh[e] # fresh[f]
    BY <1>0, <1>1 DEF R!SyncPorts
  <1>5. \A e \in new \ needy : ~owned /\ e = first
    OBVIOUS
  <1>6. /\ v6' \in [Others -> DrawnLabels \cup {"id", None}]
        /\ \A e \in Others : e \in ports <=> v6'[e] # None
    <2>1. \A e \in kept : v6[e] # None
      BY DEF Declared
    <2>2. DOMAIN v6' = Others /\ v6' = [e \in Others |-> v6'[e]]
      BY DEF R!SyncPorts
    <2>3. \A e \in needy : fresh[e] \in DrawnLabels
      BY <1>4
    <2>4. ASSUME NEW e \in Others PROVE v6'[e] \in DrawnLabels \cup {"id", None} /\ (e \in ports <=> v6'[e] # None)
      BY <1>3, <1>t, <2>1, <2>3, <2>4, RulesConstants
    <2> QED
      BY <2>2, <2>4
  <1>7. Declared' = ports
    BY <1>6 DEF Declared
  <1>8. \A e, f \in ports : v6'[e] = v6'[f] => e = f
    <2> SUFFICES ASSUME NEW e \in ports, NEW f \in ports, v6'[e] = v6'[f] PROVE e = f
      OBVIOUS
    <2>1. \A x \in kept : v6'[x] = v6[x]
      BY <1>3
    <2>2. \A x \in new \ needy : v6'[x] = "id" /\ x = first /\ ~owned
      BY <1>3, <1>5
    <2>3. \A x \in needy : v6'[x] = fresh[x] /\ fresh[x] \in DrawnLabels /\ fresh[x] \notin taken
      BY <1>3, <1>4
    <2>4. \A x \in kept : v6[x] \in taken /\ (~owned => v6[x] # "id") /\ x \in Declared
      BY <1>1
    <2>5. ports = kept \cup (new \ needy) \cup needy
      OBVIOUS
    <2> HIDE DEF kept, new, needy, taken
    <2>6. CASE e \in kept
      <3>1. f \notin needy
        BY <2>1, <2>3, <2>4, <2>6
      <3>2. f \notin new \ needy
        BY <2>1, <2>2, <2>4, <2>6
      <3> QED
        BY <1>0, <2>1, <2>4, <2>5, <2>6, <3>1, <3>2 DEF LabelsHere
    <2>7. CASE e \in new \ needy
      <3>1. f \notin needy
        BY <2>2, <2>3, <2>7, RulesConstants
      <3>2. f \notin kept
        BY <2>1, <2>2, <2>4, <2>7
      <3> QED
        BY <2>2, <2>5, <2>7, <3>1, <3>2
    <2>8. CASE e \in needy
      <3>1. f \notin kept
        BY <2>1, <2>3, <2>4, <2>8
      <3>2. f \notin new \ needy
        BY <2>2, <2>3, <2>8, RulesConstants
      <3> QED
        BY <1>4, <2>3, <2>5, <2>8, <3>1, <3>2
    <2> QED
      BY <2>5, <2>6, <2>7, <2>8
  <1>9. /\ v10'.does = "sync" /\ v10'.add = {v6'[e] : e \in ports} \cap DrawnLabels
        /\ v10' \in [does : {"nothing", "sync", "clear"}, drop : SUBSET DrawnLabels, add : SUBSET DrawnLabels]
    <2>1. v10' = [does |-> "sync", drop |-> {v6[e] : e \in Declared \ kept} \cap DrawnLabels,
                  add |-> {v6'[e] : e \in ports} \cap DrawnLabels]
      BY <1>0 DEF R!SyncPorts
    <2> QED
      BY <2>1
  <1>10. LabelsHere'
    <2>1. v10' # R!NoSync /\ v10'.does # "clear"
      BY <1>9 DEF R!NoSync
    <2>2. \A e \in ports : v6'[e] \in DrawnLabels => v6'[e] \in v10'.add
      BY <1>9
    <2> QED
      BY <1>2, <1>7, <1>8, <1>9, <2>1, <2>2 DEF LabelsHere, R!NoSync
  <1>11. /\ v8' \in [Some -> Others \cup {None}]
         /\ \A d \in Some : v8[d] # None => v8'[d] = v8[d]
    <2>1. PICK main \in Others \cup {None} : v8' = R!Defaulted(v8, v3, main)
      BY MainIsAPort DEF R!SyncPorts
    <2> QED
      BY <1>t, <2>1 DEF R!Defaulted
  <1>12. ASSUME ~v11' PROVE RulesHere'
    <2>1. ~v11 /\ RulesHere /\ Declared \subseteq ports /\ kept = Declared
      BY <1>0, <1>2, <1>12, <1>t
    <2>2. Declared \subseteq Declared'
      BY <1>7, <2>1
    <2>3. Serving \subseteq Serving'
      BY <1>0, <1>2, <1>t, <1>11, <2>2, RulesConstants DEF Serving
    <2>4. v7' = v7
      <3>1. \A e \in Others : v7'[e] = v7[e]
        BY <1>2, <2>1 DEF RulesHere
      <3>2. v7' = [e \in Others |-> v7'[e]]
        BY <1>2
      <3> QED
        BY <1>t, <3>1, <3>2
    <2> QED
      BY <1>2, <2>1, <2>2, <2>3, <2>4, RulesStayHere
  <1>13. R!RulesTypeOK'
    <2>1. v7' \in [Others -> R!Rules]
      BY <1>2, <1>t DEF R!Rules
    <2>2. v11' \in BOOLEAN
      BY <1>2, <1>t
    <2> QED
      BY <1>2, <1>6, <1>9, <1>11, <2>1, <2>2 DEF R!RulesTypeOK, R!Rules
  <1> QED
    BY <1>10, <1>12, <1>13, InvHere DEF RulesKept

\* The index follows, ports go, the mode changes, and the process may stop in between.
LEMMA PortsGo ==
    ASSUME R!RulesTypeOK, R!EffectInv, R!LabelsInv,
           \/ R!SyncIndex \/ R!ClearAddresses \/ R!ClearIndex \/ R!Die
           \/ \E to \in {"files", "container"} : R!SwitchMode(to)
    PROVE  RulesKept
  <1>0. /\ (~v11 => RulesHere) /\ LabelsHere
        /\ R!NoSync \in [does : {"nothing", "sync", "clear"}, drop : SUBSET DrawnLabels, add : SUBSET DrawnLabels]
        /\ R!NoSync.does = "nothing" /\ "files" # "container"
    BY InvHere DEF R!NoSync
  <1>1. ASSUME R!SyncIndex \/ R!ClearIndex \/ R!Die PROVE RulesKept
    <2>1. /\ UNCHANGED <<v1, v2, v3, v4, v5, v6, v7, v8, v11>> /\ v10' = R!NoSync /\ v10 # R!NoSync
          /\ v12' \in BOOLEAN
      BY <1>0, <1>1 DEF R!SyncIndex, R!ClearIndex, R!Die, R!RulesTypeOK
    <2>2. v9' \subseteq DrawnLabels
      BY <1>1 DEF R!SyncIndex, R!ClearIndex, R!Die, R!RulesTypeOK
    <2>3. R!RulesTypeOK'
      BY <1>0, <2>1, <2>2 DEF R!RulesTypeOK, R!Rules
    <2>4. Declared' = Declared
      BY <2>1 DEF Declared
    <2>5. LabelsHere'
      <3>1. \A e, f \in Declared : v6[e] = v6[f] => e = f
        BY <1>0 DEF LabelsHere
      <3>2. ~v12' => \A e \in Declared : v6[e] \in DrawnLabels => v6[e] \in v9'
        <4>1. CASE R!SyncIndex
          BY <1>0, <4>1 DEF R!SyncIndex, LabelsHere
        <4>2. CASE R!ClearIndex
          BY <1>0, <4>2 DEF R!ClearIndex, LabelsHere
        <4>3. CASE R!Die
          BY <4>3 DEF R!Die
        <4> QED
          BY <1>1, <4>1, <4>2, <4>3
      <3>3. ~v12' /\ v1 = "files" => Declared = {}
        <4>1. CASE R!SyncIndex
          BY <1>0, <4>1 DEF R!SyncIndex, LabelsHere
        <4>2. CASE R!ClearIndex
          BY <1>0, <4>2 DEF R!ClearIndex, LabelsHere
        <4>3. CASE R!Die
          BY <4>3 DEF R!Die
        <4> QED
          BY <1>1, <4>1, <4>2, <4>3
      <3>4. R!NoSync' = R!NoSync
        BY DEF R!NoSync
      <3>5. v10'.does = "nothing"
        BY <1>0, <2>1
      <3> QED
        BY <2>1, <2>4, <3>1, <3>2, <3>3, <3>4, <3>5 DEF LabelsHere
    <2>6. ~v11' => RulesHere'
      BY <1>0, <2>1, RulesAsBefore
    <2> QED
      BY <2>3, <2>5, <2>6, InvHere DEF RulesKept
  <1>2. ASSUME R!ClearAddresses PROVE RulesKept
    <2>1. /\ UNCHANGED <<v1, v2, v3, v4, v5, v9, v12>> /\ v10'.does = "clear"
          /\ v10' \in [does : {"nothing", "sync", "clear"}, drop : SUBSET DrawnLabels, add : SUBSET DrawnLabels]
      BY <1>2 DEF R!ClearAddresses
    <2>2. /\ v6' = [e \in Others |-> None] /\ v7' = [e \in Others |-> "serve"] /\ v8' = [d \in Some |-> None]
          /\ v11' = (v11 \/ R!RulesStored)
      BY <1>2 DEF R!ClearAddresses
    <2>3. R!RulesTypeOK'
      BY <2>1, <2>2 DEF R!RulesTypeOK, R!Rules
    <2>4. Declared' = {}
      BY <2>2 DEF Declared
    <2>5. LabelsHere'
      BY <2>1, <2>4 DEF LabelsHere, R!NoSync
    <2>6. ASSUME ~v11' PROVE RulesHere'
      <3>1. v5 = "serve" /\ \A d \in Some : v4[d] = None
        BY <2>2, <2>6 DEF R!RulesStored
      <3> QED
        BY <2>1, <2>2, <3>1, RulesConstants DEF RulesHere
    <2> QED
      BY <2>3, <2>5, <2>6, InvHere DEF RulesKept
  <1>3. ASSUME NEW to \in {"files", "container"}, R!SwitchMode(to) PROVE RulesKept
    <2>1. /\ UNCHANGED <<v2, v3, v4, v5, v6, v7, v8, v9, v10>> /\ v1' = to /\ v10 = R!NoSync
          /\ v11' = (v11 \/ R!RulesStored)
          /\ v12' = (v12 \/ (to = "files" /\ R!Declared(R!Meta) # {}))
      BY <1>3 DEF R!SwitchMode
    <2>2. v11' \in BOOLEAN /\ v12' \in BOOLEAN /\ v7 \in [Others -> R!Rules]
      BY <2>1 DEF R!RulesTypeOK
    <2>3. R!RulesTypeOK'
      BY <2>1, <2>2 DEF R!RulesTypeOK, R!Rules
    <2>4. Declared' = Declared /\ R!NoSync' = R!NoSync
      BY <2>1 DEF Declared, R!NoSync
    <2>5. LabelsHere'
      BY <1>0, <2>1, <2>4, DeclaredHere DEF LabelsHere
    <2>6. ASSUME ~v11' PROVE RulesHere'
      <3>1. v5 = "serve" /\ (\A d \in Some : v4[d] = None) /\ \A e \in Others : v7[e] = "serve"
        BY <2>1, <2>6 DEF R!RulesStored
      <3> QED
        BY <2>1, <3>1, RulesConstants DEF RulesHere
    <2> QED
      BY <2>3, <2>5, <2>6, InvHere DEF RulesKept
  <1> QED
    BY <1>1, <1>2, <1>3

LEMMA RulesGoOn == RulesGood /\ [Next]_slots => RulesGood'
  <1> SUFFICES ASSUME RulesGood, [Next]_slots, which' = "rules" PROVE RulesKept
    BY DEF RulesGood, RulesKept
  <1>1. which = "rules" /\ [R!RulesNext]_(R!rvars)
    BY DEF Next, slots, R!rvars
  <1>2. R!RulesTypeOK /\ R!EffectInv /\ R!LabelsInv
    BY <1>1 DEF RulesGood
  <1>3. CASE UNCHANGED R!rvars
    <2>1. UNCHANGED <<v1, v2, v3, v4, v5, v6, v7, v8, v9, v10, v11, v12>>
      BY <1>3 DEF R!rvars
    <2>2. R!RulesTypeOK'
      BY <1>2, <2>1 DEF R!RulesTypeOK, R!Rules
    <2> QED
      BY <1>2, <2>1, <2>2, InvHere, RulesAsBefore, LabelsAreAsBefore DEF RulesKept
  <1>4. CASE R!RulesNext
    BY <1>2, <1>4, OwnersRule, DomainsComeAndGo, PortsCome, PortsGo DEF R!RulesNext
  <1> QED
    BY <1>1, <1>3, <1>4

\* Of any domains, ports and labels: a rule the owner stored is in effect until
\* something that is not the owner's decision takes away what it needs, every
\* declared port has an address no other has and is found by it, and a static site
\* has none, with crashes between the two writes made good by the next.
THEOREM RulesHold == Spec => []RulesStand
  <1>1. Init => RulesGood
    <2> SUFFICES ASSUME R!RulesInit PROVE R!RulesTypeOK /\ R!EffectInv /\ R!LabelsInv
      BY DEF Init, RulesGood
    <2>1. R!RulesTypeOK
      BY DEF R!RulesInit, R!RulesTypeOK, R!Rules, R!NoSync
    <2>2. Declared = {}
      BY DEF R!RulesInit, Declared
    <2>3. RulesHere
      BY RulesConstants DEF R!RulesInit, RulesHere
    <2>4. LabelsHere
      BY <2>2 DEF R!RulesInit, LabelsHere, R!NoSync
    <2> QED
      BY <2>1, <2>3, <2>4, InvHere
  <1>2. RulesGood => RulesStand
    BY RulesTakeEffect DEF RulesGood, RulesStand
  <1> QED
    BY <1>1, <1>2, RulesGoOn, PTL DEF Spec

(***************************************************************************)
(* Tools.                                                                  *)
(***************************************************************************)

ToolsGood == which = "tools" => M!ToolsTypeOK /\ M!ToolsInv

ToolsKept == M!ToolsTypeOK' /\ M!ToolsInv' /\ M!LockHoldsContent

\* What is kept of a call, of what it did, of what it made and of its lines.
CallRecords == [pc : {"let in", "open", "made", "changed", "told", "challenged"} \cup M!Ends, q : M!Requests,
                role : M!Roles, files : 0 .. FilesPerCall, fin : M!Ends]
DidRecords  == [n : 0 .. FilesPerCall, what : SUBSET M!Parts]
MadeRecords == [there : BOOLEAN, locked : {"no", "guard", "operator"}]
LineSet     == [action : M!Reads \cup M!Writes \cup {"replace", "create"}, files : 0 .. FilesPerCall, role : M!Roles]
SiteRecords == [there : BOOLEAN, locked : BOOLEAN, owner : Some \cup {None}, admin : Some \cup {None}]

LEMMA ToolsTyped ==
    /\ M!ToolsTypeOK <=> /\ v1 \in BOOLEAN /\ v2 \in BOOLEAN /\ v3 \in SiteRecords
                         /\ v4 \in [ToolCalls -> {M!Idle} \cup CallRecords] /\ v5 \in [ToolCalls -> DidRecords]
                         /\ v6 \in [ToolCalls -> MadeRecords] /\ v7 \in [ToolCalls -> Seq(LineSet)]
    /\ M!ToolsTypeOK' <=> /\ v1' \in BOOLEAN /\ v2' \in BOOLEAN /\ v3' \in SiteRecords
                          /\ v4' \in [ToolCalls -> {M!Idle} \cup CallRecords'] /\ v5' \in [ToolCalls -> DidRecords]
                          /\ v6' \in [ToolCalls -> MadeRecords] /\ v7' \in [ToolCalls -> Seq(LineSet)]
  <1>1. M!ToolsTypeOK <=> /\ v1 \in BOOLEAN /\ v2 \in BOOLEAN /\ v3 \in SiteRecords
                          /\ v4 \in [ToolCalls -> {M!Idle} \cup CallRecords] /\ v5 \in [ToolCalls -> DidRecords]
                          /\ v6 \in [ToolCalls -> MadeRecords] /\ v7 \in [ToolCalls -> Seq(LineSet)]
    BY Zenon DEF M!ToolsTypeOK, SiteRecords, CallRecords, DidRecords, MadeRecords, LineSet
  <1>2. M!ToolsTypeOK' <=> /\ v1' \in BOOLEAN /\ v2' \in BOOLEAN /\ v3' \in SiteRecords
                           /\ v4' \in [ToolCalls -> {M!Idle} \cup CallRecords'] /\ v5' \in [ToolCalls -> DidRecords]
                           /\ v6' \in [ToolCalls -> MadeRecords] /\ v7' \in [ToolCalls -> Seq(LineSet)]
    BY Zenon DEF M!ToolsTypeOK, SiteRecords, CallRecords, DidRecords, MadeRecords, LineSet
  <1> QED
    BY <1>1, <1>2

LEMMA ToolsConstants ==
    FilesPerCall \in Nat \ {0} /\ 0 \in 0 .. FilesPerCall /\ None \notin Some /\ ToolsOffered \subseteq M!Reads \cup M!Writes
  BY PartsAssumption DEF M!ToolsAssumption

LEMMA NothingIsNone == M!Nothing.what = {} /\ M!Nothing.n = 0 /\ M!NoSite.there = FALSE /\ M!NoSite.locked = "no"
  BY DEF M!Nothing, M!NoSite

LEMMA RequestsTyped ==
    ASSUME NEW x \in M!Requests
    PROVE  /\ x.tool \in ToolsOffered /\ x.tool \in M!Reads \cup M!Writes /\ x.size \in 0 .. FilesPerCall
           /\ x.replace \in BOOLEAN /\ x.cr.account \in Some \cup {None}
           /\ x.cr.bearer \in {"none", "bad"} <=> x.cr.account = None
           /\ x.replace => x.tool = "write_files"
           /\ x.tool \notin M!PerSite => x.pw = "none"
  BY PartsAssumption DEF M!Requests, M!Credentials, M!ToolsAssumption

\* A step moves a call, and says where it is then; the site goes, and does not
\* come back, and none is locked that is gone.
LEMMA CallMoves ==
    ASSUME M!ToolsTypeOK, M!ToolsInv, NEW c \in ToolCalls, UNCHANGED <<v1, v2>>,
           NEW x \in CallRecords, v4' = [v4 EXCEPT ![c] = x],
           NEW b \in DidRecords, v5' = [v5 EXCEPT ![c] = b],
           NEW m \in MadeRecords, v6' = [v6 EXCEPT ![c] = m],
           NEW l \in Seq(LineSet), v7' = [v7 EXCEPT ![c] = l],
           v3' \in SiteRecords, v3'.there => v3.there, v3'.locked => v3'.there,
           b # v5[c] /\ b.what \cap {"files", "site"} # {} => ~v3.locked,
           v4'[c] = x /\ v5'[c] = b /\ v6'[c] = m /\ v7'[c] = l => M!CallInv(c)'
    PROVE  ToolsKept
  <1>0. /\ v4 \in [ToolCalls -> {M!Idle} \cup CallRecords] /\ v5 \in [ToolCalls -> DidRecords]
        /\ v6 \in [ToolCalls -> MadeRecords] /\ v7 \in [ToolCalls -> Seq(LineSet)]
        /\ v1 \in BOOLEAN /\ v2 \in BOOLEAN
    BY ToolsTyped
  <1>1. v4'[c] = x /\ v5'[c] = b /\ v6'[c] = m /\ v7'[c] = l
    BY <1>0
  <1>2. \A d \in ToolCalls : d # c => v4'[d] = v4[d] /\ v5'[d] = v5[d] /\ v6'[d] = v6[d] /\ v7'[d] = v7[d]
    BY <1>0
  <1>3. M!ToolsTypeOK'
    <2>1. CallRecords' = CallRecords
      BY DEF CallRecords, M!Requests
    <2> QED
      BY <1>0, <2>1, ToolsTyped
  <1>4. ASSUME NEW d \in ToolCalls, d # c PROVE M!CallInv(d)'
    <2>1. M!CallInv(d) /\ v4'[d] = v4[d] /\ v5'[d] = v5[d] /\ v6'[d] = v6[d] /\ v7'[d] = v7[d]
      BY <1>2, <1>4 DEF M!ToolsInv
    <2>2. /\ M!Granted(d)' = M!Granted(d) /\ M!Entitled(d)' = M!Entitled(d) /\ M!LineOf(d)' = M!LineOf(d)
          /\ M!CreateLine(d)' = M!CreateLine(d) /\ M!Challenged(v4[d].q)' = M!Challenged(v4[d].q)
      BY <2>1 DEF M!Granted, M!Entitled, M!LineOf, M!CreateLine, M!Challenged, M!AnonymousCallAllowed
    <2>3. (M!Worked(d) => M!Worked(d)') /\ (M!Told(d) => M!Told(d)')
      BY <2>1, <2>2 DEF M!Worked, M!Told
    <2>4. (M!WorkInv(d) => M!WorkInv(d)') /\ (M!CreateInv(d) => M!CreateInv(d)')
      BY <2>1, <2>2, <2>3 DEF M!WorkInv, M!CreateInv
    <2> QED
      BY <2>1, <2>2, <2>4 DEF M!CallInv
  <1>5. M!ToolsInv'
    BY <1>1, <1>4 DEF M!ToolsInv
  <1>6. M!LockHoldsContent
    BY <1>1, <1>2 DEF M!LockHoldsContent
  <1> QED
    BY <1>3, <1>5, <1>6 DEF ToolsKept

LEMMA CallsAreRecords ==
    ASSUME M!ToolsTypeOK, M!ToolsInv, NEW c \in ToolCalls, v4[c].pc # "idle"
    PROVE  /\ v4[c] \in CallRecords /\ v4[c].q \in M!Requests /\ v4[c].pc # "idle"
           /\ v5[c] \in DidRecords /\ v6[c] \in MadeRecords /\ v7[c] \in Seq(LineSet)
           /\ v3 \in SiteRecords /\ (v3.locked => v3.there) /\ M!CallInv(c)
  <1>1. v4[c] \in CallRecords
    BY ToolsTyped DEF M!Idle
  <1> QED
    BY <1>1, ToolsTyped DEF CallRecords, M!Ends, M!ToolsInv

\* A step that only moves a call on.
LEMMA Goes ==
    ASSUME M!ToolsTypeOK, M!ToolsInv, NEW c \in ToolCalls, v4[c].pc # "idle", UNCHANGED <<v1, v2, v5, v6, v7>>,
           NEW p \in {"let in", "open", "made", "changed", "told", "challenged"} \cup M!Ends, M!Goto(c, p),
           v3' \in SiteRecords, v3'.there => v3.there, v3'.locked => v3'.there,
           v4'[c].pc = p /\ v4'[c].q = v4[c].q /\ v4'[c].role = v4[c].role /\ v4'[c].files = v4[c].files
             /\ v4'[c].fin = v4[c].fin /\ v5'[c] = v5[c] /\ v6'[c] = v6[c] /\ v7'[c] = v7[c] => M!CallInv(c)'
    PROVE  ToolsKept
  <1>0. v4[c] \in CallRecords /\ v5[c] \in DidRecords /\ v6[c] \in MadeRecords /\ v7[c] \in Seq(LineSet)
    BY CallsAreRecords
  <1> DEFINE x == [v4[c] EXCEPT !.pc = p]
  <1>1. /\ x \in CallRecords /\ x.pc = p /\ x.q = v4[c].q /\ x.role = v4[c].role
        /\ x.files = v4[c].files /\ x.fin = v4[c].fin
    BY <1>0 DEF CallRecords
  <1>2. v4' = [v4 EXCEPT ![c] = x]
    BY DEF M!Goto
  <1> HIDE DEF x
  <1>3. v5' = [v5 EXCEPT ![c] = v5[c]] /\ v6' = [v6 EXCEPT ![c] = v6[c]] /\ v7' = [v7 EXCEPT ![c] = v7[c]]
    BY ToolsTyped
  <1>4. v4'[c] = x /\ v5'[c] = v5[c] /\ v6'[c] = v6[c] /\ v7'[c] = v7[c] => M!CallInv(c)'
    BY <1>1
  <1>5. UNCHANGED <<v1, v2>>
    OBVIOUS
  <1> QED
    BY <1>0, <1>1, <1>2, <1>3, <1>4, <1>5, CallMoves

\* A step in which it did something.
LEMMA Does ==
    ASSUME M!ToolsTypeOK, M!ToolsInv, NEW c \in ToolCalls, v4[c].pc # "idle", UNCHANGED <<v1, v2, v6, v7>>,
           NEW p \in {"let in", "open", "made", "changed", "told", "challenged"} \cup M!Ends,
           NEW n \in 0 .. FilesPerCall, NEW what \in SUBSET M!Parts, NEW files \in 0 .. FilesPerCall,
           NEW fin \in M!Ends, M!Did(c, n, what, files, p, fin),
           v3' \in SiteRecords, v3'.there => v3.there, v3'.locked => v3'.there,
           what \cap {"files", "site"} # {} => v5[c] = [n |-> n, what |-> what] \/ ~v3.locked,
           v4'[c].pc = p /\ v4'[c].q = v4[c].q /\ v4'[c].role = v4[c].role /\ v4'[c].files = files
             /\ v4'[c].fin = fin /\ v5'[c].n = n /\ v5'[c].what = what /\ v6'[c] = v6[c] /\ v7'[c] = v7[c] => M!CallInv(c)'
    PROVE  ToolsKept
  <1>0. v4[c] \in CallRecords /\ v6[c] \in MadeRecords /\ v7[c] \in Seq(LineSet)
    BY CallsAreRecords
  <1> DEFINE x == [v4[c] EXCEPT !.pc = p, !.files = files, !.fin = fin]
             b == [n |-> n, what |-> what]
  <1>1. /\ x \in CallRecords /\ x.pc = p /\ x.q = v4[c].q /\ x.role = v4[c].role
        /\ x.files = files /\ x.fin = fin /\ b \in DidRecords /\ b.n = n /\ b.what = what
    BY <1>0 DEF CallRecords, DidRecords
  <1>2. v4' = [v4 EXCEPT ![c] = x] /\ v5' = [v5 EXCEPT ![c] = b]
    BY ToolsTyped DEF M!Did
  <1>3. b # v5[c] /\ b.what \cap {"files", "site"} # {} => ~v3.locked
    BY <1>1
  <1> HIDE DEF x, b
  <1>4. v6' = [v6 EXCEPT ![c] = v6[c]] /\ v7' = [v7 EXCEPT ![c] = v7[c]]
    BY ToolsTyped
  <1>5. v4'[c] = x /\ v5'[c] = b /\ v6'[c] = v6[c] /\ v7'[c] = v7[c] => M!CallInv(c)'
    BY <1>1
  <1>6. UNCHANGED <<v1, v2>>
    OBVIOUS
  <1> QED
    BY <1>0, <1>1, <1>2, <1>3, <1>4, <1>5, <1>6, CallMoves
\* What is known of a call that has opened the site, and of one still to begin.
LEMMA OpenCalls ==
    ASSUME M!ToolsTypeOK, M!ToolsInv, NEW c \in ToolCalls, v4[c].pc = "open"
    PROVE  /\ v4[c].q.tool # "create_site" /\ M!Granted(c) /\ M!Entitled(c) /\ v7[c] = <<>>
           /\ \/ v5[c] = M!Nothing
              \/ /\ v4[c].q.tool = "write_files" /\ ~v4[c].q.replace
                 /\ v5[c].what = {"files"} /\ 0 < v5[c].n /\ v5[c].n < v4[c].q.size
  <1>1. M!CallInv(c)
    BY DEF M!ToolsInv
  <1> QED
    BY <1>1 DEF M!CallInv, M!CreateInv, M!WorkInv

LEMMA LetInCalls ==
    ASSUME M!ToolsTypeOK, M!ToolsInv, NEW c \in ToolCalls, v4[c].pc = "let in"
    PROVE  /\ M!Granted(c) /\ v4[c].role = "none" /\ v5[c] = M!Nothing /\ v7[c] = <<>> /\ v6[c] = M!NoSite
  <1>1. M!CallInv(c)
    BY DEF M!ToolsInv
  <1> QED
    BY <1>1 DEF M!CallInv

\* A call that did nothing is answered.
LEMMA AnsweredIdly ==
    ASSUME M!ToolsTypeOK, M!ToolsInv, NEW c \in ToolCalls, v4[c].pc \in {"let in", "open"},
           v4[c].q.tool # "create_site", v5[c] = M!Nothing,
           UNCHANGED <<v1, v2, v3, v5, v6, v7>>, NEW p \in {"ok", "refused"}, M!Goto(c, p)
    PROVE  ToolsKept
  <1>1. v7[c] = <<>> /\ v3 \in SiteRecords /\ (v3.locked => v3.there) /\ v5[c].what = {} /\ v4[c].pc # "idle"
    <2>1. v7[c] = <<>>
      BY OpenCalls, LetInCalls
    <2>2. v5[c].what = {}
      BY NothingIsNone
    <2> QED
      BY <2>1, <2>2, CallsAreRecords
  <1>2. ASSUME v4'[c].pc = p, v4'[c].q = v4[c].q, v5'[c] = v5[c], v7'[c] = v7[c] PROVE M!CallInv(c)'
    BY <1>1, <1>2 DEF M!CallInv, M!WorkInv, M!Ends
  <1> QED
    BY <1>1, <1>2, Goes DEF M!Ends

\* A call that has opened the site works on it: all of it is done, or half.
LEMMA WorksOn ==
    ASSUME M!ToolsTypeOK, M!ToolsInv, NEW c \in ToolCalls, v4[c].pc = "open", UNCHANGED <<v1, v2, v6, v7>>,
           v4[c].q.tool \in M!Writes,
           NEW p \in {"changed", "half"}, NEW n \in 0 .. FilesPerCall, NEW what \in SUBSET M!Parts,
           NEW files \in 0 .. FilesPerCall, NEW fin \in M!Ends, M!Did(c, n, what, files, p, fin),
           v4[c].role = "admin" => what \cap {"site", "expiry", "tags"} = {},
           what # {} \/ (v4[c].q.tool = "update_site" /\ p = "changed" /\ fin # "half"),
           p = "changed" => IF fin = "half" THEN files < n ELSE files = n,
           v3' \in SiteRecords, v3'.there => v3.there, v3'.locked => v3'.there,
           what \cap {"files", "site"} # {} => v5[c] = [n |-> n, what |-> what] \/ ~v3.locked
    PROVE  ToolsKept
  <1>1. /\ v4[c].q.tool # "create_site" /\ M!Granted(c) /\ M!Entitled(c) /\ v7[c] = <<>>
        /\ v6[c] \in MadeRecords /\ v7[c] \in Seq(LineSet)
    BY OpenCalls, CallsAreRecords
  <1>2. ASSUME v4'[c].pc = p, v4'[c].q = v4[c].q, v4'[c].role = v4[c].role, v4'[c].files = files, v4'[c].fin = fin,
               v5'[c].n = n, v5'[c].what = what, v7'[c] = v7[c]
        PROVE  M!CallInv(c)'
    <2>1. M!Worked(c)'
      BY <1>1, <1>2 DEF M!Worked, M!Granted, M!Entitled
    <2>2. M!WorkInv(c)'
      BY <1>1, <1>2, <2>1 DEF M!WorkInv, M!Ends
    <2> QED
      BY <1>1, <1>2, <2>2 DEF M!CallInv
  <1>4. p \in {"let in", "open", "made", "changed", "told", "challenged"} \cup M!Ends
    BY DEF M!Ends
  <1>5. UNCHANGED <<v1, v2>> /\ v4[c].pc # "idle"
    OBVIOUS
  <1> QED
    BY <1>2, <1>4, <1>5, Does

LEMMA CallsArrive ==
    ASSUME M!ToolsTypeOK, M!ToolsInv, NEW c \in ToolCalls, NEW x \in M!Requests, NEW decodes \in BOOLEAN,
           M!Arrive(c, x, decodes)
    PROVE  ToolsKept
  <1>0. /\ M!CallInv(c) /\ v5[c] \in DidRecords /\ v6[c] \in MadeRecords /\ v7[c] \in Seq(LineSet)
        /\ v3 \in SiteRecords /\ (v3.locked => v3.there)
    BY ToolsTyped DEF M!ToolsInv
  <1>1. v5[c] = M!Nothing /\ v7[c] = <<>> /\ v6[c] = M!NoSite
    BY <1>0 DEF M!Arrive, M!CallInv
  <1>2. PICK p \in {"challenged", "let in", "refused"} :
           /\ v4' = [v4 EXCEPT ![c] = [pc |-> p, q |-> x, role |-> "none", files |-> 0, fin |-> "ok"]]
           /\ p = "challenged" => M!Challenged(x)
           /\ p = "let in" => M!Allows(x.cr, M!Scope(x.tool))
    BY DEF M!Arrive
  <1> DEFINE k == [pc |-> p, q |-> x, role |-> "none", files |-> 0, fin |-> "ok"]
  <1>3. k \in CallRecords /\ k.pc = p /\ k.q = x /\ k.role = "none"
    BY ToolsConstants DEF CallRecords, M!Ends, M!Roles
  <1> HIDE DEF k
  <1>4. v4' = [v4 EXCEPT ![c] = k]
    BY <1>2 DEF k
  <1>5. UNCHANGED <<v1, v2, v3, v5, v6, v7>>
    BY DEF M!Arrive
  <1>6. ASSUME v4'[c] = k, v5'[c] = v5[c], v6'[c] = v6[c], v7'[c] = v7[c] PROVE M!CallInv(c)'
    <2>1. M!Challenged(x)' = M!Challenged(x)
      BY <1>5 DEF M!Challenged, M!AnonymousCallAllowed
    <2>2. M!Nothing.what = {} /\ M!NoSite.there = FALSE
      BY NothingIsNone
    <2>3. M!CreateInv(c)' \/ p # "refused"
      BY <1>1, <1>3, <1>6, <2>2 DEF M!CreateInv
    <2>4. M!WorkInv(c)' \/ p # "refused"
      BY <1>1, <1>3, <1>6, <2>2 DEF M!WorkInv
    <2>5. p = "let in" => M!Granted(c)'
      BY <1>2, <1>3, <1>6 DEF M!Granted
    <2> QED
      BY <1>1, <1>2, <1>3, <1>6, <2>1, <2>3, <2>4, <2>5 DEF M!CallInv
  <1>7. v5' = [v5 EXCEPT ![c] = v5[c]] /\ v6' = [v6 EXCEPT ![c] = v6[c]] /\ v7' = [v7 EXCEPT ![c] = v7[c]]
    BY <1>5, ToolsTyped
  <1>8. v3' \in SiteRecords /\ v3' = v3 /\ UNCHANGED <<v1, v2>>
    BY <1>0, <1>5
  <1> QED
    BY <1>0, <1>3, <1>4, <1>6, <1>7, <1>8, CallMoves

LEMMA CallsOpen ==
    ASSUME M!ToolsTypeOK, M!ToolsInv, NEW c \in ToolCalls,
           NEW pl \in {"yes", "no", "unknown"}, NEW throttled \in BOOLEAN, M!Open(c, pl, throttled)
    PROVE  ToolsKept
  <1> DEFINE st   == M!Standing(v4[c].q.cr.account, pl)
             role == IF st # "none" THEN st ELSE IF M!PasswordDoes(v4[c].q.pw) /\ ~throttled THEN "password" ELSE "none"
  <1>0. /\ v4[c].pc = "let in" /\ v4[c].q.tool \in M!PerSite /\ UNCHANGED <<v1, v2, v3, v5, v6, v7>>
        /\ \/ M!Goto(c, "refused")
           \/ /\ role \in {"owner", "admin", "password"}
              /\ v4' = [v4 EXCEPT ![c].pc = "open", ![c].role = role]
    BY DEF M!Open
  <1>1. /\ v4[c] \in CallRecords /\ v5[c] \in DidRecords /\ v6[c] \in MadeRecords /\ v7[c] \in Seq(LineSet)
        /\ v3 \in SiteRecords /\ (v3.locked => v3.there) /\ v4[c].q \in M!Requests
    BY <1>0, CallsAreRecords
  <1>2. M!Granted(c) /\ v5[c] = M!Nothing /\ v7[c] = <<>> /\ v4[c].q.tool # "create_site"
    BY <1>0, LetInCalls DEF M!PerSite
  <1>3. CASE M!Goto(c, "refused")
    BY <1>0, <1>2, <1>3, AnsweredIdly
  <1>4. CASE role \in {"owner", "admin", "password"} /\ v4' = [v4 EXCEPT ![c].pc = "open", ![c].role = role]
    <2>1. role = "password" => v4[c].q.pw = "right"
      BY DEF M!Standing, M!PasswordDoes
    <2>2. role \in {"owner", "admin"} => v4[c].q.cr.account # None
      BY DEF M!Standing
    <2> HIDE DEF role
    <2> DEFINE k == [v4[c] EXCEPT !.pc = "open", !.role = role]
    <2>3. k \in CallRecords /\ k.pc = "open" /\ k.q = v4[c].q /\ k.role = role
      BY <1>1, <1>4 DEF CallRecords, M!Roles
    <2>4. v4' = [v4 EXCEPT ![c] = k]
      BY <1>4
    <2> HIDE DEF k
    <2>5. ASSUME v4'[c] = k, v5'[c] = v5[c], v7'[c] = v7[c] PROVE M!CallInv(c)'
      <3>1. M!Granted(c)' /\ M!Entitled(c)'
        BY <1>2, <1>4, <2>1, <2>2, <2>3, <2>5 DEF M!Granted, M!Entitled
      <3>2. M!WorkInv(c)'
        BY <1>2, <2>3, <2>5, <3>1 DEF M!WorkInv, M!Ends
      <3> QED
        BY <1>2, <2>3, <2>5, <3>2 DEF M!CallInv
    <2>6. v5' = [v5 EXCEPT ![c] = v5[c]] /\ v6' = [v6 EXCEPT ![c] = v6[c]] /\ v7' = [v7 EXCEPT ![c] = v7[c]]
      BY <1>0, ToolsTyped
    <2>7. v3' \in SiteRecords /\ v3' = v3 /\ UNCHANGED <<v1, v2>>
      BY <1>0, <1>1
    <2> QED
      BY <1>1, <2>3, <2>4, <2>5, <2>6, <2>7, CallMoves
  <1> QED
    BY <1>0, <1>3, <1>4
\* What an open call meets: the site as it is, and a call that may be refused.
LEMMA OpenMeets ==
    ASSUME M!ToolsTypeOK, M!ToolsInv, NEW c \in ToolCalls, v4[c].pc = "open"
    PROVE  /\ v3 \in SiteRecords /\ v3.there \in BOOLEAN /\ v3.locked \in BOOLEAN /\ (v3.locked => v3.there)
           /\ v4[c].q \in M!Requests /\ v4[c].q.tool # "create_site" /\ v4[c].role \in M!Roles
           /\ v4[c].q.tool # "write_files" \/ v4[c].q.replace => v5[c] = M!Nothing
           /\ v5[c] \in DidRecords /\ v5[c].n \in 0 .. FilesPerCall
  <1>1. v4[c].pc # "idle"
    OBVIOUS
  <1>2. v4[c] \in CallRecords /\ v5[c] \in DidRecords /\ v3 \in SiteRecords
    BY <1>1, CallsAreRecords
  <1>3. v4[c].role \in M!Roles /\ v5[c].n \in 0 .. FilesPerCall /\ v3.there \in BOOLEAN /\ v3.locked \in BOOLEAN
    BY <1>2 DEF CallRecords, DidRecords, SiteRecords
  <1> QED
    BY <1>1, <1>2, <1>3, CallsAreRecords, OpenCalls

LEMMA SitesUpdated ==
    ASSUME M!ToolsTypeOK, M!ToolsInv, NEW c \in ToolCalls,
           NEW expiry \in BOOLEAN, NEW tags \in BOOLEAN, NEW rest \in BOOLEAN, M!UpdateSite(c, expiry, tags, rest)
    PROVE  ToolsKept
  <1> DEFINE what == M!SettingsOf(v4[c].role, expiry, tags, rest)
  <1>1. /\ v4[c].pc = "open" /\ v4[c].q.tool = "update_site" /\ UNCHANGED <<v1, v2, v6, v7>>
        /\ \/ M!Goto(c, "refused") /\ UNCHANGED <<v3, v5>>
           \/ M!Goto(c, "ok") /\ UNCHANGED <<v3, v5>>
           \/ /\ ~(v4[c].role = "admin" /\ expiry)
              /\ \/ M!Did(c, 0, what, 0, "changed", "ok") /\ UNCHANGED v3
                 \/ rest /\ M!Did(c, 0, what, 0, "half", "half") /\ UNCHANGED v3
                 \/ \E held \in BOOLEAN : /\ M!Did(c, 0, {"containers"}, 0, "half", "half")
                                          /\ v3.there /\ v3' = [v3 EXCEPT !.locked = @ \/ held]
    BY DEF M!UpdateSite, M!Running, M!Refuse, M!Done, M!Half
  <1>2. /\ v3 \in SiteRecords /\ v3.there \in BOOLEAN /\ v3.locked \in BOOLEAN /\ (v3.locked => v3.there)
        /\ v5[c] = M!Nothing /\ v4[c].q.tool # "create_site" /\ v4[c].q.tool \in M!Writes
    BY <1>1, OpenMeets DEF M!Writes
  <1>3. /\ what \in SUBSET M!Parts /\ {"containers"} \in SUBSET M!Parts
        /\ what \cap {"files", "site"} = {} /\ (rest => what # {})
        /\ v4[c].role = "admin" /\ ~expiry => what \cap {"site", "expiry", "tags"} = {}
    BY DEF M!SettingsOf, M!Parts
  <1> HIDE DEF what
  <1>z. 0 \in 0 .. FilesPerCall /\ "ok" \in M!Ends /\ "half" \in M!Ends
    BY ToolsConstants DEF M!Ends
  <1>4. CASE M!Goto(c, "refused") /\ UNCHANGED <<v3, v5>>
    BY <1>1, <1>2, <1>4, AnsweredIdly
  <1>5. CASE M!Goto(c, "ok") /\ UNCHANGED <<v3, v5>>
    BY <1>1, <1>2, <1>5, AnsweredIdly
  <1>6. CASE ~(v4[c].role = "admin" /\ expiry) /\ M!Did(c, 0, what, 0, "changed", "ok") /\ UNCHANGED v3
    BY <1>1, <1>2, <1>3, <1>6, <1>z, WorksOn
  <1>7. CASE ~(v4[c].role = "admin" /\ expiry) /\ rest /\ M!Did(c, 0, what, 0, "half", "half") /\ UNCHANGED v3
    BY <1>1, <1>2, <1>3, <1>7, <1>z, WorksOn
  <1>8. ASSUME NEW held \in BOOLEAN, M!Did(c, 0, {"containers"}, 0, "half", "half"),
               v3.there, v3' = [v3 EXCEPT !.locked = @ \/ held]
        PROVE  ToolsKept
    <2>1. v3' \in SiteRecords /\ v3'.there
      BY <1>2, <1>8 DEF SiteRecords
    <2> QED
      BY <1>1, <1>2, <1>3, <1>8, <1>z, <2>1, WorksOn
  <1> QED
    BY <1>1, <1>4, <1>5, <1>6, <1>7, <1>8

LEMMA FilesWritten ==
    ASSUME M!ToolsTypeOK, M!ToolsInv, NEW c \in ToolCalls,
           NEW out \in {"in", "no", "held", "stuck"}, M!WriteFile(c, out)
    PROVE  ToolsKept
  <1> DEFINE n == v5[c].n
  <1>1. /\ v4[c].pc = "open" /\ v4[c].q.tool = "write_files" /\ ~v4[c].q.replace /\ UNCHANGED <<v1, v2, v6, v7>>
        /\ out # "no" => v3.there /\ ~v3.locked
        /\ v3' = [v3 EXCEPT !.locked = @ \/ out = "held"]
        /\ \/ out = "stuck" /\ n > 0 /\ M!Did(c, n + 1, {"files"}, n, "changed", "half")
           \/ out = "stuck" /\ ~(n > 0) /\ M!Did(c, n + 1, {"files"}, n, "half", "half")
           \/ out = "in" /\ n + 1 < v4[c].q.size /\ M!Did(c, n + 1, {"files"}, 0, "open", "ok")
           \/ out = "in" /\ M!Did(c, n + 1, {"files"}, n + 1, "changed", "ok")
           \/ out = "held" /\ M!Did(c, n + 1, {"files"}, n + 1, "changed", "refused")
           \/ out = "no" /\ n > 0 /\ M!Did(c, n, {"files"}, n, "changed", "refused")
           \/ out = "no" /\ ~(n > 0) /\ M!Goto(c, "refused") /\ UNCHANGED v5
    BY DEF M!WriteFile, M!Running, M!Unlocked, M!Recorded, M!Refuse
  <1>2. /\ v3 \in SiteRecords /\ v3.there \in BOOLEAN /\ v3.locked \in BOOLEAN /\ (v3.locked => v3.there)
        /\ v4[c].q \in M!Requests /\ v4[c].q.tool # "create_site" /\ v4[c].q.tool \in M!Writes
        /\ v5[c] \in DidRecords /\ n \in 0 .. FilesPerCall
    BY <1>1, OpenMeets DEF M!Writes
  <1>3. /\ v7[c] = <<>> /\ M!Granted(c) /\ M!Entitled(c)
        /\ \/ v5[c] = M!Nothing
           \/ v5[c].what = {"files"} /\ 0 < n /\ n < v4[c].q.size
    BY <1>1, OpenCalls
  <1>4. n + 1 \in 0 .. FilesPerCall
    <2>1. v4[c].q.size \in 0 .. FilesPerCall /\ M!Nothing.n = 0
      BY <1>2, RequestsTyped, NothingIsNone
    <2> QED
      BY <1>2, <1>3, <2>1, ToolsConstants
  <1>5. v3' \in SiteRecords /\ (v3'.there => v3.there) /\ (v3'.locked => v3'.there)
    BY <1>1, <1>2 DEF SiteRecords
  <1>6. out = "no" => v3' = v3
    <2>1. v3.locked \/ FALSE = v3.locked
      BY <1>2
    <2> QED
      BY <1>1, <1>2, <2>1 DEF SiteRecords
  <1>7. v5[c] = M!Nothing => n = 0
    BY NothingIsNone
  <1>z. /\ 0 \in 0 .. FilesPerCall /\ "ok" \in M!Ends /\ "half" \in M!Ends /\ "refused" \in M!Ends
        /\ {"files"} \in SUBSET M!Parts /\ {"files"} \cap {"site", "expiry", "tags"} = {} /\ {"files"} # {}
        /\ n \in Int /\ n < n + 1
    BY <1>2, ToolsConstants DEF M!Ends, M!Parts
  <1> HIDE DEF n
  <1>8. ASSUME out \in {"in", "held", "stuck"}, NEW p \in {"changed", "half"}, NEW files \in 0 .. FilesPerCall,
               NEW fin \in M!Ends, M!Did(c, n + 1, {"files"}, files, p, fin),
               p = "changed" => IF fin = "half" THEN files < n + 1 ELSE files = n + 1
        PROVE  ToolsKept
    <2>1. ~v3.locked
      BY <1>1, <1>8
    <2> QED
      BY <1>1, <1>2, <1>4, <1>5, <1>8, <1>z, <2>1, WorksOn
  <1>9. CASE out = "stuck" /\ n > 0 /\ M!Did(c, n + 1, {"files"}, n, "changed", "half")
    BY <1>2, <1>8, <1>9, <1>z DEF n
  <1>10. CASE out = "stuck" /\ ~(n > 0) /\ M!Did(c, n + 1, {"files"}, n, "half", "half")
    BY <1>2, <1>8, <1>10, <1>z DEF n
  <1>11. CASE out = "in" /\ M!Did(c, n + 1, {"files"}, n + 1, "changed", "ok")
    BY <1>4, <1>8, <1>11, <1>z
  <1>12. CASE out = "held" /\ M!Did(c, n + 1, {"files"}, n + 1, "changed", "refused")
    BY <1>4, <1>8, <1>12, <1>z
  <1>13. CASE out = "no" /\ n > 0 /\ M!Did(c, n, {"files"}, n, "changed", "refused")
    <2>1. v5[c].what = {"files"}
      BY <1>3, <1>7, <1>13
    <2>2. v5[c] = [n |-> n, what |-> {"files"}] /\ n \in 0 .. FilesPerCall
      BY <1>2, <2>1 DEF DidRecords, n
    <2> QED
      BY <1>1, <1>2, <1>5, <1>13, <1>z, <2>2, WorksOn
  <1>14. CASE out = "no" /\ ~(n > 0) /\ M!Goto(c, "refused") /\ UNCHANGED v5
    <2>1. v5[c] = M!Nothing
      BY <1>3, <1>14
    <2> QED
      BY <1>1, <1>2, <1>6, <1>14, <2>1, AnsweredIdly
  <1>15. CASE out = "in" /\ n + 1 < v4[c].q.size /\ M!Did(c, n + 1, {"files"}, 0, "open", "ok")
    <2>1. ASSUME v4'[c].pc = "open", v4'[c].q = v4[c].q, v4'[c].role = v4[c].role,
                 v5'[c].n = n + 1, v5'[c].what = {"files"}, v7'[c] = v7[c]
          PROVE  M!CallInv(c)'
      <3>1. M!Granted(c)' /\ M!Entitled(c)'
        BY <1>3, <2>1 DEF M!Granted, M!Entitled
      <3>2. 0 < n + 1
        BY <1>2 DEF n
      <3>3. M!WorkInv(c)'
        BY <1>1, <1>3, <1>15, <2>1, <3>1, <3>2 DEF M!WorkInv, M!Ends
      <3> QED
        BY <1>2, <2>1, <3>3 DEF M!CallInv
    <2>2. ~v3.locked
      BY <1>1, <1>15
    <2> QED
      BY <1>1, <1>4, <1>5, <1>15, <1>z, <2>1, <2>2, Does
  <1> QED
    BY <1>1, <1>9, <1>10, <1>11, <1>12, <1>13, <1>14, <1>15 DEF n
LEMMA FilesReplaced ==
    ASSUME M!ToolsTypeOK, M!ToolsInv, NEW c \in ToolCalls,
           NEW out \in {"in", "no", "held"}, M!ReplaceFiles(c, out)
    PROVE  ToolsKept
  <1> DEFINE n == v4[c].q.size
  <1>1. /\ v4[c].pc = "open" /\ v4[c].q.tool = "write_files" /\ v4[c].q.replace /\ UNCHANGED <<v1, v2, v6, v7>>
        /\ out # "no" => v3.there /\ ~v3.locked
        /\ v3' = [v3 EXCEPT !.locked = @ \/ out = "held"]
        /\ \/ out = "no" /\ M!Goto(c, "refused") /\ UNCHANGED v5
           \/ out # "no" /\ M!Did(c, n, {"files"}, n, "changed", IF out = "held" THEN "refused" ELSE "ok")
    BY DEF M!ReplaceFiles, M!Running, M!Unlocked, M!Refuse
  <1>2. /\ v3 \in SiteRecords /\ v3.there \in BOOLEAN /\ v3.locked \in BOOLEAN /\ (v3.locked => v3.there)
        /\ v4[c].q \in M!Requests /\ v4[c].q.tool # "create_site" /\ v4[c].q.tool \in M!Writes
        /\ v5[c] = M!Nothing
    BY <1>1, OpenMeets DEF M!Writes
  <1>3. n \in 0 .. FilesPerCall
    BY <1>2, RequestsTyped
  <1>4. v3' \in SiteRecords /\ (v3'.there => v3.there) /\ (v3'.locked => v3'.there)
    BY <1>1, <1>2 DEF SiteRecords
  <1>5. out = "no" => v3' = v3
    <2>1. v3.locked \/ FALSE = v3.locked
      BY <1>2
    <2> QED
      BY <1>1, <1>2, <2>1 DEF SiteRecords
  <1>z. /\ {"files"} \in SUBSET M!Parts /\ {"files"} \cap {"site", "expiry", "tags"} = {} /\ {"files"} # {}
        /\ \A x : (IF x = "held" THEN "refused" ELSE "ok") \in M!Ends \ {"half"}
    BY DEF M!Ends, M!Parts
  <1> HIDE DEF n
  <1>6. CASE out = "no" /\ M!Goto(c, "refused") /\ UNCHANGED v5
    BY <1>1, <1>2, <1>5, <1>6, AnsweredIdly
  <1>7. ASSUME out # "no", NEW fin \in M!Ends \ {"half"}, M!Did(c, n, {"files"}, n, "changed", fin) PROVE ToolsKept
    BY <1>1, <1>2, <1>3, <1>4, <1>7, <1>z, WorksOn
  <1> QED
    BY <1>1, <1>6, <1>7, <1>z DEF n

LEMMA OtherWork ==
    ASSUME M!ToolsTypeOK, M!ToolsInv, NEW c \in ToolCalls,
           M!DeleteFile(c) \/ M!DeleteSite(c) \/ M!OpenUpload(c) \/ M!ChangeDomains(c) \/ M!ChangeForms(c)
    PROVE  ToolsKept
  <1>1. /\ v4[c].pc = "open" /\ v4[c].q.tool \in M!Writes /\ v4[c].q.tool # "write_files"
        /\ UNCHANGED <<v1, v2, v6, v7>>
    BY DEF M!DeleteFile, M!DeleteSite, M!ChangeDomains, M!ChangeForms, M!Change, M!OpenUpload, M!Running, M!Writes
  <1>2. /\ v3 \in SiteRecords /\ v3.there \in BOOLEAN /\ v3.locked \in BOOLEAN /\ (v3.locked => v3.there)
        /\ v4[c].q.tool # "create_site" /\ v5[c] = M!Nothing /\ v4[c].role \in M!Roles
    BY <1>1, OpenMeets
  <1>z. /\ 0 \in 0 .. FilesPerCall /\ "ok" \in M!Ends /\ "half" \in M!Ends
        /\ {"files"} \in SUBSET M!Parts /\ {"site"} \in SUBSET M!Parts /\ {"settings"} \in SUBSET M!Parts
        /\ {"token"} \in SUBSET M!Parts
    BY ToolsConstants DEF M!Ends, M!Parts
  <1>3. ASSUME M!Goto(c, "refused"), UNCHANGED <<v3, v5>> PROVE ToolsKept
    BY <1>1, <1>2, <1>3, AnsweredIdly
  <1>4. ASSUME NEW what \in SUBSET M!Parts, NEW p \in {"changed", "half"}, NEW fin \in {"ok", "half"},
               M!Did(c, 0, what, 0, p, fin), what # {}, p = "changed" => fin = "ok",
               v4[c].role = "admin" => what \cap {"site", "expiry", "tags"} = {},
               v3' \in SiteRecords, v3'.there => v3.there, v3'.locked => v3'.there,
               what \cap {"files", "site"} # {} => ~v3.locked
        PROVE  ToolsKept
    BY <1>1, <1>2, <1>4, <1>z, WorksOn
  <1>5. CASE M!DeleteFile(c)
    <2>1. /\ UNCHANGED v3
          /\ \/ M!Goto(c, "refused") /\ UNCHANGED v5
             \/ /\ v3.there /\ ~v3.locked
                /\ M!Did(c, 0, {"files"}, 0, "changed", "ok") \/ M!Did(c, 0, {"files"}, 0, "half", "half")
      BY <1>5 DEF M!DeleteFile, M!Refuse, M!Unlocked, M!Done, M!Half
    <2> QED
      BY <1>2, <1>3, <1>4, <1>z, <2>1
  <1>6. CASE M!DeleteSite(c)
    <2>1. \/ M!Goto(c, "refused") /\ UNCHANGED <<v3, v5>>
          \/ /\ v4[c].role # "admin" /\ (v3.there => ~v3.locked) /\ M!Did(c, 0, {"site"}, 0, "changed", "ok")
             /\ v3' = [v3 EXCEPT !.there = FALSE, !.locked = FALSE]
      BY <1>6 DEF M!DeleteSite, M!Refuse, M!Done, M!OwnerOnly
    <2>2. ASSUME v3' = [v3 EXCEPT !.there = FALSE, !.locked = FALSE]
          PROVE  v3' \in SiteRecords /\ ~v3'.there /\ ~v3'.locked
      BY <1>2, <2>2 DEF SiteRecords
    <2> QED
      BY <1>2, <1>3, <1>4, <1>z, <2>1, <2>2
  <1>7. CASE M!ChangeDomains(c) \/ M!ChangeForms(c)
    <2>1. /\ UNCHANGED v3
          /\ \/ M!Goto(c, "refused") /\ UNCHANGED v5
             \/ M!Did(c, 0, {"settings"}, 0, "changed", "ok") \/ M!Did(c, 0, {"settings"}, 0, "half", "half")
      BY <1>7 DEF M!ChangeDomains, M!ChangeForms, M!Change, M!Refuse, M!Done, M!Half
    <2> QED
      BY <1>2, <1>3, <1>4, <1>z, <2>1
  <1>8. CASE M!OpenUpload(c)
    <2>1. /\ UNCHANGED v3
          /\ (M!Goto(c, "refused") /\ UNCHANGED v5) \/ M!Did(c, 0, {"token"}, 0, "changed", "ok")
      BY <1>8 DEF M!OpenUpload, M!Refuse, M!Done
    <2> QED
      BY <1>2, <1>3, <1>4, <1>z, <2>1
  <1> QED
    BY <1>5, <1>6, <1>7, <1>8

LEMMA CallsRead ==
    ASSUME M!ToolsTypeOK, M!ToolsInv, NEW c \in ToolCalls,
           M!ListSites(c) \/ \E found \in BOOLEAN : M!Read(c, found)
    PROVE  ToolsKept
  <1>1. CASE M!ListSites(c)
    <2>1. /\ v4[c].pc = "let in" /\ v4[c].q.tool # "create_site" /\ UNCHANGED <<v1, v2, v3, v5, v6, v7>>
          /\ M!Goto(c, "refused") \/ M!Goto(c, "ok")
      BY <1>1 DEF M!ListSites
    <2> QED
      BY <2>1, LetInCalls, AnsweredIdly
  <1>2. CASE \E found \in BOOLEAN : M!Read(c, found)
    <2>1. /\ v4[c].pc = "open" /\ v4[c].q.tool # "create_site" /\ v4[c].q.tool # "write_files"
          /\ UNCHANGED <<v1, v2, v3, v5, v6, v7>>
          /\ M!Goto(c, "refused") \/ M!Goto(c, "ok")
      BY <1>2 DEF M!Read, M!Reads
    <2> QED
      BY <2>1, OpenCalls, AnsweredIdly
  <1> QED
    BY <1>1, <1>2
\* A creation goes on, with what it made and the line of it.
LEMMA CreatesOn ==
    ASSUME M!ToolsTypeOK, M!ToolsInv, NEW c \in ToolCalls, v4[c].pc # "idle", UNCHANGED <<v1, v2, v3>>,
           v4[c].q.tool = "create_site", v4[c].role = "none",
           NEW p \in {"made", "ok", "refused"},
           NEW x \in CallRecords, v4' = [v4 EXCEPT ![c] = x], x.pc = p, x.q = v4[c].q, x.role = v4[c].role,
           NEW b \in DidRecords, v5' = [v5 EXCEPT ![c] = b], b.what \subseteq {"created"}, M!Granted(c) \/ b.what = {},
           NEW m \in MadeRecords, v6' = [v6 EXCEPT ![c] = m],
           NEW l \in Seq(LineSet), v7' = [v7 EXCEPT ![c] = l],
           p = "made" => M!Granted(c) /\ m.there /\ m.locked # "guard" /\ l = <<>>,
           p = "ok" => l = <<[action |-> "create", files |-> b.n, role |-> "none"]>>,
           p = "refused" /\ m.there => \/ m.locked = "operator"
                                       \/ /\ m.locked = "guard"
                                          /\ l = <<[action |-> "create", files |-> b.n, role |-> "none"]>>
    PROVE  ToolsKept
  <1>1. ASSUME v4'[c] = x, v5'[c] = b, v6'[c] = m, v7'[c] = l PROVE M!CallInv(c)'
    <2>1. M!Granted(c)' = M!Granted(c)
      BY <1>1 DEF M!Granted
    <2>2. M!CreateInv(c)'
      BY <1>1, <2>1 DEF M!CreateInv, M!CreateLine
    <2> QED
      BY <1>1, <2>2 DEF M!CallInv
  <1>2. v3 \in SiteRecords /\ (v3.locked => v3.there)
    BY CallsAreRecords
  <1>3. b # v5[c] /\ b.what \cap {"files", "site"} # {} => ~v3.locked
    OBVIOUS
  <1>4. v3' \in SiteRecords /\ (v3'.there => v3.there) /\ (v3'.locked => v3'.there) /\ UNCHANGED <<v1, v2>>
    BY <1>2
  <1> QED
    BY <1>1, <1>3, <1>4, CallMoves

\* How a creation under way stands.
LEMMA Creations ==
    ASSUME M!ToolsTypeOK, M!ToolsInv, NEW c \in ToolCalls, v4[c].pc = "made"
    PROVE  /\ v4[c] \in CallRecords /\ v5[c] \in DidRecords /\ v6[c] \in MadeRecords /\ v7[c] = <<>>
           /\ v4[c].q.tool = "create_site" /\ v4[c].role = "none" /\ M!Granted(c)
           /\ v5[c].what \subseteq {"created"} /\ v5[c].n \in 0 .. FilesPerCall
           /\ v6[c].there /\ v6[c].locked \in {"no", "operator"} /\ v4[c].q.size \in 0 .. FilesPerCall
  <1>1. /\ v4[c] \in CallRecords /\ v5[c] \in DidRecords /\ v6[c] \in MadeRecords /\ v4[c].q \in M!Requests
        /\ M!CallInv(c)
    BY CallsAreRecords
  <1>2. v4[c].q.tool = "create_site" /\ M!CreateInv(c)
    BY <1>1 DEF M!CallInv, M!WorkInv
  <1>3. v5[c].n \in 0 .. FilesPerCall /\ v6[c].locked \in {"no", "guard", "operator"}
    BY <1>1 DEF DidRecords, MadeRecords
  <1> QED
    BY <1>1, <1>2, <1>3, RequestsTyped DEF M!CreateInv

LEMMA SitesMade ==
    ASSUME M!ToolsTypeOK, M!ToolsInv, NEW c \in ToolCalls, NEW allowed \in BOOLEAN, M!CreateSite(c, allowed)
    PROVE  ToolsKept
  <1>1. /\ v4[c].pc = "let in" /\ v4[c].q.tool = "create_site" /\ UNCHANGED <<v1, v2, v3, v5, v7>>
        /\ \/ M!Goto(c, "made") /\ v6' = [v6 EXCEPT ![c].there = TRUE]
           \/ M!Goto(c, "refused") /\ UNCHANGED v6
    BY DEF M!CreateSite
  <1>2. /\ v4[c] \in CallRecords /\ v5[c] \in DidRecords /\ v6[c] \in MadeRecords /\ v7[c] \in Seq(LineSet)
    BY <1>1, CallsAreRecords
  <1>3. /\ M!Granted(c) /\ v4[c].role = "none" /\ v5[c].what = {} /\ v7[c] = <<>>
        /\ v6[c].there = FALSE /\ v6[c].locked = "no"
    BY <1>1, LetInCalls, NothingIsNone
  <1>4. v5' = [v5 EXCEPT ![c] = v5[c]] /\ v7' = [v7 EXCEPT ![c] = v7[c]]
    BY <1>1, ToolsTyped
  <1>5. ASSUME NEW p \in {"made", "refused"}, M!Goto(c, p)
        PROVE  \E x \in CallRecords : /\ v4' = [v4 EXCEPT ![c] = x] /\ x.pc = p /\ x.q = v4[c].q
                                      /\ x.role = v4[c].role
    <2> DEFINE x == [v4[c] EXCEPT !.pc = p]
    <2>1. x \in CallRecords /\ x.pc = p /\ x.q = v4[c].q /\ x.role = v4[c].role
      BY <1>2 DEF CallRecords, M!Ends
    <2>2. v4' = [v4 EXCEPT ![c] = x]
      BY <1>5 DEF M!Goto
    <2> QED
      BY <2>1, <2>2
  <1>6. CASE M!Goto(c, "made") /\ v6' = [v6 EXCEPT ![c].there = TRUE]
    <2> DEFINE m == [v6[c] EXCEPT !.there = TRUE]
    <2>1. m \in MadeRecords /\ m.there /\ m.locked = "no" /\ v6' = [v6 EXCEPT ![c] = m]
      BY <1>2, <1>3, <1>6 DEF MadeRecords
    <2>2. PICK x \in CallRecords : v4' = [v4 EXCEPT ![c] = x] /\ x.pc = "made" /\ x.q = v4[c].q /\ x.role = v4[c].role
      BY <1>5, <1>6
    <2> HIDE DEF m
    <2> QED
      BY <1>1, <1>2, <1>3, <1>4, <2>1, <2>2, CreatesOn
  <1>7. CASE M!Goto(c, "refused") /\ UNCHANGED v6
    <2>1. v6' = [v6 EXCEPT ![c] = v6[c]]
      BY <1>7, ToolsTyped
    <2>2. PICK x \in CallRecords : v4' = [v4 EXCEPT ![c] = x] /\ x.pc = "refused" /\ x.q = v4[c].q /\ x.role = v4[c].role
      BY <1>5, <1>7
    <2> QED
      BY <1>1, <1>2, <1>3, <1>4, <2>1, <2>2, CreatesOn
  <1> QED
    BY <1>1, <1>6, <1>7

\* A creation that fails, and one that is told.
LEMMA CreationsEnd ==
    ASSUME M!ToolsTypeOK, M!ToolsInv, NEW c \in ToolCalls, v4[c].pc = "made", UNCHANGED <<v1, v2, v3>>,
           \/ M!GiveUp(c)
           \/ M!Goto(c, "ok") /\ M!RecordCreate(c, v5[c].n) /\ UNCHANGED <<v5, v6>>
    PROVE  ToolsKept
  <1>1. /\ v4[c] \in CallRecords /\ v5[c] \in DidRecords /\ v6[c] \in MadeRecords /\ v7[c] = <<>>
        /\ v4[c].q.tool = "create_site" /\ v4[c].role = "none" /\ M!Granted(c)
        /\ v5[c].what \subseteq {"created"} /\ v5[c].n \in 0 .. FilesPerCall
        /\ v6[c].there /\ v6[c].locked \in {"no", "operator"}
    BY Creations
  <1>2. PICK p \in {"ok", "refused"} : /\ M!Goto(c, p) /\ UNCHANGED v5
                                       /\ p = "refused" => M!GiveUp(c)
                                       /\ p = "ok" => M!RecordCreate(c, v5[c].n) /\ UNCHANGED v6
    BY DEF M!GiveUp
  <1> DEFINE x == [v4[c] EXCEPT !.pc = p]
  <1>3. x \in CallRecords /\ x.pc = p /\ x.q = v4[c].q /\ x.role = v4[c].role /\ v4' = [v4 EXCEPT ![c] = x]
    BY <1>1, <1>2 DEF CallRecords, M!Ends, M!Goto
  <1> HIDE DEF x
  <1>4. v5' = [v5 EXCEPT ![c] = v5[c]]
    BY <1>2, ToolsTyped
  <1>5. CASE p = "refused"
    <2>1. v7' = [v7 EXCEPT ![c] = v7[c]] /\ v7[c] \in Seq(LineSet)
      BY <1>2, <1>5, ToolsTyped DEF M!GiveUp
    <2>2. PICK m \in MadeRecords : v6' = [v6 EXCEPT ![c] = m] /\ (m.there => m.locked = "operator")
      <3>1. CASE v6[c].locked = "no"
        <4>1. M!NoSite \in MadeRecords
          BY DEF M!NoSite, MadeRecords
        <4> QED
          BY <1>2, <1>5, <3>1, <4>1, NothingIsNone DEF M!GiveUp
      <3>2. CASE v6[c].locked = "operator"
        <4>1. v6' = [v6 EXCEPT ![c] = v6[c]]
          BY <1>2, <1>5, <3>2, ToolsTyped DEF M!GiveUp
        <4> QED
          BY <1>1, <3>2, <4>1
      <3> QED
        BY <1>1, <3>1, <3>2
    <2> QED
      BY <1>1, <1>3, <1>4, <1>5, <2>1, <2>2, CreatesOn
  <1>6. CASE p = "ok"
    <2> DEFINE line == [action |-> "create", files |-> v5[c].n, role |-> "none"]
    <2>1. line \in LineSet
      BY <1>1 DEF LineSet, M!Roles
    <2>2. v7' = [v7 EXCEPT ![c] = <<line>>] /\ <<line>> \in Seq(LineSet)
      BY <1>1, <1>2, <1>6, <2>1, ToolsTyped DEF M!RecordCreate
    <2>3. v6' = [v6 EXCEPT ![c] = v6[c]]
      BY <1>2, <1>6, ToolsTyped
    <2> QED
      BY <1>1, <1>3, <1>4, <1>6, <2>2, <2>3, CreatesOn
  <1> QED
    BY <1>2, <1>5, <1>6

LEMMA CreationsFill ==
    ASSUME M!ToolsTypeOK, M!ToolsInv, NEW c \in ToolCalls, NEW out \in {"in", "no", "held"}, M!Fill(c, out)
    PROVE  ToolsKept
  <1> DEFINE n == v5[c].n
  <1>1. /\ v4[c].pc = "made" /\ n < v4[c].q.size /\ UNCHANGED <<v1, v2, v3>>
        /\ out # "no" => v6[c].locked = "no"
        /\ out = "no" => M!GiveUp(c)
        /\ out = "in" => M!Did(c, n + 1, {"created"}, 0, "made", "ok") /\ UNCHANGED <<v6, v7>>
        /\ out = "held" => /\ M!Did(c, n + 1, {"created"}, 0, "refused", "ok")
                           /\ v6' = [v6 EXCEPT ![c].locked = "guard"] /\ M!RecordCreate(c, n + 1)
    BY DEF M!Fill
  <1>2. /\ v4[c] \in CallRecords /\ v6[c] \in MadeRecords /\ v7[c] = <<>>
        /\ v4[c].q.tool = "create_site" /\ v4[c].role = "none" /\ M!Granted(c)
        /\ n \in 0 .. FilesPerCall /\ v6[c].there /\ v4[c].q.size \in 0 .. FilesPerCall
    BY <1>1, Creations
  <1>3. n + 1 \in 0 .. FilesPerCall
    BY <1>1, <1>2, ToolsConstants
  <1> HIDE DEF n
  <1>4. ASSUME NEW p \in {"made", "refused"}, M!Did(c, n + 1, {"created"}, 0, p, "ok")
        PROVE  /\ \E x \in CallRecords : /\ v4' = [v4 EXCEPT ![c] = x] /\ x.pc = p /\ x.q = v4[c].q
                                         /\ x.role = v4[c].role
               /\ \E b \in DidRecords : v5' = [v5 EXCEPT ![c] = b] /\ b.n = n + 1 /\ b.what = {"created"}
    <2> DEFINE x == [v4[c] EXCEPT !.pc = p, !.files = 0, !.fin = "ok"]
               b == [n |-> n + 1, what |-> {"created"}]
    <2>1. x \in CallRecords /\ x.pc = p /\ x.q = v4[c].q /\ x.role = v4[c].role
      BY <1>2, ToolsConstants DEF CallRecords, M!Ends
    <2>2. b \in DidRecords /\ b.n = n + 1 /\ b.what = {"created"}
      BY <1>3 DEF DidRecords, M!Parts
    <2>3. v4' = [v4 EXCEPT ![c] = x] /\ v5' = [v5 EXCEPT ![c] = b]
      BY <1>4 DEF M!Did
    <2> QED
      BY <2>1, <2>2, <2>3
  <1>5. CASE out = "no"
    BY <1>1, <1>5, CreationsEnd
  <1>6. CASE out = "in"
    <2>1. v6' = [v6 EXCEPT ![c] = v6[c]] /\ v7' = [v7 EXCEPT ![c] = v7[c]] /\ v7[c] \in Seq(LineSet)
      BY <1>1, <1>6, ToolsTyped
    <2>2. PICK x \in CallRecords : v4' = [v4 EXCEPT ![c] = x] /\ x.pc = "made" /\ x.q = v4[c].q /\ x.role = v4[c].role
      BY <1>1, <1>4, <1>6
    <2>3. PICK b \in DidRecords : v5' = [v5 EXCEPT ![c] = b] /\ b.n = n + 1 /\ b.what = {"created"}
      BY <1>1, <1>4, <1>6
    <2>4. v6[c].locked # "guard" /\ b.what \subseteq {"created"}
      BY <1>1, <1>6, <2>3
    <2> QED
      BY <1>1, <1>2, <2>1, <2>2, <2>3, <2>4, CreatesOn
  <1>7. CASE out = "held"
    <2> DEFINE line == [action |-> "create", files |-> n + 1, role |-> "none"]
               m    == [v6[c] EXCEPT !.locked = "guard"]
    <2>1. line \in LineSet
      BY <1>3 DEF LineSet, M!Roles
    <2>2. v7' = [v7 EXCEPT ![c] = <<line>>] /\ <<line>> \in Seq(LineSet)
      BY <1>1, <1>2, <1>7, <2>1, ToolsTyped DEF M!RecordCreate
    <2>3. m \in MadeRecords /\ m.locked = "guard" /\ v6' = [v6 EXCEPT ![c] = m]
      BY <1>1, <1>2, <1>7 DEF MadeRecords
    <2>4. PICK x \in CallRecords : v4' = [v4 EXCEPT ![c] = x] /\ x.pc = "refused" /\ x.q = v4[c].q /\ x.role = v4[c].role
      BY <1>1, <1>4, <1>7
    <2>5. PICK b \in DidRecords : v5' = [v5 EXCEPT ![c] = b] /\ b.n = n + 1 /\ b.what = {"created"}
      BY <1>1, <1>4, <1>7
    <2> DEFINE l == <<line>>
    <2>6. b.what \subseteq {"created"} /\ l = <<[action |-> "create", files |-> b.n, role |-> "none"]>>
      BY <2>5
    <2>7. v5' = [v5 EXCEPT ![c] = b] /\ v7' = [v7 EXCEPT ![c] = l] /\ l \in Seq(LineSet)
      BY <2>2, <2>5
    <2>8. UNCHANGED <<v1, v2, v3>> /\ v4[c].pc # "idle"
      BY <1>1
    <2>9. v4[c].q.tool = "create_site" /\ v4[c].role = "none" /\ M!Granted(c)
      BY <1>2
    <2> HIDE DEF line, l, m
    <2> QED
      BY <2>3, <2>4, <2>6, <2>7, <2>8, <2>9, CreatesOn
  <1> QED
    BY <1>5, <1>6, <1>7

LEMMA CreationsFinish ==
    ASSUME M!ToolsTypeOK, M!ToolsInv, NEW c \in ToolCalls, M!Finish(c)
    PROVE  ToolsKept
  <1>1. /\ v4[c].pc = "made" /\ UNCHANGED <<v1, v2, v3>>
        /\ \/ M!GiveUp(c)
           \/ M!Goto(c, "ok") /\ M!RecordCreate(c, v5[c].n) /\ UNCHANGED <<v5, v6>>
    BY DEF M!Finish
  <1> QED
    BY <1>1, CreationsEnd

\* The operator locks what a call made: it is a creation's, and no line of it changes.
LEMMA MadeLocked ==
    ASSUME M!ToolsTypeOK, M!ToolsInv, NEW c \in ToolCalls, M!LockMade(c)
    PROVE  ToolsKept
  <1>1. /\ v6[c].there /\ v6[c].locked = "no" /\ v6' = [v6 EXCEPT ![c].locked = "operator"]
        /\ UNCHANGED <<v1, v2, v3, v4, v5, v7>>
    BY DEF M!LockMade
  <1>2. M!CallInv(c)
    BY DEF M!ToolsInv
  <1>3. v4[c].pc \notin {"idle", "challenged", "let in"}
    BY <1>1, <1>2, NothingIsNone DEF M!CallInv
  <1>4. /\ v4[c] \in CallRecords /\ v5[c] \in DidRecords /\ v6[c] \in MadeRecords /\ v7[c] \in Seq(LineSet)
        /\ v3 \in SiteRecords /\ (v3.locked => v3.there)
    BY <1>3, CallsAreRecords
  <1> DEFINE m == [v6[c] EXCEPT !.locked = "operator"]
  <1>5. m \in MadeRecords /\ m.there /\ m.locked = "operator" /\ v6' = [v6 EXCEPT ![c] = m]
    BY <1>1, <1>4 DEF MadeRecords
  <1> HIDE DEF m
  <1>6. v4' = [v4 EXCEPT ![c] = v4[c]] /\ v5' = [v5 EXCEPT ![c] = v5[c]] /\ v7' = [v7 EXCEPT ![c] = v7[c]]
    BY <1>1, ToolsTyped
  <1>7. ASSUME v4'[c] = v4[c], v5'[c] = v5[c], v6'[c] = m, v7'[c] = v7[c] PROVE M!CallInv(c)'
    <2>1. /\ M!Granted(c)' = M!Granted(c) /\ M!Entitled(c)' = M!Entitled(c) /\ M!LineOf(c)' = M!LineOf(c)
          /\ M!CreateLine(c)' = M!CreateLine(c)
      BY <1>7 DEF M!Granted, M!Entitled, M!LineOf, M!CreateLine
    <2>2. M!Worked(c)' = M!Worked(c) /\ M!Told(c)' = M!Told(c)
      BY <1>1, <1>7, <2>1 DEF M!Worked, M!Told
    <2>3. M!CreateInv(c) => M!CreateInv(c)'
      BY <1>5, <1>7, <2>1 DEF M!CreateInv
    <2>4. M!WorkInv(c) => M!WorkInv(c)'
      BY <1>7, <2>1, <2>2 DEF M!WorkInv
    <2> QED
      BY <1>2, <1>3, <1>7, <2>3, <2>4 DEF M!CallInv
  <1>8. v3' \in SiteRecords /\ (v3'.there => v3.there) /\ (v3'.locked => v3'.there) /\ UNCHANGED <<v1, v2>>
    BY <1>1, <1>4
  <1> QED
    BY <1>4, <1>5, <1>6, <1>7, <1>8, CallMoves

\* What is known of a call on the site between its change and its answer.
LEMMA ChangedCalls ==
    ASSUME M!ToolsTypeOK, M!ToolsInv, NEW c \in ToolCalls, v4[c].pc \in {"changed", "told"}
    PROVE  /\ v4[c].q.tool # "create_site" /\ M!Worked(c)
           /\ v4[c].pc = "told" => M!Told(c)
           /\ v4[c].pc = "changed" =>
                 /\ v7[c] = <<>>
                 /\ IF v4[c].fin = "half" THEN v5[c].what # {} /\ v4[c].files < v5[c].n ELSE v4[c].files = v5[c].n
  <1>1. M!CallInv(c)
    BY DEF M!ToolsInv
  <1> QED
    BY <1>1 DEF M!CallInv, M!CreateInv, M!WorkInv

LEMMA SitesLaid ==
    ASSUME M!ToolsTypeOK, M!ToolsInv, NEW c \in ToolCalls, NEW laid \in BOOLEAN, M!Lay(c, laid)
    PROVE  ToolsKept
  <1>1. PICK p \in {"ok", "failed"} : M!Goto(c, p) /\ v4[c].pc = "told" /\ UNCHANGED <<v1, v2, v3, v5, v6, v7>>
    BY DEF M!Lay
  <1>2. /\ v4[c].q.tool # "create_site" /\ M!Worked(c) /\ M!Told(c)
        /\ v3 \in SiteRecords /\ (v3.locked => v3.there)
    BY <1>1, ChangedCalls, CallsAreRecords
  <1>3. ASSUME v4'[c].pc = p, v4'[c].q = v4[c].q, v4'[c].role = v4[c].role, v5'[c] = v5[c], v7'[c] = v7[c]
        PROVE  M!CallInv(c)'
    <2>1. M!Worked(c)' /\ M!Told(c)'
      BY <1>1, <1>2, <1>3 DEF M!Worked, M!Granted, M!Entitled, M!Told, M!LineOf
    <2> QED
      BY <1>2, <1>3, <2>1 DEF M!CallInv, M!WorkInv, M!Ends
  <1> QED
    BY <1>1, <1>2, <1>3, Goes DEF M!Ends

LEMMA CallsRecorded ==
    ASSUME M!ToolsTypeOK, M!ToolsInv, NEW c \in ToolCalls, M!RecordMCP(c)
    PROVE  ToolsKept
  <1> DEFINE line == [action |-> IF v4[c].q.replace THEN "replace" ELSE v4[c].q.tool,
                      files |-> v4[c].files, role |-> v4[c].role]
  <1>1. /\ v4[c].pc = "changed" /\ UNCHANGED <<v1, v2, v3, v5, v6>>
        /\ \/ v7' = [v7 EXCEPT ![c] = Append(@, line)]
           \/ v7' = v7 /\ ~v3.there
        /\ \E p \in {"told", v4[c].fin} : M!Goto(c, p) /\ (p = "told" => v4[c].fin \in {"ok", "told"})
    <2>1. v4[c].pc = "changed" /\ UNCHANGED <<v1, v2, v3, v5, v6>>
      BY DEF M!RecordMCP
    <2>2. v7' = [v7 EXCEPT ![c] = Append(@, line)] \/ (v7' = v7 /\ ~v3.there)
      BY DEF M!RecordMCP
    <2>3. CASE v4[c].fin = "ok" /\ v4[c].q.tool \in M!Laid
      BY <2>3 DEF M!RecordMCP
    <2>4. CASE ~(v4[c].fin = "ok" /\ v4[c].q.tool \in M!Laid)
      <3>1. M!Goto(c, v4[c].fin)
        BY <2>4 DEF M!RecordMCP
      <3> QED
        BY <2>1, <2>2, <3>1
    <2> QED
      BY <2>1, <2>2, <2>3, <2>4
  <1>2. /\ v4[c] \in CallRecords /\ v4[c].q \in M!Requests /\ v5[c] \in DidRecords /\ v6[c] \in MadeRecords
        /\ v3 \in SiteRecords /\ (v3.locked => v3.there) /\ v7[c] \in Seq(LineSet)
    BY <1>1, CallsAreRecords
  <1>3. /\ v4[c].q.tool # "create_site" /\ M!Worked(c) /\ v7[c] = <<>>
        /\ IF v4[c].fin = "half" THEN v5[c].what # {} /\ v4[c].files < v5[c].n ELSE v4[c].files = v5[c].n
    BY <1>1, ChangedCalls
  <1>5. v4[c].fin \in M!Ends /\ v4[c].files \in 0 .. FilesPerCall /\ v4[c].role \in M!Roles
    BY <1>2 DEF CallRecords
  <1>4. PICK p \in {"told", v4[c].fin} : M!Goto(c, p) /\ (p = "told" => v4[c].fin = "ok")
    BY <1>1, <1>5 DEF M!Ends
  <1>6. line \in LineSet /\ line.files = v4[c].files
    BY <1>2, <1>5, RequestsTyped DEF LineSet
  <1>7. PICK l \in {<<line>>, <<>>} : /\ v7' = [v7 EXCEPT ![c] = l] /\ l \in Seq(LineSet)
                                      /\ l = <<>> => ~v3.there
    <2>1. CASE v7' = [v7 EXCEPT ![c] = Append(@, line)]
      <3>1. v7' = [v7 EXCEPT ![c] = <<line>>]
        BY <1>3, <2>1
      <3>2. <<line>> \in Seq(LineSet) /\ <<line>> # <<>>
        BY <1>6
      <3> QED
        BY <3>1, <3>2
    <2>2. CASE v7' = v7 /\ ~v3.there
      <3>1. v7' = [v7 EXCEPT ![c] = v7[c]]
        BY <2>2, ToolsTyped
      <3> QED
        BY <1>2, <1>3, <2>2, <3>1
    <2> QED
      BY <1>1, <2>1, <2>2
  <1> DEFINE x == [v4[c] EXCEPT !.pc = p]
  <1>8. x \in CallRecords /\ x.pc = p /\ x.q = v4[c].q /\ x.role = v4[c].role
    BY <1>2, <1>4, <1>5 DEF CallRecords
  <1>9. v4' = [v4 EXCEPT ![c] = x] /\ v5' = [v5 EXCEPT ![c] = v5[c]] /\ v6' = [v6 EXCEPT ![c] = v6[c]]
    BY <1>1, <1>4, ToolsTyped DEF M!Goto
  <1> HIDE DEF x
  <1>10. ASSUME v4'[c] = x, v5'[c] = v5[c], v6'[c] = v6[c], v7'[c] = l PROVE M!CallInv(c)'
    <2>1. M!Worked(c)'
      BY <1>3, <1>8, <1>10 DEF M!Worked, M!Granted, M!Entitled
    <2>2. v4[c].fin # "half" => M!Told(c)'
      BY <1>1, <1>3, <1>7, <1>8, <1>10 DEF M!Told, M!LineOf
    <2>3. l # <<>> => Len(l) = 1 /\ l[1].files = v4[c].files
      BY <1>6, <1>7
    <2> HIDE DEF line
    <2>4. v4'[c].pc = p /\ v4'[c].q = v4[c].q /\ v4'[c].role = v4[c].role
      BY <1>8, <1>10
    <2>5. p = "told" \/ (p \in M!Ends \ {"half"} /\ v4[c].fin # "half") \/ (p = "half" /\ v4[c].fin = "half")
      BY <1>4, <1>5
    <2>6. M!WorkInv(c)'
      <3>1. CASE p = "told"
        BY <1>4, <2>1, <2>2, <2>4, <3>1 DEF M!WorkInv, M!Ends
      <3>2. CASE p \in M!Ends \ {"half"} /\ v4[c].fin # "half"
        BY <2>1, <2>2, <2>4, <3>2 DEF M!WorkInv, M!Ends
      <3>3. CASE p = "half" /\ v4[c].fin = "half"
        BY <1>3, <1>10, <2>1, <2>3, <2>4, <3>3 DEF M!WorkInv, M!Ends
      <3> QED
        BY <2>5, <3>1, <3>2, <3>3
    <2>7. v4'[c].pc \notin {"idle", "challenged", "let in"}
      BY <2>4, <2>5 DEF M!Ends
    <2> QED
      BY <1>3, <2>4, <2>6, <2>7 DEF M!CallInv
  <1>11. v3' \in SiteRecords /\ (v3'.there => v3.there) /\ (v3'.locked => v3'.there) /\ UNCHANGED <<v1, v2>>
    BY <1>1, <1>2
  <1> QED
    BY <1>2, <1>7, <1>8, <1>9, <1>10, <1>11, CallMoves

\* The others change the site, and no call.
LEMMA SiteMoves ==
    ASSUME M!ToolsTypeOK, M!ToolsInv, UNCHANGED <<v1, v2, v4, v5, v6, v7>>,
           v3' \in SiteRecords, v3'.there => v3.there, v3'.locked => v3'.there
    PROVE  ToolsKept
  <1>1. M!ToolsTypeOK'
    <2>1. CallRecords' = CallRecords
      BY DEF CallRecords, M!Requests
    <2> QED
      BY <2>1, ToolsTyped
  <1>2. ASSUME NEW d \in ToolCalls PROVE M!CallInv(d)'
    <2>1. M!CallInv(d) /\ v4'[d] = v4[d] /\ v5'[d] = v5[d] /\ v6'[d] = v6[d] /\ v7'[d] = v7[d]
      BY DEF M!ToolsInv
    <2>2. /\ M!Granted(d)' = M!Granted(d) /\ M!Entitled(d)' = M!Entitled(d) /\ M!LineOf(d)' = M!LineOf(d)
          /\ M!CreateLine(d)' = M!CreateLine(d) /\ M!Challenged(v4[d].q)' = M!Challenged(v4[d].q)
      BY <2>1 DEF M!Granted, M!Entitled, M!LineOf, M!CreateLine, M!Challenged, M!AnonymousCallAllowed
    <2>3. (M!Worked(d) => M!Worked(d)') /\ (M!Told(d) => M!Told(d)')
      BY <2>1, <2>2 DEF M!Worked, M!Told
    <2>4. (M!WorkInv(d) => M!WorkInv(d)') /\ (M!CreateInv(d) => M!CreateInv(d)')
      BY <2>1, <2>2, <2>3 DEF M!WorkInv, M!CreateInv
    <2> QED
      BY <2>1, <2>2, <2>4 DEF M!CallInv
  <1>3. M!ToolsInv'
    BY <1>2 DEF M!ToolsInv
  <1>4. M!LockHoldsContent
    BY DEF M!LockHoldsContent
  <1> QED
    BY <1>1, <1>3, <1>4 DEF ToolsKept

LEMMA OthersMeanwhile ==
    ASSUME M!ToolsTypeOK, M!ToolsInv, M!Meanwhile
    PROVE  ToolsKept
  <1>1. v3 \in SiteRecords /\ (v3.locked => v3.there) /\ UNCHANGED <<v1, v2, v4, v5, v6, v7>>
    BY ToolsTyped DEF M!ToolsInv, M!Meanwhile
  <1>2. v3' \in SiteRecords /\ (v3'.there => v3.there) /\ (v3'.locked => v3'.there)
    <2>1. CASE M!Lock
      BY <1>1, <2>1 DEF M!Lock, SiteRecords
    <2>2. CASE M!Gone
      BY <1>1, <2>2 DEF M!Gone, SiteRecords
    <2>3. CASE \E a \in Some : M!Move(a)
      BY <1>1, <2>3 DEF M!Move, SiteRecords
    <2>4. CASE \E a \in Some \cup {None} : M!Share(a)
      BY <1>1, <2>4 DEF M!Share, SiteRecords
    <2> QED
      BY <2>1, <2>2, <2>3, <2>4 DEF M!Meanwhile
  <1> QED
    BY <1>1, <1>2, SiteMoves

LEMMA ToolsBegin == Init => ToolsGood
  <1> SUFFICES ASSUME M!ToolsInit PROVE M!ToolsTypeOK /\ M!ToolsInv
    BY DEF Init, ToolsGood
  <1>1. /\ v1 \in BOOLEAN /\ v2 \in BOOLEAN
        /\ v3 \in [there : {TRUE}, locked : {FALSE}, owner : Some \cup {None}, admin : {None}]
        /\ v4 = [c \in ToolCalls |-> M!Idle] /\ v5 = [c \in ToolCalls |-> M!Nothing]
        /\ v6 = [c \in ToolCalls |-> M!NoSite] /\ v7 = [c \in ToolCalls |-> <<>>]
    BY DEF M!ToolsInit
  <1>2. v3 \in SiteRecords /\ (v3.locked => v3.there)
    BY <1>1 DEF SiteRecords
  <1>3. M!Nothing \in DidRecords /\ M!NoSite \in MadeRecords /\ <<>> \in Seq(LineSet)
    BY ToolsConstants DEF DidRecords, MadeRecords, M!Nothing, M!NoSite
  <1>4. M!ToolsTypeOK
    BY <1>1, <1>2, <1>3, ToolsTyped
  <1>5. ASSUME NEW c \in ToolCalls PROVE M!CallInv(c)
    BY <1>1 DEF M!CallInv, M!Idle
  <1> QED
    BY <1>2, <1>4, <1>5 DEF M!ToolsInv

LEMMA ToolsGoOn ==
    ToolsGood /\ [Next]_slots => ToolsGood' /\ (which = "tools" => [M!LockHoldsContent]_slots)
  <1> SUFFICES ASSUME ToolsGood, [Next]_slots, which = "tools" \/ which' = "tools"
               PROVE  M!ToolsTypeOK' /\ M!ToolsInv' /\ [M!LockHoldsContent]_slots
    BY DEF ToolsGood
  <1>1. which = "tools" /\ [M!ToolsNext]_(M!tvars)
    BY DEF Next, slots, M!tvars
  <1>2. M!ToolsTypeOK /\ M!ToolsInv
    BY <1>1 DEF ToolsGood
  <1>3. CASE UNCHANGED M!tvars
    <2>1. v3 \in SiteRecords /\ (v3.locked => v3.there) /\ UNCHANGED <<v1, v2, v3, v4, v5, v6, v7>>
      BY <1>2, <1>3, ToolsTyped DEF M!ToolsInv, M!tvars
    <2>2. ToolsKept
      BY <1>2, <2>1, SiteMoves
    <2> QED
      BY <2>2 DEF ToolsKept
  <1>4. CASE M!ToolsNext
    <2>1. ASSUME M!Meanwhile PROVE ToolsKept
      BY <1>2, <2>1, OthersMeanwhile
    <2>2. ASSUME NEW c \in ToolCalls, M!LockMade(c) \/ M!RecordMCP(c) \/ \E laid \in BOOLEAN : M!Lay(c, laid)
          PROVE  ToolsKept
      BY <1>2, <2>2, MadeLocked, CallsRecorded, SitesLaid
    <2>3. ASSUME NEW c \in ToolCalls,
                 \/ \E allowed \in BOOLEAN : M!CreateSite(c, allowed)
                 \/ \E out \in {"in", "no", "held"} : M!Fill(c, out)
                 \/ M!Finish(c)
          PROVE  ToolsKept
      BY <1>2, <2>3, SitesMade, CreationsFill, CreationsFinish
    <2>4. ASSUME NEW c \in ToolCalls,
                 \/ \E expiry, tags, rest \in BOOLEAN : M!UpdateSite(c, expiry, tags, rest)
                 \/ \E out \in {"in", "no", "held", "stuck"} : M!WriteFile(c, out)
                 \/ \E out \in {"in", "no", "held"} : M!ReplaceFiles(c, out)
                 \/ M!DeleteFile(c) \/ M!DeleteSite(c) \/ M!OpenUpload(c) \/ M!ChangeDomains(c) \/ M!ChangeForms(c)
          PROVE  ToolsKept
      BY <1>2, <2>4, SitesUpdated, FilesWritten, FilesReplaced, OtherWork
    <2>5. ASSUME NEW c \in ToolCalls,
                 \/ \E q \in M!Requests, decodes \in BOOLEAN : M!Arrive(c, q, decodes)
                 \/ M!ListSites(c)
                 \/ \E pl \in {"yes", "no", "unknown"}, throttled \in BOOLEAN : M!Open(c, pl, throttled)
                 \/ \E found \in BOOLEAN : M!Read(c, found)
          PROVE  ToolsKept
      BY <1>2, <2>5, CallsArrive, CallsOpen, CallsRead
    <2>6. ToolsKept
      BY <1>4, <2>1, <2>2, <2>3, <2>4, <2>5 DEF M!ToolsNext
    <2> QED
      BY <2>6 DEF ToolsKept
  <1> QED
    BY <1>1, <1>3, <1>4

\* What the challenge turns away, the tools would: nobody has a standing, and
\* a password needs the site it is of.
LEMMA ChallengesAreFair ==
    ASSUME NEW x \in M!Requests, M!Challenged(x), x.cr.bearer # "bad"
    PROVE  ~M!CouldWork(x)
  <1>1. x.tool \in M!Reads \cup M!Writes
    BY RequestsTyped
  <1>2. CASE x.cr.bearer = "none"
    <2>1. x.cr.account = None /\ ~M!AnonymousCallAllowed(x.tool, x.pw)
      BY <1>2, RequestsTyped DEF M!Challenged
    <2>2. M!Standing(x.cr.account, "yes") = "none"
      BY <2>1 DEF M!Standing
    <2>3. CASE x.tool = "create_site"
      BY <2>1, <2>3 DEF M!AnonymousCallAllowed, M!CouldWork
    <2>4. CASE x.tool = "list_sites"
      BY <2>1, <2>4 DEF M!CouldWork
    <2>5. CASE x.tool \in M!PerSite
      <3>1. ~M!PasswordDoes(x.pw)
        BY <2>1, <2>5 DEF M!AnonymousCallAllowed, M!PasswordDoes
      <3>2. x.tool # "create_site" /\ x.tool # "list_sites"
        BY <2>5 DEF M!PerSite
      <3> QED
        BY <2>2, <3>1, <3>2 DEF M!CouldWork
    <2> QED
      BY <1>1, <2>3, <2>4, <2>5 DEF M!PerSite
  <1>3. CASE x.cr.bearer # "none"
    BY <1>3 DEF M!Challenged, M!CouldWork
  <1> QED
    BY <1>2, <1>3

LEMMA ToolsPromises ==
    ASSUME M!ToolsTypeOK, M!ToolsInv
    PROVE  M!TrailTellsTheCall /\ M!DoorAgrees /\ M!ChangesAreGranted /\ M!FailedCreateLeavesNothing
  <1> USE DEF M!Ends
  <1>1. ASSUME NEW c \in ToolCalls, v4[c].pc # "idle"
        PROVE  M!CallInv(c) /\ v4[c].q \in M!Requests
    BY <1>1, CallsAreRecords
  <1>2. M!TrailTellsTheCall
    <2> SUFFICES ASSUME NEW c \in ToolCalls, M!Answered(c), v4[c].q.tool # "create_site"
                 PROVE  CASE v5[c].what = {} /\ ~(v4[c].q.tool = "update_site" /\ v7[c] # <<>>) -> v7[c] = <<>>
                          [] v4[c].pc = "half" -> v7[c] = <<>> \/ (Len(v7[c]) = 1 /\ v7[c][1].files < v5[c].n)
                          [] OTHER -> M!Told(c)
      BY DEF M!TrailTellsTheCall
    <2>1. v4[c].pc \in M!Ends /\ M!WorkInv(c)
      BY <1>1 DEF M!Answered, M!CallInv
    <2>2. CASE v4[c].pc = "half"
      BY <2>1, <2>2 DEF M!WorkInv
    <2>3. CASE v4[c].pc \in M!Ends \ {"half"} /\ v5[c].what = {} /\ v7[c] = <<>>
      BY <2>3
    <2>4. CASE v4[c].pc \in M!Ends \ {"half"} /\ M!Worked(c) /\ M!Told(c)
      BY <2>4 DEF M!Worked
    <2> QED
      BY <2>1, <2>2, <2>3, <2>4 DEF M!WorkInv
  <1>3. M!DoorAgrees
    <2> SUFFICES ASSUME NEW c \in ToolCalls, v4[c].pc = "challenged", v4[c].q.cr.bearer # "bad"
                 PROVE  ~M!CouldWork(v4[c].q)
      BY DEF M!DoorAgrees
    <2> QED
      BY <1>1, ChallengesAreFair DEF M!CallInv
  <1>4. M!ChangesAreGranted
    <2> SUFFICES ASSUME NEW c \in ToolCalls, v4[c].pc # "idle", v5[c].what # {}
                 PROVE  /\ v4[c].q.cr.bearer = "oauth" => "write" \in v4[c].q.cr.scopes
                        /\ v4[c].role = "admin" => v5[c].what \cap {"site", "expiry", "tags"} = {}
                        /\ v4[c].q.tool # "create_site" => v4[c].q.cr.account # None \/ v4[c].q.pw = "right"
      BY DEF M!ChangesAreGranted
    <2>1. M!CallInv(c) /\ v5[c] # M!Nothing
      BY <1>1, NothingIsNone
    <2>2. v4[c].pc \notin {"idle", "challenged", "let in"}
      BY <2>1 DEF M!CallInv
    <2>3. CASE v4[c].q.tool = "create_site"
      <3>1. M!Granted(c) /\ v4[c].role = "none"
        BY <2>1, <2>2, <2>3 DEF M!CallInv, M!CreateInv
      <3> QED
        BY <2>3, <3>1 DEF M!Granted, M!Allows, M!Scope, M!Reads
    <2>4. CASE v4[c].q.tool # "create_site"
      <3>1. M!WorkInv(c) /\ v4[c] \in CallRecords
        BY <2>1, <2>2, <2>4, CallsAreRecords DEF M!CallInv
      <3>2. v4[c].pc \in {"open", "made", "changed", "told"} \cup M!Ends
        BY <2>2, <3>1 DEF CallRecords
      <3>3. CASE v4[c].pc = "open"
        <4>1. /\ M!Granted(c) /\ M!Entitled(c) /\ v4[c].q.tool = "write_files" /\ v5[c].what = {"files"}
          BY <2>1, <3>1, <3>3 DEF M!WorkInv
        <4> QED
          BY <4>1 DEF M!Granted, M!Allows, M!Scope, M!Reads, M!Entitled
      <3>4. CASE v4[c].pc # "open"
        <4>1. M!Worked(c)
          BY <3>1, <3>2, <3>4 DEF M!WorkInv
        <4>2. v4[c].q.tool \notin M!Reads
          BY <4>1 DEF M!Worked, M!Reads, M!Writes
        <4> QED
          BY <4>1, <4>2 DEF M!Worked, M!Granted, M!Allows, M!Scope, M!Entitled
      <3> QED
        BY <3>3, <3>4
    <2> QED
      BY <2>3, <2>4
  <1>5. M!FailedCreateLeavesNothing
    <2> SUFFICES ASSUME NEW c \in ToolCalls, M!Answered(c), v4[c].q.tool = "create_site"
                 PROVE  /\ v6[c].there => v4[c].pc = "ok" \/ v6[c].locked # "no"
                        /\ v6[c].there /\ v6[c].locked # "operator" => M!CreateLine(c)
      BY DEF M!FailedCreateLeavesNothing, M!CreateLine
    <2>1. M!CreateInv(c) /\ v4[c].pc \in {"ok", "refused"}
      BY <1>1 DEF M!Answered, M!CallInv, M!CreateInv
    <2> QED
      BY <2>1 DEF M!CreateInv
  <1> QED
    BY <1>2, <1>3, <1>4, <1>5

\* Of any calls, accounts, tools and files: what a call changed was granted to
\* it and is told in the trail, whatever failed of it and whoever locked,
\* deleted or handed over the site meanwhile; the challenge turns nothing away
\* that would have worked; a creation that failed leaves nothing behind; and no
\* call changes the content a lock holds.
THEOREM ToolsHold == Spec => ToolsStand
  <1>1. ToolsGood => (which = "tools" => /\ M!TrailTellsTheCall /\ M!DoorAgrees
                                         /\ M!ChangesAreGranted /\ M!FailedCreateLeavesNothing)
    BY ToolsPromises DEF ToolsGood
  <1>2. ToolsGood /\ [Next]_slots => [which = "tools" => M!LockHoldsContent]_slots
    BY ToolsGoOn
  <1> QED
    BY <1>1, <1>2, ToolsBegin, ToolsGoOn, PTL DEF Spec, ToolsStand

=============================================================================
