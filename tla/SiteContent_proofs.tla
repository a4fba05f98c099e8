------------------------- MODULE SiteContent_proofs -------------------------
(***************************************************************************)
(* Proofs about SiteContent: a replacement implements the atomic switch of *)
(* ContentSwitch, and a restore stays with the owner it was asked for.     *)
(***************************************************************************)
EXTENDS SiteContent, TLAPS

\* Where a replacement holds the site lock, and where the claim.
Locked  == {"locked", "settled", "moved", "emptying", "filling", "unlock"}
Claimed == Locked \cup {"staging", "fresh", "stopped", "failed", "abort", "release"}

\* What may go in was asked for under the lock that is still held.
Going == {"settled", "moved", "emptying", "filling"}

(***************************************************************************)
(* The inductive invariant.                                                *)
(***************************************************************************)

LockInv  == \A r \in Reps : siteLock = r <=> rep[r].at \in Locked
ClaimInv == \A r \in Reps : claim = r <=> rep[r].at \in Claimed

\* While a replacement has the claim, no other's directory is left; and before
\* it is moved in a replacement's directory holds nothing.
MovedInv ==
    \A r \in Reps :
        /\ rep[r].at \in Claimed => \A s \in Reps : s # r => moved[s] = {}
        /\ rep[r].at \notin {"moved", "emptying", "filling", "unlock", "release", "ended"}
              => moved[r] = {}

GoingInv ==
    \A r \in Reps : rep[r].at \in Going =>
        /\ live /\ lock \in {Unlocked, r}
        /\ r \in Restores => owner = rep[r].was

\* A commit that empties has the content it listed, less what is gone.
EmptyInv ==
    \A r \in Reps : rep[r].at = "emptying" =>
        \A p \in Paths :
            /\ content[p] \in {before[p], Absent}
            /\ content[p] # Absent => p \in listing

\* A commit that fills has not placed what it has yet to place.
FillInv ==
    \A r \in Reps : rep[r].at = "filling" => \A p \in moved[r] : content[p] = Absent

FileInv ==
    \A f \in Transfers \cup Sessions :
        file[f].at \in {"open", "swept", "asked"} => file[f].path \in Paths

IInv ==
    TypeOK /\ LockInv /\ ClaimInv /\ MovedInv /\ GoingInv /\ EmptyInv /\ FillInv /\ FileInv

(***************************************************************************)
(* Types.                                                                  *)
(***************************************************************************)

\* A replacement that goes on.
LEMMA Hop ==
    ASSUME rep \in [Reps -> RepRecords], NEW r \in Reps, NEW at \in Working, Goto(r, at)
    PROVE  /\ rep' \in [Reps -> RepRecords]
           /\ rep'[r].at = at /\ rep'[r].was = rep[r].was /\ rep'[r].restart = rep[r].restart
           /\ rep'[r].staged \in {rep[r].staged, {}}
           /\ \A s \in Reps : s # r => rep'[s] = rep[s]
  <1> DEFINE kept == IF at \in {"moved", "unlock", "failed", "abort"} THEN {} ELSE rep[r].staged
  <1> DEFINE new == [rep[r] EXCEPT !.at = at, !.staged = kept]
  <1>1. rep[r] \in RepRecords
    BY DEF RepRecords
  <1>2. kept \in {rep[r].staged, {}} /\ kept \in SUBSET Paths
    BY <1>1 DEF RepRecords
  <1>3. rep' = [rep EXCEPT ![r] = new]
    BY DEF Goto
  <1>4. /\ new \in RepRecords
        /\ new.at = at /\ new.staged = kept
        /\ new.was = rep[r].was /\ new.restart = rep[r].restart
    <2> HIDE DEF kept
    <2> QED
      BY <1>1, <1>2 DEF RepRecords
  <1> HIDE DEF kept, new
  <1> QED
    BY <1>2, <1>3, <1>4 DEF RepRecords

\* A replacement that is over.
LEMMA Over ==
    ASSUME rep \in [Reps -> RepRecords], NEW r \in Reps, End(r)
    PROVE  /\ rep' \in [Reps -> RepRecords]
           /\ rep'[r].at = "ended" /\ rep'[r].restart = rep[r].restart
           /\ \A s \in Reps : s # r => rep'[s] = rep[s]
  <1> DEFINE new == [Unasked EXCEPT !.at = "ended", !.restart = rep[r].restart]
  <1>1. MaxOwners \in Nat /\ rep[r].restart \in BOOLEAN
    BY ContentAssumption DEF RepRecords
  <1>2. /\ new \in RepRecords
        /\ new.at = "ended" /\ new.restart = rep[r].restart
    <2>1. Unasked \in [at : {"idle"}, staged : SUBSET Paths, was : 0 .. MaxOwners,
                       restart : BOOLEAN]
      BY <1>1 DEF Unasked
    <2> QED
      BY <1>1, <2>1 DEF RepRecords
  <1>3. rep' = [rep EXCEPT ![r] = new]
    BY DEF End
  <1> HIDE DEF new
  <1> QED
    BY <1>2, <1>3 DEF RepRecords

\* The initial state is well-typed.
LEMMA InitType == Init => TypeOK
  BY ContentAssumption
     DEF Init, TypeOK, Empty, Unasked, Unopened, Working, RepRecords, FileRecords

\* A request nobody has made is a record of the right kind.
LEMMA IdleRecord == Unasked \in RepRecords
  BY ContentAssumption DEF Unasked, RepRecords

\* Every step keeps the types.
LEMMA TypeStep == TypeOK /\ [Next]_vars => TypeOK'
  <1> SUFFICES ASSUME TypeOK, [Next]_vars
               PROVE  TypeOK'
    OBVIOUS
  <1> USE DEF commitVars, metaVars
  <1>1. ASSUME NEW r \in Reps, StageFails(r) PROVE TypeOK'
    <2>1. rep' \in [Reps -> RepRecords]
      BY <1>1, Hop DEF StageFails, TypeOK, Working
    <2> QED
      BY <1>1, <2>1 DEF StageFails, TypeOK
  <1>2. ASSUME NEW r \in Reps, LookAgain(r) PROVE TypeOK'
    <2>1. rep' \in [Reps -> RepRecords]
      BY <1>2, Hop DEF LookAgain, TypeOK, Working
    <2> QED
      BY <1>2, <2>1 DEF LookAgain, TypeOK
  <1>3. ASSUME NEW r \in Reps, Abort(r) PROVE TypeOK'
    <2>1. rep' \in [Reps -> RepRecords]
      BY <1>3, Hop DEF Abort, TypeOK, Working
    <2> QED
      BY <1>3, <2>1 DEF Abort, TypeOK
  <1>4. ASSUME NEW r \in Reps, TakeLock(r) PROVE TypeOK'
    <2>1. rep' \in [Reps -> RepRecords]
      BY <1>4, Hop DEF TakeLock, TypeOK, Working
    <2> QED
      BY <1>4, <2>1 DEF TakeLock, TypeOK
  <1>5. ASSUME NEW r \in Reps, Check(r) PROVE TypeOK'
    <2>1. rep' \in [Reps -> RepRecords]
      BY <1>5, Hop DEF Check, TypeOK, Working
    <2> QED
      BY <1>5, <2>1 DEF Check, TypeOK, Reps, Writers
  <1>6. ASSUME NEW r \in Reps, MoveIn(r) PROVE TypeOK'
    <2>1. rep' \in [Reps -> RepRecords]
      BY <1>6, Hop DEF MoveIn, TypeOK, Working
    <2> QED
      BY <1>6, <2>1 DEF MoveIn, TypeOK, RepRecords
  <1>7. ASSUME NEW r \in Reps, ListOld(r) PROVE TypeOK'
    <2>1. rep' \in [Reps -> RepRecords]
      BY <1>7, Hop DEF ListOld, TypeOK, Working
    <2> QED
      BY <1>7, <2>1 DEF ListOld, TypeOK, Found, RepRecords
  <1>8. ASSUME NEW r \in Reps, Fill(r) PROVE TypeOK'
    <2>1. rep' \in [Reps -> RepRecords]
      BY <1>8, Hop DEF Fill, TypeOK, Working
    <2> QED
      BY <1>8, <2>1 DEF Fill, TypeOK, Empty
  <1>9. ASSUME NEW r \in Reps, Break(r) PROVE TypeOK'
    <2>1. rep' \in [Reps -> RepRecords]
      BY <1>9, Hop DEF Break, TypeOK, Working
    <2> QED
      BY <1>9, <2>1 DEF Break, TypeOK, Empty
  <1>10. ASSUME NEW r \in Reps, Landed(r) PROVE TypeOK'
    <2>1. rep' \in [Reps -> RepRecords]
      BY <1>10, Hop DEF Landed, TypeOK, Working
    <2> QED
      BY <1>10, <2>1 DEF Landed, TypeOK
  <1>11. ASSUME NEW r \in Reps, Unlock(r) PROVE TypeOK'
    <2>1. rep' \in [Reps -> RepRecords]
      BY <1>11, Hop DEF Unlock, TypeOK, Working
    <2> QED
      BY <1>11, <2>1 DEF Unlock, TypeOK
  <1>12. ASSUME NEW r \in Reps, Busy(r) PROVE TypeOK'
    <2>1. rep' \in [Reps -> RepRecords]
      BY <1>12, Over DEF Busy, TypeOK
    <2> QED
      BY <1>12, <2>1 DEF Busy, TypeOK
  <1>13. ASSUME NEW r \in Reps, AbortEnds(r) PROVE TypeOK'
    <2>1. rep' \in [Reps -> RepRecords]
      BY <1>13, Over DEF AbortEnds, TypeOK
    <2> QED
      BY <1>13, <2>1 DEF AbortEnds, TypeOK
  <1>14. ASSUME NEW r \in Reps, Release(r) PROVE TypeOK'
    <2>1. rep' \in [Reps -> RepRecords]
      BY <1>14, Over DEF Release, TypeOK
    <2> QED
      BY <1>14, <2>1 DEF Release, TypeOK
  <1>15. ASSUME NEW r \in Reps, Begin(r) PROVE TypeOK'
    <2>1. rep' \in [Reps -> RepRecords]
      BY <1>15, Hop, Over DEF Begin, TypeOK, Working
    <2> QED
      BY <1>15, <2>1 DEF Begin, TypeOK
  <1>16. ASSUME NEW r \in Reps, StopProject(r) PROVE TypeOK'
    <2>1. rep' \in [Reps -> RepRecords]
      <3>1. CASE live
        BY <1>16, <3>1 DEF StopProject, TypeOK, RepRecords, Working
      <3>2. CASE ~live
        BY <1>16, <3>2, Hop DEF StopProject, TypeOK, Working
      <3> QED
        BY <3>1, <3>2
    <2> QED
      BY <1>16, <2>1 DEF StopProject, TypeOK
  <1>17. ASSUME NEW r \in Reps, Gate(r) PROVE TypeOK'
    <2> DEFINE was == IF r \in Restores THEN owner ELSE 0
    <2>1. was \in 0 .. MaxOwners
      BY ContentAssumption DEF TypeOK
    <2>2. rep' = [rep EXCEPT ![r].at = "gate", ![r].was = was]
      BY <1>17 DEF Gate
    <2> HIDE DEF was
    <2>3. rep' \in [Reps -> RepRecords]
      BY ZenonT(30), <2>1, <2>2 DEF TypeOK, RepRecords, Working
    <2> QED
      BY <1>17, <2>3 DEF Gate, TypeOK
  <1>18. ASSUME NEW r \in Reps, StartAgain(r) PROVE TypeOK'
    <2>1. rep' \in [Reps -> RepRecords]
      BY ZenonT(30), <1>18 DEF StartAgain, TypeOK, RepRecords
    <2> QED
      BY <1>18, <2>1 DEF StartAgain, TypeOK
  <1>19. ASSUME NEW r \in Reps, NEW p \in Paths, StageFile(r, p) PROVE TypeOK'
    BY <1>19 DEF StageFile, TypeOK, RepRecords
  <1>20. ASSUME NEW r \in Reps, NEW x \in Paths \cup Transfers, RemoveOld(r, x) PROVE TypeOK'
    BY <1>20 DEF RemoveOld, TypeOK, FileRecords
  <1>21. ASSUME NEW r \in Reps, NEW p \in Paths, Place(r, p) PROVE TypeOK'
    BY <1>21 DEF Place, TypeOK, Writers
  <1>22. ASSUME NEW f \in Transfers \cup Sessions, OpenStaged(f) PROVE TypeOK'
    BY <1>22 DEF OpenStaged, TypeOK, FileRecords
  <1>23. ASSUME NEW f \in Transfers \cup Sessions, Close(f) PROVE TypeOK'
    BY <1>23 DEF Close, Closed, TypeOK, FileRecords, Writers
  <1>24. ASSUME NEW f \in Transfers \cup Sessions, AskRemove(f) PROVE TypeOK'
    BY <1>24 DEF AskRemove, TypeOK, FileRecords
  <1>25. ASSUME NEW f \in Transfers \cup Sessions, FtpRemove(f) PROVE TypeOK'
    BY <1>25 DEF FtpRemove, Closed, TypeOK, FileRecords
  <1>26. ASSUME NEW u \in Uploads, Upload(u) PROVE TypeOK'
    BY <1>26 DEF Upload, TypeOK, Writers
  <1>27. ASSUME NEW p \in Paths, DeleteFile(p) PROVE TypeOK'
    BY <1>27 DEF DeleteFile, TypeOK
  <1>28. ASSUME NEW p \in Paths, NEW q \in Paths, Rename(p, q) PROVE TypeOK'
    BY <1>28 DEF Rename, TypeOK
  <1>29. ASSUME SetLock PROVE TypeOK'
    BY <1>29 DEF SetLock, TypeOK
  <1>30. ASSUME HandOver PROVE TypeOK'
    BY <1>30, ContentAssumption DEF HandOver, TypeOK
  <1>31. ASSUME Delete PROVE TypeOK'
    BY <1>31 DEF Delete, TypeOK
  <1>32. ASSUME Crash PROVE TypeOK'
    <2>1. [Unasked EXCEPT !.at = "ended"] \in RepRecords
      BY IdleRecord DEF RepRecords
    <2>2. rep' \in [Reps -> RepRecords]
      BY <1>32, <2>1 DEF Crash, TypeOK
    <2>3. file' \in [Transfers \cup Sessions -> FileRecords]
      BY <1>32 DEF Crash, TypeOK, Closed, FileRecords
    <2> QED
      BY <1>32, <2>2, <2>3, ContentAssumption DEF Crash, TypeOK, Empty
  <1>33. ASSUME UNCHANGED vars PROVE TypeOK'
    BY <1>33 DEF vars, TypeOK
  <1> QED
    BY <1>1, <1>2, <1>3, <1>4, <1>5, <1>6, <1>7, <1>8, <1>9, <1>10, <1>11, <1>12, <1>13, <1>14, <1>15, <1>16,
       <1>17, <1>18, <1>19, <1>20, <1>21, <1>22, <1>23, <1>24, <1>25, <1>26, <1>27, <1>28, <1>29, <1>30, <1>31, <1>32, <1>33
       DEF Next, RepStep, Goes, FileStep

\* Every reachable state is well-typed.
THEOREM TypeCorrect == Spec => []TypeOK
  <1> QED
    BY InitType, TypeStep, PTL DEF Spec

(***************************************************************************)
(* The invariant is inductive.                                             *)
(***************************************************************************)

\* The invariant holds where nothing has been asked for yet.
LEMMA InitInv == Init => IInv
  <1> SUFFICES ASSUME Init PROVE IInv
    OBVIOUS
  <1>1. TypeOK
    BY InitType
  <1>2. \A r \in Reps : rep[r].at = "idle" /\ siteLock # r /\ claim # r
    BY ContentAssumption DEF Init, Unasked
  <1>3. \A f \in Transfers \cup Sessions : file[f].at = "idle"
    BY DEF Init, Unopened
  <1>4. \A r \in Reps : moved[r] = {}
    BY DEF Init
  <1> QED
    BY <1>1, <1>2, <1>3, <1>4 DEF IInv, LockInv, ClaimInv, MovedInv, GoingInv, EmptyInv, FillInv,
                            FileInv, Locked, Claimed, Going

\* A step of a replacement that is not in its commit, before or after it.
LEMMA Outside ==
    ASSUME IInv, TypeOK', NEW r \in Reps,
           \A s \in Reps : s # r => rep'[s] = rep[s],
           rep'[r].at = "ended" \/ rep[r].at # "ended",
           rep[r].at \notin Locked \cup {"release"}, rep'[r].at \notin Locked \cup {"release"},
           UNCHANGED <<content, listing, before, siteLock, lock, live, owner, file>>,
           UNCHANGED moved \/ (claim = Nobody /\ moved' = [s \in Reps |-> {}]),
           \/ UNCHANGED claim /\ (rep[r].at \in Claimed <=> rep'[r].at \in Claimed)
           \/ claim = Nobody /\ claim' = r /\ rep'[r].at \in Claimed /\ moved' = [s \in Reps |-> {}]
           \/ claim = r /\ claim' = Nobody /\ rep'[r].at \notin Claimed
    PROVE  IInv'
  <1>1. LockInv'
    BY DEF IInv, LockInv
  <1>2. ClaimInv'
    BY ContentAssumption DEF IInv, ClaimInv
  <1>3. MovedInv'
    BY <1>2, ContentAssumption DEF IInv, TypeOK, ClaimInv, MovedInv, Locked, Claimed
  <1>4. GoingInv'
    BY DEF IInv, GoingInv, Going, Locked
  <1>5. EmptyInv'
    BY DEF IInv, EmptyInv, Locked
  <1>6. FillInv'
    BY ContentAssumption DEF IInv, FillInv, Locked, ClaimInv, Claimed
  <1>7. FileInv'
    BY DEF IInv, FileInv
  <1> QED
    BY <1>1, <1>2, <1>3, <1>4, <1>5, <1>6, <1>7 DEF IInv

\* A step of someone who has waited for the site lock, or needs none.
LEMMA Others ==
    ASSUME IInv, TypeOK', FileInv', UNCHANGED <<rep, siteLock, claim>>,
           UNCHANGED moved \/ moved' = [s \in Reps |-> {}],
           \/ siteLock = Nobody
           \/ UNCHANGED <<content, before, listing, lock, live, owner, moved>>
    PROVE  IInv'
  <1>1. LockInv' /\ ClaimInv'
    BY DEF IInv, LockInv, ClaimInv
  <1>2. MovedInv'
    BY DEF IInv, MovedInv, TypeOK
  <1>3. CASE siteLock = Nobody
    <2>1. \A r \in Reps : rep'[r].at \notin Locked
      BY <1>3, ContentAssumption DEF IInv, LockInv
    <2> QED
      BY <1>1, <1>2, <2>1 DEF IInv, GoingInv, EmptyInv, FillInv, Locked, Going
  <1>4. CASE UNCHANGED <<content, before, listing, lock, live, owner, moved>>
    BY <1>1, <1>2, <1>4 DEF IInv, GoingInv, EmptyInv, FillInv
  <1> QED
    BY <1>3, <1>4

\* Every step keeps the invariant.
LEMMA InvStep == IInv /\ [Next]_vars => IInv'
  <1> SUFFICES ASSUME IInv, [Next]_vars
               PROVE  IInv'
    OBVIOUS
  <1> USE DEF commitVars, metaVars
  <1>0. TypeOK /\ TypeOK' /\ rep \in [Reps -> RepRecords]
    BY TypeStep DEF IInv, TypeOK
  <1>1. ASSUME NEW r \in Reps, StageFails(r) PROVE IInv'
    <2>1. /\ rep'[r].at # rep[r].at /\ rep'[r].at \in {"failed", "fresh", "abort"}
          /\ \A s \in Reps : s # r => rep'[s] = rep[s]
      BY <1>1, <1>0, Hop DEF StageFails, Working
    <2> QED
      BY <1>1, <1>0, <2>1, Outside DEF StageFails, Working, Locked, Claimed
  <1>2. ASSUME NEW r \in Reps, LookAgain(r) PROVE IInv'
    <2>1. /\ rep'[r].at # rep[r].at /\ rep'[r].at \in {"failed", "fresh", "abort"}
          /\ \A s \in Reps : s # r => rep'[s] = rep[s]
      BY <1>2, <1>0, Hop DEF LookAgain, Working
    <2> QED
      BY <1>2, <1>0, <2>1, Outside DEF LookAgain, Working, Locked, Claimed
  <1>3. ASSUME NEW r \in Reps, Abort(r) PROVE IInv'
    <2>1. /\ rep'[r].at # rep[r].at /\ rep'[r].at \in {"failed", "fresh", "abort"}
          /\ \A s \in Reps : s # r => rep'[s] = rep[s]
      BY <1>3, <1>0, Hop DEF Abort, Working
    <2> QED
      BY <1>3, <1>0, <2>1, Outside DEF Abort, Working, Locked, Claimed
  <1>4. ASSUME NEW r \in Reps, Busy(r) PROVE IInv'
    BY <1>4, <1>0, Over, Outside DEF Busy, Locked, Claimed
  <1>5. ASSUME NEW r \in Reps, AbortEnds(r) PROVE IInv'
    <2>1. claim = r
      BY <1>5 DEF AbortEnds, IInv, ClaimInv, Claimed
    <2> QED
      BY <1>5, <1>0, <2>1, Over, Outside DEF AbortEnds, Locked, Claimed
  <1>6. ASSUME NEW r \in Reps, Begin(r) PROVE IInv'
    <2>1. CASE Goto(r, "staging") /\ claim' = r /\ moved' = [s \in Reps |-> {}]
      BY <1>6, <1>0, <2>1, Hop, Outside DEF Begin, Working, Locked, Claimed
    <2>2. CASE End(r) /\ UNCHANGED <<claim, moved>>
      BY <1>6, <1>0, <2>2, Over, Outside DEF Begin, Locked, Claimed
    <2> QED
      BY <1>6, <2>1, <2>2 DEF Begin
  <1>7. ASSUME NEW r \in Reps, StopProject(r) PROVE IInv'
    <2>1. CASE live
      BY <1>7, <1>0, <2>1, Outside DEF StopProject, RepRecords, Locked, Claimed
    <2>2. CASE ~live
      BY <1>7, <1>0, <2>2, Hop, Outside DEF StopProject, Working, Locked, Claimed
    <2> QED
      BY <2>1, <2>2
  <1>8. ASSUME NEW r \in Reps, Gate(r) PROVE IInv'
    BY <1>8, <1>0, Outside DEF Gate, RepRecords, Locked, Claimed
  <1>9. ASSUME NEW r \in Reps, StartAgain(r) PROVE IInv'
    <2>1. rep'[r].at = rep[r].at /\ \A s \in Reps : s # r => rep'[s] = rep[s]
      BY <1>9, <1>0 DEF StartAgain, RepRecords
    <2> QED
      BY <1>9, <1>0, <2>1, Outside DEF StartAgain, Locked, Claimed
  <1>10. ASSUME NEW r \in Reps, NEW p \in Paths, StageFile(r, p) PROVE IInv'
    <2>1. rep'[r].at = rep[r].at /\ \A s \in Reps : s # r => rep'[s] = rep[s]
      BY <1>10, <1>0 DEF StageFile, RepRecords
    <2> QED
      BY <1>10, <1>0, <2>1, Outside DEF StageFile, Locked, Claimed
  <1>11. ASSUME NEW u \in Uploads, Upload(u) PROVE IInv'
    BY <1>11, <1>0, Others DEF Upload, IInv, FileInv
  <1>12. ASSUME NEW p \in Paths, DeleteFile(p) PROVE IInv'
    BY <1>12, <1>0, Others DEF DeleteFile, IInv, FileInv
  <1>13. ASSUME NEW p \in Paths, NEW q \in Paths, Rename(p, q) PROVE IInv'
    BY <1>13, <1>0, Others DEF Rename, IInv, FileInv
  <1>14. ASSUME SetLock PROVE IInv'
    BY <1>14, <1>0, Others DEF SetLock, IInv, FileInv
  <1>15. ASSUME HandOver PROVE IInv'
    BY <1>15, <1>0, Others DEF HandOver, IInv, FileInv
  <1>16. ASSUME Delete PROVE IInv'
    BY <1>16, <1>0, Others DEF Delete, IInv, FileInv
  <1>17. ASSUME NEW f \in Transfers \cup Sessions, OpenStaged(f) PROVE IInv'
    <2>1. FileInv'
      BY <1>17, <1>0 DEF OpenStaged, IInv, TypeOK, FileInv, FileRecords
    <2> QED
      BY <1>17, <1>0, <2>1, Others DEF OpenStaged
  <1>18. ASSUME NEW f \in Transfers \cup Sessions, AskRemove(f) PROVE IInv'
    <2>1. FileInv'
      BY <1>18, <1>0 DEF AskRemove, IInv, TypeOK, FileInv, FileRecords
    <2> QED
      BY <1>18, <1>0, <2>1, Others DEF AskRemove
  <1>19. ASSUME NEW f \in Transfers \cup Sessions, Close(f) PROVE IInv'
    <2>1. FileInv'
      BY <1>19, <1>0 DEF Close, IInv, TypeOK, FileInv, FileRecords, Closed
    <2> QED
      BY <1>19, <1>0, <2>1, Others DEF Close
  <1>20. ASSUME NEW f \in Transfers \cup Sessions, FtpRemove(f) PROVE IInv'
    <2>1. FileInv'
      BY <1>20, <1>0 DEF FtpRemove, IInv, TypeOK, FileInv, FileRecords, Closed
    <2>2. LockInv' /\ ClaimInv' /\ MovedInv' /\ GoingInv'
      BY <1>20 DEF FtpRemove, IInv, LockInv, ClaimInv, MovedInv, GoingInv
    <2>3. EmptyInv'
      BY <1>20, <1>0 DEF FtpRemove, IInv, EmptyInv, TypeOK
    <2>4. FillInv'
      BY <1>20, <1>0 DEF FtpRemove, IInv, FillInv, TypeOK
    <2> QED
      BY <1>0, <2>1, <2>2, <2>3, <2>4 DEF IInv
  <1>21. ASSUME NEW r \in Reps, TakeLock(r) PROVE IInv'
    <2>1. /\ rep'[r].at \in {"locked", "unlock"} /\ rep'[r].was = rep[r].was
          /\ \A s \in Reps : s # r => rep'[s] = rep[s]
      BY <1>21, <1>0, Hop DEF TakeLock, Working
    <2>2. LockInv'
      BY <1>21, <1>0, <2>1, ContentAssumption DEF TakeLock, IInv, LockInv, Locked
    <2>3. ClaimInv'
      BY <1>21, <1>0, <2>1, ContentAssumption DEF TakeLock, IInv, ClaimInv, Locked, Claimed
    <2>4. MovedInv'
      BY <1>21, <1>0, <2>1, ContentAssumption DEF TakeLock, IInv, MovedInv, TypeOK, Locked, Claimed
    <2>5. GoingInv'
      BY <1>21, <1>0, <2>1, ContentAssumption DEF TakeLock, IInv, GoingInv, LockInv, Going, Locked
    <2>6. EmptyInv'
      BY <1>21, <1>0, <2>1, ContentAssumption DEF TakeLock, IInv, EmptyInv, LockInv, TypeOK, Locked
    <2>7. FillInv'
      BY <1>21, <1>0, <2>1, ContentAssumption DEF TakeLock, IInv, FillInv, TypeOK, LockInv, EmptyInv, Locked
    <2>8. FileInv'
      BY <1>21, <1>0, <2>1, ContentAssumption DEF TakeLock, IInv, FileInv
    <2> QED
      BY <1>0, <2>2, <2>3, <2>4, <2>5, <2>6, <2>7, <2>8 DEF IInv
  <1>22. ASSUME NEW r \in Reps, Check(r) PROVE IInv'
    <2>1. /\ rep'[r].at \in {"settled", "unlock"} /\ rep'[r].was = rep[r].was
          /\ \A s \in Reps : s # r => rep'[s] = rep[s]
          /\ rep'[r].at = "settled" => live /\ lock = Unlocked /\ (r \in Restores => owner = rep[r].was)
      BY <1>22, <1>0, Hop DEF Check, Working, StillFits
    <2>2. LockInv'
      BY <1>22, <1>0, <2>1, ContentAssumption DEF Check, IInv, LockInv, Locked
    <2>3. ClaimInv'
      BY <1>22, <1>0, <2>1, ContentAssumption DEF Check, IInv, ClaimInv, Locked, Claimed
    <2>4. MovedInv'
      BY <1>22, <1>0, <2>1, ContentAssumption DEF Check, IInv, MovedInv, TypeOK, Locked, Claimed
    <2>5. GoingInv'
      BY <1>22, <1>0, <2>1, ContentAssumption DEF Check, IInv, GoingInv, LockInv, Going, Locked
    <2>6. EmptyInv'
      BY <1>22, <1>0, <2>1, ContentAssumption DEF Check, IInv, EmptyInv, LockInv, TypeOK, Locked
    <2>7. FillInv'
      BY <1>22, <1>0, <2>1, ContentAssumption DEF Check, IInv, FillInv, TypeOK, LockInv, EmptyInv, Locked
    <2>8. FileInv'
      BY <1>22, <1>0, <2>1, ContentAssumption DEF Check, IInv, FileInv
    <2> QED
      BY <1>0, <2>2, <2>3, <2>4, <2>5, <2>6, <2>7, <2>8 DEF IInv
  <1>23. ASSUME NEW r \in Reps, MoveIn(r) PROVE IInv'
    <2>1. /\ rep'[r].at \in {"moved", "unlock"} /\ rep'[r].was = rep[r].was
          /\ \A s \in Reps : s # r => rep'[s] = rep[s]
          /\ rep'[r].at = "moved" \/ UNCHANGED moved
      BY <1>23, <1>0, Hop DEF MoveIn, Working
    <2>2. LockInv'
      BY <1>23, <1>0, <2>1, ContentAssumption DEF MoveIn, IInv, LockInv, Locked
    <2>3. ClaimInv'
      BY <1>23, <1>0, <2>1, ContentAssumption DEF MoveIn, IInv, ClaimInv, Locked, Claimed
    <2>4. MovedInv'
      BY <1>23, <1>0, <2>1, ContentAssumption DEF MoveIn, IInv, MovedInv, TypeOK, Locked, Claimed, ClaimInv
    <2>5. GoingInv'
      BY <1>23, <1>0, <2>1, ContentAssumption DEF MoveIn, IInv, GoingInv, LockInv, Going, Locked
    <2>6. EmptyInv'
      BY <1>23, <1>0, <2>1, ContentAssumption DEF MoveIn, IInv, EmptyInv, LockInv, TypeOK, Locked
    <2>7. FillInv'
      BY <1>23, <1>0, <2>1, ContentAssumption DEF MoveIn, IInv, FillInv, TypeOK, LockInv, EmptyInv, Locked
    <2>8. FileInv'
      BY <1>23, <1>0, <2>1, ContentAssumption DEF MoveIn, IInv, FileInv
    <2> QED
      BY <1>0, <2>2, <2>3, <2>4, <2>5, <2>6, <2>7, <2>8 DEF IInv
  <1>24. ASSUME NEW r \in Reps, ListOld(r) PROVE IInv'
    <2>1. /\ rep'[r].at \in {"emptying", "unlock"} /\ rep'[r].was = rep[r].was
          /\ \A s \in Reps : s # r => rep'[s] = rep[s]
          /\ rep'[r].at = "emptying" => listing' = Found /\ before' = content
      BY <1>24, <1>0, Hop DEF ListOld, Working
    <2>2. LockInv'
      BY <1>24, <1>0, <2>1, ContentAssumption DEF ListOld, IInv, LockInv, Locked
    <2>3. ClaimInv'
      BY <1>24, <1>0, <2>1, ContentAssumption DEF ListOld, IInv, ClaimInv, Locked, Claimed
    <2>4. MovedInv'
      BY <1>24, <1>0, <2>1, ContentAssumption DEF ListOld, IInv, MovedInv, TypeOK, Locked, Claimed
    <2>5. GoingInv'
      BY <1>24, <1>0, <2>1, ContentAssumption DEF ListOld, IInv, GoingInv, LockInv, Going, Locked
    <2>6. EmptyInv'
      BY <1>24, <1>0, <2>1, ContentAssumption DEF ListOld, IInv, EmptyInv, LockInv, TypeOK, Locked, Found
    <2>7. FillInv'
      BY <1>24, <1>0, <2>1, ContentAssumption DEF ListOld, IInv, FillInv, TypeOK, LockInv, EmptyInv, Locked
    <2>8. FileInv'
      BY <1>24, <1>0, <2>1, ContentAssumption DEF ListOld, IInv, FileInv
    <2> QED
      BY <1>0, <2>2, <2>3, <2>4, <2>5, <2>6, <2>7, <2>8 DEF IInv
  <1>25. ASSUME NEW r \in Reps, NEW x \in Paths \cup Transfers, RemoveOld(r, x) PROVE IInv'
    <2>2. LockInv'
      BY <1>25, <1>0, ContentAssumption DEF RemoveOld, IInv, LockInv, Locked
    <2>3. ClaimInv'
      BY <1>25, <1>0, ContentAssumption DEF RemoveOld, IInv, ClaimInv, Locked, Claimed
    <2>4. MovedInv'
      BY <1>25, <1>0, ContentAssumption DEF RemoveOld, IInv, MovedInv, TypeOK, Locked, Claimed
    <2>5. GoingInv'
      BY <1>25, <1>0, ContentAssumption DEF RemoveOld, IInv, GoingInv, LockInv, Going, Locked
    <2>6. EmptyInv'
      BY <1>25, <1>0, ContentAssumption DEF RemoveOld, IInv, EmptyInv, LockInv, TypeOK, Locked
    <2>7. FillInv'
      BY <1>25, <1>0, ContentAssumption DEF RemoveOld, IInv, FillInv, TypeOK, LockInv, EmptyInv, Locked
    <2>8. FileInv'
      BY <1>25, <1>0, ContentAssumption DEF RemoveOld, IInv, FileInv, TypeOK, FileRecords
    <2> QED
      BY <1>0, <2>2, <2>3, <2>4, <2>5, <2>6, <2>7, <2>8 DEF IInv
  <1>26. ASSUME NEW r \in Reps, Fill(r) PROVE IInv'
    <2>1. /\ rep'[r].at \in {"filling"} /\ rep'[r].was = rep[r].was
          /\ \A s \in Reps : s # r => rep'[s] = rep[s]
      BY <1>26, <1>0, Hop DEF Fill, Working
    <2>2. LockInv'
      BY <1>26, <1>0, <2>1, ContentAssumption DEF Fill, IInv, LockInv, Locked
    <2>3. ClaimInv'
      BY <1>26, <1>0, <2>1, ContentAssumption DEF Fill, IInv, ClaimInv, Locked, Claimed
    <2>4. MovedInv'
      BY <1>26, <1>0, <2>1, ContentAssumption DEF Fill, IInv, MovedInv, TypeOK, Locked, Claimed
    <2>5. GoingInv'
      BY <1>26, <1>0, <2>1, ContentAssumption DEF Fill, IInv, GoingInv, LockInv, Going, Locked
    <2>6. EmptyInv'
      BY <1>26, <1>0, <2>1, ContentAssumption DEF Fill, IInv, EmptyInv, LockInv, TypeOK, Locked
    <2>7. FillInv'
      BY <1>26, <1>0, <2>1, ContentAssumption DEF Fill, IInv, FillInv, TypeOK, LockInv, EmptyInv, Locked
    <2>8. FileInv'
      BY <1>26, <1>0, <2>1, ContentAssumption DEF Fill, IInv, FileInv
    <2> QED
      BY <1>0, <2>2, <2>3, <2>4, <2>5, <2>6, <2>7, <2>8 DEF IInv
  <1>27. ASSUME NEW r \in Reps, NEW p \in Paths, Place(r, p) PROVE IInv'
    <2>2. LockInv'
      BY <1>27, <1>0, ContentAssumption DEF Place, IInv, LockInv, Locked
    <2>3. ClaimInv'
      BY <1>27, <1>0, ContentAssumption DEF Place, IInv, ClaimInv, Locked, Claimed
    <2>4. MovedInv'
      BY <1>27, <1>0, ContentAssumption DEF Place, IInv, MovedInv, TypeOK, Locked, Claimed
    <2>5. GoingInv'
      BY <1>27, <1>0, ContentAssumption DEF Place, IInv, GoingInv, LockInv, Going, Locked
    <2>6. EmptyInv'
      BY <1>27, <1>0, ContentAssumption DEF Place, IInv, EmptyInv, LockInv, TypeOK, Locked
    <2>7. FillInv'
      BY <1>27, <1>0, ContentAssumption DEF Place, IInv, FillInv, TypeOK, LockInv, EmptyInv, Locked
    <2>8. FileInv'
      BY <1>27, <1>0, ContentAssumption DEF Place, IInv, FileInv
    <2> QED
      BY <1>0, <2>2, <2>3, <2>4, <2>5, <2>6, <2>7, <2>8 DEF IInv
  <1>28. ASSUME NEW r \in Reps, Break(r) PROVE IInv'
    <2>1. /\ rep'[r].at \in {"unlock"} /\ rep'[r].was = rep[r].was
          /\ \A s \in Reps : s # r => rep'[s] = rep[s]
      BY <1>28, <1>0, Hop DEF Break, Working
    <2>2. LockInv'
      BY <1>28, <1>0, <2>1, ContentAssumption DEF Break, IInv, LockInv, Locked
    <2>3. ClaimInv'
      BY <1>28, <1>0, <2>1, ContentAssumption DEF Break, IInv, ClaimInv, Locked, Claimed
    <2>4. MovedInv'
      BY <1>28, <1>0, <2>1, ContentAssumption DEF Break, IInv, MovedInv, TypeOK, Locked, Claimed
    <2>5. GoingInv'
      BY <1>28, <1>0, <2>1, ContentAssumption DEF Break, IInv, GoingInv, LockInv, Going, Locked
    <2>6. EmptyInv'
      BY <1>28, <1>0, <2>1, ContentAssumption DEF Break, IInv, EmptyInv, LockInv, TypeOK, Locked
    <2>7. FillInv'
      BY <1>28, <1>0, <2>1, ContentAssumption DEF Break, IInv, FillInv, TypeOK, LockInv, EmptyInv, Locked
    <2>8. FileInv'
      BY <1>28, <1>0, <2>1, ContentAssumption DEF Break, IInv, FileInv
    <2> QED
      BY <1>0, <2>2, <2>3, <2>4, <2>5, <2>6, <2>7, <2>8 DEF IInv
  <1>29. ASSUME NEW r \in Reps, Landed(r) PROVE IInv'
    <2>1. /\ rep'[r].at \in {"unlock"} /\ rep'[r].was = rep[r].was
          /\ \A s \in Reps : s # r => rep'[s] = rep[s]
      BY <1>29, <1>0, Hop DEF Landed, Working
    <2>2. LockInv'
      BY <1>29, <1>0, <2>1, ContentAssumption DEF Landed, IInv, LockInv, Locked
    <2>3. ClaimInv'
      BY <1>29, <1>0, <2>1, ContentAssumption DEF Landed, IInv, ClaimInv, Locked, Claimed
    <2>4. MovedInv'
      BY <1>29, <1>0, <2>1, ContentAssumption DEF Landed, IInv, MovedInv, TypeOK, Locked, Claimed
    <2>5. GoingInv'
      BY <1>29, <1>0, <2>1, ContentAssumption DEF Landed, IInv, GoingInv, LockInv, Going, Locked
    <2>6. EmptyInv'
      BY <1>29, <1>0, <2>1, ContentAssumption DEF Landed, IInv, EmptyInv, LockInv, TypeOK, Locked
    <2>7. FillInv'
      BY <1>29, <1>0, <2>1, ContentAssumption DEF Landed, IInv, FillInv, TypeOK, LockInv, EmptyInv, Locked
    <2>8. FileInv'
      BY <1>29, <1>0, <2>1, ContentAssumption DEF Landed, IInv, FileInv
    <2> QED
      BY <1>0, <2>2, <2>3, <2>4, <2>5, <2>6, <2>7, <2>8 DEF IInv
  <1>30. ASSUME NEW r \in Reps, Unlock(r) PROVE IInv'
    <2>1. /\ rep'[r].at \in {"release"} /\ rep'[r].was = rep[r].was
          /\ \A s \in Reps : s # r => rep'[s] = rep[s]
      BY <1>30, <1>0, Hop DEF Unlock, Working
    <2>2. LockInv'
      BY <1>30, <1>0, <2>1, ContentAssumption DEF Unlock, IInv, LockInv, Locked
    <2>3. ClaimInv'
      BY <1>30, <1>0, <2>1, ContentAssumption DEF Unlock, IInv, ClaimInv, Locked, Claimed
    <2>4. MovedInv'
      BY <1>30, <1>0, <2>1, ContentAssumption DEF Unlock, IInv, MovedInv, TypeOK, Locked, Claimed
    <2>5. GoingInv'
      BY <1>30, <1>0, <2>1, ContentAssumption DEF Unlock, IInv, GoingInv, LockInv, Going, Locked
    <2>6. EmptyInv'
      BY <1>30, <1>0, <2>1, ContentAssumption DEF Unlock, IInv, EmptyInv, LockInv, TypeOK, Locked
    <2>7. FillInv'
      BY <1>30, <1>0, <2>1, ContentAssumption DEF Unlock, IInv, FillInv, TypeOK, LockInv, EmptyInv, Locked
    <2>8. FileInv'
      BY <1>30, <1>0, <2>1, ContentAssumption DEF Unlock, IInv, FileInv
    <2> QED
      BY <1>0, <2>2, <2>3, <2>4, <2>5, <2>6, <2>7, <2>8 DEF IInv
  <1>31. ASSUME NEW r \in Reps, Release(r) PROVE IInv'
    <2>1. /\ rep'[r].at = "ended"
          /\ \A s \in Reps : s # r => rep'[s] = rep[s]
      BY <1>31, <1>0, Over DEF Release
    <2>2. LockInv'
      BY <1>31, <2>1 DEF Release, IInv, LockInv, Locked
    <2>3. ClaimInv'
      BY <1>31, <2>1, ContentAssumption DEF Release, IInv, ClaimInv, Claimed, Locked
    <2>4. MovedInv'
      BY <1>31, <2>1 DEF Release, IInv, MovedInv, Claimed, Locked
    <2>5. GoingInv' /\ EmptyInv' /\ FillInv' /\ FileInv'
      BY <1>31, <2>1 DEF Release, IInv, GoingInv, EmptyInv, FillInv, FileInv, Going
    <2> QED
      BY <1>0, <2>2, <2>3, <2>4, <2>5 DEF IInv
  <1>32. ASSUME Crash PROVE IInv'
    <2>1. \A r \in Reps : rep'[r].at \in {"idle", "ended"} /\ (rep'[r].at = "idle" => rep[r].at = "idle")
      BY <1>32, <1>0 DEF Crash, Unasked
    <2>2. \A f \in Transfers \cup Sessions : file'[f].at \in {"idle", "ended"}
      BY <1>32, <1>0 DEF Crash, TypeOK, Closed
    <2> QED
      BY SMTT(30), <1>32, <1>0, <2>1, <2>2, ContentAssumption DEF Crash, IInv, LockInv, ClaimInv, MovedInv, GoingInv,
           EmptyInv, FillInv, FileInv, Locked, Claimed, Going
  <1>33. ASSUME UNCHANGED vars PROVE IInv'
    BY <1>33 DEF vars, IInv, TypeOK, LockInv, ClaimInv, MovedInv, GoingInv, EmptyInv, FillInv, FileInv
  <1> QED
    BY <1>1, <1>2, <1>3, <1>4, <1>5, <1>6, <1>7, <1>8, <1>9, <1>10, <1>11, <1>12, <1>13, <1>14, <1>15, <1>16,
       <1>17, <1>18, <1>19, <1>20, <1>21, <1>22, <1>23, <1>24, <1>25, <1>26, <1>27, <1>28, <1>29, <1>30, <1>31, <1>32, <1>33
       DEF Next, RepStep, Goes, FileStep

\* So it holds in every reachable state.
LEMMA Invariant == Spec => []IInv
  <1> QED
    BY InitInv, InvStep, PTL DEF Spec

(***************************************************************************)
(* The directories of commits.                                             *)
(***************************************************************************)

\* Who changes what the commits' directories hold.
LEMMA MovedChanges ==
    ASSUME [Next]_vars
    PROVE  \/ UNCHANGED moved
           \/ \E r \in Reps : Begin(r) \/ MoveIn(r) \/ ListOld(r) \/ \E p \in Paths : Place(r, p)
           \/ Delete
  <1> USE DEF commitVars, metaVars
  <1>1. ASSUME NEW r \in Reps, RepStep(r),
               ~ (Begin(r) \/ MoveIn(r) \/ ListOld(r) \/ \E p \in Paths : Place(r, p))
        PROVE  UNCHANGED moved
    BY <1>1 DEF RepStep, Goes, Gate, StageFile, StageFails, Busy, LookAgain, StopProject, Abort,
                AbortEnds, StartAgain, TakeLock, Check, RemoveOld, Fill, Break, Landed, Unlock, Release
  <1>2. ASSUME NEW f \in Transfers \cup Sessions, FileStep(f) PROVE UNCHANGED moved
    BY <1>2 DEF FileStep, OpenStaged, Close, AskRemove, FtpRemove
  <1> QED
    BY <1>1, <1>2 DEF Next, vars, Upload, DeleteFile, Rename, SetLock, HandOver, Crash

\* A directory loses a file by its being put in place, to the next replacement
\* once no commit runs, or with the site.
LEMMA KeptStep ==
    ASSUME IInv, [Next]_vars, NEW r \in Reps, NEW p \in moved[r] \ moved'[r]
    PROVE  \/ content'[p] = r
           \/ ~live'
           \/ rep[r].at = "moved" /\ rep'[r].at = "unlock"
           \/ rep[r].at = "ended"
  <1>0. /\ rep \in [Reps -> RepRecords] /\ p \in Paths
        /\ moved \in [Reps -> SUBSET Paths] /\ content \in [Paths -> Writers \cup {Old, Absent}]
    BY DEF IInv, TypeOK
  <1>1. ASSUME NEW s \in Reps, Begin(s) PROVE rep[r].at = "ended"
    BY <1>0, <1>1, ContentAssumption DEF Begin, IInv, ClaimInv, MovedInv, Claimed, Locked
  <1>2. ASSUME NEW s \in Reps, MoveIn(s) PROVE FALSE
    BY <1>0, <1>2 DEF MoveIn, IInv, MovedInv
  <1>3. ASSUME NEW s \in Reps, ListOld(s) PROVE rep[r].at = "moved" /\ rep'[r].at = "unlock"
    BY <1>0, <1>3, Hop DEF ListOld, Working
  <1>4. ASSUME NEW s \in Reps, NEW q \in Paths, Place(s, q) PROVE content'[p] = r
    BY <1>0, <1>4 DEF Place
  <1>5. ASSUME Delete PROVE ~live'
    BY <1>5 DEF Delete
  <1> QED
    BY <1>1, <1>2, <1>3, <1>4, <1>5, MovedChanges

\* No other replacement clears away what a running commit has yet to place.
THEOREM KeepsUploads == Spec => UploadIsKept
  <1>1. IInv /\ [Next]_vars =>
          [\A r \in Reps : \A p \in moved[r] \ moved'[r] :
              \/ content'[p] = r
              \/ ~live'
              \/ rep[r].at = "moved" /\ rep'[r].at = "unlock"
              \/ rep[r].at = "ended"]_vars
    BY KeptStep
  <1> QED
    BY <1>1, Invariant, PTL DEF Spec, UploadIsKept

\* A restore's files go in only while the site is whose it was.
THEOREM RestoresStay == Spec => RestoresStayHome
  <1>1. ASSUME IInv, [Next]_vars, NEW r \in Restores, NEW p \in moved[r] \ moved'[r],
               content[p] # r, content'[p] = r
        PROVE  owner = rep[r].was
    <2>0. /\ r \in Reps /\ r # Absent /\ p \in Paths
          /\ moved \in [Reps -> SUBSET Paths] /\ content \in [Paths -> Writers \cup {Old, Absent}]
      BY <1>1, ContentAssumption DEF IInv, TypeOK, Reps, Writers
    <2>1. ASSUME NEW s \in Reps, NEW q \in Paths, Place(s, q) PROVE owner = rep[r].was
      <3>1. s = r
        BY <1>1, <2>0, <2>1 DEF Place
      <3> QED
        BY <1>1, <2>0, <2>1, <3>1 DEF Place, IInv, GoingInv, Going
    <2>2. ASSUME NEW s \in Reps, Begin(s) \/ MoveIn(s) \/ ListOld(s) PROVE FALSE
      BY <1>1, <2>2 DEF Begin, MoveIn, ListOld
    <2>3. ASSUME Delete PROVE FALSE
      BY <1>1, <2>0, <2>3 DEF Delete
    <2> QED
      BY <1>1, <2>1, <2>2, <2>3, MovedChanges
  <1>2. IInv /\ [Next]_vars =>
          [\A r \in Restores : \A p \in moved[r] \ moved'[r] :
              content[p] # r /\ content'[p] = r => owner = rep[r].was]_vars
    BY <1>1
  <1> QED
    BY <1>2, Invariant, PTL DEF Spec, RestoresStayHome

(***************************************************************************)
(* The refinement of ContentSwitch.                                        *)
(***************************************************************************)

Quiet == UNCHANGED Switching!svars

\* Seen from outside, a site in no commit's middle shows what it holds.
Calm == siteLock # Nobody => rep[siteLock].at \notin {"emptying", "filling"}

\* Shown is the content itself, before a step and after one.
LEMMA ShownCalm == ASSUME TypeOK, Calm PROVE Shown = content
  BY DEF TypeOK, Calm, Shown

LEMMA ShownCalmNext == ASSUME TypeOK', Calm' PROVE Shown' = content'
  BY DEF TypeOK, Calm, Shown

\* Rest depends on the directories of those who are not in their commit.
LEMMA SameRest ==
    ASSUME \A r \in Reps, p \in Paths :
              (p \in moved'[r] /\ ~Committing(r)') <=> (p \in moved[r] /\ ~Committing(r))
    PROVE  Rest' = Rest
  BY DEF Rest

\* Without a holder of the site lock no commit is in its middle.
LEMMA FreeIsCalm == ASSUME IInv, siteLock = Nobody PROVE Calm
  BY DEF Calm

\* A replacement's step outside its commit shows nothing.
LEMMA OutsideIsQuiet ==
    ASSUME IInv, NEW r \in Reps,
           \A s \in Reps : s # r => rep'[s] = rep[s],
           rep[r].at \notin Locked, rep'[r].at \notin Locked,
           UNCHANGED <<content, before, moved, siteLock, lock, live>>
    PROVE  Quiet
  <1>1. Rest' = Rest
    BY SameRest DEF Committing, Locked
  <1>2. siteLock \in Reps \cup {Nobody} /\ siteLock # r
    BY ContentAssumption DEF IInv, TypeOK, LockInv
  <1>3. Shown' = Shown
    BY <1>2 DEF Shown
  <1> QED
    BY <1>1, <1>3 DEF Quiet, Switching!svars

\* Everyone else, once it has waited for the site lock.
LEMMA FreeStep ==
    ASSUME IInv, TypeOK', siteLock = Nobody, UNCHANGED <<rep, siteLock, moved>>
    PROVE  Shown = content /\ Shown' = content' /\ Rest' = Rest
  <1>1. Shown = content
    BY ShownCalm, FreeIsCalm DEF IInv
  <1>2. Shown' = content'
    BY ShownCalmNext DEF Calm
  <1>3. Rest' = Rest
    BY SameRest DEF Committing
  <1> QED
    BY <1>1, <1>2, <1>3

\* The directories of other replacements are empty while one commits.
LEMMA NoRest == ASSUME IInv, NEW r \in Reps, Committing(r) PROVE Rest = {}
  <1>1. rep[r].at \in Claimed
    BY DEF Committing, Claimed, Locked
  <1>2. \A s \in Reps : s # r => moved[s] = {}
    BY <1>1 DEF IInv, MovedInv
  <1> QED
    BY <1>2 DEF Rest

\* A commit that ends in its middle, by a failure or a crash, is a broken
\* switch, or nothing when it has not begun to change the content.
LEMMA BrokenCommit ==
    ASSUME IInv, TypeOK', NEW r \in Reps, siteLock = r, Committing(r),
           \A s \in Reps : ~Committing(s)', Calm',
           UNCHANGED <<content, moved, lock, live>>
    PROVE  Switching!BreakEmptying(r) \/ Switching!BreakFilling(r)
  <1>0. /\ Rest = {} /\ Shown' = content' /\ r # Nobody
        /\ content \in [Paths -> Writers \cup {Old, Absent}] /\ moved[r] \subseteq Paths
        /\ before \in [Paths -> Writers \cup {Old, Absent}]
    BY NoRest, ShownCalmNext, ContentAssumption DEF IInv, TypeOK
  <1>1. \A s \in Reps : s # r => moved[s] = {}
    BY DEF IInv, MovedInv, Committing, Claimed, Locked
  <1>2. Rest' = {r} \X moved[r]
    BY <1>0, <1>1 DEF Rest
  <1>3. live /\ lock \in {Unlocked, r}
    BY DEF IInv, GoingInv, Committing, Going
  <1>4. CASE rep[r].at \in {"moved", "emptying"}
    <2> DEFINE lost == {p \in Paths : content[p] # Shown[p]}
    <2>1. \A p \in Paths : content[p] \in {Shown[p], Absent}
      BY <1>0, <1>4 DEF Shown, IInv, EmptyInv
    <2>2. content = [p \in Paths |-> IF p \in lost THEN Absent ELSE Shown[p]]
      BY <1>0, <2>1
    <2> HIDE DEF lost
    <2>3. lost \in SUBSET Paths
      BY DEF lost
    <2> QED
      BY <1>0, <1>2, <1>3, <2>2, <2>3
         DEF Switching!BreakEmptying, Switching!MayGoIn, Switching!Without
  <1>5. CASE rep[r].at = "filling"
    <2>1. \A p \in Paths : Shown[p] = IF p \in moved[r] THEN r ELSE content[p]
      BY <1>0, <1>5 DEF Shown
    <2>2. \A p \in moved[r] : content[p] = Absent
      BY <1>5 DEF IInv, FillInv
    <2>3. content = [p \in Paths |-> IF p \in moved[r] THEN Absent ELSE Shown[p]]
      BY <1>0, <2>1, <2>2
    <2>4. moved[r] \in SUBSET {p \in Paths : Shown[p] = r}
      BY <1>0, <2>1
    <2> QED
      BY <1>0, <1>2, <1>3, <2>3, <2>4
         DEF Switching!BreakFilling, Switching!Without
  <1> QED
    BY <1>4, <1>5 DEF Committing

\* The steps of a commit.
LEMMA CommitStep ==
    ASSUME IInv, TypeOK', NEW r \in Reps,
           \/ TakeLock(r) \/ Check(r) \/ MoveIn(r) \/ ListOld(r)
           \/ \E x \in Paths \cup Transfers : RemoveOld(r, x)
           \/ Fill(r) \/ (\E p \in Paths : Place(r, p)) \/ Break(r) \/ Landed(r)
           \/ Unlock(r) \/ Release(r)
    PROVE  [Switching!Next]_(Switching!svars)
  <1> USE DEF commitVars, metaVars
  <1>0. /\ rep \in [Reps -> RepRecords] /\ r # Nobody /\ moved \in [Reps -> SUBSET Paths]
        /\ content \in [Paths -> Writers \cup {Old, Absent}]
        /\ before \in [Paths -> Writers \cup {Old, Absent}]
        /\ r \in Writers
    BY ContentAssumption DEF IInv, TypeOK, Writers
  <1>a. rep[r].at \in Locked => siteLock = r
    BY DEF IInv, LockInv
  <1>1. ASSUME TakeLock(r) PROVE Quiet
    <2>1. rep'[r].at \in {"locked", "unlock"} /\ \A s \in Reps : s # r => rep'[s] = rep[s]
      BY <1>0, <1>1, Hop DEF TakeLock, Working
    <2>2. Calm /\ Calm'
      BY <1>0, <1>1, <2>1 DEF TakeLock, Calm
    <2>3. Shown' = Shown
      BY <1>1, <2>2, ShownCalm, ShownCalmNext DEF TakeLock, IInv
    <2>4. Rest' = Rest
      BY <1>1, <2>1, SameRest DEF TakeLock, Committing
    <2> QED
      BY <1>1, <2>3, <2>4 DEF TakeLock, Quiet, Switching!svars
  <1>2. ASSUME Check(r) PROVE Quiet \/ Switching!SetLock
    <2>1. rep'[r].at \in {"settled", "unlock"} /\ \A s \in Reps : s # r => rep'[s] = rep[s]
      BY <1>0, <1>2, Hop DEF Check, Working
    <2>2. Calm /\ Calm'
      BY <1>0, <1>a, <1>2, <2>1 DEF Check, Calm, Locked
    <2>3. Shown' = Shown
      BY <1>2, <2>2, ShownCalm, ShownCalmNext DEF Check, IInv
    <2>4. Rest' = Rest
      BY <1>2, <2>1, SameRest DEF Check, Committing
    <2> QED
      BY <1>0, <1>2, <2>3, <2>4 DEF Check, Quiet, Switching!svars, Switching!SetLock
  <1>3. ASSUME MoveIn(r) PROVE Quiet
    <2>1. /\ rep'[r].at \in {"moved", "unlock"} /\ \A s \in Reps : s # r => rep'[s] = rep[s]
          /\ rep'[r].at = "moved" \/ UNCHANGED moved
      BY <1>0, <1>3, Hop DEF MoveIn, Working
    <2>2. Calm /\ Calm'
      BY <1>0, <1>a, <1>3, <2>1 DEF MoveIn, Calm, Locked
    <2>3. Shown' = Shown
      BY <1>3, <2>2, ShownCalm, ShownCalmNext DEF MoveIn, IInv
    <2>4. moved[r] = {} /\ \A s \in Reps : s # r => moved'[s] = moved[s]
      BY <1>0, <1>3 DEF MoveIn, IInv, MovedInv
    <2>5. Rest' = Rest
      BY <1>3, <2>1, <2>4, SameRest DEF MoveIn, Committing
    <2> QED
      BY <1>3, <2>3, <2>5 DEF MoveIn, Quiet, Switching!svars
  <1>4. ASSUME ListOld(r) PROVE Quiet
    <2>1. /\ \A s \in Reps : s # r => rep'[s] = rep[s]
          /\ \/ rep'[r].at = "emptying" /\ before' = content /\ UNCHANGED moved
             \/ rep'[r].at = "unlock" /\ moved' = [moved EXCEPT ![r] = {}]
      BY <1>0, <1>4, Hop DEF ListOld, Working
    <2>2. Calm
      BY <1>0, <1>a, <1>4 DEF ListOld, Calm, Locked
    <2>3. Shown' = Shown
      <3>1. Shown = content
        BY <2>2, ShownCalm DEF IInv
      <3>2. CASE rep'[r].at = "emptying" /\ before' = content
        BY <1>0, <1>a, <1>4, <3>1, <3>2 DEF ListOld, Shown, Locked
      <3>3. CASE rep'[r].at = "unlock"
        BY <1>0, <1>a, <1>4, <3>1, <3>3, ShownCalmNext DEF ListOld, Calm, Locked
      <3> QED
        BY <2>1, <3>2, <3>3
    <2>4. Rest' = Rest
      BY <1>0, <1>4, <2>1, SameRest DEF ListOld, Committing
    <2> QED
      BY <1>4, <2>3, <2>4 DEF ListOld, Quiet, Switching!svars
  <1>5. ASSUME NEW x \in Paths \cup Transfers, RemoveOld(r, x) PROVE Quiet
    <2>1. Shown' = Shown
      BY <1>0, <1>a, <1>5 DEF RemoveOld, Shown, Locked
    <2>2. Rest' = Rest
      BY <1>5, SameRest DEF RemoveOld, Committing
    <2> QED
      BY <1>5, <2>1, <2>2 DEF RemoveOld, Quiet, Switching!svars
  <1>6. ASSUME Fill(r) PROVE Switching!Switch(r)
    <2>1. rep'[r].at = "filling" /\ \A s \in Reps : s # r => rep'[s] = rep[s]
      BY <1>0, <1>6, Hop DEF Fill, Working
    <2>2. \A p \in Paths : content[p] = Absent
      BY <1>6 DEF Fill, IInv, EmptyInv
    <2>3. Shown' = [p \in Paths |-> IF p \in moved[r] THEN r ELSE Absent]
      BY <1>0, <1>a, <1>6, <2>1, <2>2 DEF Fill, Shown, Locked
    <2>4. Rest' = Rest
      BY <1>6, <2>1, SameRest DEF Fill, Committing
    <2>5. live /\ lock \in {Unlocked, r}
      BY <1>6 DEF Fill, IInv, GoingInv, Going
    <2> QED
      BY <1>0, <1>6, <2>3, <2>4, <2>5 DEF Fill, Switching!Switch, Switching!MayGoIn, Switching!Only
  <1>7. ASSUME NEW p \in Paths, Place(r, p) PROVE Quiet
    <2>1. Shown' = Shown
      BY <1>0, <1>a, <1>7 DEF Place, Shown, Locked
    <2>2. Rest' = Rest
      BY <1>0, <1>7, SameRest DEF Place, Committing
    <2> QED
      BY <1>7, <2>1, <2>2 DEF Place, Quiet, Switching!svars
  <1>8. ASSUME Break(r) PROVE Switching!BreakEmptying(r) \/ Switching!BreakFilling(r)
    <2>1. rep'[r].at = "unlock" /\ \A s \in Reps : s # r => rep'[s] = rep[s]
      BY <1>0, <1>8, Hop DEF Break, Working
    <2>2. siteLock = r /\ Committing(r) /\ Calm'
      BY <1>0, <1>a, <1>8, <2>1 DEF Break, Locked, Committing, Calm
    <2>3. \A s \in Reps : ~Committing(s)'
      BY <2>1, <2>2 DEF Committing, IInv, LockInv, Locked
    <2> QED
      BY <1>8, <2>2, <2>3, BrokenCommit DEF Break
  <1>9. ASSUME Landed(r) PROVE Quiet
    <2>1. rep'[r].at = "unlock" /\ \A s \in Reps : s # r => rep'[s] = rep[s]
      BY <1>0, <1>9, Hop DEF Landed, Working
    <2>2. Shown' = content'
      BY <1>0, <1>a, <1>9, <2>1, ShownCalmNext DEF Landed, Calm, Locked
    <2>3. Shown = content
      BY <1>0, <1>a, <1>9 DEF Landed, Shown, Locked
    <2>4. Rest' = Rest
      BY <1>9, <2>1, SameRest DEF Landed, Committing
    <2> QED
      BY <1>9, <2>2, <2>3, <2>4 DEF Landed, Quiet, Switching!svars
  <1>10. ASSUME Unlock(r) PROVE Quiet
    <2>1. rep'[r].at = "release" /\ \A s \in Reps : s # r => rep'[s] = rep[s]
      BY <1>0, <1>10, Hop DEF Unlock, Working
    <2>2. Calm /\ Calm'
      BY <1>0, <1>a, <1>10, <2>1 DEF Unlock, Calm, Locked
    <2>3. Shown' = Shown
      BY <1>10, <2>2, ShownCalm, ShownCalmNext DEF Unlock, IInv
    <2>4. Rest' = Rest
      BY <1>10, <2>1, SameRest DEF Unlock, Committing
    <2> QED
      BY <1>10, <2>3, <2>4 DEF Unlock, Quiet, Switching!svars
  <1>11. ASSUME Release(r) PROVE Quiet
    <2>1. rep'[r].at = "ended" /\ \A s \in Reps : s # r => rep'[s] = rep[s]
      BY <1>0, <1>11, Over DEF Release
    <2> QED
      BY <1>11, <2>1, OutsideIsQuiet DEF Release, Locked
  <1> QED
    BY <1>0, <1>1, <1>2, <1>3, <1>4, <1>5, <1>6, <1>7, <1>8, <1>9, <1>10, <1>11
       DEF Quiet, Switching!Next

\* A replacement's steps before its commit and after it.
LEMMA BeforeStep ==
    ASSUME IInv, TypeOK', NEW r \in Reps,
           \/ Gate(r) \/ Busy(r) \/ Begin(r) \/ (\E p \in Paths : StageFile(r, p))
           \/ StageFails(r) \/ LookAgain(r) \/ StopProject(r)
           \/ Abort(r) \/ AbortEnds(r) \/ StartAgain(r)
    PROVE  [Switching!Next]_(Switching!svars)
  <1> USE DEF commitVars, metaVars
  <1>0. /\ rep \in [Reps -> RepRecords] /\ rep' \in [Reps -> RepRecords]
        /\ moved \in [Reps -> SUBSET Paths]
    BY DEF IInv, TypeOK
  <1>1. ASSUME StageFails(r) PROVE Quiet
    <2>1. /\ rep'[r].at \in {"failed", "fresh", "abort"}
          /\ \A s \in Reps : s # r => rep'[s] = rep[s]
      BY <1>1, <1>0, Hop DEF StageFails, Working
    <2> QED
      BY <1>1, <2>1, OutsideIsQuiet DEF StageFails, Locked
  <1>2. ASSUME LookAgain(r) PROVE Quiet
    <2>1. /\ rep'[r].at \in {"failed", "fresh", "abort"}
          /\ \A s \in Reps : s # r => rep'[s] = rep[s]
      BY <1>2, <1>0, Hop DEF LookAgain, Working
    <2> QED
      BY <1>2, <2>1, OutsideIsQuiet DEF LookAgain, Locked
  <1>3. ASSUME Abort(r) PROVE Quiet
    <2>1. /\ rep'[r].at \in {"failed", "fresh", "abort"}
          /\ \A s \in Reps : s # r => rep'[s] = rep[s]
      BY <1>3, <1>0, Hop DEF Abort, Working
    <2> QED
      BY <1>3, <2>1, OutsideIsQuiet DEF Abort, Locked
  <1>4. ASSUME Busy(r) PROVE Quiet
    BY <1>4, <1>0, Over, OutsideIsQuiet DEF Busy, Locked
  <1>5. ASSUME AbortEnds(r) PROVE Quiet
    BY <1>5, <1>0, Over, OutsideIsQuiet DEF AbortEnds, Locked
  <1>6. ASSUME Begin(r), UNCHANGED moved PROVE Quiet
    <2>1. /\ rep'[r].at \in {"ended", "staging"}
          /\ \A s \in Reps : s # r => rep'[s] = rep[s]
      BY <1>6, <1>0, Hop, Over DEF Begin, Working
    <2> QED
      BY <1>6, <2>1, OutsideIsQuiet DEF Begin, Locked
  <1>7. ASSUME Begin(r), moved' = [s \in Reps |-> {}] PROVE Switching!Discard
    <2>1. siteLock = Nobody
      <3>1. \A s \in Reps : rep[s].at \notin Claimed
        BY <1>7, ContentAssumption DEF Begin, IInv, ClaimInv
      <3> QED
        BY <3>1 DEF IInv, TypeOK, LockInv, Claimed
    <2>2. Shown' = Shown
      BY <1>7, <2>1 DEF Begin, Shown
    <2>3. Rest' = {}
      BY <1>7 DEF Rest
    <2> QED
      BY <1>7, <2>2, <2>3 DEF Begin, Switching!Discard
  <1>8. ASSUME StopProject(r) PROVE Quiet
    <2>1. /\ rep'[r].at \in {"stopped", "failed"}
          /\ \A s \in Reps : s # r => rep'[s] = rep[s]
      <3>1. CASE live
        BY <1>8, <1>0, <3>1 DEF StopProject, RepRecords
      <3>2. CASE ~live
        BY <1>8, <1>0, <3>2, Hop DEF StopProject, Working
      <3> QED
        BY <3>1, <3>2
    <2> QED
      BY <1>8, <2>1, OutsideIsQuiet DEF StopProject, Locked
  <1>9. ASSUME Gate(r) PROVE Quiet
    <2>1. rep'[r].at = "gate" /\ \A s \in Reps : s # r => rep'[s] = rep[s]
      BY <1>9, <1>0 DEF Gate, RepRecords
    <2> QED
      BY <1>9, <2>1, OutsideIsQuiet DEF Gate, Locked
  <1>10. ASSUME StartAgain(r) PROVE Quiet
    <2>1. rep'[r].at = rep[r].at /\ \A s \in Reps : s # r => rep'[s] = rep[s]
      BY <1>10, <1>0 DEF StartAgain, RepRecords
    <2> QED
      BY <1>10, <2>1, OutsideIsQuiet DEF StartAgain, Locked
  <1>11. ASSUME NEW p \in Paths, StageFile(r, p) PROVE Quiet
    <2>1. rep'[r].at = rep[r].at /\ \A s \in Reps : s # r => rep'[s] = rep[s]
      BY <1>11, <1>0 DEF StageFile, RepRecords
    <2> QED
      BY <1>11, <2>1, OutsideIsQuiet DEF StageFile, Locked
  <1>12. ASSUME Begin(r) PROVE UNCHANGED moved \/ moved' = [s \in Reps |-> {}]
    BY <1>12 DEF Begin
  <1> QED
    BY <1>1, <1>2, <1>3, <1>4, <1>5, <1>6, <1>7, <1>8, <1>9, <1>10, <1>11, <1>12
       DEF Quiet, Switching!Next

\* Everyone else's steps.
LEMMA OtherStep ==
    ASSUME IInv, TypeOK',
           \/ \E f \in Transfers \cup Sessions : FileStep(f)
           \/ \E u \in Uploads : Upload(u)
           \/ \E p \in Paths : DeleteFile(p) \/ \E q \in Paths : Rename(p, q)
           \/ SetLock \/ HandOver \/ Delete
    PROVE  [Switching!Next]_(Switching!svars)
  <1> USE DEF commitVars, metaVars
  <1>0. /\ rep \in [Reps -> RepRecords] /\ moved \in [Reps -> SUBSET Paths]
        /\ content \in [Paths -> Writers \cup {Old, Absent}]
        /\ before \in [Paths -> Writers \cup {Old, Absent}]
        /\ file \in [Transfers \cup Sessions -> FileRecords]
    BY DEF IInv, TypeOK
  <1>1. ASSUME NEW u \in Uploads, Upload(u) PROVE u \in Writers /\ Switching!Write(u)
    <2>1. Shown = content /\ Shown' = content' /\ Rest' = Rest
      BY <1>1, FreeStep DEF Upload
    <2> QED
      BY <1>1, <2>1 DEF Upload, Writers, Switching!Write
  <1>2. ASSUME NEW p \in Paths, DeleteFile(p) PROVE Switching!Remove
    <2>1. Shown = content /\ Shown' = content' /\ Rest' = Rest
      BY <1>2, FreeStep DEF DeleteFile
    <2>2. content' = [x \in Paths |-> IF x \in {p} THEN Absent ELSE content[x]]
      BY <1>0, <1>2 DEF DeleteFile
    <2> QED
      BY <1>2, <2>1, <2>2 DEF DeleteFile, Switching!Remove, Switching!Without
  <1>3. ASSUME NEW p \in Paths, NEW q \in Paths, Rename(p, q) PROVE Switching!Move(p, q)
    <2>1. Shown = content /\ Shown' = content' /\ Rest' = Rest
      BY <1>3, FreeStep DEF Rename
    <2> QED
      BY <1>3, <2>1 DEF Rename, Switching!Move
  <1>4. ASSUME SetLock PROVE Switching!SetLock
    <2>1. Shown = content /\ Shown' = content' /\ Rest' = Rest
      BY <1>4, FreeStep DEF SetLock
    <2> QED
      BY <1>4, <2>1 DEF SetLock, Switching!SetLock
  <1>5. ASSUME HandOver PROVE Quiet
    <2>1. Shown = content /\ Shown' = content' /\ Rest' = Rest
      BY <1>5, FreeStep DEF HandOver
    <2> QED
      BY <1>5, <2>1 DEF HandOver, Quiet, Switching!svars
  <1>6. ASSUME Delete PROVE Switching!Delete
    <2>1. Shown' = content'
      BY <1>6, ShownCalmNext DEF Delete, Calm
    <2>2. Rest' = {}
      BY <1>6 DEF Delete, Rest
    <2>3. content' = [p \in Paths |-> IF p \in Paths THEN Absent ELSE Shown[p]]
      BY <1>6 DEF Delete
    <2> QED
      BY <1>6, <2>1, <2>2, <2>3 DEF Delete, Switching!Delete, Switching!Without
  <1>7. ASSUME UNCHANGED <<content, before, moved, siteLock, rep, lock, live>> PROVE Quiet
    BY <1>7, SameRest DEF Quiet, Switching!svars, Shown, Committing
  <1>8. ASSUME NEW f \in Transfers, Close(f) PROVE Quiet \/ (f \in Writers /\ Switching!Write(f))
    <2>1. Shown = content /\ Shown' = content' /\ Rest' = Rest
      BY <1>8, FreeStep DEF Close
    <2>2. CASE UNCHANGED <<content, lock>>
      BY <1>8, <2>1, <2>2 DEF Close, Quiet, Switching!svars
    <2>3. CASE /\ live /\ lock = Unlocked /\ file[f].at = "open"
               /\ content' = [content EXCEPT ![file[f].path] = f]
               /\ lock' \in {Unlocked, f}
      <3> DEFINE P == {file[f].path}
      <3>1. P \in SUBSET Paths
        BY <1>8, <2>3 DEF IInv, FileInv
      <3>2. content' = [p \in Paths |-> IF p \in P THEN f ELSE content[p]]
        BY <1>0, <2>3, <3>1
      <3> HIDE DEF P
      <3> QED
        BY <1>8, <2>1, <2>3, <3>1, <3>2 DEF Close, Writers, Switching!Write
    <2> QED
      BY <1>8, <2>2, <2>3 DEF Close
  <1>9. ASSUME NEW f \in Sessions, FtpRemove(f) PROVE Quiet \/ Switching!Remove
    <2> DEFINE q == file[f].path
    <2>1. q \in Paths
      BY <1>9 DEF FtpRemove, IInv, FileInv
    <2>2. CASE content[q] = Absent
      BY <1>7, <1>9, <2>2 DEF FtpRemove
    <2>3. CASE content[q] # Absent
      <3> HIDE DEF q
      <3>1. /\ content' = [content EXCEPT ![q] = Absent]
            /\ before' = [before EXCEPT ![q] = Absent]
            /\ UNCHANGED <<moved, siteLock, rep, lock, live>>
        BY <1>9, <2>3 DEF FtpRemove, q
      <3>2. Rest' = Rest
        BY <3>1, SameRest DEF Committing
      <3>3. Shown' = [p \in Paths |-> IF p \in {q} THEN Absent ELSE Shown[p]]
        <4>1. CASE siteLock # Nobody /\ rep[siteLock].at = "emptying"
          BY <1>0, <3>1, <4>1 DEF Shown
        <4>2. CASE siteLock # Nobody /\ rep[siteLock].at = "filling"
          <5>1. q \notin moved[siteLock]
            BY <2>3, <4>2 DEF IInv, TypeOK, FillInv
          <5> QED
            BY <1>0, <2>1, <3>1, <4>2, <5>1 DEF Shown
        <4>3. CASE ~(siteLock # Nobody /\ rep[siteLock].at \in {"emptying", "filling"})
          BY <1>0, <3>1, <4>3 DEF Shown
        <4> QED
          BY <4>1, <4>2, <4>3
      <3> QED
        BY <2>1, <3>1, <3>2, <3>3 DEF Switching!Remove, Switching!Without
    <2> QED
      BY <2>2, <2>3
  <1>10. ASSUME NEW f \in Transfers \cup Sessions, OpenStaged(f) \/ AskRemove(f) PROVE Quiet
    BY <1>7, <1>10 DEF OpenStaged, AskRemove
  <1>11. ASSUME NEW f \in Transfers \cup Sessions, FileStep(f)
         PROVE  Quiet \/ Switching!Remove \/ \E w \in Writers : Switching!Write(w)
    BY <1>8, <1>9, <1>10, <1>11 DEF FileStep, Close, FtpRemove
  <1> QED
    BY <1>1, <1>2, <1>3, <1>4, <1>5, <1>6, <1>11 DEF Quiet, Switching!Next

\* A crash breaks the commit it falls into, and shows nothing otherwise.
LEMMA CrashStep ==
    ASSUME IInv, TypeOK', Crash
    PROVE  [Switching!Next]_(Switching!svars)
  <1> USE DEF commitVars, metaVars
  <1>0. rep \in [Reps -> RepRecords] /\ siteLock \in Reps \cup {Nobody} /\ Reps \subseteq Writers
    BY DEF IInv, TypeOK, Writers
  <1>1. Calm' /\ \A s \in Reps : ~Committing(s)'
    BY DEF Crash, Calm, Committing, Unasked
  <1>2. \A s \in Reps : Committing(s) => siteLock = s
    BY DEF IInv, LockInv, Committing, Locked
  <1>3. CASE siteLock # Nobody /\ Committing(siteLock)
    <2>1. Switching!BreakEmptying(siteLock) \/ Switching!BreakFilling(siteLock)
      BY <1>0, <1>1, <1>3, BrokenCommit DEF Crash
    <2> QED
      BY <1>0, <1>3, <2>1 DEF Switching!Next
  <1>4. CASE ~(siteLock # Nobody /\ Committing(siteLock))
    <2>1. \A s \in Reps : ~Committing(s)
      BY <1>2, <1>4, ContentAssumption
    <2>2. Rest' = Rest
      BY <1>1, <2>1, SameRest DEF Crash
    <2>3. Calm
      BY <1>0, <1>4, <2>1 DEF Calm, Committing
    <2>4. Shown' = Shown
      BY <1>1, <2>3, ShownCalm, ShownCalmNext DEF IInv, Crash
    <2> QED
      BY <2>2, <2>4 DEF Crash, Switching!svars
  <1> QED
    BY <1>3, <1>4

\* The initial states are initial states of the switch.
LEMMA SwitchInit == Init => Switching!Init
  <1> SUFFICES ASSUME Init PROVE Switching!Init
    OBVIOUS
  <1>1. Shown = [p \in Paths |-> Old]
    BY DEF Init, Shown
  <1>2. Rest = {}
    BY DEF Init, Rest
  <1> QED
    BY <1>1, <1>2 DEF Init, Switching!Init

\* Every step is a step of the switch, or shows nothing of itself.
LEMMA SwitchStep == IInv /\ [Next]_vars => [Switching!Next]_(Switching!svars)
  <1> SUFFICES ASSUME IInv, [Next]_vars
               PROVE  [Switching!Next]_(Switching!svars)
    OBVIOUS
  <1>1. TypeOK'
    BY TypeStep DEF IInv
  <1>2. ASSUME UNCHANGED vars PROVE UNCHANGED Switching!svars
    BY <1>2, SameRest DEF vars, commitVars, metaVars, Switching!svars, Shown, Committing
  <1> QED
    BY <1>1, <1>2, BeforeStep, CommitStep, OtherStep, CrashStep DEF Next, RepStep, Goes

\* The content of a site, staged, emptied and filled entry by entry while others
\* remove files and the process may die, behaves as one that changes at once.
THEOREM Implements == Spec => ImplementsSwitch
  <1> QED
    BY SwitchInit, SwitchStep, Invariant, PTL DEF Spec, ImplementsSwitch, Switching!Spec

=============================================================================
