------------------------- MODULE PushRegistry_proofs -------------------------
(***************************************************************************)
(* Proofs about PushRegistry, for any number of pushes, operations and     *)
(* accounts.  Each section adds one layer of the inductive invariant and   *)
(* shows it with the layers before it.                                     *)
(***************************************************************************)
EXTENDS PushRegistry, TLAPS

(***************************************************************************)
(* Type correctness.                                                       *)
(***************************************************************************)

LEMMA InitType == Init => TypeOK
  <1> SUFFICES ASSUME Init PROVE TypeOK
    OBVIOUS
  <1>1. meta \in Metas
    BY DEF Init, Metas
  <1>2. snap \in [Pushes -> Snapshots]
    BY DEF Init, Snapshots, NoSnapshot, Roles
  <1>3. /\ exists \in BOOLEAN /\ repo \in BOOLEAN /\ log \in BOOLEAN /\ barred \in BOOLEAN
    BY DEF Init
  <1>4. /\ packs \in Nat
        /\ running \in Pushes \cup {NoOne}
        /\ cancelled \subseteq Pushes
        /\ siteLock \in Ops \cup {NoOne}
        /\ statsLock \in Ops \cup {NoOne}
    BY DEF Init
  <1>5. /\ push \in [Pushes -> PushSteps]
        /\ op \in [Ops -> OpSteps]
        /\ kind \in [Ops -> Kinds \cup {"none"}]
        /\ waitsFor \in [Ops -> Pushes \cup {NoOne}]
        /\ timedOut \in BOOLEAN
    BY DEF Init, PushSteps, OpSteps
  <1> QED
    BY <1>1, <1>2, <1>3, <1>4, <1>5 DEF TypeOK

LEMMA NextType == TypeOK /\ [Next]_vars => TypeOK'
  <1> SUFFICES ASSUME TypeOK, [Next]_vars PROVE TypeOK'
    OBVIOUS
  <1> USE ConstantsAssumption
          DEF TypeOK, Snapshots, NoSnapshot, Roles, PushSteps, OpSteps, Kinds, Removals,
              siteVars, regVars, pushVars, opVars
  <1>1. ASSUME NEW p \in Pushes, PushStep(p) PROVE TypeOK'
    <2>1. CASE Gate(p)
      BY <2>1 DEF Gate, Seen, Stands, Metas
    <2>2. CASE Register(p)
      BY <2>2 DEF Register
    <2>3. CASE RefuseRegistration(p)
      BY <2>3 DEF RefuseRegistration
    <2>4. CASE CheckUnlocked(p)
      BY <2>4 DEF CheckUnlocked, EndRegistration
    <2>5. CASE CheckStanding(p)
      BY <2>5 DEF CheckStanding, EndRegistration
    <2>6. CASE GitWrite(p)
      BY <2>6 DEF GitWrite
    <2>7. CASE GitExit(p)
      BY <2>7 DEF GitExit
    <2>8. CASE Record(p)
      BY <2>8 DEF Record
    <2>9. CASE End(p)
      BY <2>9 DEF End, EndRegistration
    <2> QED
      BY <1>1, <2>1, <2>2, <2>3, <2>4, <2>5, <2>6, <2>7, <2>8, <2>9 DEF PushStep
  <1>2. ASSUME NEW o \in Ops, OpStep(o) PROVE TypeOK'
    <2>1. CASE SetLock(o)
      BY <2>1 DEF SetLock, Begins, Metas
    <2>2. CASE GuardHold(o)
      BY <2>2 DEF GuardHold, Begins, Metas
    <2>3. CASE Transfer(o)
      BY <2>3 DEF Transfer, Begins, Metas
    <2>4. CASE RemoveAdmins(o)
      BY <2>4 DEF RemoveAdmins, Begins, Metas
    <2>5. CASE Delete(o)
      BY <2>5 DEF Delete, Begins
    <2>6. CASE DropRepo(o)
      BY <2>6 DEF DropRepo, Begins
    <2>7. CASE StopNothing(o)
      BY <2>7 DEF StopNothing, Proceed
    <2>8. CASE StopCancel(o)
      BY <2>8 DEF StopCancel
    <2>9. CASE WaitDone(o)
      BY <2>9 DEF WaitDone, Proceed
    <2>10. CASE WaitTimeout(o)
      BY <2>10 DEF WaitTimeout, Proceed
    <2>11. CASE TakeStats(o)
      BY <2>11 DEF TakeStats
    <2>12. CASE RemoveSite(o)
      BY <2>12 DEF RemoveSite, Release
    <2>13. CASE RemoveRepo(o)
      BY <2>13 DEF RemoveRepo, Release
    <2> QED
      BY <1>2, <2>1, <2>2, <2>3, <2>4, <2>5, <2>6, <2>7, <2>8, <2>9, <2>10, <2>11, <2>12, <2>13
         DEF OpStep
  <1>3. CASE Unlock
    BY <1>3 DEF Unlock, MetaOnly, Metas
  <1>4. CASE AddAdmin
    BY <1>4 DEF AddAdmin, MetaOnly, Metas
  <1>5. CASE RotatePassword
    BY <1>5 DEF RotatePassword, MetaOnly, Metas
  <1>6. CASE UNCHANGED vars
    BY <1>6 DEF vars
  <1> QED
    BY <1>1, <1>2, <1>3, <1>4, <1>5, <1>6 DEF Next

\* Every variable keeps its type, whatever the pushes and the operations are.
THEOREM TypeCorrect == Spec => []TypeOK
  <1> QED
    BY InitType, NextType, PTL DEF Spec

(***************************************************************************)
(* The registry: at most one push is past the gate.                        *)
(***************************************************************************)

\* The registry names the push that is past the gate, and only that push; a
\* cancelled push is the registered one, and so is one that is waited for.
RegistryInv ==
    /\ OneWriter
    /\ running # NoOne => push[running] \notin {"idle", "gate"}
    /\ \A p \in cancelled : running = p
    /\ \A o \in Ops : waitsFor[o] # NoOne => op[o] = "wait" /\ running = waitsFor[o]

LEMMA InitRegistry == Init => RegistryInv
  BY DEF Init, RegistryInv, OneWriter

LEMMA NextRegistry == TypeOK /\ RegistryInv /\ [Next]_vars => RegistryInv'
  <1> SUFFICES ASSUME TypeOK, RegistryInv, [Next]_vars PROVE RegistryInv'
    OBVIOUS
  <1> USE ConstantsAssumption DEF TypeOK, RegistryInv, OneWriter, siteVars, regVars, pushVars, opVars
  <1>1. ASSUME NEW p \in Pushes, PushStep(p) PROVE RegistryInv'
    <2>1. CASE EndRegistration(p) /\ push[p] \notin {"idle", "gate"}
      BY <2>1 DEF EndRegistration
    <2>2. CASE Gate(p) \/ RefuseRegistration(p)
      BY <2>2 DEF Gate, RefuseRegistration
    <2>3. CASE Register(p)
      BY <2>3 DEF Register
    <2>4. CASE CheckUnlocked(p) \/ CheckStanding(p)
      BY <2>1, <2>4 DEF CheckUnlocked, CheckStanding
    <2>5. CASE GitWrite(p) \/ GitExit(p) \/ Record(p)
      BY <2>5 DEF GitWrite, GitExit, Record
    <2>6. CASE End(p)
      BY <2>1, <2>6 DEF End
    <2> QED
      BY <1>1, <2>2, <2>3, <2>4, <2>5, <2>6 DEF PushStep
  <1>2. ASSUME NEW o \in Ops, OpStep(o) PROVE RegistryInv'
    <2>1. CASE \E k \in Kinds : Begins(o, k)
      BY <2>1 DEF Begins
    <2>2. CASE SetLock(o) \/ GuardHold(o) \/ Transfer(o) \/ RemoveAdmins(o) \/ Delete(o) \/ DropRepo(o)
      BY <2>1, <2>2 DEF SetLock, GuardHold, Transfer, RemoveAdmins, Delete, DropRepo, Kinds
    <2>3. CASE StopNothing(o) \/ StopCancel(o)
      BY <2>3 DEF StopNothing, StopCancel, Proceed
    <2>4. CASE WaitDone(o) \/ WaitTimeout(o)
      BY <2>4 DEF WaitDone, WaitTimeout, Proceed
    <2>5. CASE TakeStats(o)
      BY <2>5 DEF TakeStats
    <2>6. CASE RemoveSite(o) \/ RemoveRepo(o)
      BY <2>6 DEF RemoveSite, RemoveRepo, Release
    <2> QED
      BY <1>2, <2>2, <2>3, <2>4, <2>5, <2>6 DEF OpStep
  <1>3. CASE Unlock \/ AddAdmin \/ RotatePassword
    BY <1>3 DEF Unlock, AddAdmin, RotatePassword, MetaOnly
  <1>4. CASE UNCHANGED vars
    BY <1>4 DEF vars
  <1> QED
    BY <1>1, <1>2, <1>3, <1>4 DEF Next

\* BeginGitWrite admits one push at a time: the push past its registration is
\* the one the registry names, however many push and whatever stops them.
THEOREM OneWriterHolds == Spec => []OneWriter
  <1>1. TypeOK /\ RegistryInv /\ [Next]_vars => (TypeOK /\ RegistryInv)'
    BY NextType, NextRegistry
  <1>2. RegistryInv => OneWriter
    BY DEF RegistryInv
  <1> QED
    BY InitType, InitRegistry, <1>1, <1>2, PTL DEF Spec

(***************************************************************************)
(* Removals: what a delete and a "Delete repository" hold on to.           *)
(***************************************************************************)

\* A removal keeps the site lock and the bar from its first step to its last,
\* so the site stays unlocked under a "Delete repository"; once it has looked
\* at the registry, whatever is registered has been cancelled.
RemovalInv ==
    \A o \in Ops :
        /\ op[o] \in {"stats", "act"} => kind[o] \in Removals
        /\ op[o] = "idle" => kind[o] = "none"
        /\ kind[o] \in Removals =>
              /\ siteLock = o /\ barred /\ exists
              /\ kind[o] = "dropRepo" => ~meta.locked
              /\ op[o] # "stop" /\ running # NoOne => running \in cancelled

LEMMA InitRemoval == Init => RemovalInv
  BY DEF Init, RemovalInv, Removals

LEMMA NextRemoval == TypeOK /\ RegistryInv /\ RemovalInv /\ [Next]_vars => RemovalInv'
  <1> SUFFICES ASSUME TypeOK, RegistryInv, RemovalInv, [Next]_vars PROVE RemovalInv'
    OBVIOUS
  <1> USE ConstantsAssumption
          DEF TypeOK, Metas, RegistryInv, OneWriter, RemovalInv, Removals, siteVars, regVars, pushVars, opVars
  <1>1. ASSUME NEW p \in Pushes, PushStep(p) PROVE RemovalInv'
    <2>1. CASE EndRegistration(p) /\ push[p] \notin {"idle", "gate"}
      BY <2>1 DEF EndRegistration
    <2>2. CASE Gate(p) \/ RefuseRegistration(p)
      BY <2>2 DEF Gate, RefuseRegistration
    <2>3. CASE Register(p)
      BY <2>3 DEF Register
    <2>4. CASE CheckUnlocked(p) \/ CheckStanding(p)
      BY <2>1, <2>4 DEF CheckUnlocked, CheckStanding
    <2>5. CASE GitWrite(p) \/ GitExit(p) \/ Record(p)
      BY <2>5 DEF GitWrite, GitExit, Record
    <2>6. CASE End(p)
      BY <2>1, <2>6 DEF End
    <2> QED
      BY <1>1, <2>2, <2>3, <2>4, <2>5, <2>6 DEF PushStep
  <1>2. ASSUME NEW o \in Ops, OpStep(o) PROVE RemovalInv'
    <2>1. CASE SetLock(o) \/ GuardHold(o)
      BY <2>1 DEF SetLock, GuardHold, Begins
    <2>2. CASE Transfer(o) \/ RemoveAdmins(o)
      BY <2>2 DEF Transfer, RemoveAdmins, Begins
    <2>3. CASE Delete(o) \/ DropRepo(o)
      BY <2>3 DEF Delete, DropRepo, Begins
    <2>4. CASE StopNothing(o)
      BY <2>4 DEF StopNothing, Proceed
    <2>5. CASE StopCancel(o)
      BY <2>5 DEF StopCancel
    <2>6. CASE WaitDone(o) \/ WaitTimeout(o)
      BY <2>6 DEF WaitDone, WaitTimeout, Proceed
    <2>7. CASE TakeStats(o)
      BY <2>7 DEF TakeStats
    <2>8. CASE RemoveSite(o) \/ RemoveRepo(o)
      BY <2>8 DEF RemoveSite, RemoveRepo, Release
    <2> QED
      BY <1>2, <2>1, <2>2, <2>3, <2>4, <2>5, <2>6, <2>7, <2>8 DEF OpStep
  <1>3. CASE Unlock \/ AddAdmin \/ RotatePassword
    BY <1>3 DEF Unlock, AddAdmin, RotatePassword, MetaOnly
  <1>4. CASE UNCHANGED vars
    BY <1>4 DEF vars
  <1> QED
    BY <1>1, <1>2, <1>3, <1>4 DEF Next

(***************************************************************************)
(* Standing: what the push was let in with still holds.                    *)
(***************************************************************************)

\* What a push in flight read at the gate: an edit password names its owner
\* (a transfer always makes a fresh one), an owner reads its own name.
SnapFits(p) ==
    /\ snap[p].pw <= meta.pw
    /\ snap[p].pw = meta.pw => snap[p].owner = meta.owner
    /\ snap[p].role = "owner" => snap[p].account = snap[p].owner
    /\ snap[p].role # "none"
SnapInv == \A p \in Pushes : push[p] # "idle" => SnapFits(p)

\* A registered push that has found the site unlocked is covered: the site
\* still is, or the push is cancelled, or somebody is about to look for it.
Covered(p) == p \in cancelled \/ \E o \in Ops : op[o] = "stop"
CheckedInv ==
    \A p \in Pushes : push[p] = "checked" => (exists /\ ~meta.locked) \/ Covered(p)

StandingInv == SnapInv /\ CheckedInv /\ RunningIsEntitled

LEMMA InitStanding == Init => StandingInv
  BY DEF Init, StandingInv, SnapInv, SnapFits, CheckedInv, RunningIsEntitled

LEMMA NextSnap == TypeOK /\ SnapInv /\ [Next]_vars => SnapInv'
  <1> SUFFICES ASSUME TypeOK, SnapInv, [Next]_vars,
                      NEW q \in Pushes, push'[q] # "idle"
               PROVE  SnapFits(q)'
    BY DEF SnapInv
  <1> USE ConstantsAssumption
          DEF TypeOK, Metas, Snapshots, SnapInv, SnapFits, siteVars, regVars, pushVars, opVars
  <1>1. ASSUME NEW p \in Pushes, PushStep(p) PROVE SnapFits(q)'
    <2>1. CASE EndRegistration(p) /\ push[p] # "idle"
      BY <2>1 DEF EndRegistration
    <2>2. CASE Gate(p)
      BY <2>2 DEF Gate, Seen, Stands, Roles
    <2>3. CASE RefuseRegistration(p) \/ Register(p)
      BY <2>3 DEF RefuseRegistration, Register
    <2>4. CASE CheckUnlocked(p) \/ CheckStanding(p)
      BY <2>1, <2>4 DEF CheckUnlocked, CheckStanding
    <2>5. CASE GitWrite(p) \/ GitExit(p) \/ Record(p)
      BY <2>5 DEF GitWrite, GitExit, Record
    <2>6. CASE End(p)
      BY <2>1, <2>6 DEF End
    <2> QED
      BY <1>1, <2>2, <2>3, <2>4, <2>5, <2>6 DEF PushStep
  <1>2. ASSUME NEW o \in Ops, OpStep(o) PROVE SnapFits(q)'
    <2>1. CASE SetLock(o) \/ GuardHold(o)
      BY <2>1 DEF SetLock, GuardHold, Begins
    <2>2. CASE Transfer(o)
      BY <2>2 DEF Transfer, Begins
    <2>3. CASE RemoveAdmins(o)
      BY <2>3 DEF RemoveAdmins, Begins
    <2>4. CASE Delete(o) \/ DropRepo(o)
      BY <2>4 DEF Delete, DropRepo, Begins
    <2>5. CASE StopNothing(o) \/ StopCancel(o) \/ WaitDone(o) \/ WaitTimeout(o) \/ TakeStats(o)
      BY <2>5 DEF StopNothing, StopCancel, WaitDone, WaitTimeout, TakeStats
    <2>6. CASE RemoveSite(o) \/ RemoveRepo(o)
      BY <2>6 DEF RemoveSite, RemoveRepo, Release
    <2> QED
      BY <1>2, <2>1, <2>2, <2>3, <2>4, <2>5, <2>6 DEF OpStep
  <1>3. CASE Unlock \/ AddAdmin \/ RotatePassword
    BY <1>3 DEF Unlock, AddAdmin, RotatePassword, MetaOnly
  <1>4. CASE UNCHANGED vars
    BY <1>4 DEF vars
  <1> QED
    BY <1>1, <1>2, <1>3, <1>4 DEF Next

LEMMA NextChecked ==
    TypeOK /\ RegistryInv /\ RemovalInv /\ CheckedInv /\ [Next]_vars => CheckedInv'
  <1> SUFFICES ASSUME TypeOK, RegistryInv, RemovalInv, CheckedInv, [Next]_vars PROVE CheckedInv'
    OBVIOUS
  <1> USE ConstantsAssumption
          DEF TypeOK, Metas, RegistryInv, OneWriter, RemovalInv, Removals, CheckedInv, Covered,
              siteVars, regVars, pushVars, opVars
  <1>1. ASSUME NEW p \in Pushes, PushStep(p) PROVE CheckedInv'
    <2>1. CASE EndRegistration(p) /\ push[p] \notin {"idle", "gate"}
      BY <2>1 DEF EndRegistration
    <2>2. CASE Gate(p) \/ RefuseRegistration(p) \/ Register(p)
      BY <2>2 DEF Gate, RefuseRegistration, Register
    <2>3. CASE CheckUnlocked(p) \/ CheckStanding(p)
      BY <2>1, <2>3 DEF CheckUnlocked, CheckStanding
    <2>4. CASE GitWrite(p) \/ GitExit(p) \/ Record(p)
      BY <2>4 DEF GitWrite, GitExit, Record
    <2>5. CASE End(p)
      BY <2>1, <2>5 DEF End
    <2> QED
      BY <1>1, <2>2, <2>3, <2>4, <2>5 DEF PushStep
  <1>2. ASSUME NEW o \in Ops, OpStep(o) PROVE CheckedInv'
    <2>1. CASE \E k \in Kinds : Begins(o, k)
      BY <2>1 DEF Begins
    <2>2. CASE SetLock(o) \/ GuardHold(o) \/ Transfer(o) \/ RemoveAdmins(o) \/ Delete(o) \/ DropRepo(o)
      BY <2>1, <2>2 DEF SetLock, GuardHold, Transfer, RemoveAdmins, Delete, DropRepo, Kinds
    <2>3. CASE StopNothing(o)
      BY <2>3 DEF StopNothing, Proceed
    <2>4. CASE StopCancel(o)
      BY <2>4 DEF StopCancel
    <2>5. CASE WaitDone(o) \/ WaitTimeout(o)
      BY <2>5 DEF WaitDone, WaitTimeout, Proceed
    <2>6. CASE TakeStats(o)
      BY <2>6 DEF TakeStats
    <2>7. CASE RemoveSite(o) \/ RemoveRepo(o)
      BY <2>7 DEF RemoveSite, RemoveRepo, Release
    <2> QED
      BY <1>2, <2>2, <2>3, <2>4, <2>5, <2>6, <2>7 DEF OpStep
  <1>3. CASE Unlock \/ AddAdmin \/ RotatePassword
    BY <1>3 DEF Unlock, AddAdmin, RotatePassword, MetaOnly
  <1>4. CASE UNCHANGED vars
    BY <1>4 DEF vars
  <1> QED
    BY <1>1, <1>2, <1>3, <1>4 DEF Next

LEMMA NextRunning ==
    TypeOK /\ RegistryInv /\ RemovalInv /\ StandingInv /\ [Next]_vars => RunningIsEntitled'
  <1> SUFFICES ASSUME TypeOK, RegistryInv, RemovalInv, StandingInv, [Next]_vars,
                      NEW q \in Pushes, push'[q] = "git"
               PROVE  (Entitled(q) \/ Covered(q))'
    BY DEF RunningIsEntitled, Covered
  <1> USE ConstantsAssumption
          DEF TypeOK, Metas, Snapshots, RegistryInv, OneWriter, RemovalInv, Removals, StandingInv,
              RunningIsEntitled, Covered, Entitled, siteVars, regVars, pushVars, opVars
  <1>1. ASSUME NEW p \in Pushes, PushStep(p) PROVE (Entitled(q) \/ Covered(q))'
    <2>1. CASE EndRegistration(p) /\ push[p] \notin {"idle", "gate"}
      BY <2>1 DEF EndRegistration
    <2>2. CASE Gate(p) \/ RefuseRegistration(p) \/ Register(p)
      <3>1. CASE Gate(p)
        <4>1. \E s : snap' = [snap EXCEPT ![p] = s]
          BY <3>1 DEF Gate
        <4> QED
          BY <3>1, <4>1 DEF Gate
      <3>2. CASE RefuseRegistration(p) \/ Register(p)
        BY <3>2 DEF RefuseRegistration, Register
      <3> QED
        BY <2>2, <3>1, <3>2
    <2>3. CASE CheckUnlocked(p)
      BY <2>1, <2>3 DEF CheckUnlocked
    <2>4. CASE CheckStanding(p)
      BY <2>1, <2>4 DEF CheckStanding, Holds, CheckedInv, SnapInv, SnapFits
    <2>5. CASE GitWrite(p) \/ GitExit(p) \/ Record(p)
      BY <2>5 DEF GitWrite, GitExit, Record
    <2>6. CASE End(p)
      BY <2>1, <2>6 DEF End
    <2> QED
      BY <1>1, <2>2, <2>3, <2>4, <2>5, <2>6 DEF PushStep
  <1>2. ASSUME NEW o \in Ops, OpStep(o) PROVE (Entitled(q) \/ Covered(q))'
    <2>1. CASE \E k \in Kinds : Begins(o, k)
      BY <2>1 DEF Begins
    <2>2. CASE SetLock(o) \/ GuardHold(o) \/ Transfer(o) \/ RemoveAdmins(o) \/ Delete(o) \/ DropRepo(o)
      BY <2>1, <2>2 DEF SetLock, GuardHold, Transfer, RemoveAdmins, Delete, DropRepo, Kinds
    <2>3. CASE StopNothing(o)
      BY <2>3 DEF StopNothing, Proceed
    <2>4. CASE StopCancel(o)
      BY <2>4 DEF StopCancel
    <2>5. CASE WaitDone(o) \/ WaitTimeout(o)
      BY <2>5 DEF WaitDone, WaitTimeout, Proceed
    <2>6. CASE TakeStats(o)
      BY <2>6 DEF TakeStats
    <2>7. CASE RemoveSite(o) \/ RemoveRepo(o)
      BY <2>7 DEF RemoveSite, RemoveRepo, Release
    <2> QED
      BY <1>2, <2>2, <2>3, <2>4, <2>5, <2>6, <2>7 DEF OpStep
  <1>3. CASE Unlock \/ AddAdmin \/ RotatePassword
    BY <1>3 DEF Unlock, AddAdmin, RotatePassword, MetaOnly
  <1>4. CASE UNCHANGED vars
    BY <1>4 DEF vars
  <1> QED
    BY <1>1, <1>2, <1>3, <1>4 DEF Next

IInv == TypeOK /\ RegistryInv /\ RemovalInv /\ StandingInv

LEMMA Inductive == IInv /\ [Next]_vars => IInv'
  BY NextType, NextRegistry, NextRemoval, NextSnap, NextChecked, NextRunning DEF IInv, StandingInv

LEMMA Reachable == Spec => []IInv
  <1>1. Init => IInv
    BY InitType, InitRegistry, InitRemoval, InitStanding DEF IInv
  <1> QED
    BY <1>1, Inductive, PTL DEF Spec

\* A git process running for a push rests on a right that still stands, or it
\* has been cancelled or is about to be: registered first, meta.json read
\* second, against written first, registry read second.  It holds even if a
\* cancelled git outlives gitStopWait.
THEOREM NoPushOutlivesItsRight == Spec => []RunningIsEntitled
  <1>1. IInv => RunningIsEntitled
    BY DEF IInv, StandingInv
  <1> QED
    BY Reachable, <1>1, PTL

(***************************************************************************)
(* As long as every cancelled git ends within gitStopWait: removed is      *)
(* removed, and a locked repository is frozen.                             *)
(***************************************************************************)

\* A removal that has seen its push end has the registry to itself.
Empty(o) ==
    kind[o] \in Removals /\ (op[o] \in {"stats", "act"} \/ (op[o] = "wait" /\ waitsFor[o] = NoOne))
        => running = NoOne

\* Somebody who locked the site is about to stop push p, or waits for its end.
LockStops(p) ==
    \E o \in Ops : /\ kind[o] \in {"lock", "hold"}
                   /\ op[o] = "stop" \/ (op[o] = "wait" /\ waitsFor[o] = p)

Patient ==
    /\ \A o \in Ops : Empty(o)
    /\ ~exists => ~repo /\ ~log /\ \A p \in Pushes : push[p] \notin {"checked", "git", "record"}
    /\ meta.locked => \A p \in Pushes : push[p] \in {"checked", "git"} => LockStops(p)

PatientInv == ~timedOut => Patient

LEMMA InitPatient == Init => PatientInv
  BY DEF Init, PatientInv, Patient, Empty, Removals

LEMMA NextPatient == IInv /\ PatientInv /\ [Next]_vars => PatientInv'
  <1> SUFFICES ASSUME IInv, PatientInv, [Next]_vars, ~timedOut' PROVE Patient'
    BY DEF PatientInv
  <1> USE ConstantsAssumption
          DEF IInv, TypeOK, Metas, RegistryInv, OneWriter, RemovalInv, Removals, PatientInv, Patient, Empty,
              LockStops, siteVars, regVars, pushVars, opVars
  <1>1. ASSUME NEW p \in Pushes, PushStep(p) PROVE Patient'
    <2>1. CASE EndRegistration(p) /\ push[p] \notin {"idle", "gate"}
      BY <2>1 DEF EndRegistration
    <2>2. CASE Gate(p) \/ RefuseRegistration(p)
      BY <2>2 DEF Gate, RefuseRegistration
    <2>3. CASE Register(p)
      BY <2>3 DEF Register
    <2>4. CASE CheckUnlocked(p) \/ CheckStanding(p)
      BY <2>1, <2>4 DEF CheckUnlocked, CheckStanding
    <2>5. CASE GitWrite(p) \/ GitExit(p) \/ Record(p)
      BY <2>5 DEF GitWrite, GitExit, Record
    <2>6. CASE End(p)
      BY <2>1, <2>6 DEF End
    <2> QED
      BY <1>1, <2>2, <2>3, <2>4, <2>5, <2>6 DEF PushStep
  <1>2. ASSUME NEW o \in Ops, OpStep(o) PROVE Patient'
    <2>1. CASE SetLock(o) \/ GuardHold(o)
      BY <2>1 DEF SetLock, GuardHold, Begins
    <2>2. CASE Transfer(o) \/ RemoveAdmins(o)
      BY <2>2 DEF Transfer, RemoveAdmins, Begins
    <2>3. CASE Delete(o) \/ DropRepo(o)
      BY <2>3 DEF Delete, DropRepo, Begins
    <2>4. CASE StopNothing(o)
      BY <2>4 DEF StopNothing, Proceed
    <2>5. CASE StopCancel(o)
      BY <2>5 DEF StopCancel
    <2>6. CASE WaitDone(o)
      BY <2>6 DEF WaitDone, Proceed
    <2>7. CASE WaitTimeout(o)
      BY <2>7 DEF WaitTimeout
    <2>8. CASE TakeStats(o)
      BY <2>8 DEF TakeStats
    <2>9. CASE RemoveSite(o) \/ RemoveRepo(o)
      BY <2>9 DEF RemoveSite, RemoveRepo, Release
    <2> QED
      BY <1>2, <2>1, <2>2, <2>3, <2>4, <2>5, <2>6, <2>7, <2>8, <2>9 DEF OpStep
  <1>3. CASE Unlock \/ AddAdmin \/ RotatePassword
    BY <1>3 DEF Unlock, AddAdmin, RotatePassword, MetaOnly
  <1>4. CASE UNCHANGED vars
    BY <1>4 DEF vars
  <1> QED
    BY <1>1, <1>2, <1>3, <1>4 DEF Next

LEMMA PatientReachable == Spec => [](IInv /\ PatientInv)
  <1>1. Init => PatientInv
    BY InitPatient
  <1>2. IInv /\ PatientInv /\ [Next]_vars => PatientInv'
    BY NextPatient
  <1> QED
    BY Reachable, <1>1, <1>2, PTL DEF Spec

\* deleteChecked: a deleted site's folder stays gone; neither git nor the
\* push's provenance record brings a part of it back.
THEOREM DeletedForGood == Spec => []DeletedStaysDeleted
  <1>1. PatientInv => DeletedStaysDeleted
    BY DEF PatientInv, Patient, DeletedStaysDeleted
  <1> QED
    BY PatientReachable, <1>1, PTL

\* deleteChecked and DeleteGitRepo: no git process is in the folder while it
\* is being removed, and none can register before it is gone.
THEOREM RemovalIsAlone == Spec => []NoGitBeneathRemoval
  <1>1. IInv /\ PatientInv => NoGitBeneathRemoval
    BY ConstantsAssumption
       DEF IInv, RegistryInv, OneWriter, RemovalInv, PatientInv, Patient, Empty, NoGitBeneathRemoval
  <1> QED
    BY PatientReachable, <1>1, PTL

\* A locked site's repository is evidence: once the lock's own stop is over,
\* no push changes it.
THEOREM EvidenceIsFrozen == Spec => FrozenRepository
  <1>1. IInv /\ PatientInv /\ [Next]_vars => [Frozen /\ exists' => UNCHANGED <<repo, packs>>]_vars
    <2> SUFFICES ASSUME IInv, PatientInv, Next, Frozen, exists' PROVE UNCHANGED <<repo, packs>>
      OBVIOUS
    <2> USE DEF Frozen, siteVars
    <2>1. ASSUME NEW p \in Pushes, PushStep(p) PROVE UNCHANGED <<repo, packs>>
      <3>1. ~GitWrite(p)
        BY DEF GitWrite, PatientInv, Patient, LockStops
      <3> QED
        BY <2>1, <3>1
           DEF PushStep, Gate, Register, RefuseRegistration, CheckUnlocked, CheckStanding, GitExit,
               Record, End, EndRegistration
    <2>2. ASSUME NEW o \in Ops, OpStep(o) PROVE UNCHANGED <<repo, packs>>
      <3>1. ~RemoveSite(o)
        BY DEF RemoveSite
      <3>2. ~RemoveRepo(o)
        BY DEF RemoveRepo, IInv, RemovalInv, Removals
      <3>3. CASE \E k \in Kinds : Begins(o, k)
        BY <3>3 DEF Begins
      <3>4. CASE SetLock(o) \/ GuardHold(o) \/ Transfer(o) \/ RemoveAdmins(o) \/ Delete(o) \/ DropRepo(o)
        BY <3>3, <3>4 DEF SetLock, GuardHold, Transfer, RemoveAdmins, Delete, DropRepo, Kinds
      <3>5. CASE StopNothing(o) \/ StopCancel(o) \/ WaitDone(o) \/ WaitTimeout(o) \/ TakeStats(o)
        BY <3>5 DEF StopNothing, StopCancel, WaitDone, WaitTimeout, TakeStats
      <3> QED
        BY <2>2, <3>1, <3>2, <3>4, <3>5 DEF OpStep
    <2>3. CASE Unlock \/ AddAdmin \/ RotatePassword
      BY <2>3 DEF Unlock, AddAdmin, RotatePassword, MetaOnly
    <2> QED
      BY <2>1, <2>2, <2>3 DEF Next
  <1> QED
    BY PatientReachable, <1>1, PTL DEF Spec, FrozenRepository
==============================================================================
