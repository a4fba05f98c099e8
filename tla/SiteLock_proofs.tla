--------------------------- MODULE SiteLock_proofs ---------------------------
(***************************************************************************)
(* Proofs about SiteLock: its types with any requests and commands, and    *)
(* the promises to the operator for a server that is alone with the site,  *)
(* which is where the code keeps them (the command line's own mutex is     *)
(* what lock_cli refutes them by).                                         *)
(***************************************************************************)
EXTENDS SiteLock, TLAPS

(***************************************************************************)
(* Type correctness.                                                       *)
(***************************************************************************)

Metas == [lock : Locks, finding : Findings]

LEMMA AgesAreNumbers ==
    ASSUME SiteLockAssumption
    PROVE  Old \in Nat /\ Ages = 0 .. Old /\ 0 \in Ages /\ \A a \in Ages : Older(a) \in Ages /\ Older(a) >= a
  BY DEF SiteLockAssumption, Old, Ages, Older

LEMMA UnlockedType == ASSUME SiteLockAssumption PROVE Unlocked \in Locks /\ NoCopy \in Metas
  BY AgesAreNumbers DEF Unlocked, NoCopy, Locks, Metas, Findings

LEMMA LockingType ==
    ASSUME SiteLockAssumption, NEW l \in Locks, NEW by \in Lockers, NEW age \in Ages
    PROVE  Locking(l, by, age) \in Locks
  BY DEF Locking, Locks

\* What a change makes of a meta.json is one.
LEMMA MutateType ==
    ASSUME SiteLockAssumption, NEW k \in Kinds \ Removals, NEW m \in Metas, NEW age \in Ages
    PROVE  Mutate(k, m, age) \in Metas
  <1>0. m.lock \in Locks /\ m.finding \in Findings
    BY DEF Metas
  <1>1. CASE k \in {"lockAdmin", "lockAccount"}
    <2>1. Locking(m.lock, "admin", age) \in Locks /\ Locking(m.lock, "account", age) \in Locks
      BY <1>0, LockingType DEF Lockers
    <2> QED
      BY <1>1, <2>1 DEF Mutate, Metas
  <1>2. CASE k \in {"unlock", "clear", "settings"}
    BY <1>2, <1>0, UnlockedType DEF Mutate, Metas, Findings
  <1>3. CASE k = "release"
    <2>1. Releasing(m) \in Locks
      BY <1>0, UnlockedType DEF Releasing, Locks, Lockers
    <2> QED
      BY <1>3, <2>1 DEF Mutate, Metas
  <1>4. CASE k \in {"hold", "unhold"}
    BY <1>4, <1>0 DEF Mutate, Metas, Locks
  <1>5. CASE k = "scan"
    <2>1. Locking(m.lock, "scanner", age) \in Locks
      BY <1>0, LockingType DEF Lockers
    <2>2. Judging(m, age) \in Metas
      BY <1>0, <2>1 DEF Judging, Metas, Findings
    <2> QED
      BY <1>5, <2>2 DEF Mutate
  <1> QED
    BY <1>1, <1>2, <1>3, <1>4, <1>5 DEF Kinds, CliKinds, Removals

LEMMA AgedType == ASSUME SiteLockAssumption, NEW l \in Locks PROVE Aged(l) \in Locks
  BY AgesAreNumbers DEF Aged, Locks

\* A request that holds the lock is of a kind; idle ones are of none.
Typed == TypeOK /\ \A r \in Reqs : step[r] = "holds" => kind[r] \in Kinds

LEMMA LockInitType == ASSUME SiteLockAssumption, Init PROVE Typed
  BY AgesAreNumbers, UnlockedType DEF Init, Typed, TypeOK, Findings, Metas, Kinds

LEMMA LockNextType == ASSUME SiteLockAssumption, Typed, [Next]_vars PROVE Typed'
  <1>0. /\ copy \in [Reqs -> Metas] /\ lock \in Locks /\ finding \in Findings
        /\ NoCopy \in Metas /\ Unlocked \in Locks /\ 0 \in Ages
    BY UnlockedType, AgesAreNumbers DEF Typed, TypeOK, Metas
  <1>d. ASSUME NEW r \in Reqs, Done(r)
        PROVE  /\ step' \in [Reqs -> {"idle", "holds"}] /\ kind' \in [Reqs -> Kinds \cup {"none"}]
               /\ copy' \in [Reqs -> Metas] /\ stamp' \in [Reqs -> Ages]
               /\ \A q \in Reqs : step'[q] = "holds" => kind'[q] \in Kinds
    BY <1>0, <1>d DEF Done, Typed, TypeOK
  <1>1. ASSUME NEW r \in Reqs, NEW k \in Kinds, Read(r, k) PROVE Typed'
    <2>1. [lock |-> lock, finding |-> finding] \in Metas
      BY <1>0 DEF Metas
    <2>2. copy' \in [Reqs -> Metas]
      BY <1>0, <1>1, <2>1 DEF Read
    <2> QED
      BY <1>0, <1>1, <2>2 DEF Read, Typed, TypeOK, Metas
  <1>2. ASSUME NEW r \in Reqs, Write(r) PROVE Typed'
    <2>1. lock' \in Locks /\ finding' \in Findings
      <3>1. kind[r] \in Kinds \ Removals /\ copy[r] \in Metas /\ stamp[r] \in Ages
        BY <1>0, <1>2 DEF Write, Typed, TypeOK
      <3>2. PICK m : m = Mutate(kind[r], copy[r], stamp[r])
        OBVIOUS
      <3>3. m.lock \in Locks /\ m.finding \in Findings
        BY <3>1, <3>2, MutateType DEF Metas
      <3>4. lock' \in {lock, m.lock} /\ finding' \in {finding, m.finding}
        BY <1>2, <3>2 DEF Write
      <3> QED
        BY <1>0, <3>3, <3>4
    <2>2. Done(r) /\ UNCHANGED <<exists, marker, tier>>
      BY <1>2 DEF Write
    <2> QED
      BY <1>d, <2>1, <2>2 DEF Typed, TypeOK, Metas
  <1>3. ASSUME NEW r \in Reqs, Remove(r) PROVE Typed'
    <2>1. /\ exists' = FALSE /\ lock' = Unlocked /\ finding' = "none" /\ marker' = FALSE
          /\ Done(r) /\ tier' = tier
      BY <1>3 DEF Remove
    <2> QED
      BY <1>0, <1>d, <2>1 DEF Typed, TypeOK, Metas, Findings
  <1>4. ASSUME SyncTrust \/ ChangeTier PROVE Typed'
    BY <1>4 DEF SyncTrust, ChangeTier, reqVars, Typed, TypeOK
  <1>5. ASSUME Tick PROVE Typed'
    <2>1. lock' \in Locks
      BY <1>0, <1>5, AgedType DEF Tick
    <2>2. \A r \in Reqs : [copy[r] EXCEPT !.lock = Aged(@)] \in Metas
      BY <1>0, AgedType DEF Metas
    <2>3. copy' \in [Reqs -> Metas]
      BY <1>5, <2>2 DEF Tick
    <2>4. stamp' \in [Reqs -> Ages]
      BY <1>5, AgesAreNumbers DEF Tick, Typed, TypeOK
    <2> QED
      BY <1>5, <2>1, <2>3, <2>4 DEF Tick, Typed, TypeOK, Metas
  <1>6. ASSUME UNCHANGED vars PROVE Typed'
    BY <1>6 DEF vars, Typed, TypeOK
  <1> QED
    BY <1>1, <1>2, <1>3, <1>4, <1>5, <1>6 DEF Next

\* Every reachable state is well-typed, the command line's beside the server's.
THEOREM TypeCorrect == ASSUME SiteLockAssumption PROVE Spec => []TypeOK
  <1>1. Typed => TypeOK
    BY DEF Typed
  <1> QED
    BY <1>1, LockInitType, LockNextType, PTL DEF Spec

(***************************************************************************)
(* The server alone with the site: no command of the shell runs.           *)
(***************************************************************************)

Alone == SiteLockAssumption /\ CliReqs = {}

\* The site lock is a mutex, and what its holder read is what stands: nobody
\* else writes meta.json, and time makes the copy and the record equally older.
\* What was decided under the lock is therefore still so when it is acted on.
OneHolds   == \A r, q \in Reqs : step[r] = "holds" /\ step[q] = "holds" => r = q
ReadStands == \A r \in Reqs : step[r] = "holds" =>
                  /\ exists
                  /\ copy[r] = [lock |-> lock, finding |-> finding]
                  /\ Allowed(kind[r], lock)

\* An evidence hold is on a lock.
HoldIsOfALock == lock.hold => IsLocked(lock)

LockInv == Typed /\ OneHolds /\ ReadStands /\ HoldIsOfALock

\* A change that was allowed puts a hold on a lock or on nothing.
LEMMA MutateHolds ==
    ASSUME NEW k \in Kinds \ Removals, NEW m \in Metas, NEW age \in Ages,
           m.lock.hold => IsLocked(m.lock), Allowed(k, m.lock), NEW n, n = Mutate(k, m, age)
    PROVE  n.lock.hold => IsLocked(n.lock)
  <1>0. PICK l \in Locks : m.lock = l
    BY DEF Metas
  <1>1. CASE k \in {"lockAdmin", "lockAccount"}
    BY <1>0, <1>1 DEF Mutate, Metas, Locking, IsLocked, Locks
  <1>2. CASE k \in {"unlock", "clear", "settings"}
    BY <1>0, <1>2 DEF Mutate, Metas, IsLocked, Locks, Unlocked
  <1>3. CASE k = "release"
    BY <1>0, <1>3 DEF Mutate, Metas, Releasing, IsLocked, Locks, Unlocked
  <1>4. CASE k \in {"hold", "unhold"}
    BY <1>0, <1>4 DEF Mutate, Metas, IsLocked, Locks, Allowed
  <1>5. CASE k = "scan"
    <2>1. n.lock \in {l, Locking(l, "scanner", age)}
      BY <1>0, <1>5 DEF Mutate, Judging
    <2>2. Locking(l, "scanner", age).hold => IsLocked(Locking(l, "scanner", age))
      BY <1>0 DEF Locking, IsLocked
    <2> QED
      BY <1>0, <2>1, <2>2
  <1> QED
    BY <1>1, <1>2, <1>3, <1>4, <1>5 DEF Kinds, CliKinds, Removals

LEMMA AgedAllowed ==
    ASSUME SiteLockAssumption, NEW l \in Locks, NEW k, Allowed(k, l)
    PROVE  Allowed(k, Aged(l))
  <1>1. IsLocked(Aged(l)) <=> IsLocked(l)
    BY DEF Aged, IsLocked, Locks
  <1>2. PurgeDue(l) => PurgeDue(Aged(l))
    BY AgesAreNumbers DEF PurgeDue, Aged, IsLocked, Older, Locks, Ages
  <1> QED
    BY <1>1, <1>2 DEF Allowed

LEMMA LockInvInit == ASSUME SiteLockAssumption, Init PROVE LockInv
  BY LockInitType DEF LockInv, OneHolds, ReadStands, HoldIsOfALock, Init, Unlocked

LEMMA LockInvNext == ASSUME Alone, LockInv, [Next]_vars PROVE LockInv'
  <1>0. /\ SiteLockAssumption /\ Typed' /\ copy \in [Reqs -> Metas] /\ lock \in Locks
        /\ step \in [Reqs -> {"idle", "holds"}] /\ kind \in [Reqs -> Kinds \cup {"none"}]
        /\ \A r \in Reqs : Process(r) = Reqs
    BY LockNextType DEF Alone, LockInv, Typed, TypeOK, Metas, Process, Reqs
  <1>d. ASSUME NEW r \in Reqs, step[r] = "holds", Done(r) PROVE \A q \in Reqs : step'[q] # "holds"
    BY <1>0, <1>d DEF Done, LockInv, OneHolds
  <1>1. ASSUME NEW r \in Reqs, NEW k \in Kinds, Read(r, k) PROVE LockInv'
    <2>1. /\ \A q \in Reqs : step[q] = "idle"
          /\ step' = [step EXCEPT ![r] = "holds"] /\ kind' = [kind EXCEPT ![r] = k]
          /\ copy' = [copy EXCEPT ![r] = [lock |-> lock, finding |-> finding]]
          /\ exists /\ Allowed(k, lock) /\ UNCHANGED <<exists, lock, finding>>
      BY <1>0, <1>1 DEF Read
    <2>2. \A q \in Reqs : step'[q] = "holds" => q = r
      BY <1>0, <2>1
    <2>3. kind'[r] = k /\ copy'[r] = [lock |-> lock, finding |-> finding]
      BY <1>0, <2>1
    <2>4. \A q \in Reqs : step'[q] = "holds" =>
              exists' /\ copy'[q] = [lock |-> lock', finding |-> finding'] /\ Allowed(kind'[q], lock')
      BY <2>1, <2>2, <2>3 DEF Allowed, PurgeDue, IsLocked
    <2>5. OneHolds' /\ ReadStands'
      BY <2>2, <2>4 DEF OneHolds, ReadStands
    <2>6. HoldIsOfALock'
      BY <2>1 DEF LockInv, HoldIsOfALock, IsLocked
    <2> QED
      BY <1>0, <2>5, <2>6 DEF LockInv
  <1>2. ASSUME NEW r \in Reqs, Write(r) \/ Remove(r), HoldIsOfALock' PROVE LockInv'
    <2>1. \A q \in Reqs : step'[q] # "holds"
      BY <1>2, <1>d DEF Write, Remove
    <2> QED
      BY <1>0, <1>2, <2>1 DEF LockInv, OneHolds, ReadStands
  <1>w. ASSUME NEW r \in Reqs, Write(r) PROVE HoldIsOfALock'
    <2>1. PICK n : n = Mutate(kind[r], copy[r], stamp[r])
      OBVIOUS
    <2>2. /\ kind[r] \in Kinds \ Removals /\ copy[r] \in Metas /\ stamp[r] \in Ages
          /\ exists /\ copy[r].lock = lock /\ Allowed(kind[r], lock)
      BY <1>w DEF Write, LockInv, Typed, TypeOK, Metas, ReadStands
    <2>3. n.lock.hold => IsLocked(n.lock)
      BY <2>1, <2>2, MutateHolds DEF LockInv, HoldIsOfALock
    <2>4. lock' = n.lock
      BY <1>w, <2>1, <2>2 DEF Write
    <2> QED
      BY <2>3, <2>4 DEF HoldIsOfALock, IsLocked
  <1>v. ASSUME NEW r \in Reqs, Remove(r) PROVE HoldIsOfALock'
    BY <1>v DEF Remove, HoldIsOfALock, Unlocked
  <1>3. ASSUME SyncTrust \/ ChangeTier \/ UNCHANGED vars PROVE LockInv'
    BY <1>0, <1>3
       DEF SyncTrust, ChangeTier, reqVars, vars, LockInv, OneHolds, ReadStands, Allowed, PurgeDue,
           IsLocked, HoldIsOfALock
  <1>4. ASSUME Tick PROVE LockInv'
    <2>1. /\ lock' = Aged(lock) /\ UNCHANGED <<exists, finding, step, kind>>
          /\ copy' = [r \in Reqs |-> [copy[r] EXCEPT !.lock = Aged(@)]]
      BY <1>4 DEF Tick
    <2>2. ASSUME NEW q \in Reqs, step'[q] = "holds"
          PROVE  exists' /\ copy'[q] = [lock |-> lock', finding |-> finding'] /\ Allowed(kind'[q], lock')
      <3>1. exists /\ copy[q] = [lock |-> lock, finding |-> finding] /\ Allowed(kind[q], lock)
        BY <2>1, <2>2 DEF LockInv, ReadStands
      <3>2. PICK a : a = Aged(lock)
        OBVIOUS
      <3>3. copy'[q] = [lock |-> a, finding |-> finding]
        BY <2>1, <3>1, <3>2
      <3>4. Allowed(kind[q], a)
        BY <1>0, <3>1, <3>2, AgedAllowed
      <3>5. lock' = a /\ kind'[q] = kind[q]
        BY <2>1, <3>2
      <3>6. Allowed(kind'[q], lock')
        BY <3>4, <3>5
      <3> QED
        BY <2>1, <3>1, <3>3, <3>5, <3>6
    <2>3. HoldIsOfALock'
      BY <1>0, <2>1 DEF LockInv, HoldIsOfALock, Aged, IsLocked, Locks
    <2> QED
      BY <1>0, <2>1, <2>2, <2>3 DEF LockInv, OneHolds, ReadStands
  <1> QED
    BY <1>1, <1>2, <1>3, <1>4, <1>w, <1>v DEF Next

(***************************************************************************)
(* What a change may do to a lock.                                         *)
(***************************************************************************)

\* Of a locked site: the date stays, only an unlock or an unsuspension of an
\* unheld account lock takes the lock, and only an unlock or an unhold the hold.
LEMMA MutateKeeps ==
    ASSUME NEW k \in Kinds \ Removals, NEW m \in Metas, NEW age \in Ages, IsLocked(m.lock),
           NEW n, n = Mutate(k, m, age)
    PROVE  /\ IsLocked(n.lock) => n.lock.age = m.lock.age
           /\ ~IsLocked(n.lock) =>
                  \/ k = "unlock"
                  \/ m.lock.by = "account" /\ ~m.lock.hold /\ (m.finding = "none" \/ marker)
           /\ m.lock.hold /\ ~n.lock.hold => k \in {"unlock", "unhold"}
  <1>0. PICK l \in Locks : m.lock = l
    BY DEF Metas
  <1>1. CASE k \in {"lockAdmin", "lockAccount"}
    BY <1>0, <1>1 DEF Mutate, Metas, Locking, IsLocked, Locks
  <1>2. CASE k \in {"unlock", "clear", "settings"}
    BY <1>0, <1>2 DEF Mutate, Metas, IsLocked, Locks, Unlocked
  <1>3. CASE k = "release"
    BY <1>0, <1>3 DEF Mutate, Metas, Releasing, IsLocked, Locks, Unlocked
  <1>4. CASE k \in {"hold", "unhold"}
    BY <1>0, <1>4 DEF Mutate, Metas, IsLocked, Locks
  <1>5. CASE k = "scan"
    <2>1. n.lock \in {l, Locking(l, "scanner", age)}
      BY <1>0, <1>5 DEF Mutate, Judging
    <2>2. Locking(l, "scanner", age) = l
      BY <1>0 DEF Locking
    <2> QED
      BY <1>0, <2>1, <2>2
  <1> QED
    BY <1>1, <1>2, <1>3, <1>4, <1>5 DEF Kinds, CliKinds, Removals

\* What a write of the server does to a locked site, the record being what it
\* read.
LEMMA WriteKeeps ==
    ASSUME Alone, LockInv, NEW r \in Reqs, Write(r), IsLocked(lock)
    PROVE  /\ IsLocked(lock') => lock'.age = lock.age
           /\ ~IsLocked(lock') =>
                  \/ Commits({"unlock"})
                  \/ lock.by = "account" /\ ~lock.hold /\ (finding = "none" \/ marker)
           /\ lock.hold /\ ~lock'.hold => Commits({"unlock", "unhold"})
           /\ exists'
  <1>1. PICK n : n = Mutate(kind[r], copy[r], stamp[r])
    OBVIOUS
  <1>2. /\ kind[r] \in Kinds \ Removals /\ copy[r] \in Metas /\ stamp[r] \in Ages
        /\ exists /\ copy[r].lock = lock /\ copy[r].finding = finding
    BY DEF Write, LockInv, Typed, TypeOK, Metas, ReadStands
  <1>3. lock' = n.lock /\ exists' /\ kind'[r] = "none"
    BY <1>1, <1>2 DEF Write, Done, LockInv, Typed, TypeOK
  <1>4. /\ IsLocked(n.lock) => n.lock.age = lock.age
        /\ ~IsLocked(n.lock) =>
               \/ kind[r] = "unlock"
               \/ lock.by = "account" /\ ~lock.hold /\ (finding = "none" \/ marker)
        /\ lock.hold /\ ~n.lock.hold => kind[r] \in {"unlock", "unhold"}
    BY <1>1, <1>2, MutateKeeps
  <1> QED
    BY <1>3, <1>4 DEF Commits, IsLocked

\* Every step leaves a lock alone, makes it older, writes it or takes the site.
LEMMA StepsOnTheLock ==
    ASSUME Next
    PROVE  \/ UNCHANGED <<exists, lock>>
           \/ lock' = Aged(lock) /\ UNCHANGED exists
           \/ \E r \in Reqs : Write(r)
           \/ \E r \in Reqs : Remove(r)
  BY DEF Next, Read, SyncTrust, ChangeTier, Tick

LEMMA RemovingAllowed ==
    ASSUME LockInv, NEW r \in Reqs, Remove(r)
    PROVE  ~exists' /\ (Commits({"force"}) \/ ~IsLocked(lock) \/ PurgeDue(lock))
  <1>1. kind[r] \in Removals /\ Allowed(kind[r], lock) /\ ~exists' /\ kind'[r] = "none"
    BY DEF Remove, Done, LockInv, Typed, TypeOK, ReadStands
  <1> QED
    BY <1>1 DEF Allowed, Removals, Commits

LEMMA AgedKeeps ==
    ASSUME SiteLockAssumption, NEW l \in Locks
    PROVE  (IsLocked(Aged(l)) <=> IsLocked(l)) /\ Aged(l).age >= l.age /\ Aged(l).hold = l.hold
  BY AgesAreNumbers DEF Aged, IsLocked, Locks, Ages

\* The four promises, of every step from a state of the invariant.
LEMMA StepKeeps ==
    ASSUME Alone, LockInv, Next
    PROVE  ClockStands /\ OperatorsStands /\ EvidenceStands /\ NoKitReleased
  <1>0. SiteLockAssumption /\ lock \in Locks /\ lock.age \in Nat
    BY AgesAreNumbers DEF Alone, LockInv, Typed, TypeOK, Locks, Ages
  <1>1. CASE UNCHANGED <<exists, lock>>
    <2>1. exists' = exists /\ lock' = lock /\ lock.age >= lock.age
      BY <1>0, <1>1
    <2>2. (lock.by = "admin" => IsLocked(lock)) /\ (IsLocked(lock') <=> IsLocked(lock))
      BY <2>1 DEF IsLocked
    <2>3. ClockStands /\ NoKitReleased
      BY <2>1, <2>2 DEF ClockStands, NoKitReleased
    <2>4. EvidenceStands
      BY <2>1, Zenon DEF EvidenceStands
    <2>5. OperatorsStands
      BY <2>1, <2>2, Zenon DEF OperatorsStands, LockInv, HoldIsOfALock
    <2> QED
      BY <2>3, <2>4, <2>5
  <1>2. CASE lock' = Aged(lock) /\ UNCHANGED exists
    <2>1. (IsLocked(lock') <=> IsLocked(lock)) /\ lock'.age >= lock.age /\ lock'.hold = lock.hold
      BY <1>0, <1>2, AgedKeeps DEF IsLocked
    <2>2. lock.by = "admin" => IsLocked(lock)
      BY DEF IsLocked
    <2>3. ClockStands /\ EvidenceStands /\ NoKitReleased
      BY <1>2, <2>1 DEF ClockStands, EvidenceStands, NoKitReleased
    <2>4. OperatorsStands
      BY <2>1, <2>2, Zenon DEF OperatorsStands, LockInv, HoldIsOfALock
    <2> QED
      BY <2>3, <2>4
  <1>3. ASSUME NEW r \in Reqs, Write(r) PROVE ClockStands /\ OperatorsStands /\ EvidenceStands /\ NoKitReleased
    <2>1. CASE IsLocked(lock)
      <3>1. /\ IsLocked(lock') => lock'.age = lock.age
            /\ ~IsLocked(lock') =>
                   \/ Commits({"unlock"})
                   \/ lock.by = "account" /\ ~lock.hold /\ (finding = "none" \/ marker)
            /\ lock.hold /\ ~lock'.hold => Commits({"unlock", "unhold"})
            /\ exists'
        BY <1>3, <2>1, WriteKeeps
      <3>2. lock.age >= lock.age
        BY <1>0
      <3>3. ClockStands /\ EvidenceStands
        BY <3>1, <3>2 DEF ClockStands, EvidenceStands
      <3>4. OperatorsStands
        <4>1. lock.by = "account" => lock.by # "admin"
          OBVIOUS
        <4> QED
          BY <3>1, <4>1, Zenon DEF OperatorsStands
      <3>5. NoKitReleased
        BY <3>1, Zenon DEF NoKitReleased
      <3> QED
        BY <3>3, <3>4, <3>5
    <2>2. CASE ~IsLocked(lock)
      <3>1. ~lock.hold /\ lock.by = "nobody"
        BY <2>2 DEF LockInv, HoldIsOfALock, IsLocked
      <3> QED
        BY <2>2, <3>1 DEF ClockStands, OperatorsStands, EvidenceStands, NoKitReleased
    <2> QED
      BY <2>1, <2>2
  <1>4. ASSUME NEW r \in Reqs, Remove(r) PROVE ClockStands /\ OperatorsStands /\ EvidenceStands /\ NoKitReleased
    BY <1>4, RemovingAllowed DEF ClockStands, OperatorsStands, EvidenceStands, NoKitReleased
  <1> QED
    BY <1>1, <1>2, <1>3, <1>4, StepsOnTheLock

LEMMA LockInvHolds == ASSUME Alone PROVE Spec => []LockInv
  <1>1. Init => LockInv
    BY LockInvInit DEF Alone
  <1>2. LockInv /\ [Next]_vars => LockInv'
    BY LockInvNext
  <1> QED
    BY <1>1, <1>2, PTL DEF Spec

\* lock.go, SiteLock.At: while a site stays locked its date never moves, so the
\* retention clock never restarts, however often it is locked again.
THEOREM ClockHolds == ASSUME SiteLockAssumption, CliReqs = {} PROVE Spec => [][ClockStands]_vars
  <1>1. Alone
    BY DEF Alone
  <1>2. LockInv /\ [Next]_vars => [ClockStands]_vars
    BY <1>1, StepKeeps
  <1> QED
    BY <1>1, <1>2, LockInvHolds, PTL DEF Spec

\* lock.go, SetLock and ReleaseLock: an operator's lock, and any lock under an
\* evidence hold, ends by the operator's unlock alone.
THEOREM OperatorsHold == ASSUME SiteLockAssumption, CliReqs = {} PROVE Spec => OnlyOperatorLifts
  <1>1. Alone
    BY DEF Alone
  <1>2. LockInv /\ [Next]_vars => [OperatorsStands]_vars
    BY <1>1, StepKeeps
  <1> QED
    BY <1>1, <1>2, LockInvHolds, PTL DEF Spec, OnlyOperatorLifts

\* retention.go, PurgeLocked: a hold, an unlock or a lock lifted while the sweep
\* ran wins; a site goes by force, unlocked, or past its retention and unheld.
THEOREM EvidenceHolds == ASSUME SiteLockAssumption, CliReqs = {} PROVE Spec => [][EvidenceStands]_vars
  <1>1. Alone
    BY DEF Alone
  <1>2. LockInv /\ [Next]_vars => [EvidenceStands]_vars
    BY <1>1, StepKeeps
  <1> QED
    BY <1>1, <1>2, LockInvHolds, PTL DEF Spec

\* lock.go, ReleaseLock: an unsuspension serves no kit found while the account
\* lock stood, of a site without the trust marker.
THEOREM NoKitReleasedHolds == ASSUME SiteLockAssumption, CliReqs = {} PROVE Spec => [][NoKitReleased]_vars
  <1>1. Alone
    BY DEF Alone
  <1>2. LockInv /\ [Next]_vars => [NoKitReleased]_vars
    BY <1>1, StepKeeps
  <1> QED
    BY <1>1, <1>2, LockInvHolds, PTL DEF Spec
=============================================================================
