------------------------------ MODULE SiteLock ------------------------------
(***************************************************************************)
(* The lock record of one site (internal/store/lock.go, retention.go): who *)
(* placed it, since when the site has been locked, the evidence hold, and  *)
(* what lifts it, replaces it or purges the site under it.                 *)
(*                                                                         *)
(* Every change is a Store.Update: read meta.json, change it, write it     *)
(* back, under the site lock.  The site lock is a mutex of ONE process; the *)
(* command line (`sitebin lock`, `unlock`, `hold`) is another process with *)
(* a mutex of its own, so the read and the write are separate steps here.  *)
(*                                                                         *)
(* A date is kept as an age in sweep intervals, saturating just past the   *)
(* retention: all that is ever asked of it is whether it is past.          *)
(***************************************************************************)
EXTENDS Naturals, FiniteSets

CONSTANTS
    ServerReqs,   \* requests of the running server: register, stack, guard, sweep
    CliReqs,      \* commands of the operator's shell, another process
    Retention     \* SITEBIN_LOCK_RETENTION_DAYS in sweep intervals, 0: keep forever

SiteLockAssumption ==
    /\ ServerReqs \cap CliReqs = {}
    /\ Retention \in Nat

Reqs == ServerReqs \cup CliReqs
Old  == Retention + 1              \* every age past the retention is one age
Ages == 0 .. Old

VARIABLES
    exists,     \* the site folder
    lock,       \* meta.json "locked"
    finding,    \* the unreviewed blocking finding in meta.json, and when it came
    marker,     \* the trust marker in files/
    tier,       \* whether the owner's tier is trusted now
    step,       \* where each request is
    kind,       \* what each request does
    copy,       \* the meta.json each request read under its process's lock
    stamp       \* the age of the date each request would lock with

vars == <<exists, lock, finding, marker, tier, step, kind, copy, stamp>>
reqVars == <<step, kind, copy, stamp>>

Lockers  == {"admin", "account", "scanner"}
Locks    == [by : Lockers \cup {"nobody"}, age : Ages, hold : BOOLEAN]
Unlocked == [by |-> "nobody", age |-> 0, hold |-> FALSE]
\* No blocking finding; one of a kit that was served when it was found; one
\* that came while the site was locked.
Findings == {"none", "served", "locked"}
NoCopy   == [lock |-> Unlocked, finding |-> "none"]

\* The operator's own acts are the register's and the command line's; the
\* others are the stack's (lockAccount, release), the guard's (scan), the
\* owner's (settings) and the sweep's (purge, expire).
CliKinds == {"lockAdmin", "unlock", "hold", "unhold", "scan", "force"}
Kinds    == CliKinds \cup {"lockAccount", "release", "clear", "settings", "purge", "expire"}
Removals == {"force", "purge", "expire"}

TypeOK ==
    /\ exists \in BOOLEAN /\ finding \in Findings /\ marker \in BOOLEAN /\ tier \in BOOLEAN
    /\ lock \in Locks
    /\ step \in [Reqs -> {"idle", "holds"}]
    /\ kind \in [Reqs -> Kinds \cup {"none"}]
    /\ copy \in [Reqs -> [lock : Locks, finding : Findings]]
    /\ stamp \in [Reqs -> Ages]

Init ==
    /\ exists = TRUE /\ lock = Unlocked /\ finding = "none"
    /\ tier \in BOOLEAN /\ marker = tier
    /\ step = [r \in Reqs |-> "idle"]
    /\ kind = [r \in Reqs |-> "none"]
    /\ copy = [r \in Reqs |-> NoCopy]
    /\ stamp = [r \in Reqs |-> 0]

IsLocked(l) == l.by # "nobody"

\* LockPurgeAt, lockPurgeDue: no lock, a hold and no retention never purge.
PurgeDue(l) == IsLocked(l) /\ ~l.hold /\ Retention > 0 /\ l.age = Old

(***************************************************************************)
(* What each change makes of the meta.json it read.                        *)
(***************************************************************************)

\* Mutants: a lock's date restarts when it is replaced; the author a lock
\* without one gets is left out.
LockingAnew(l, by, age) ==
    IF IsLocked(l)
      THEN IF by \in {"account", "scanner"} THEN l ELSE [l EXCEPT !.by = by, !.age = age]
      ELSE [by |-> by, age |-> age, hold |-> FALSE]

\* SetLock: an account's or a scanner's lock never replaces one; a lock that
\* replaces a lock keeps the date and the hold.
Locking(l, by, age) ==
    IF IsLocked(l)
      THEN IF by \in {"account", "scanner"} THEN l ELSE [l EXCEPT !.by = by]
      ELSE [by |-> by, age |-> age, hold |-> FALSE]

\* Mutants: an unsuspension ends an evidence hold; it serves a kit found
\* while the account lock stood.
ReleasingHeld(m) ==
    IF m.lock.by # "account" THEN m.lock
    ELSE IF m.finding # "none" /\ ~marker THEN [m.lock EXCEPT !.by = "scanner"]
    ELSE Unlocked

\* ReleaseLock("account"): a held lock becomes the operator's; one over an
\* unreviewed kit that would have been held becomes the scanner's.
Releasing(m) ==
    IF m.lock.by # "account" THEN m.lock
    ELSE IF m.lock.hold THEN [m.lock EXCEPT !.by = "admin"]
    ELSE IF m.finding # "none" /\ ~marker THEN [m.lock EXCEPT !.by = "scanner"]
    ELSE Unlocked

\* judge on a blocking hit: recorded always, held when nothing locks the site
\* and nothing exempts it.
Judging(m, age) ==
    [finding |-> IF IsLocked(m.lock) \/ m.finding = "locked" THEN "locked" ELSE "served",
     lock |-> IF marker THEN m.lock ELSE Locking(m.lock, "scanner", age)]

\* The mutate callback of each Update.  SetLock(nil) is also the review.
Mutate(k, m, age) ==
    CASE k = "lockAdmin"   -> [m EXCEPT !.lock = Locking(m.lock, "admin", age)]
      [] k = "lockAccount" -> [m EXCEPT !.lock = Locking(m.lock, "account", age)]
      [] k = "unlock"      -> [lock |-> Unlocked, finding |-> "none"]
      [] k = "release"     -> [m EXCEPT !.lock = Releasing(m)]
      [] k = "hold"        -> [m EXCEPT !.lock.hold = TRUE]
      [] k = "unhold"      -> [m EXCEPT !.lock.hold = FALSE]
      [] k = "scan"        -> Judging(m, age)
      [] k = "clear"       -> [m EXCEPT !.finding = "none"]
      [] k = "settings"    -> m

\* Mutant: the purge does not decide again under the lock.
AllowedOnce(k, l) ==
    /\ k \in {"hold", "unhold"} => IsLocked(l)
    /\ k = "expire" => ~IsLocked(l)

\* What a request finds when it asks under the lock, before it changes
\* anything: SetHold wants a lock, an expired site's Delete and the purge
\* decide again on what is there now.
Allowed(k, l) ==
    /\ k \in {"hold", "unhold"} => IsLocked(l)
    /\ k = "expire" => ~IsLocked(l)
    /\ k = "purge" => PurgeDue(l)

(***************************************************************************)
(* The requests.                                                           *)
(***************************************************************************)

Process(r) == IF r \in CliReqs THEN CliReqs ELSE ServerReqs

\* Take the process's site lock and read meta.json.
Read(r, k) ==
    /\ step[r] = "idle" /\ exists
    /\ \A q \in Process(r) : step[q] = "idle"
    /\ r \in CliReqs => k \in CliKinds
    /\ Allowed(k, lock)
    /\ step' = [step EXCEPT ![r] = "holds"]
    /\ kind' = [kind EXCEPT ![r] = k]
    /\ copy' = [copy EXCEPT ![r] = [lock |-> lock, finding |-> finding]]
    /\ stamp' = [stamp EXCEPT ![r] = 0]
    /\ UNCHANGED <<exists, lock, finding, marker, tier>>

Done(r) ==
    /\ step' = [step EXCEPT ![r] = "idle"]
    /\ kind' = [kind EXCEPT ![r] = "none"]
    /\ copy' = [copy EXCEPT ![r] = NoCopy]
    /\ stamp' = [stamp EXCEPT ![r] = 0]

\* Write meta.json back; into a folder another process removed it fails.
Write(r) ==
    /\ step[r] = "holds" /\ kind[r] \notin Removals
    /\ IF exists
         THEN LET m == Mutate(kind[r], copy[r], stamp[r])
              IN  lock' = m.lock /\ finding' = m.finding
         ELSE UNCHANGED <<lock, finding>>
    /\ Done(r)
    /\ UNCHANGED <<exists, marker, tier>>

\* deleteChecked removes the folder, meta.json and all.
Remove(r) ==
    /\ step[r] = "holds" /\ kind[r] \in Removals
    /\ exists' = FALSE /\ lock' = Unlocked /\ finding' = "none" /\ marker' = FALSE
    /\ Done(r)
    /\ UNCHANGED tier

\* siteService.ApplyQuota and the sweep's reconcileTrust: the marker follows
\* the tier, of an unlocked site only.
SyncTrust ==
    /\ exists /\ ~IsLocked(lock) /\ marker # tier
    /\ marker' = tier
    /\ UNCHANGED <<exists, lock, finding, tier, reqVars>>

ChangeTier ==
    /\ tier' = ~tier
    /\ UNCHANGED <<exists, lock, finding, marker, reqVars>>

Older(a) == IF a < Old THEN a + 1 ELSE Old
Aged(l)  == IF IsLocked(l) THEN [l EXCEPT !.age = Older(@)] ELSE l

\* A sweep interval passes; every date kept anywhere is that much older.
Tick ==
    /\ lock' = Aged(lock)
    /\ copy' = [r \in Reqs |-> [copy[r] EXCEPT !.lock = Aged(@)]]
    /\ stamp' = [r \in Reqs |-> IF step[r] = "holds" THEN Older(stamp[r]) ELSE stamp[r]]
    /\ UNCHANGED <<exists, finding, marker, tier, step, kind>>

Next ==
    \/ \E r \in Reqs : \E k \in Kinds : Read(r, k)
    \/ \E r \in Reqs : Write(r) \/ Remove(r)
    \/ SyncTrust \/ ChangeTier \/ Tick

\* Time passes, a request that holds the lock finishes, and the sweep comes
\* round and gets the site lock however busy it is (a Go mutex starves
\* nobody).
Fairness ==
    /\ WF_vars(Tick)
    /\ \A r \in Reqs : WF_vars(Write(r) \/ Remove(r))
    /\ SF_vars(\E r \in ServerReqs : Read(r, "purge"))

Spec     == Init /\ [][Next]_vars
FairSpec == Spec /\ Fairness

(***************************************************************************)
(* Properties.                                                             *)
(***************************************************************************)

\* Which request's change a step commits.
Commits(ks) == \E r \in Reqs : kind[r] \in ks /\ kind'[r] = "none"

\* lock.go on SiteLock.At: "the start of its CONTINUOUS lock": while the site
\* stays locked its date never moves, whoever locks it again, keeps it or
\* hands it on, so the retention clock never restarts.
ClockStands == exists' /\ IsLocked(lock) /\ IsLocked(lock') => lock'.age >= lock.age

\* An operator's lock, and any lock under an evidence hold, ends by the
\* operator's unlock alone; the hold by an unlock or an unhold.  In
\* particular no unsuspension, scan, settings write or repeated suspension
\* does it, whatever it read before.
OperatorsStands ==
    exists' =>
        /\ (lock.by = "admin" \/ lock.hold) /\ ~IsLocked(lock') => Commits({"unlock"})
        /\ lock.hold /\ ~lock'.hold => Commits({"unlock", "unhold"})

\* The same with the operator's shell beside the server.
OnlyOperatorLifts == [][OperatorsStands]_vars

\* retention.go, PurgeLocked: "an evidence hold placed, an unlock or a lock
\* lifted while the sweep ran ... wins".  At the moment the folder goes, it is
\* by the operator's force, or no lock stands, or a lock past its retention
\* that nobody holds.
EvidenceStands ==
    exists /\ ~exists' => Commits({"force"}) \/ ~IsLocked(lock) \/ PurgeDue(lock)

\* lock.go, ReleaseLock: an unsuspension does not serve a kit found while the
\* account lock stood.  When a site with an unreviewed blocking finding loses
\* its lock, the operator lifted it or the site carries the trust marker.
NoKitReleased ==
    exists' /\ IsLocked(lock) /\ ~IsLocked(lock') /\ finding # "none"
        => Commits({"unlock"}) \/ marker

\* The same of a kit found while the lock stood, and of the owner's tier as it
\* is now.  The code breaks it: the marker was last written when the site was
\* unlocked, and the tier may have gone since.
ReleaseHonoursTier ==
    [][exists' /\ IsLocked(lock) /\ ~IsLocked(lock') /\ finding = "locked"
        => Commits({"unlock"}) \/ tier]_vars

\* A lock is not forever: a site that stays locked is purged, unless a hold
\* is placed on it or it is unlocked.  Re-locking it again and again
\* (scanner, kept by the operator, suspension) postpones nothing.
LeftLocked == IsLocked(lock) /\ ~lock.hold
=============================================================================
