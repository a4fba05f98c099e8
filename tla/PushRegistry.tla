---------------------------- MODULE PushRegistry ----------------------------
(***************************************************************************)
(* One site's push registry (internal/store/gitwrite.go) and everything    *)
(* that ends the site's right to be written: locks, the abuse guard's      *)
(* hold, deletes, "Delete repository", transfers, admin changes and        *)
(* password rotations.                                                     *)
(*                                                                         *)
(* A push writes into sites/<id>/git for minutes WITHOUT the site lock; it *)
(* holds a registration instead.  Whoever ends its right changes meta.json *)
(* under the site lock, cancels the registered push and waits for its end, *)
(* at most gitStopWait.  The steps below are the ones the two sides really *)
(* interleave at: the registry mutex, the site lock, the stats lock and    *)
(* each read of meta.json are separate steps.                              *)
(***************************************************************************)
EXTENDS Naturals, FiniteSets

CONSTANTS
    Pushes,          \* requests that register: git pushes and the sweep's collections
    Ops,             \* requests that end somebody's right to write
    Accounts,        \* accounts that may own or administer the site
    NoOne,           \* no push, no operation, no account
    MaxPacks,        \* bound: changes the repository sees
    MaxPasswords     \* bound: edit passwords the site is given

ASSUME ConstantsAssumption ==
    /\ NoOne \notin Pushes \cup Ops \cup Accounts
    /\ Pushes \cap Ops = {}
    /\ MaxPacks \in Nat
    /\ MaxPasswords \in Nat

VARIABLES
    exists,     \* meta.json is there
    meta,       \* the fields of meta.json a push's standing depends on
    repo,       \* sites/<id>/git is there
    packs,      \* how often the repository was changed since it was made
    log,        \* the provenance log is there, beside meta.json
    running,    \* gitRunning[id]: the registered push
    barred,     \* gitBarred[id] is set
    cancelled,  \* pushes whose registration was cancelled
    siteLock,   \* the holder of the site lock, as far as an operation keeps it
    statsLock,  \* the holder of the stats lock
    push,       \* where each push is
    snap,       \* what the gate read when it let the push in, and as whom
    op,         \* where each operation is
    kind,       \* which operation it is
    waitsFor,   \* the registration whose end an operation waits for
    timedOut    \* history: some wait ended at gitStopWait, not at the push's end

siteVars == <<exists, meta, repo, packs, log>>
regVars  == <<running, barred, cancelled, siteLock, statsLock>>
pushVars == <<push, snap>>
opVars   == <<op, kind, waitsFor, timedOut>>
vars     == <<siteVars, regVars, pushVars, opVars>>

Metas     == [owner : Accounts, admins : SUBSET Accounts, pw : Nat, locked : BOOLEAN]
Roles     == {"owner", "admin", "password", "collect"}
Snapshots == [role : Roles \cup {"none"}, account : Accounts \cup {NoOne},
              owner : Accounts \cup {NoOne}, pw : Nat]
NoSnapshot == [role |-> "none", account |-> NoOne, owner |-> NoOne, pw |-> 0]
PushSteps == {"idle", "gate", "registered", "checked", "git", "record", "end"}
OpSteps   == {"idle", "stop", "wait", "stats", "act"}
\* The operations that stop a push: they differ in what they change first,
\* in whether they keep the site lock while they stop, and in what follows.
Kinds     == {"lock", "hold", "delete", "dropRepo", "transfer", "admins"}
Removals  == {"delete", "dropRepo"}

TypeOK ==
    /\ exists \in BOOLEAN /\ repo \in BOOLEAN /\ log \in BOOLEAN
    /\ meta \in Metas
    /\ packs \in Nat
    /\ running \in Pushes \cup {NoOne}
    /\ barred \in BOOLEAN
    /\ cancelled \subseteq Pushes
    /\ siteLock \in Ops \cup {NoOne}
    /\ statsLock \in Ops \cup {NoOne}
    /\ push \in [Pushes -> PushSteps]
    /\ snap \in [Pushes -> Snapshots]
    /\ op \in [Ops -> OpSteps]
    /\ kind \in [Ops -> Kinds \cup {"none"}]
    /\ waitsFor \in [Ops -> Pushes \cup {NoOne}]
    /\ timedOut \in BOOLEAN

\* A created site with no repository yet.
Init ==
    \E a \in Accounts :
    /\ exists = TRUE
    /\ meta = [owner |-> a, admins |-> {}, pw |-> 0, locked |-> FALSE]
    /\ repo = FALSE /\ packs = 0 /\ log = FALSE
    /\ running = NoOne /\ barred = FALSE /\ cancelled = {}
    /\ siteLock = NoOne /\ statsLock = NoOne
    /\ push = [p \in Pushes |-> "idle"]
    /\ snap = [p \in Pushes |-> NoSnapshot]
    /\ op = [o \in Ops |-> "idle"]
    /\ kind = [o \in Ops |-> "none"]
    /\ waitsFor = [o \in Ops |-> NoOne]
    /\ timedOut = FALSE

(***************************************************************************)
(* A push.                                                                 *)
(***************************************************************************)

\* The gate: the credential stands on the site as the request reads it, and
\* the site is not locked.  A collection stands on no credential.
Stands(s) ==
    \/ s.role = "owner" /\ s.account = meta.owner
    \/ s.role = "admin" /\ s.account \in meta.admins \ {meta.owner}
    \/ s.role = "password" /\ s.account = NoOne
    \/ s.role = "collect" /\ s.account = NoOne /\ repo

Seen(r, a) == [role |-> r, account |-> a, owner |-> meta.owner, pw |-> meta.pw]

Gate(p) ==
    /\ push[p] = "idle" /\ exists /\ ~meta.locked
    /\ \E r \in Roles, a \in Accounts \cup {NoOne} :
          Stands(Seen(r, a)) /\ snap' = [snap EXCEPT ![p] = Seen(r, a)]
    /\ push' = [push EXCEPT ![p] = "gate"]
    /\ UNCHANGED <<siteVars, regVars, opVars>>

\* BeginGitWrite, first half: one registration at a time, none while barred.
Register(p) ==
    /\ push[p] = "gate" /\ ~barred /\ running = NoOne
    /\ running' = p
    /\ push' = [push EXCEPT ![p] = "registered"]
    /\ UNCHANGED <<siteVars, barred, cancelled, siteLock, statsLock, snap, opVars>>

RefuseRegistration(p) ==
    /\ push[p] = "gate" /\ (barred \/ running # NoOne)
    /\ push' = [push EXCEPT ![p] = "idle"]
    /\ snap' = [snap EXCEPT ![p] = NoSnapshot]
    /\ UNCHANGED <<siteVars, regVars, opVars>>

\* The registration's end: the entry goes and done is closed, which wakes
\* every operation that waits for it.
EndRegistration(p) ==
    /\ running' = IF running = p THEN NoOne ELSE running
    /\ cancelled' = cancelled \ {p}
    /\ waitsFor' = [o \in Ops |-> IF waitsFor[o] = p THEN NoOne ELSE waitsFor[o]]
    /\ push' = [push EXCEPT ![p] = "idle"]
    /\ snap' = [snap EXCEPT ![p] = NoSnapshot]
    /\ UNCHANGED <<siteVars, barred, siteLock, statsLock, op, kind, timedOut>>

\* Mutant: meta.json is not read again after the registration.
CheckNothing(p) ==
    /\ push[p] = "registered"
    /\ push' = [push EXCEPT ![p] = IF snap[p].role = "collect" THEN "git" ELSE "checked"]
    /\ UNCHANGED <<siteVars, regVars, snap, opVars>>

\* BeginGitWrite, second half: registered first, meta.json read second.
CheckUnlocked(p) ==
    /\ push[p] = "registered"
    /\ IF exists /\ ~meta.locked
         THEN /\ push' = [push EXCEPT ![p] = IF snap[p].role = "collect" THEN "git" ELSE "checked"]
              /\ UNCHANGED <<siteVars, regVars, snap, opVars>>
         ELSE EndRegistration(p)

\* gitStandingHolds: the standing the gate saw, asked again of meta.json.
Holds(s) ==
    \/ s.role = "owner" /\ meta.owner = s.account
    \/ s.role = "admin" /\ meta.owner = s.owner /\ s.account \in meta.admins \ {meta.owner}
    \/ s.role = "password" /\ meta.pw = s.pw

CheckStanding(p) ==
    /\ push[p] = "checked"
    /\ IF exists /\ Holds(snap[p])
         THEN /\ push' = [push EXCEPT ![p] = "git"]
              /\ UNCHANGED <<siteVars, regVars, snap, opVars>>
         ELSE EndRegistration(p)

\* git init, receive-pack or gc changes the repository.  Cancelled or not: a
\* killed git still finishes what it is doing, and makes the folders it needs.
GitWrite(p) ==
    /\ push[p] = "git" /\ packs < MaxPacks
    /\ packs' = packs + 1
    /\ repo' = TRUE
    /\ UNCHANGED <<exists, meta, log, regVars, pushVars, opVars>>

GitExit(p) ==
    /\ push[p] = "git"
    /\ push' = [push EXCEPT ![p] = IF snap[p].role = "collect" THEN "end" ELSE "record"]
    /\ UNCHANGED <<siteVars, regVars, snap, opVars>>

\* recordPush: the push's provenance, under the stats lock; refused when
\* meta.json is gone.  A push that changed no ref records nothing.
Record(p) ==
    /\ push[p] = "record" /\ statsLock = NoOne
    /\ log' \in {log, log \/ exists}
    /\ push' = [push EXCEPT ![p] = "end"]
    /\ UNCHANGED <<exists, meta, repo, packs, regVars, snap, opVars>>

\* Mutant: the registration's end takes the site lock.
EndUnderLock(p) == push[p] = "end" /\ siteLock = NoOne /\ EndRegistration(p)

End(p) == push[p] = "end" /\ EndRegistration(p)

(***************************************************************************)
(* The operations that end the right to write.                             *)
(***************************************************************************)

Begins(o, k) ==
    /\ op[o] = "idle" /\ siteLock = NoOne /\ exists
    /\ kind' = [kind EXCEPT ![o] = k]
    /\ op' = [op EXCEPT ![o] = "stop"]
    /\ UNCHANGED <<repo, packs, log, running, cancelled, statsLock, pushVars, waitsFor, timedOut>>

\* Mutant: the lock is written and no push is stopped.
SetLockOnly(o) ==
    /\ op[o] = "idle" /\ siteLock = NoOne /\ exists
    /\ meta' = [meta EXCEPT !.locked = TRUE]
    /\ UNCHANGED <<exists, repo, packs, log, regVars, pushVars, opVars>>

\* SetLock (and a ReleaseLock that leaves a lock): written under the site
\* lock, stopped after it was released.
SetLock(o) ==
    /\ Begins(o, "lock")
    /\ meta' = [meta EXCEPT !.locked = TRUE]
    /\ UNCHANGED <<exists, barred, siteLock>>

\* settleLocked: the abuse guard holds the site; the writer that brought the
\* file keeps the site lock.
GuardHold(o) ==
    /\ ~meta.locked
    /\ Begins(o, "hold")
    /\ meta' = [meta EXCEPT !.locked = TRUE]
    /\ siteLock' = o
    /\ UNCHANGED <<exists, barred>>

\* TransferOwner: new owner, no admins, a fresh edit password.
Transfer(o) ==
    /\ ~meta.locked /\ meta.pw < MaxPasswords
    /\ Begins(o, "transfer")
    /\ \E to \in Accounts :
          meta' = [owner |-> to, admins |-> {}, pw |-> meta.pw + 1, locked |-> meta.locked]
    /\ siteLock' = o
    /\ UNCHANGED <<exists, barred>>

\* UpdateAdmins where an admin stops standing: any running push is stopped.
RemoveAdmins(o) ==
    /\ ~meta.locked
    /\ Begins(o, "admins")
    /\ \E left \in SUBSET meta.admins :
          /\ left # meta.admins
          /\ meta' = [meta EXCEPT !.admins = left]
    /\ siteLock' = o
    /\ UNCHANGED <<exists, barred>>

DropRepoUnbarred(o) ==
    /\ ~meta.locked
    /\ Begins(o, "dropRepo")
    /\ siteLock' = o
    /\ UNCHANGED <<exists, meta, barred>>

\* deleteChecked up to the stop: force is the operator's ForceDelete or the
\* sweep's PurgeLocked; anyone else is refused on a locked site.
Delete(o) ==
    /\ \E force \in BOOLEAN : meta.locked => force
    /\ Begins(o, "delete")
    /\ siteLock' = o
    /\ barred' = TRUE
    /\ UNCHANGED <<exists, meta>>

DropRepo(o) ==
    /\ ~meta.locked
    /\ Begins(o, "dropRepo")
    /\ siteLock' = o
    /\ barred' = TRUE
    /\ UNCHANGED <<exists, meta>>

\* What follows the stop: a removal goes on, everything else is over and
\* lets the site lock go if it kept it.
Proceed(o) ==
    /\ op' = [op EXCEPT ![o] = CASE kind[o] = "delete"   -> "stats"
                                 [] kind[o] = "dropRepo" -> "act"
                                 [] OTHER                -> "idle"]
    /\ kind' = IF kind[o] \in Removals THEN kind ELSE [kind EXCEPT ![o] = "none"]
    /\ siteLock' = IF siteLock = o /\ kind[o] \notin Removals THEN NoOne ELSE siteLock

\* stopGitWrite: look at the registry once; nothing runs.
StopNothing(o) ==
    /\ op[o] = "stop" /\ running = NoOne
    /\ Proceed(o)
    /\ UNCHANGED <<siteVars, running, barred, cancelled, statsLock, pushVars, waitsFor, timedOut>>

\* Mutant: what is cancelled is not asked whether it is there.
StopCancelBlindly(o) ==
    /\ op[o] = "stop"
    /\ cancelled' = cancelled \cup {running}
    /\ waitsFor' = [waitsFor EXCEPT ![o] = running]
    /\ op' = [op EXCEPT ![o] = "wait"]
    /\ UNCHANGED <<siteVars, running, barred, siteLock, statsLock, pushVars, kind, timedOut>>

\* stopGitWrite: cancel what runs and wait for it.
StopCancel(o) ==
    /\ op[o] = "stop" /\ running # NoOne
    /\ cancelled' = cancelled \cup {running}
    /\ waitsFor' = [waitsFor EXCEPT ![o] = running]
    /\ op' = [op EXCEPT ![o] = "wait"]
    /\ UNCHANGED <<siteVars, running, barred, siteLock, statsLock, pushVars, kind, timedOut>>

WaitDone(o) ==
    /\ op[o] = "wait" /\ waitsFor[o] = NoOne
    /\ Proceed(o)
    /\ UNCHANGED <<siteVars, running, barred, cancelled, statsLock, pushVars, waitsFor, timedOut>>

WaitTimeout(o) ==
    /\ op[o] = "wait" /\ waitsFor[o] # NoOne
    /\ waitsFor' = [waitsFor EXCEPT ![o] = NoOne]
    /\ timedOut' = TRUE
    /\ Proceed(o)
    /\ UNCHANGED <<siteVars, running, barred, cancelled, statsLock, pushVars>>

\* The delete takes the stats lock once the push has ended.
TakeStats(o) ==
    /\ op[o] = "stats" /\ statsLock = NoOne
    /\ statsLock' = o
    /\ op' = [op EXCEPT ![o] = "act"]
    /\ UNCHANGED <<siteVars, running, barred, cancelled, siteLock, pushVars, kind, waitsFor, timedOut>>

Release(o) ==
    /\ op' = [op EXCEPT ![o] = "idle"]
    /\ kind' = [kind EXCEPT ![o] = "none"]
    /\ barred' = FALSE
    /\ siteLock' = NoOne
    /\ UNCHANGED <<running, cancelled, pushVars, waitsFor, timedOut>>

RemoveSite(o) ==
    /\ op[o] = "act" /\ kind[o] = "delete"
    /\ exists' = FALSE /\ repo' = FALSE /\ log' = FALSE /\ packs' = 0
    /\ statsLock' = NoOne
    /\ Release(o)
    /\ UNCHANGED meta

RemoveRepo(o) ==
    /\ op[o] = "act" /\ kind[o] = "dropRepo"
    /\ repo' = FALSE /\ packs' = 0
    /\ Release(o)
    /\ UNCHANGED <<exists, meta, log, statsLock>>

(***************************************************************************)
(* Changes of meta.json that stop no push.                                 *)
(***************************************************************************)

MetaOnly == UNCHANGED <<exists, repo, packs, log, regVars, pushVars, opVars>>

\* SetLock(nil): the operator lifts the lock.
Unlock ==
    /\ siteLock = NoOne /\ exists /\ meta.locked
    /\ meta' = [meta EXCEPT !.locked = FALSE]
    /\ MetaOnly

\* UpdateAdmins that only adds.
AddAdmin ==
    /\ siteLock = NoOne /\ exists /\ ~meta.locked
    /\ \E a \in Accounts \ meta.admins :
          meta' = [meta EXCEPT !.admins = @ \cup {a}]
    /\ MetaOnly

\* SetEditPassword and SetEditPasswordIfOwner: an Update, nothing after it.
RotatePassword ==
    /\ siteLock = NoOne /\ exists /\ ~meta.locked /\ meta.pw < MaxPasswords
    /\ meta' = [meta EXCEPT !.pw = @ + 1]
    /\ MetaOnly

PushStep(p) ==
    \/ Gate(p) \/ Register(p) \/ RefuseRegistration(p) \/ CheckUnlocked(p)
    \/ CheckStanding(p) \/ GitWrite(p) \/ GitExit(p) \/ Record(p) \/ End(p)

OpStep(o) ==
    \/ SetLock(o) \/ GuardHold(o) \/ Transfer(o) \/ RemoveAdmins(o)
    \/ Delete(o) \/ DropRepo(o)
    \/ StopNothing(o) \/ StopCancel(o) \/ WaitDone(o) \/ WaitTimeout(o)
    \/ TakeStats(o) \/ RemoveSite(o) \/ RemoveRepo(o)

Next ==
    \/ \E p \in Pushes : PushStep(p)
    \/ \E o \in Ops : OpStep(o)
    \/ Unlock \/ AddAdmin \/ RotatePassword

\* A git that was killed exits; an operation that has begun goes on.
GitDies(p) == p \in cancelled /\ GitExit(p)
GoesOn(o) ==
    \/ StopNothing(o) \/ StopCancel(o) \/ WaitDone(o)
    \/ TakeStats(o) \/ RemoveSite(o) \/ RemoveRepo(o)

\* What Go and the operating system guarantee: a request that can go on does,
\* a killed git exits, the bookkeeping after it ends; an operation that has
\* begun goes on.  Nobody promises that a request comes, or that an
\* uncancelled git ever ends.
Fairness ==
    /\ \A p \in Pushes :
          /\ WF_vars(CheckUnlocked(p) \/ CheckStanding(p) \/ Record(p) \/ End(p))
          /\ WF_vars(GitDies(p))
    /\ \A o \in Ops : WF_vars(GoesOn(o))

Spec     == Init /\ [][Next]_vars
FairSpec == Spec /\ Fairness

(***************************************************************************)
(* Properties.                                                             *)
(***************************************************************************)

\* Everything a git process writing for push p rests on still holds.
Entitled(p) ==
    /\ exists /\ ~meta.locked
    /\ snap[p].role # "collect" => meta.owner = snap[p].owner
    /\ snap[p].role = "owner" => meta.owner = snap[p].account
    /\ snap[p].role = "admin" => snap[p].account \in meta.admins

\* "A push must not outlive the right it was let in with": whenever git runs
\* for a push, either the site still exists, is unlocked and gives the push's
\* owner or admin the standing it had, or somebody has cancelled the push or
\* is about to (BeginGitWrite registers before it reads meta.json; every
\* writer writes before it looks at the registry).
RunningIsEntitled ==
    \A p \in Pushes : push[p] = "git" =>
        \/ Entitled(p)
        \/ p \in cancelled
        \/ \E o \in Ops : op[o] = "stop"

\* At most one push is between its registration and its end, and it is the
\* one the registry names: two gits never write into one repository.
OneWriter ==
    \A p \in Pushes : push[p] \notin {"idle", "gate"} => running = p

\* A locked site's repository is evidence (gitwrite.go, the comment at the
\* head).  Once no lock writer is still stopping a push, nothing changes the
\* repository of a locked site but the removal of the whole site; this and the
\* next two hold until a killed git outlives gitStopWait.
Frozen ==
    /\ exists /\ meta.locked /\ ~timedOut
    /\ \A o \in Ops : op[o] \in {"stop", "wait"} => kind[o] \notin {"lock", "hold"}
FrozenRepository == [][Frozen /\ exists' => UNCHANGED <<repo, packs>>]_vars

\* deleteChecked cancels, waits, bars and only then removes: git never brings
\* sites/<id>/git back, and the push's record never brings its log back.
DeletedStaysDeleted == ~exists /\ ~timedOut => ~repo /\ ~log

\* While a removal takes the folder away no git process is in it.
NoGitBeneathRemoval ==
    ~timedOut =>
        \A o \in Ops : op[o] \in {"stats", "act"} =>
            \A p \in Pushes : push[p] \notin {"checked", "git", "record"}

\* A delete, a lock, a transfer and an admin change end: none of them waits
\* for a push that waits for the lock it holds (the reason the registration's
\* end takes no site lock, and the delete takes the stats lock last).
Busy(o) == op[o] # "idle"
OperationEnds == \A o \in Ops : Busy(o) ~> ~Busy(o)

\* gitserve.go's comment on gitStandingHolds: "a transfer, a share ending or
\* a rotation ... one that lands after the registration stops the push itself
\* (stopGitWrite)".  A push let in with an edit password that is no longer
\* the site's has been cancelled or is about to be.
RotationStopsPush ==
    \A p \in Pushes : push[p] = "git" /\ snap[p].role = "password" =>
        \/ snap[p].pw = meta.pw
        \/ p \in cancelled
        \/ \E o \in Ops : op[o] = "stop"
=============================================================================
