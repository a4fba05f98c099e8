------------------------------- MODULE Licence --------------------------------
(***************************************************************************)
(* The licence of a self-hosted instance (ee/licensing, ee/license.go): a  *)
(* key from the environment, or one collected from the stack and cached on *)
(* disk; the trial marker of the first start; and the status derived from  *)
(* them at every use.  Nothing wakes when a date passes: the status is     *)
(* computed, and only a renewed key has to reach the running process.  The *)
(* custom domains a key covers are left out: counted when one is added.    *)
(*                                                                         *)
(* A key is what Verify tells apart: whether its signatures, app and plan  *)
(* check out, and its dates (0 is no date).  Cryptography and the JSON     *)
(* shapes are left out.                                                    *)
(*                                                                         *)
(* Bounds: LastTime, MaxIssued keys the stack issues, MaxFaults.           *)
(***************************************************************************)
EXTENDS Integers

CONSTANTS
    Dates,         \* the dates a key may be issued with
    None, Unreadable,
    Trial,         \* TrialPeriod
    LastTime, MaxIssued, MaxFaults

LicenceAssumption ==
    /\ Trial \in Nat /\ Dates \subseteq [cert : Nat, ends : Nat, grace : Nat]
    /\ LastTime \in Nat /\ MaxIssued \in Nat /\ MaxFaults \in Nat
    /\ None # Unreadable /\ None \notin Nat /\ Unreadable \notin Nat

VARIABLES
    stack,      \* the key the stack would answer a renewal with
    env,        \* SITEBIN_LICENSE_KEY as it is set
    cache,      \* license.key
    marker,     \* trial-start: None while there is no file
    snap,       \* the manager's Snapshot; None while the process is down
    fetch,      \* the collection under way
    now, issued, faults

lvars == <<stack, env, cache, marker, snap, fetch, now, issued, faults>>
disk  == <<env, cache, marker>>

Times == 0 .. LastTime
\* A hosted plan's key, or a mistyped one, does not verify.
Keys  == [n : 1 .. MaxIssued, sound : BOOLEAN, dates : Dates]
Snaps == [key : Keys \cup {None}, licence : Keys \cup {None},
          source : {"", "env", "cache", "stack"}, trial : Times \cup {None}]

LicenceTypeOK ==
    /\ stack \in Keys \cup {None} /\ env \in Keys \cup {None} /\ cache \in Keys \cup {None}
    /\ marker \in Times \cup {None, Unreadable} /\ snap \in Snaps \cup {None}
    /\ fetch.at \in {"idle", "asked", "answered", "cached"} /\ fetch.key \in Keys \cup {None}
    /\ now \in Times /\ issued \in 0 .. MaxIssued /\ faults \in 0 .. MaxFaults

NoFetch == [at |-> "idle", key |-> None]

LicenceInit ==
    /\ stack = None /\ env = None /\ cache = None /\ marker = None /\ snap = None
    /\ fetch = NoFetch
    /\ now = 0 /\ issued = 0 /\ faults = 0

(***************************************************************************)
(* What a key says (Verify, GraceEnd, StatusAt).                           *)
(***************************************************************************)

Over(date) == date # 0 /\ now > date

Verifies(k) == k # None /\ k.sound /\ ~Over(k.dates.cert)

\* A grace that ends before the licence does never pulls its end forward.
GraceEnd(k) == IF k.dates.grace = 0 \/ k.dates.grace < k.dates.ends THEN k.dates.ends ELSE k.dates.grace

TrialOver == snap.trial # None /\ now > snap.trial + Trial

\* Mutant: a licence whose certificate has run out counts as an expired one.
CertOverExpires(k) == k # None /\ (Over(k.dates.cert) \/ Over(GraceEnd(k)))

\* Only a licence whose certificate still stands can be expired.
Expired(k) == k # None /\ ~Over(k.dates.cert) /\ Over(GraceEnd(k))

State ==
    CASE snap = None -> "unknown"
      [] snap # None /\ snap.licence # None /\ ~Over(snap.licence.dates.cert) ->
            CASE Over(GraceEnd(snap.licence)) -> "expired"
              [] ~Over(GraceEnd(snap.licence)) /\ Over(snap.licence.dates.ends) -> "grace"
              [] OTHER -> "licensed"
      [] OTHER -> IF snap.trial = None THEN "unknown" ELSE "none"

\* licenseGate: what AuthorizeCreate refuses on.
Restricted ==
    snap # None /\ \/ Expired(snap.licence)
                   \/ (snap.licence = None \/ Over(snap.licence.dates.cert)) /\ TrialOver

(***************************************************************************)
(* The manager.                                                            *)
(***************************************************************************)

\* Load and Start: the environment's key wins, verified or not; otherwise
\* the cache's is taken.  The first start writes the trial marker.
Boot(written) ==
    /\ snap = None
    /\ marker' = IF marker # None THEN marker ELSE IF written THEN now ELSE None
    /\ written \/ (faults < MaxFaults /\ marker = None)
    /\ faults' = IF written THEN faults ELSE faults + 1
    /\ LET key == IF env # None THEN env ELSE cache IN
       snap' = [key     |-> key,
                licence |-> IF Verifies(key) THEN key ELSE None,
                source  |-> CASE env # None -> "env" [] env = None /\ cache # None -> "cache" [] OTHER -> "",
                trial   |-> IF marker' \in Times THEN marker' ELSE None]
    /\ fetch' = NoFetch
    /\ UNCHANGED <<stack, env, cache, now, issued>>

\* The licence held is what the stack knows the instance by; without one
\* there is nothing to ask with, and an environment's key is never replaced.
Ask ==
    /\ snap # None /\ snap.source # "env" /\ snap.key # None /\ fetch.at = "idle"
    /\ fetch' = [at |-> "asked", key |-> snap.key]
    /\ UNCHANGED <<stack, disk, snap, now, issued, faults>>

\* The stack answers who presents a key it signed.
Answer ==
    /\ fetch.at = "asked"
    /\ fetch' = IF fetch.key.sound /\ stack # None THEN [at |-> "answered", key |-> stack] ELSE NoFetch
    /\ UNCHANGED <<stack, disk, snap, now, issued, faults>>

NoAnswer ==
    /\ fetch.at = "asked" /\ faults < MaxFaults /\ faults' = faults + 1
    /\ fetch' = NoFetch
    /\ UNCHANGED <<stack, disk, snap, now, issued>>

\* Mutant: only a key that is still in force is taken over.
TakesInForce(k) == k # snap.key /\ Verifies(k) /\ ~Over(k.dates.ends) /\ ~Over(snap.key.dates.ends)

\* The same key again, or one that does not check out, changes nothing.
Takes(k) == k # snap.key /\ Verifies(k)

WriteCache(ok) ==
    /\ fetch.at = "answered"
    /\ ok \/ faults < MaxFaults
    /\ faults' = IF ok THEN faults ELSE faults + 1
    /\ IF Takes(fetch.key)
       THEN fetch' = [fetch EXCEPT !.at = "cached"] /\ cache' = IF ok THEN fetch.key ELSE cache
       ELSE ok /\ fetch' = NoFetch /\ UNCHANGED cache
    /\ UNCHANGED <<stack, env, marker, snap, now, issued>>

Apply ==
    /\ fetch.at = "cached" /\ fetch' = NoFetch
    /\ snap' = [snap EXCEPT !.key = fetch.key, !.licence = fetch.key, !.source = "stack"]
    /\ UNCHANGED <<stack, disk, now, issued, faults>>

(***************************************************************************)
(* The stack, the operator, the clock.                                     *)
(***************************************************************************)

\* A first licence, a renewal, or one cut short by a change of plan.
Issue(k) ==
    /\ issued < MaxIssued /\ issued' = issued + 1
    /\ k.n = issued + 1 /\ k.sound /\ (k.dates.cert = 0 \/ k.dates.cert >= now)
    /\ stack' = k
    /\ UNCHANGED <<disk, snap, fetch, now, faults>>

\* The first key comes by mail and is put into the environment, or (a key
\* set once and unset later) into the cache's file; it may be mistyped.
Install(k, where) ==
    /\ snap = None /\ stack # None /\ k \in {stack, [stack EXCEPT !.sound = FALSE]}
    /\ CASE where = "env"   -> env' = k /\ UNCHANGED cache
         [] where = "cache" -> env' = None /\ cache' = k
    /\ UNCHANGED <<stack, marker, snap, fetch, now, issued, faults>>

Damage ==
    /\ marker \in Times /\ faults < MaxFaults /\ faults' = faults + 1
    /\ marker' = Unreadable
    /\ UNCHANGED <<stack, env, cache, snap, fetch, now, issued>>

Stop ==
    /\ snap # None /\ faults < MaxFaults /\ faults' = faults + 1
    /\ snap' = None /\ fetch' = NoFetch
    /\ UNCHANGED <<stack, disk, now, issued>>

Tick ==
    /\ now < LastTime /\ now' = now + 1
    /\ UNCHANGED <<stack, disk, snap, fetch, issued, faults>>

LicenceNext ==
    \/ \E ok \in BOOLEAN : Boot(ok) \/ WriteCache(ok)
    \/ Ask \/ Answer \/ NoAnswer \/ Apply
    \/ \E k \in Keys : Issue(k) \/ \E where \in {"env", "cache"} : Install(k, where)
    \/ Damage \/ Stop \/ Tick

Collects == Ask \/ Answer \/ WriteCache(TRUE) \/ Apply

\* The process is started again, and its loop goes on collecting.
LicenceSpec ==
    /\ LicenceInit /\ [][LicenceNext]_lvars
    /\ WF_lvars(Boot(TRUE)) /\ WF_lvars(Collects)

(***************************************************************************)
(* Properties.                                                             *)
(***************************************************************************)

\* A mistake never costs more than having no licence: creation is refused
\* only on a licence that verified, whose certificate stands and whose grace
\* is over, or once the trial that began with the marker is.
NeverHarsherThanNone ==
    Restricted => State = "expired" \/ (State = "none" /\ TrialOver)

\* A renewal reaches the running instance without a restart, an expired
\* licence included: that is when it is needed.
Collectable(n) ==
    /\ stack # None /\ stack.n = n /\ Verifies(stack)
    /\ snap # None /\ snap.source # "env" /\ snap.key # None /\ snap.key.sound
Collected == snap # None /\ snap.licence = stack
RenewalArrives == \A n \in 1 .. MaxIssued : <>[]Collectable(n) => <>[]Collected
=============================================================================
