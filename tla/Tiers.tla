-------------------------------- MODULE Tiers --------------------------------
(***************************************************************************)
(* The plan of an account and the lifetime of its sites                    *)
(* (src/ee/provider.go, src/ee/billingh.go, src/ee/billing/paygate.go,     *)
(* src/internal/store/expiry.go, src/internal/cleanup/cleanup.go).         *)
(*                                                                         *)
(* A site carries the lifetime cap of the plan it was last stamped with    *)
(* and the day it expires.  The plan is asked of PayGate, whose answers    *)
(* are cached, or told by a provider's webhook; a change of plan restamps  *)
(* the account's sites one by one.  Meanwhile uploads slide the dates,     *)
(* owners choose their own, and the hourly sweep deletes what expired,     *)
(* after it asked for the plan once more.                                  *)
(*                                                                         *)
(* One account and its sites; a tier is what it caps.                      *)
(***************************************************************************)
EXTENDS Naturals

CONSTANTS
    TierSites,      \* the sites
    Walkers,        \* requests that may restamp the account's sites
    Uploads,        \* uploads
    Events,         \* the provider's webhook events
    TierIds,        \* ids of tiers
    Configured,     \* those of SITEBIN_TIERS
    Cap,            \* days a site lives on a tier, 0 for no limit
    FreeTiers,      \* those the owner may select
    DefaultTier,    \* the tier of a subscription that ended
    Content,        \* the tier an event sets
    NoPlan,         \* PayGate knows no subscription
    Outage,         \* PayGate does not answer
    Stale,          \* no cached answer
    Never,          \* no expiry
    Idle,           \* of walkers, uploads and the sweep: nothing under way
    Grace,          \* days a permanent site keeps after a downgrade
    SweepGrace,     \* days the sweep leaves an expired site
    LastDay,        \* bound of the clock
    MaxChanges      \* bound: changes of plan, owners' dates, locks, failures

TiersAssumption ==
    /\ Configured \subseteq TierIds /\ FreeTiers \subseteq Configured
    /\ DefaultTier \in Configured
    /\ Cap \in [TierIds -> Nat] /\ Content \in [Events -> TierIds]
    /\ Grace \in Nat \ {0} /\ SweepGrace \in Nat /\ LastDay \in Nat
    /\ MaxChanges \in Nat /\ Never \notin Nat

VARIABLES
    now,        \* the day
    answer,     \* what PayGate would answer now
    cached,     \* the answer it is remembered with
    tier,       \* the tier recorded on the account
    home,       \* per site: is it there, held, marked as the account's; its
                \* cap, its date, and whether the tier imposed the date
    walk,       \* per walker: what it restamps, and for whom
    sweep,      \* the sweep's work on one expired site
    upload,     \* per upload: the site and its meta.json as the gate read it
    seen,       \* the events recorded as applied
    applied,    \* how often each event was applied
    changes     \* changes so far

tiersVars == <<now, answer, cached, tier, home, walk, sweep, upload, seen,
               applied, changes>>

Dates == Nat \cup {Never}
Homes == [live : BOOLEAN, held : BOOLEAN, marked : BOOLEAN, cap : Nat,
          date : Dates, imposed : BOOLEAN]
Walks == [why : {"sync", "told", "event"}, to : TierIds, event : Events \cup {Idle},
          todo : SUBSET TierSites, failed : BOOLEAN]

\* An expired site is asked about, then held against the plan's cap.
Deletions == [site : TierSites, at : Nat, step : {"due"}, to : {Idle}]
             \cup [site : TierSites, at : Nat, step : {"asked", "condemned"}, to : TierIds]

TiersTyped ==
    /\ now \in Nat
    /\ answer \in TierIds \cup {NoPlan, Outage}
    /\ cached \in TierIds \cup {NoPlan, Outage, Stale}
    /\ tier \in TierIds
    /\ home \in [TierSites -> Homes]
    /\ walk \in [Walkers -> Walks \cup {Idle}]
    /\ sweep \in Deletions \cup {Idle}
    /\ upload \in [Uploads -> [site : TierSites, read : Homes] \cup {Idle}]
    /\ seen \subseteq Events
    /\ applied \in [Events -> Nat]

TiersTypeOK ==
    /\ TiersTyped
    /\ now <= LastDay /\ changes \in 0..MaxChanges
    /\ \A s \in TierSites : home[s].date \in 0..(LastDay + Grace) \cup {Never}

\* The sites of an account as creation left them on a tier: permanent, or with
\* the tier's lifetime before them.
Created(t) ==
    [live |-> TRUE, held |-> FALSE, marked |-> TRUE, cap |-> Cap[t],
     date |-> IF Cap[t] = 0 THEN Never ELSE Cap[t], imposed |-> Cap[t] > 0]

TiersInit ==
    /\ now = 0
    /\ tier \in Configured
    /\ answer \in {tier, NoPlan} /\ cached = Stale
    /\ home = [s \in TierSites |-> Created(tier)]
    /\ walk = [k \in Walkers |-> Idle]
    /\ sweep = Idle
    /\ upload = [u \in Uploads |-> Idle]
    /\ seen = {} /\ applied = [e \in Events |-> 0]
    /\ changes = 0

Changing == changes < MaxChanges /\ changes' = changes + 1

(***************************************************************************)
(* The plan.                                                               *)
(***************************************************************************)

\* TierFor: the cached answer while it lasts, else PayGate's, remembered.  A
\* lookup is one step; the cache is what makes its answer old.
Asked == IF cached = Stale THEN answer ELSE cached

\* storedTier is a guess when the account names a tier nobody configured.
Stored == {t \in {tier} : t \in Configured}

\* effectiveTierStrict: the tiers an answer stands for, none when it cannot be
\* known.  No subscription, or one to a tier this instance does not have,
\* falls back to the recorded tier.
Strict(a) ==
    IF a = Outage THEN {}
    ELSE IF a \in Configured THEN {a} ELSE Stored

PlanChanges ==
    /\ Changing
    /\ answer' \in (TierIds \cup {NoPlan, Outage}) \ {answer}
    /\ UNCHANGED <<now, cached, tier, home, walk, sweep, upload, seen, applied>>

\* The cache's TTL ran out, or a dashboard asked afresh (RefreshTierFor).
CacheChanges ==
    /\ cached' \in {Stale, answer} \ {cached}
    /\ UNCHANGED <<now, answer, tier, home, walk, sweep, upload, seen, applied, changes>>

(***************************************************************************)
(* Restamping.                                                             *)
(***************************************************************************)

\* MUTANT: the clamp looks at the date alone, not at the cap's direction.
ShrinksAlways(m, c) == TRUE

\* ApplyQuota's transition table for a cap of c days.
Shrinks(m, c) == m.cap = 0 \/ c < m.cap

Grows(m, c) == m.cap > 0 /\ c > m.cap

RestampedDate(m, c, grace) ==
    CASE c = 0 -> IF m.imposed THEN Never ELSE m.date
      [] c > 0 /\ m.date = Never -> IF grace > 0 THEN now + grace ELSE Never
      [] c > 0 /\ m.date # Never /\ Shrinks(m, c) ->
            IF m.date > now + c THEN now + c ELSE m.date
      [] c > 0 /\ m.date # Never /\ Grows(m, c) ->
            IF m.imposed THEN now + c ELSE m.date
      [] OTHER -> m.date

Restamped(m, c, grace) ==
    [m EXCEPT !.cap = c,
              !.date = RestampedDate(m, c, grace),
              !.imposed = c > 0 /\ (m.imposed \/ (m.date = Never /\ grace > 0))]

\* The sites whose markers the account has.
Marked == {s \in TierSites : home[s].marked}

\* syncTier, of a dashboard render or a creation: the tier resolved strictly,
\* restamped before it is recorded.
SyncStart(k) ==
    /\ walk[k] = Idle
    /\ cached' = Asked
    /\ \E t \in Strict(Asked) \ {tier} :
         walk' = [walk EXCEPT ![k] = [why |-> "sync", to |-> t, event |-> Idle,
                                      todo |-> Marked, failed |-> FALSE]]
    /\ UNCHANGED <<now, answer, tier, home, sweep, upload, seen, applied, changes>>

\* handleSelectTier: recorded, then restamped.
SelectTier(k) ==
    /\ walk[k] = Idle /\ Changing
    /\ \E t \in FreeTiers :
         /\ tier' = t
         /\ walk' = [walk EXCEPT ![k] = [why |-> "told", to |-> t, event |-> Idle,
                                         todo |-> Marked, failed |-> FALSE]]
    /\ UNCHANGED <<now, answer, cached, home, sweep, upload, seen, applied>>

\* MUTANT: a delivery is refused only once it has been applied.
DeliverUnrecorded(k, e) ==
    /\ walk[k] = Idle /\ applied[e] = 0
    /\ walk' = [walk EXCEPT ![k] = [why |-> "event", to |-> Content[e], event |-> e,
                                    todo |-> {}, failed |-> FALSE]]
    /\ UNCHANGED <<now, answer, cached, tier, home, sweep, upload, seen, applied, changes>>

\* webhookHandler: a delivery seen before is acknowledged and dropped; another
\* is recorded as seen, before it is applied.
Deliver(k, e) ==
    /\ walk[k] = Idle /\ e \notin seen
    /\ seen' = seen \cup {e}
    /\ walk' = [walk EXCEPT ![k] = [why |-> "event", to |-> Content[e], event |-> e,
                                    todo |-> {}, failed |-> FALSE]]
    /\ UNCHANGED <<now, answer, cached, tier, home, sweep, upload, applied, changes>>

\* applyBillingUpdate: recorded; the sites of a configured tier are restamped.
ApplyEvent(k) ==
    /\ walk[k] # Idle /\ walk[k].why = "event"
    /\ tier' = walk[k].to
    /\ applied' = [applied EXCEPT ![walk[k].event] = @ + 1]
    /\ walk' = [walk EXCEPT ![k] =
                  IF walk[k].to \in Configured
                  THEN [@ EXCEPT !.why = "told", !.todo = Marked] ELSE Idle]
    /\ UNCHANGED <<now, answer, cached, home, sweep, upload, seen, changes>>

\* The account could not be written: the provider is answered 500.
EventFails(k) ==
    /\ walk[k] # Idle /\ walk[k].why = "event" /\ Changing
    /\ walk' = [walk EXCEPT ![k] = Idle]
    /\ UNCHANGED <<now, answer, cached, tier, home, sweep, upload, seen, applied>>

\* restampSites, one site: the marker of a site that is gone is dropped, a
\* held site keeps its caps, and a failure is remembered but stops nothing.
RestampSite(k, s) ==
    /\ walk[k] # Idle /\ walk[k].why # "event" /\ s \in walk[k].todo
    /\ \/ /\ walk' = [walk EXCEPT ![k].todo = @ \ {s}]
          /\ home' = [home EXCEPT ![s] =
                        IF ~@.live THEN [@ EXCEPT !.marked = FALSE]
                        ELSE IF @.held THEN @
                        ELSE Restamped(@, Cap[walk[k].to], Grace)]
          /\ UNCHANGED changes
       \/ /\ Changing
          /\ walk' = [walk EXCEPT ![k].todo = @ \ {s}, ![k].failed = TRUE]
          /\ UNCHANGED home
    /\ UNCHANGED <<now, answer, cached, tier, sweep, upload, seen, applied>>

\* The walk's end: a sync records the tier, unless a site failed.
RestampEnd(k) ==
    /\ walk[k] # Idle /\ walk[k].why # "event" /\ walk[k].todo = {}
    /\ walk' = [walk EXCEPT ![k] = Idle]
    /\ tier' = IF walk[k].why = "sync" /\ ~walk[k].failed THEN walk[k].to ELSE tier
    /\ UNCHANGED <<now, answer, cached, home, sweep, upload, seen, applied, changes>>

(***************************************************************************)
(* The sweep and an expired site.                                          *)
(***************************************************************************)

Expired(date, day) == date # Never /\ day > date + SweepGrace

SweepFinds(s) ==
    /\ sweep = Idle
    /\ home[s].live /\ ~home[s].held /\ Expired(home[s].date, now)
    /\ sweep' = [site |-> s, at |-> now, step |-> "due", to |-> Idle]
    /\ UNCHANGED <<now, answer, cached, tier, home, walk, upload, seen, applied, changes>>

\* QuotaFor: without an answer the site is kept.
SweepAsks ==
    /\ sweep # Idle /\ sweep.step = "due"
    /\ cached' = Asked
    /\ \/ \E t \in Strict(Asked) : sweep' = [sweep EXCEPT !.step = "asked", !.to = t]
       \/ Strict(Asked) = {} /\ sweep' = Idle
    /\ UNCHANGED <<now, answer, tier, home, walk, upload, seen, applied, changes>>

\* reconcile's restamp, which invents no date, and its second look at the date.
SweepRestamps ==
    /\ sweep # Idle /\ sweep.step = "asked"
    /\ LET m == Restamped(home[sweep.site], Cap[sweep.to], 0)
       IN  IF home[sweep.site].live
           THEN /\ home' = [home EXCEPT ![sweep.site] = m]
                /\ sweep' = IF Expired(m.date, sweep.at)
                            THEN [sweep EXCEPT !.step = "condemned"] ELSE Idle
           ELSE sweep' = Idle /\ UNCHANGED home
    /\ UNCHANGED <<now, answer, cached, tier, walk, upload, seen, applied, changes>>

\* The containers are stopped and the site deleted; a hold refuses.
SweepDeletes ==
    /\ sweep # Idle /\ sweep.step = "condemned"
    /\ home' = IF home[sweep.site].held THEN home
               ELSE [home EXCEPT ![sweep.site].live = FALSE]
    /\ sweep' = Idle
    /\ UNCHANGED <<now, answer, cached, tier, walk, upload, seen, applied, changes>>

(***************************************************************************)
(* Uploads, owners, operators, days.                                       *)
(***************************************************************************)

UploadStart(u, s) ==
    /\ upload[u] = Idle
    /\ home[s].live /\ ~home[s].held
    /\ upload' = [upload EXCEPT ![u] = [site |-> s, read |-> home[s]]]
    /\ UNCHANGED <<now, answer, cached, tier, home, walk, sweep, seen, applied, changes>>

\* renewExpiryLocked decides by the meta.json the gate read and writes the date
\* into the one that is there now; a hold placed since stops the upload.
Renews(read) ==
    read.cap > 0 /\ read.date # Never /\ read.imposed /\ now + read.cap > read.date

UploadEnd(u) ==
    /\ upload[u] # Idle
    /\ LET s == upload[u].site
           read == upload[u].read
       IN  home' = IF home[s].live /\ ~home[s].held /\ Renews(read)
                   THEN [home EXCEPT ![s].date = now + read.cap] ELSE home
    /\ upload' = [upload EXCEPT ![u] = Idle]
    /\ UNCHANGED <<now, answer, cached, tier, walk, sweep, seen, applied, changes>>

\* The owner chooses a date within the cap, or none where the tier caps none.
SetDate(s) ==
    /\ Changing /\ home[s].live /\ ~home[s].held
    /\ \E d \in 1..2 \cup {0} :
         /\ d = 0 => home[s].cap = 0
         /\ home[s].cap > 0 => d <= home[s].cap
         /\ home' = [home EXCEPT ![s].date = IF d = 0 THEN Never ELSE now + d,
                                 ![s].imposed = FALSE]
    /\ UNCHANGED <<now, answer, cached, tier, walk, sweep, upload, seen, applied>>

\* The operator's hold, placed or lifted; the owner's delete.
Hold(s) ==
    /\ Changing /\ home[s].live
    /\ home' = [home EXCEPT ![s].held = ~@]
    /\ UNCHANGED <<now, answer, cached, tier, walk, sweep, upload, seen, applied>>

OwnerDeletes(s) ==
    /\ Changing /\ home[s].live /\ ~home[s].held
    /\ home' = [home EXCEPT ![s].live = FALSE]
    /\ UNCHANGED <<now, answer, cached, tier, walk, sweep, upload, seen, applied>>

Day ==
    /\ now < LastDay
    /\ now' = now + 1
    /\ UNCHANGED <<answer, cached, tier, home, walk, sweep, upload, seen, applied, changes>>

TiersNext ==
    \/ PlanChanges \/ CacheChanges \/ Day
    \/ \E k \in Walkers :
         \/ SyncStart(k) \/ SelectTier(k) \/ ApplyEvent(k) \/ EventFails(k)
         \/ RestampEnd(k)
         \/ \E e \in Events : Deliver(k, e)
         \/ \E s \in TierSites : RestampSite(k, s)
    \/ \E s \in TierSites : SweepFinds(s) \/ SetDate(s) \/ Hold(s) \/ OwnerDeletes(s)
    \/ SweepAsks \/ SweepRestamps \/ SweepDeletes
    \/ \E u \in Uploads : UploadEnd(u) \/ \E s \in TierSites : UploadStart(u, s)

(***************************************************************************)
(* What is promised.                                                       *)
(***************************************************************************)

\* A step of an upload that went by a meta.json changed since (see
\* OwnersDateStands).
StaleUpload(s) ==
    \E u \in Uploads : upload[u] # Idle /\ upload[u].site = s
                       /\ upload'[u] = Idle /\ upload[u].read # home[s]

\* The days a plan granted stay granted.  Whatever is retried, repeated or
\* raced while the plan stays - a sync that failed half way, two renders of the
\* dashboard, an upload during the 30 days after a downgrade, the sweep - a
\* date the tier imposed never moves closer, until its owner says so.
KeepsGrace ==
    \A s \in TierSites :
        LET m == home[s]
            n == home'[s]
        IN  m.live /\ m.imposed /\ m.date # Never /\ n.imposed /\ n.cap = m.cap
            => n.date # Never /\ (n.date >= m.date \/ StaleUpload(s))

\* A webhook event changes the account at most once, however often and however
\* close together it is delivered: a replayed order does not bring back a plan
\* that was cancelled since.
AppliedOnce == \A e \in Events : applied[e] <= 1

\* What makes an event be applied once: whoever is about to apply it has
\* recorded it, alone, and it has not been applied yet.
Applies(k, e) == walk[k] # Idle /\ walk[k].why = "event" /\ walk[k].event = e

EventsInv ==
    /\ \A e \in Events : applied[e] <= 1 /\ (e \notin seen => applied[e] = 0)
    /\ \A k \in Walkers : walk[k] # Idle /\ walk[k].why = "event" => walk[k].event \in Events
    /\ \A k \in Walkers, e \in Events : Applies(k, e) =>
          /\ e \in seen /\ applied[e] = 0
          /\ \A j \in Walkers \ {k} : ~Applies(j, e)

\* A plan with a longer cap moves the date it imposed out (store/expiry.go:98).
\* The code breaks it: during the 30 days after a downgrade, a change to a
\* longer but finite cap sets the date to now plus that cap, which is closer.
LongerCapMovesOut ==
    [][\A s \in TierSites :
         LET m == home[s]
             n == home'[s]
         IN  m.live /\ m.imposed /\ m.date # Never /\ n.imposed /\ n.cap > m.cap
             => n.date >= m.date]_tiersVars

\* A date the owner chose is the owner's: an upload does not move it
\* (README.md:166).  The code breaks it: the upload decides by the meta.json
\* it read when it began.
OwnersDateStands ==
    [][\A s \in TierSites :
         home[s].date # Never /\ ~home[s].imposed
         /\ (\E u \in Uploads : upload[u] # Idle /\ upload'[u] = Idle)
         => home'[s].date = home[s].date]_tiersVars
==============================================================================
