------------------------------- MODULE Domains -------------------------------
(***************************************************************************)
(* Custom domains (internal/store/domains.go, domainverify.go,             *)
(* hostshare.go, pathindex.go): how a site claims an address, proves it,   *)
(* gets it attached, and loses it again.                                   *)
(*                                                                         *)
(* An address is a host or a path on one.  What is served is the index:    *)
(* one link per address, naming a site.  What the owner sees is meta.json: *)
(* the addresses the site lists and its claims, pending or verified.  The  *)
(* two are written one after the other, and a claim is looked up (index,   *)
(* other sites, DNS) with no lock held; only each change of meta.json is   *)
(* one step.  Requests of owners and the sweep use the same attach.        *)
(*                                                                         *)
(* Dates are left out: any pending claim may be past its seven days when   *)
(* the sweep asks, and of an address without proof any revocation window   *)
(* may be running or over its 72 hours.  A locked site is one nobody acts  *)
(* on for a while.  Domains from before there were claims are left out.    *)
(***************************************************************************)
EXTENDS Naturals, FiniteSets

CONSTANTS
    Sites,
    Owners,
    Addresses,
    HostOf,       \* the host of each address
    Askers,       \* owners' requests
    DSweep,       \* the hourly sweep
    NoSite,
    NoOwner,
    MaxEvents     \* hand-overs, changes of zones, crashes, failing writes and torn addresses

DomainsAssumption ==
    /\ DSweep \notin Askers
    /\ NoSite \notin Sites /\ NoOwner \notin Owners
    /\ MaxEvents \in Nat

Actors == Askers \cup {DSweep}
Hosts  == {HostOf[a] : a \in Addresses}

VARIABLES
    link,      \* the index: the site each address serves
    live,      \* the sites there are
    siteOwner, \* meta.json: the owner
    listed,    \* meta.json: CustomDomains
    claim,     \* meta.json: DomainClaims
    zone,      \* the account that has a verified zone around each host
    task,      \* what each request and the sweep is doing
    todo,      \* the claim the sweep read and has not come to
    pruning,   \* the addresses whose links the sweep found dangling
    events,    \* hand-overs, changes of zones, crashes and failing writes so far
    tangled,   \* addresses whose index and meta.json a race or a crash tore apart
    crossed    \* hosts on which a race let in a second owner

dvars == <<link, live, siteOwner, listed, claim, zone, task, todo, pruning,
           events, tangled, crossed>>
metaVars == <<live, siteOwner, listed, claim>>

\* How much has happened that the bound counts.
Disturbances == events + Cardinality(tangled)

\* A claim: none, pending, verified by its own proof or through the host.
Claims  == {"none", "pending", "own", "host"}
Verified(c) == c \in {"own", "host"}

Free  == [step |-> "idle"]
Steps == {"claim", "host", "clear", "make", "write", "undo",
          "drop", "ok", "viaHost", "unlink", "demote"}
Tasks == [step : Steps, site : Sites, addr : Addresses, owner : Owners, as : {"own", "host"}]

DomainsTyped ==
    /\ link \in [Addresses -> Sites \cup {NoSite}]
    /\ live \subseteq Sites
    /\ siteOwner \in [Sites -> Owners]
    /\ listed \in [Sites -> SUBSET Addresses]
    /\ claim \in [Sites -> [Addresses -> Claims]]
    /\ zone \in [Hosts -> Owners \cup {NoOwner}]
    /\ task \in [Actors -> {Free} \cup Tasks]
    /\ todo \subseteq [site : Sites, addr : Addresses, owner : Owners, was : Claims]
    /\ pruning \subseteq Addresses
    /\ tangled \subseteq Addresses /\ crossed \subseteq Hosts

DomainsTypeOK == DomainsTyped /\ events \in 0 .. MaxEvents

DomainsInit ==
    /\ link = [a \in Addresses |-> NoSite]
    /\ live = Sites
    /\ siteOwner \in [Sites -> Owners]
    /\ listed = [s \in Sites |-> {}]
    /\ claim = [s \in Sites |-> [a \in Addresses |-> "none"]]
    /\ zone = [h \in Hosts |-> NoOwner]
    /\ task = [p \in Actors |-> Free]
    /\ todo = {} /\ pruning = {}
    /\ events = 0
    /\ tangled = {} /\ crossed = {}

(***************************************************************************)
(* Reading the index.                                                      *)
(***************************************************************************)

\* ByDomain: the site of the address; a link to a site that is gone dangles.
Serves(a)   == IF link[a] \in live THEN link[a] ELSE NoSite
Dangling(a) == link[a] # NoSite /\ link[a] \notin live

\* HostAddresses: the attached addresses on a host.
OnHost(h) == {a \in Addresses : HostOf[a] = h /\ Serves(a) # NoSite}

\* hostForeign, for a site that belongs to `who`.
HostForeign(s, who, h) ==
    \E a \in OnHost(h) : link[a] # s /\ siteOwner[link[a]] # who

\* vouchFor: another address on a's host that its owner holds by a proof of
\* its own, with no window running.
MayVouch(who, a) ==
    \E b \in OnHost(HostOf[a]) \ {a} :
        siteOwner[link[b]] = who /\ claim[link[b]][b] \in {"none", "own"}

\* What verify may answer: the zone decides by whose site it is, else DNS.
Answers(who, a) ==
    CASE zone[HostOf[a]] = NoOwner -> {"yes", "no", "error"}
      [] zone[HostOf[a]] = who     -> {"yes"}
      [] OTHER                     -> {"no"}

(***************************************************************************)
(* Tasks.                                                                  *)
(***************************************************************************)

Does(p, step)  == task[p].step = step
Next_(p, step) == task' = [task EXCEPT ![p].step = step]
Done(p)        == task' = [task EXCEPT ![p] = Free]

\* ErrDomainTaken: a request says so, the sweep forgets the claim.
Taken(p) == IF p = DSweep THEN Next_(p, "drop") ELSE Done(p)

\* Who is at work on an address: a request or the sweep in the middle of
\* something, or the sweep with a claim on it still to come to.
AtWork(a) ==
    {p \in Actors : task[p] # Free /\ task[p].addr = a}
      \cup (IF \E c \in todo : c.addr = a THEN {DSweep} ELSE {})
Tangle(A) == tangled' = tangled \cup {a \in A : AtWork(a) # {}}

SetMeta(s, a, on, c) ==
    /\ listed' = [listed EXCEPT ![s] = IF on THEN @ \cup {a} ELSE @ \ {a}]
    /\ claim' = [claim EXCEPT ![s][a] = c]
    /\ UNCHANGED <<live, siteOwner>>

(***************************************************************************)
(* AddDomain, up to attach.                                                *)
(***************************************************************************)

\* The gate: nobody else's zone, nobody else's site, nobody else's host.
\* An address that is attached to this site already has its own proof looked
\* up when it is held through the host.
AskDomain(p, s, a) ==
    LET who == siteOwner[s]
        at(step) == task' = [task EXCEPT ![p] =
                       [step |-> step, site |-> s, addr |-> a, owner |-> who, as |-> "own"]]
    IN  /\ task[p] = Free /\ s \in live
        /\ zone[HostOf[a]] \in {NoOwner, who}
        /\ IF a \in listed[s] /\ Serves(a) = s
           THEN claim[s][a] = "host" /\ "yes" \in Answers(who, a) /\ at("ok")
           ELSE /\ Serves(a) \in {s, NoSite}
                /\ ~HostForeign(s, who, HostOf[a])
                /\ at("claim")
        /\ tangled' = tangled \cup (IF AtWork(a) # {} THEN {a} ELSE {})
        /\ UNCHANGED <<link, metaVars, zone, todo, pruning, events, crossed>>

\* The claim is recorded, or found.  Verified but not indexed is repaired;
\* else it goes through the host where another address vouches for it, or by
\* DNS; not proven, it stays pending, with what the check found.
RecordClaim(p) ==
    LET s == task[p].site  a == task[p].addr  who == siteOwner[s]
        attach(as) == task' = [task EXCEPT ![p].step = "host", ![p].as = as, ![p].owner = who]
    IN  /\ Does(p, "claim")
        /\ IF s \notin live THEN Done(p) /\ UNCHANGED claim
           ELSE /\ claim' = [claim EXCEPT ![s][a] = IF @ = "none" THEN "pending" ELSE @]
                /\ IF Verified(claim[s][a]) THEN attach(claim[s][a])
                   ELSE \/ zone[HostOf[a]] # who /\ MayVouch(who, a) /\ attach("host")
                        \/ \E yes \in Answers(who, a) : IF yes = "yes" THEN attach("own") ELSE Done(p)
        /\ UNCHANGED <<link, live, siteOwner, listed, zone, todo, pruning, events, tangled, crossed>>

(***************************************************************************)
(* attach: the only way into the index.                                    *)
(***************************************************************************)

\* Others who have looked at the host and will attach there for another owner.
Racing(p) ==
    {q \in Actors \ {p} : /\ task[q].step \in {"clear", "make", "write"}
                          /\ HostOf[task[q].addr] = HostOf[task[p].addr]
                          /\ siteOwner[task[q].site] # siteOwner[task[p].site]}

\* The link: to be made, dangling, or this site's already; or another site's.
LookAtLink(p) ==
    LET a == task[p].addr
    IN  CASE link[a] = NoSite                       -> Next_(p, "make")
          [] Dangling(a)                            -> Next_(p, "clear")
          [] ~Dangling(a) /\ link[a] = task[p].site -> Next_(p, "write")
          [] OTHER                                  -> Taken(p)

NoteRace(p) ==
    crossed' = IF Racing(p) # {} THEN crossed \cup {HostOf[task[p].addr]} ELSE crossed

\* Mutant: the host's owner was asked for before, when the claim was made.
StartUnasked(p) ==
    /\ Does(p, "host")
    /\ LookAtLink(p) /\ NoteRace(p)
    /\ UNCHANGED <<link, metaVars, zone, todo, pruning, events, tangled>>

StartAttach(p) ==
    /\ Does(p, "host")
    /\ IF HostForeign(task[p].site, task[p].owner, HostOf[task[p].addr])
       THEN Taken(p) /\ UNCHANGED crossed
       ELSE LookAtLink(p) /\ NoteRace(p)
    /\ UNCHANGED <<link, metaVars, zone, todo, pruning, events, tangled>>

\* The dangling link is removed, by its name: it may be a fresh one by now.
ClearLink(p) ==
    /\ Does(p, "clear")
    /\ link' = [link EXCEPT ![task[p].addr] = NoSite]
    /\ Next_(p, "make")
    /\ UNCHANGED <<metaVars, zone, todo, pruning, events, tangled, crossed>>

\* A link that somebody made meanwhile is taken for one's own, or making
\* the own one fails on it.
MakeLink(p) ==
    /\ Does(p, "make")
    /\ IF link[task[p].addr] = NoSite
       THEN link' = [link EXCEPT ![task[p].addr] = task[p].site] /\ Next_(p, "write")
       ELSE UNCHANGED link /\ (Next_(p, "write") \/ Done(p))
    /\ UNCHANGED <<metaVars, zone, todo, pruning, events, tangled, crossed>>

\* Mutant: the address is listed, its claim stays pending.
WriteListing(p) ==
    /\ Does(p, "write") /\ task[p].site \in live
    /\ SetMeta(task[p].site, task[p].addr, TRUE, claim[task[p].site][task[p].addr])
    /\ Done(p)
    /\ UNCHANGED <<link, zone, todo, pruning, events, tangled, crossed>>

WriteAttached(p) ==
    /\ Does(p, "write") /\ task[p].site \in live
    /\ SetMeta(task[p].site, task[p].addr, TRUE, task[p].as)
    /\ Done(p)
    /\ UNCHANGED <<link, zone, todo, pruning, events, tangled, crossed>>

\* The write fails, because the site is gone or the disk is full.
WriteFails(p) ==
    /\ Does(p, "write")
    /\ \/ task[p].site \notin live /\ UNCHANGED events
       \/ Disturbances < MaxEvents /\ events' = events + 1
    /\ Next_(p, "undo")
    /\ UNCHANGED <<link, metaVars, zone, todo, pruning, tangled, crossed>>

\* Mutant: a failed write leaves the link.
KeepLink(p) ==
    /\ Does(p, "undo") /\ Done(p)
    /\ UNCHANGED <<link, metaVars, zone, todo, pruning, events, tangled, crossed>>

\* removeLink, by its name again.
UndoLink(p) ==
    /\ Does(p, "undo")
    /\ link' = [link EXCEPT ![task[p].addr] = NoSite]
    /\ Done(p)
    /\ UNCHANGED <<metaVars, zone, todo, pruning, events, tangled, crossed>>

Attach(p) ==
    \/ StartAttach(p) \/ ClearLink(p) \/ MakeLink(p)
    \/ WriteAttached(p) \/ WriteFails(p) \/ UndoLink(p)

(***************************************************************************)
(* The owner and the end of the site, each under the site lock.            *)
(***************************************************************************)

Unlinked(s, A) ==
    [a \in Addresses |-> IF a \in A /\ Serves(a) \in {s, NoSite} THEN NoSite ELSE link[a]]

\* RemoveDomain: the link goes when it is this site's or nobody's.
RemoveDomain(s, a) ==
    /\ s \in live /\ claim[s][a] # "none"
    /\ link' = Unlinked(s, {a})
    /\ SetMeta(s, a, FALSE, "none")
    /\ Tangle({a})
    /\ UNCHANGED <<zone, task, todo, pruning, events, crossed>>

\* deleteChecked: the link of every listed address, by its name.
DeleteSite(s) ==
    /\ s \in live
    /\ live' = live \ {s}
    /\ link' = [a \in Addresses |-> IF a \in listed[s] THEN NoSite ELSE link[a]]
    /\ listed' = [listed EXCEPT ![s] = {}]
    /\ claim' = [claim EXCEPT ![s] = [a \in Addresses |-> "none"]]
    /\ Tangle(listed[s])
    /\ UNCHANGED <<siteOwner, zone, task, todo, pruning, events, crossed>>

\* AccountBoundAddresses: held through the host or through the owner's zone.
Bound(s) ==
    {a \in listed[s] : claim[s][a] = "host" \/ zone[HostOf[a]] = siteOwner[s]}

\* HostConflicts: another site of the sender on a host of this one.
Shares(s) ==
    \E a \in listed[s] : \E b \in OnHost(HostOf[a]) :
        link[b] # s /\ siteOwner[link[b]] = siteOwner[s]

\* TransferOwner: what is bound to the sender's account goes, the rest moves
\* along.  That no other site of the sender's shares a host was asked for
\* when the transfer was accepted; if one does by now, or an address of the
\* site is being attached, two owners may meet on a host.
Transfer(s, to) ==
    LET moved == listed[s] \ Bound(s)
        meets == {HostOf[a] : a \in {b \in moved : Shares(s)}}
                   \cup {HostOf[task[p].addr] : p \in
                           {q \in Actors : /\ task[q] # Free
                                           /\ \/ task[q].site = s
                                              \/ HostOf[task[q].addr] \in {HostOf[a] : a \in moved}}}
                   \cup {HostOf[c.addr] : c \in {d \in todo : d.site = s}}
                   \cup {HostOf[a] : a \in {b \in tangled : link[b] = s}}
    IN  /\ s \in live /\ to # siteOwner[s] /\ Disturbances < MaxEvents
        /\ events' = events + 1
        /\ siteOwner' = [siteOwner EXCEPT ![s] = to]
        /\ link' = Unlinked(s, Bound(s))
        /\ listed' = [listed EXCEPT ![s] = moved]
        /\ claim' = [claim EXCEPT ![s] = [a \in Addresses |-> IF a \in Bound(s) THEN "none" ELSE @[a]]]
        /\ crossed' = crossed \cup meets
        /\ Tangle(Bound(s))
        /\ UNCHANGED <<live, zone, task, todo, pruning>>

(***************************************************************************)
(* The sweep: ReconcileDomains per site, then the dangling links.          *)
(***************************************************************************)

\* A claim as the sweep read it, with the owner as the list of sites had it.
\* What it reads of a site at once it acts upon one by one, so any of it may
\* be old; here it reads the claim it will come to.
SweepReads(s, a) ==
    /\ task[DSweep] = Free /\ todo = {} /\ pruning = {} /\ s \in live
    /\ claim[s][a] # "none"
    /\ todo' = {[site |-> s, addr |-> a, owner |-> siteOwner[s], was |-> claim[s][a]]}
    /\ tangled' = IF AtWork(a) # {} THEN tangled \cup {a} ELSE tangled
    /\ UNCHANGED <<link, metaVars, zone, task, pruning, events, crossed>>

SweepGoes(c, step, as) ==
    /\ c \in todo /\ task[DSweep] = Free
    /\ todo' = todo \ {c}
    /\ task' = [task EXCEPT ![DSweep] =
                  [step |-> step, site |-> c.site, addr |-> c.addr, owner |-> c.owner, as |-> as]]
    /\ UNCHANGED <<link, metaVars, zone, pruning, events, tangled, crossed>>

SweepSkips(c) ==
    /\ c \in todo /\ task[DSweep] = Free
    /\ todo' = todo \ {c}
    /\ UNCHANGED <<link, metaVars, zone, task, pruning, events, tangled, crossed>>

\* A claim that can never hold, or is past its time, is dropped; else it is
\* attached, or stays.
SweepPendingClaim(c) ==
    LET h == HostOf[c.addr]
        never == \/ Serves(c.addr) \notin {c.site, NoSite}
                 \/ HostForeign(c.site, c.owner, h)
                 \/ zone[h] \notin {c.owner, NoOwner}
    IN  /\ c.was = "pending"
        /\ \/ SweepGoes(c, "drop", "own")
           \/ ~never /\ MayVouch(c.owner, c.addr) /\ SweepGoes(c, "host", "host")
           \/ /\ ~never
              /\ \E yes \in Answers(c.owner, c.addr) :
                    IF yes = "yes" THEN SweepGoes(c, "host", "own") ELSE SweepSkips(c)

\* A verified one: checked within the day or the lookup fails, left alone;
\* proven, stamped; else held through the host, or its window runs, or that
\* is over and it goes.
SweepVerifiedClaim(c) ==
    /\ Verified(c.was)
    /\ \/ SweepSkips(c)
       \/ "yes" \in Answers(c.owner, c.addr) /\ SweepGoes(c, "ok", "own")
       \/ /\ "no" \in Answers(c.owner, c.addr)
          /\ \/ MayVouch(c.owner, c.addr) /\ SweepGoes(c, "viaHost", "host")
             \/ SweepGoes(c, "unlink", "own")

\* stampOK and stampViaHost: whatever claim is there by then; a pending one
\* stays pending.
Stamp(p) ==
    /\ task[p].step \in {"ok", "viaHost"}
    /\ LET s == task[p].site  a == task[p].addr
       IN  claim' = [claim EXCEPT ![s][a] = IF Verified(@) THEN task[p].as ELSE @]
    /\ Done(p)
    /\ UNCHANGED <<link, live, siteOwner, listed, zone, todo, pruning, events, tangled, crossed>>

\* dropClaim: only while it is pending still.
DropClaim ==
    /\ Does(DSweep, "drop")
    /\ LET s == task[DSweep].site  a == task[DSweep].addr
       IN  claim' = [claim EXCEPT ![s][a] = IF @ = "pending" THEN "none" ELSE @]
    /\ Done(DSweep)
    /\ UNCHANGED <<link, live, siteOwner, listed, zone, todo, pruning, events, tangled, crossed>>

\* detach: the link goes by its name, then the claim is pending again.
DetachLink ==
    /\ Does(DSweep, "unlink")
    /\ link' = [link EXCEPT ![task[DSweep].addr] = NoSite]
    /\ Next_(DSweep, "demote")
    /\ UNCHANGED <<metaVars, zone, todo, pruning, events, tangled, crossed>>

DetachMeta ==
    /\ Does(DSweep, "demote")
    /\ LET s == task[DSweep].site  a == task[DSweep].addr
       IN  IF s \notin live THEN UNCHANGED metaVars
           ELSE SetMeta(s, a, FALSE, IF claim[s][a] = "none" THEN "none" ELSE "pending")
    /\ Done(DSweep)
    /\ UNCHANGED <<link, zone, todo, pruning, events, tangled, crossed>>

\* DanglingIndexLinks, and then each of them is removed by its name.
FindDangling ==
    /\ task[DSweep] = Free /\ todo = {} /\ pruning = {}
    /\ pruning' = {a \in Addresses : Dangling(a)}
    /\ pruning' # {}
    /\ tangled' = tangled \cup {a \in pruning' : AtWork(a) # {}}
    /\ UNCHANGED <<link, metaVars, zone, task, todo, events, crossed>>

Prune(a) ==
    /\ a \in pruning
    /\ pruning' = pruning \ {a}
    /\ link' = [link EXCEPT ![a] = NoSite]
    /\ UNCHANGED <<metaVars, zone, task, todo, events, tangled, crossed>>

(***************************************************************************)
(* The environment.                                                        *)
(***************************************************************************)

\* A zone is verified (Zones.tla), or released.
ZoneChanges(h, who) ==
    /\ zone[h] # who /\ Disturbances < MaxEvents
    /\ events' = events + 1
    /\ zone' = [zone EXCEPT ![h] = who]
    /\ UNCHANGED <<link, metaVars, task, todo, pruning, tangled, crossed>>

CrashAll ==
    /\ Disturbances < MaxEvents /\ events' = events + 1
    /\ tangled' = tangled \cup {task[p].addr : p \in {q \in Actors : task[q].step \in {"write", "undo", "demote"}}}
    /\ task' = [p \in Actors |-> Free] /\ todo' = {} /\ pruning' = {}
    /\ UNCHANGED <<link, metaVars, zone, crossed>>

DomainsNext ==
    \/ \E p \in Askers, s \in Sites, a \in Addresses : AskDomain(p, s, a)
    \/ \E p \in Askers : RecordClaim(p)
    \/ \E p \in Actors : Attach(p) \/ Stamp(p)
    \/ \E s \in Sites, a \in Addresses : RemoveDomain(s, a) \/ SweepReads(s, a)
    \/ \E s \in Sites : DeleteSite(s)
    \/ \E s \in Sites, o \in Owners : Transfer(s, o)
    \/ \E c \in todo : SweepPendingClaim(c) \/ SweepVerifiedClaim(c)
    \/ DropClaim \/ DetachLink \/ DetachMeta
    \/ FindDangling \/ \E a \in pruning : Prune(a)
    \/ \E h \in Hosts, o \in Owners \cup {NoOwner} : ZoneChanges(h, o)
    \/ CrashAll

DomainsSpec == DomainsInit /\ [][DomainsNext]_dvars

\* Bound: behaviours in which a race let two owners onto a host promise nothing
\* more about it and are not followed further; nor are those in which more than
\* MaxEvents of the disturbing things happened, events or torn addresses.
Followed == crossed = {} /\ Disturbances <= MaxEvents

(***************************************************************************)
(* What domains promise.                                                   *)
(***************************************************************************)

\* domainverify.go's invariant: a site lists exactly the addresses it has a
\* verified claim on.  Owners, the sweep and hand-overs change the two at any
\* time, from answers that are old by then.
ListedIsVerified ==
    \A s \in live, a \in Addresses : a \in listed[s] <=> Verified(claim[s][a])

\* All attached addresses on a host belong to one owner, unless two requests
\* of different owners had both looked at the host before either attached,
\* or the site was handed over while it was being attached or shared a host.
OneOwnerPerHost ==
    \A a, b \in Addresses :
        /\ HostOf[a] = HostOf[b] /\ HostOf[a] \notin crossed
        /\ Serves(a) # NoSite /\ Serves(b) # NoSite
        => siteOwner[link[a]] = siteOwner[link[b]]

\* While nobody is at work on an address, the index and meta.json agree about
\* it, unless a second operation came upon the first, or a crash.
ServedIsListed ==
    \A s \in live, a \in Addresses :
        AtWork(a) = {} /\ a \notin tangled => (link[a] = s <=> a \in listed[s])

(***************************************************************************)
(* What makes these three inductive, for an address nothing tore: at most  *)
(* one is at work on it, and where that one has got to says what the index *)
(* and meta.json hold.  For a host nothing crossed: who attaches there     *)
(* knows its owner still, and has looked at all who are attached.          *)
(***************************************************************************)

Agrees(a)   == \A s \in Sites : link[a] = s <=> a \in listed[s]
Unlisted(a) == \A s \in Sites : a \notin listed[s]
Vacant(a)   == link[a] = NoSite /\ Unlisted(a)

Fits(t) ==
    CASE t.step \in {"claim", "host", "clear", "make"} -> Vacant(t.addr)
      [] t.step \in {"write", "undo"} -> link[t.addr] = t.site /\ Unlisted(t.addr)
      [] t.step = "unlink" -> Agrees(t.addr) /\ t.addr \in listed[t.site]
      [] t.step = "demote" ->
             link[t.addr] = NoSite /\ \A s \in Sites : t.addr \in listed[s] <=> s = t.site
      [] OTHER -> Agrees(t.addr)

WorkersAlone  == \A a \in Addresses \ tangled : \A p, q \in AtWork(a) : p = q
SweepAlone    == todo # {} => task[DSweep] = Free /\ \A c, d \in todo : c = d
PrunesTangled == pruning \subseteq tangled
GoneUnlisted  == \A s \in Sites \ live : listed[s] = {}
TasksFit      == \A p \in Actors : task[p] # Free /\ task[p].addr \notin tangled => Fits(task[p])
TodoFits      ==
    \A c \in todo : c.addr \notin tangled =>
        Agrees(c.addr) /\ (Verified(c.was) <=> c.addr \in listed[c.site])
RestAgrees    == \A a \in Addresses \ tangled : AtWork(a) = {} => Agrees(a)

IndexInv ==
    /\ WorkersAlone /\ SweepAlone /\ PrunesTangled /\ GoneUnlisted
    /\ TasksFit /\ TodoFits /\ RestAgrees

KnowsOwner(t) == HostOf[t.addr] \notin crossed => t.owner = siteOwner[t.site]
Attaching     == {p \in Actors : task[p].step \in {"clear", "make"}}

OwnersKnown == (\A p \in Actors : task[p] # Free => KnowsOwner(task[p])) /\ \A c \in todo : KnowsOwner(c)
AttachedOwn ==
    \A p \in Attaching, a \in Addresses :
        HostOf[a] = HostOf[task[p].addr] /\ HostOf[a] \notin crossed /\ link[a] \in live
        => siteOwner[link[a]] = siteOwner[task[p].site]
AttachersOwn ==
    \A p, q \in Attaching :
        HostOf[task[p].addr] = HostOf[task[q].addr] /\ HostOf[task[p].addr] \notin crossed
        => siteOwner[task[p].site] = siteOwner[task[q].site]

OwnersInv == OwnersKnown /\ AttachedOwn /\ AttachersOwn /\ OneOwnerPerHost

DomainsInv == ListedIsVerified /\ IndexInv /\ OwnersInv

=============================================================================
