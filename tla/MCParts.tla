------------------------------- MODULE MCParts -------------------------------
(***************************************************************************)
(* Model values for the parts of Sitebin that are specified on their own:  *)
(* each has what the others do to it among its own steps, so a behaviour   *)
(* is one of one part, chosen at the start.  The parts' variables take     *)
(* turns in v1 .. v15.                                                     *)
(***************************************************************************)
EXTENDS Naturals, FiniteSets, TLC

CONSTANTS
    Some, Others,   \* what a part has several of: accounts, sites, calls, told apart by nothing
    Copies,
    None, Resolver,
    \* of the parts that are proved for all of them
    ZoneNames, ZoneHosts, ZoneInside, ZoneNested, ZoneClaims, ZoneAttachers, ZoneSweep, \* Zones
    Subjects, Secrets, MaxTokens, MaxFaults,                       \* Identities
    Services, Web, Wrap, MaxAge, MaxTime, MaxPassed, MaxChanges,   \* Usage
    UploadTokens, TokensPerSite, TokenAge, TokenIdle, LastHash, LastTick, MaxCalls,  \* Access
    DomainAddresses, DomainHost, DomainAskers, DomainSweep, DomainEvents,            \* Domains
    NameDepth, NameSkipped, NameServers, ServerHome, MaxServers, MaxReferrals, MaxHops, \* ProofLookup
    FormKeys, FormCalls, FormSolutions, FormLimit, FormChanges, FormFaults,            \* Forms
    Restores, LastEvent, SiteChanges, BackupFaults,                                   \* Backups
    TagKeys, TagGroups, TagsPerSite, TagChanges, TagFaults,                            \* Tags
    SiteTakers, Browsers, LastUpset,                                                   \* Accounts
    CopiesKept, LastRestoreDay, RestoreRuns, RestoreFaults,                            \* InstanceRestore
    PlanSites, PlanUploads, PlanEvents, Tiers, TiersHere, TiersFree, TierAfter, TierCap, EventTier, \* Tiers
    TierGrace, ExpiryGrace, LastPlanDay, PlanSteps,
    DrawnLabels,                                                                       \* SiteRules
    ToolCalls, ToolsOffered, FilesPerCall                                              \* Tools

VARIABLES which, v1, v2, v3, v4, v5, v6, v7, v8, v9, v10, v11, v12, v13, v14, v15

Z == INSTANCE Zones WITH
        Accounts <- Some, Names <- ZoneHosts, Inside <- ZoneInside, Nested <- ZoneNested,
        Claimants <- ZoneClaims, Attachers <- ZoneAttachers, ZSweep <- ZoneSweep, NoAccount <- None,
        verified <- v1, failing <- v2, pending <- v3, check <- v4, toCheck <- v5,
        holder <- v6, asking <- v7, late <- v8

D == INSTANCE Domains WITH
        Sites <- Some, Owners <- Others, Addresses <- DomainAddresses, HostOf <- DomainHost,
        Askers <- DomainAskers, DSweep <- DomainSweep, NoSite <- None, NoOwner <- None,
        MaxEvents <- DomainEvents,
        link <- v1, live <- v2, siteOwner <- v3, listed <- v4, claim <- v5,
        zone <- v6, task <- v7, todo <- v8, pruning <- v9, events <- v10,
        tangled <- v11, crossed <- v12

\* Domains, ports, and labels to draw.
R == INSTANCE SiteRules WITH
        Names <- Some, Ports <- Others, Labels <- DrawnLabels, OwnLabel <- "id", Nothing <- None,
        mode <- v1, attached <- v2, claimed <- v3, redirect <- v4, view <- v5,
        label <- v6, rule <- v7, target <- v8, index <- v9, sync <- v10,
        disturbed <- v11, torn <- v12

T == INSTANCE Tiers WITH
        TierSites <- PlanSites, Walkers <- Some, Uploads <- PlanUploads, Events <- PlanEvents,
        TierIds <- Tiers, Configured <- TiersHere, FreeTiers <- TiersFree, DefaultTier <- TierAfter,
        Cap <- TierCap, Content <- EventTier, NoPlan <- "noplan", Outage <- "outage",
        Stale <- "stale", Never <- None, Idle <- None,
        Grace <- TierGrace, SweepGrace <- ExpiryGrace, LastDay <- LastPlanDay, MaxChanges <- PlanSteps,
        now <- v1, answer <- v2, cached <- v3, tier <- v4, home <- v5, walk <- v6,
        sweep <- v7, upload <- v8, seen <- v9, applied <- v10, changes <- v11

A == INSTANCE Accounts WITH
        OwnSites <- Some, Takers <- SiteTakers, Cookies <- Browsers, NoTask <- None,
        NoSession <- None, MaxUpsets <- LastUpset,
        account <- v1, owned <- v2, marker <- v3, held <- v4, order <- v5,
        owed <- v6, taker <- v7, cookie <- v8, signing <- v9, upsets <- v10,
        spared <- v11, lateTaken <- v12

N == INSTANCE Analytics WITH
        Cap <- 1, Keep <- 1, LastDay <- 2, LastTick <- 2, MaxQueue <- 1, MaxLines <- 1,
        MaxImports <- 1, MaxFaults <- 1, Readers <- {"query"}, Nil <- None,
        there <- v1, today <- v2, tick <- v3, memory <- v4, count <- v5, file <- v6,
        summary <- v7, cache <- v8, loading <- v9, query <- v10, import <- v11,
        dirty <- v12, imports <- v13, faults <- v14

C == INSTANCE Access WITH
        People <- Some, Tokens <- UploadTokens, Requests <- Others, Nobody <- None,
        PerSite <- TokensPerSite, MaxAge <- TokenAge, Idle <- TokenIdle,
        meta <- v1, cached <- v2, uploads <- v3, req <- v4, tick <- v5, served <- v6

I == INSTANCE InstanceRestore WITH
        Copies <- Copies, None <- None, Keep <- CopiesKept, LastDay <- LastRestoreDay, MaxRestores <- RestoreRuns,
        MaxFaults <- RestoreFaults,
        data <- v1, staging <- v2, kept <- v3, origin <- v4, state <- v5, task <- v6,
        removing <- v7, up <- v8, letGo <- v9, day <- v10, restores <- v11,
        faults <- v12

B == INSTANCE Backups WITH
        Requests <- Restores, People <- Some, None <- None, LastTime <- LastEvent,
        MaxChanges <- SiteChanges, MaxFaults <- BackupFaults,
        meta <- v1, files <- v2, wrote <- v3, claim <- v4, snapshots <- v5,
        indexed <- v6, run <- v7, lastBackup <- v8, req <- v9, plan <- v10,
        now <- v11, changes <- v12, faults <- v13

G == INSTANCE Tags WITH
        Sites <- Some, Keys <- TagKeys, Groups <- TagGroups, Forms <- Others, MaxTags <- TagsPerSite,
        NoGroup <- None, MaxChanges <- TagChanges, MaxFaults <- TagFaults,
        mine <- v1, locked <- v2, tags <- v3, groups <- v4, registry <- v5,
        own <- v6, form <- v7, due <- v8, changes <- v9, faults <- v10

F == INSTANCE Forms WITH
        Keys <- FormKeys, People <- Some, Calls <- FormCalls, Posts <- Others,
        Solutions <- FormSolutions, Limit <- FormLimit, Nobody <- None,
        MaxChanges <- FormChanges, MaxFaults <- FormFaults,
        forms <- v1, allowed <- v2, served <- v3, call <- v4, mail <- v5,
        stops <- v6, post <- v7, bound <- v8, used <- v9, consent <- v10,
        void <- v11, mailed <- v12, excused <- v13, changes <- v14, faults <- v15

L == INSTANCE Trail WITH
        Sites <- {"site"}, Owner <- "account", People <- {"person"}, Requests <- Some,
        Keep <- 2, Window <- 1, Retention <- 1, HeldFor <- 2, LastTime <- 3, MaxEvents <- 3,
        MaxHolds <- 2, MaxRestarts <- 0, Nothing <- None,
        now <- v1, alive <- v2, locked <- v3, suspended <- v4, log <- v5, req <- v6,
        named <- v7, sweep <- v8, did <- v9, kept <- v10, pushed <- v11,
        origins <- v12, since <- v13, holds <- v14, restarts <- v15

E == INSTANCE Identities WITH
        Ids <- Some, Calls <- Others, Nobody <- None,
        record <- v1, byOAuth <- v2, byMail <- v3, byBilling <- v4, byToken <- v5,
        token <- v6, held <- v7, call <- v8, born <- v9, erased <- v10, torn <- v11,
        faults <- v12

P == INSTANCE ProofLookup WITH
        Depth <- NameDepth, Skipped <- NameSkipped, Hosts <- NameServers, Home <- ServerHome,
        Aside <- None, MaxAuthServers <- MaxServers, MaxCNAMEHops <- MaxHops,
        kind <- v1, at <- v2, cand <- v3, zone <- v4, servers <- v5, referrals <- v6,
        hops <- v7, result <- v8, authority <- v9

U == INSTANCE Usage WITH
        clock <- v1, counter <- v2, passed <- v3, running <- v4, published <- v5,
        outward <- v6, sampling <- v7, round <- v8, got <- v9, prev <- v10,
        sites <- v11, changes <- v12

\* A folder of a site with a file in it, a file of another site, a file beside them.
H == INSTANCE Archive WITH
        Paths <- <<"d", "c", "g", "m">>, Content <- {"d", "c", "g"},
        Folder <- [d |-> None, c |-> "d", g |-> None, m |-> None], Top <- None,
        MaxChanges <- 3, MaxFaults <- 1,
        kind <- v1, denied <- v2, touched <- v3, at <- v4, agenda <- v5, look <- v6,
        archive <- v7, skipped <- v8, onto <- v9, tree <- v10, through <- v11,
        changes <- v12, faults <- v13

M == INSTANCE Tools WITH
        Calls <- ToolCalls, Accounts <- Some, Nobody <- None, Offered <- ToolsOffered,
        MaxFiles <- FilesPerCall,
        gated <- v1, lazy <- v2, site <- v3, call <- v4, did <- v5, made <- v6, lines <- v7

\* A reported target that is a site, and something else alerts are about.
Q == INSTANCE Reports WITH
        Keys <- {"site", "other"}, Targets <- {"target"}, About <- [t \in {"target"} |-> "site"],
        Sources <- Some, Slots <- {"slot"}, MaxReports <- 1, Batch <- 1, ReportRetention <- 1,
        DedupeFor <- 1, TicketMin <- 1, TicketMax <- 1, PerKey <- 2, BurstWindow <- 1, Burst <- 1,
        DigestDelay <- 1, MaxQueued <- 1, ReportFlush <- 1, LastTime <- 2, MaxCalls <- 3,
        Nothing <- None,
        clock <- v1, reports <- v2, files <- v3, counted <- v4, purge <- v5, deduped <- v6,
        last <- v7, sent <- v8, queue <- v9, dropped <- v10, due <- v11, events <- v12,
        csp <- v13, stats <- v14, calls <- v15

\* What each part assumes of its constants.
ASSUME PartsAssumption ==
    /\ Z!ZonesAssumption
    /\ D!DomainsAssumption
    /\ R!RulesAssumption
    /\ T!TiersAssumption
    /\ A!AccountsAssumption
    /\ N!AnalyticsAssumption
    /\ C!AccessAssumption
    /\ I!InstanceRestoreAssumption
    /\ B!BackupsAssumption
    /\ G!TagsAssumption
    /\ F!FormsAssumption
    /\ L!TrailAssumption
    /\ E!IdentitiesAssumption
    /\ P!LookupAssumption
    /\ U!UsageAssumption
    /\ H!ArchiveAssumption
    /\ M!ToolsAssumption
    /\ Q!ReportsAssumption

\* The variables a part has no use for.
Unused(n) ==
    /\ IF n <= 7 THEN v7 = None ELSE TRUE
    /\ IF n <= 8 THEN v8 = None ELSE TRUE
    /\ IF n <= 9 THEN v9 = None ELSE TRUE
    /\ IF n <= 10 THEN v10 = None ELSE TRUE
    /\ IF n <= 11 THEN v11 = None ELSE TRUE
    /\ IF n <= 12 THEN v12 = None ELSE TRUE
    /\ IF n <= 13 THEN v13 = None ELSE TRUE
    /\ IF n <= 14 THEN v14 = None ELSE TRUE
    /\ IF n <= 15 THEN v15 = None ELSE TRUE

Init ==
    \/ which = "zones" /\ Z!ZonesInit /\ Unused(9)
    \/ which = "domains" /\ D!DomainsInit /\ Unused(13)
    \/ which = "rules" /\ R!RulesInit /\ Unused(13)
    \/ which = "tiers" /\ T!TiersInit /\ Unused(12)
    \/ which = "accounts" /\ A!AccountsInit /\ Unused(13)
    \/ which = "analytics" /\ N!AnalyticsInit /\ Unused(15)
    \/ which = "access" /\ C!AccessInit /\ Unused(7)
    \/ which = "instance" /\ I!InstanceInit /\ Unused(13)
    \/ which = "backups" /\ B!BackupsInit /\ Unused(14)
    \/ which = "tags" /\ G!TagsInit /\ Unused(11)
    \/ which = "forms" /\ F!FormsInit /\ Unused(16)
    \/ which = "trail" /\ L!TrailInit /\ Unused(16)
    \/ which = "identities" /\ E!IdentitiesInit /\ Unused(13)
    \/ which = "lookup" /\ P!LookupInit /\ Unused(10)
    \/ which = "usage" /\ U!UsageInit /\ Unused(13)
    \/ which = "archive" /\ H!ArchiveInit /\ Unused(14)
    \/ which = "tools" /\ M!ToolsInit /\ Unused(8)
    \/ which = "reports" /\ Q!ReportsInit /\ Unused(16)

Next ==
    /\ UNCHANGED which
    /\ \/ which = "zones" /\ Z!ZonesNext /\ UNCHANGED <<v9, v10, v11, v12, v13, v14, v15>>
       \/ which = "domains" /\ D!DomainsNext /\ UNCHANGED <<v13, v14, v15>>
       \/ which = "rules" /\ R!RulesNext /\ UNCHANGED <<v13, v14, v15>>
       \/ which = "tiers" /\ T!TiersNext /\ UNCHANGED <<v12, v13, v14, v15>>
       \/ which = "accounts" /\ A!AccountsNext /\ UNCHANGED <<v13, v14, v15>>
       \/ which = "analytics" /\ N!AnalyticsNext /\ UNCHANGED v15
       \/ which = "access" /\ C!AccessNext /\ UNCHANGED <<v7, v8, v9, v10, v11, v12, v13, v14, v15>>
       \/ which = "instance" /\ I!InstanceNext /\ UNCHANGED <<v13, v14, v15>>
       \/ which = "backups" /\ B!BackupsNext /\ UNCHANGED <<v14, v15>>
       \/ which = "tags" /\ G!TagsNext /\ UNCHANGED <<v11, v12, v13, v14, v15>>
       \/ which = "forms" /\ F!FormsNext
       \/ which = "trail" /\ L!TrailNext
       \/ which = "identities" /\ E!IdentitiesNext /\ UNCHANGED <<v13, v14, v15>>
       \/ which = "lookup" /\ P!LookupNext /\ UNCHANGED <<v10, v11, v12, v13, v14, v15>>
       \/ which = "usage" /\ U!UsageNext /\ UNCHANGED <<v13, v14, v15>>
       \/ which = "archive" /\ H!ArchiveNext /\ UNCHANGED <<v14, v15>>
       \/ which = "tools" /\ M!ToolsNext /\ UNCHANGED <<v8, v9, v10, v11, v12, v13, v14, v15>>
       \/ which = "reports" /\ Q!ReportsNext

slots == <<which, v1, v2, v3, v4, v5, v6, v7, v8, v9, v10, v11, v12, v13, v14, v15>>

Spec == Init /\ [][Next]_slots

\* The bounds of two parts that are not constants.
Bound == (which = "domains" => D!Followed) /\ (which = "analytics" => N!Few)

\* A zone, a zone in it and a name in both.
InBothZones == [z \in {"z", "sub.z"} |-> {"n.sub.z"}]
EachInOther == {<<"z", "sub.z">>, <<"sub.z", "z">>}

\* A host and a path on it; a nameserver in the zone and one outside.
OneHost == [a \in DomainAddresses |-> "h"]
InAndOut == ("ns.in" :> 1) @@ ("ns.out" :> None)

\* Tiers of no, one and two days, and one that was removed from the
\* configuration; an event that sets the first.
FourCaps == [pro |-> 0, mid |-> 2, free |-> 1, gone |-> 0]
ToPro == [event |-> "pro"]

Symmetry == Permutations(Some) \cup Permutations(Others)

\* Every part is well-typed.
TypeOK ==
    /\ which = "zones" => Z!ZonesTypeOK
    /\ which = "domains" => D!DomainsTypeOK
    /\ which = "rules" => R!RulesTypeOK
    /\ which = "tiers" => T!TiersTypeOK
    /\ which = "accounts" => A!AccountsTypeOK
    /\ which = "analytics" => N!AnalyticsTypeOK
    /\ which = "access" => C!AccessTypeOK
    /\ which = "instance" => I!InstanceTypeOK
    /\ which = "backups" => B!BackupsTypeOK
    /\ which = "tags" => G!TagsTypeOK
    /\ which = "forms" => F!FormsTypeOK
    /\ which = "trail" => L!TrailTypeOK
    /\ which = "identities" => E!IdentitiesTypeOK
    /\ which = "lookup" => P!LookupTypeOK
    /\ which = "usage" => U!UsageTypeOK
    /\ which = "archive" => H!ArchiveTypeOK
    /\ which = "tools" => M!ToolsTypeOK
    /\ which = "reports" => Q!ReportsTypeOK

(***************************************************************************)
(* The promises of the parts, each named and explained in its module.      *)
(***************************************************************************)

\* Zones: two verified zones never overlap, and a verified zone encloses no
\* name of another account but one attached while the zone was being checked.
ZonesAreExclusive == which = "zones" => Z!ZonesAreExclusive

\* Domains: all attached addresses of a host belong to one owner, and a site
\* lists what it has verified claims on and is served at what it lists, whatever
\* owners, sweep and hand-overs do at once.
AddressesStand == which = "domains" => D!OneOwnerPerHost /\ D!ListedIsVerified /\ D!ServedIsListed

\* SiteRules: the rules the owner stored are in effect, and every port has an
\* address of its own.
RulesStand == which = "rules" => R!RulesInEffect /\ R!PortsHaveAddresses

\* Tiers: an event is applied once, and days once granted stay.
PlansAreKept ==
    /\ [](which = "tiers" => T!AppliedOnce)
    /\ [][which = "tiers" => T!KeepsGrace]_slots

\* Accounts: locks and sites follow the stack's orders, repeated and raced, and
\* a session that ended stays ended.
OrdersAreCarriedOut ==
    /\ [](which = "accounts" => A!LocksFollowTheOrder /\ A!ErasureTakesItsSites)
    /\ [][which = "accounts" => A!EndedStayEnded]_slots

\* Access: a handler runs only for a credential worth something on the
\* meta.json its request read, and an upload that ends within its token's age
\* leaves it good.
AccessStands ==
    /\ [](which = "access" => C!LetInStands)
    /\ [][which = "access" => C!TokenOutlivesUpload]_slots

\* InstanceRestore: the instance starts on whole data, and the data it ran on
\* is kept, wherever the agent stops.
OwnDataIsKept ==
    /\ [](which = "instance" => I!OwnDataIsKept)
    /\ [][which = "instance" => I!StartsWhole]_slots

\* Backups: a restore is for somebody who still manages the site and can be undone.
RestoresStand ==
    [][which = "backups" => B!RestoreStands /\ B!RestoreCanBeUndone]_slots

\* Tags: labels are as their owners asked, account-wide changes done when told so.
LabelsAreKept ==
    /\ [](which = "tags" => G!LabelsAreTheOwners)
    /\ [][which = "tags" => G!AccountWideIsDone]_slots

\* Forms: nobody who has not agreed is mailed, nor twice for one solution.
ConsentStands == which = "forms" => F!ConsentStands /\ F!OneMailPerSolution

\* Trail, Analytics: the capped logs of a site tell what they should.  What was
\* recorded in the trail is told as long as it is owed; no day of visits holds
\* more than its cap, and no query is answered by a parse of a file that is no
\* longer that one.
LogsAreKept ==
    /\ which = "trail" => L!TrailIsKept
    /\ which = "analytics" => N!CapHolds /\ N!ParsesAreFresh

\* Identities: one standing account has an address.
MailIsExclusive == which = "identities" => E!MailIsExclusive

\* ProofLookup: no server is asked on the word of one that does not hold its
\* name, the resolver only at the very last, and a lookup only descends.
LookupsAreVouched ==
    /\ [](which = "lookup" => P!GlueIsVouchedFor /\ P!ResolverIsLast)
    /\ [][which = "lookup" => P!DelegationDescends]_slots

\* Usage: no figure is more than what passed.
NoMoreThanPassed == which = "usage" => U!NoMoreThanPassed

\* Archive: a backup holds what stood still, and restores as it was taken.
BackupsGoBack == which = "archive" => H!BackupsGoBack

\* Tools: what an MCP call changed was granted to it and is in the trail, what
\* is turned away before it could not have worked, a creation that failed leaves
\* nothing behind, and a lock holds the content.
ToolsStand ==
    /\ [](which = "tools" => /\ M!TrailTellsTheCall /\ M!DoorAgrees
                             /\ M!ChangesAreGranted /\ M!FailedCreateLeavesNothing)
    /\ [][which = "tools" => M!LockHoldsContent]_slots

\* Reports: nothing the operator is to hear is lost or drowned, and neither
\* reports nor CSP reports cost more than their caps.
ReportsAreHeard ==
    /\ [](which = "reports" => /\ Q!NothingUnheard /\ Q!FloodIsHeld /\ Q!HeldBackForAReason
                               /\ Q!ReportsStay /\ Q!ThanksAreFounded)
    /\ [][which = "reports" => Q!WritesAreSpaced]_slots
=============================================================================
