\* Eighteen parts, each on its own; two accounts, two sites, two calls where a part has
\* several of them, told apart by nothing; the other bounds are in MCParts.tla.
CONSTANTS
    Some = {a1, a2}
    Others = {b1, b2}
    Copies = {k1, k2}
    None = None
    Resolver = Resolver
    ZoneNames = {"z", "sub.z"}
    ZoneHosts = {"n.sub.z"}
    ZoneInside <- InBothZones
    ZoneNested <- EachInOther
    ZoneClaims = {"claim"}
    ZoneAttachers = {"attach"}
    ZoneSweep = "sweep"
    Subjects = {subject}
    Secrets = {secret}
    MaxTokens = 1
    MaxFaults = 1
    Services = {service}
    Web = web
    Wrap = 4
    MaxAge = 1
    MaxTime = 2
    MaxPassed = 2
    MaxChanges = 1
    UploadTokens = {token}
    TokensPerSite = 1
    TokenAge = 3
    TokenIdle = 1
    LastHash = 2
    LastTick = 2
    MaxCalls = 3
    DomainAddresses = {"h", "h/p"}
    DomainHost <- OneHost
    DomainAskers = {"ask"}
    DomainSweep = "sweep"
    DomainEvents = 1
    NameDepth = 2
    NameSkipped = 1
    NameServers = {"ns.in", "ns.out"}
    ServerHome <- InAndOut
    MaxServers = 2
    MaxReferrals = 1
    MaxHops = 2
    FormKeys = {"form"}
    FormCalls = {"owner"}
    FormSolutions = {"solution"}
    FormLimit = 1
    FormChanges = 4
    FormFaults = 1
    Restores = {"restore"}
    LastEvent = 3
    SiteChanges = 1
    BackupFaults = 1
    TagKeys = {"k1", "k2"}
    TagGroups = {"g"}
    TagsPerSite = 2
    TagChanges = 3
    TagFaults = 1
    SiteTakers = {"take"}
    Browsers = {"browser"}
    LastUpset = 2
    CopiesKept = 1
    LastRestoreDay = 3
    RestoreRuns = 2
    RestoreFaults = 2
    PlanSites = {"site"}
    PlanUploads = {"upload"}
    PlanEvents = {"event"}
    Tiers = {"pro", "mid", "free", "gone"}
    TiersHere = {"pro", "mid", "free"}
    TiersFree = {"free"}
    TierAfter = "free"
    TierCap <- FourCaps
    EventTier <- ToPro
    TierGrace = 3
    ExpiryGrace = 1
    LastPlanDay = 3
    PlanSteps = 1
    DrawnLabels = {"l1", "l2"}
    ToolCalls = {"call"}
    ToolsOffered = {"list_sites", "get_site", "list_files", "read_file", "download_site", "list_forms",
                    "create_site", "update_site", "write_files", "delete_file", "delete_site",
                    "add_domain", "remove_domain", "set_domain_redirect", "set_domain_target", "set_view_address",
                    "open_upload", "add_form", "update_form", "remove_form", "resend_form_confirmation"}
    FilesPerCall = 2
SPECIFICATION Spec
SYMMETRY Symmetry
CONSTRAINT Bound
CHECK_DEADLOCK FALSE
INVARIANTS
    TypeOK
    ZonesAreExclusive
    AddressesStand
    RulesStand
    
    LogsAreKept
    MailIsExclusive
    NoMoreThanPassed
    BackupsGoBack
PROPERTIES
    PlansAreKept
    
    
    
    RestoresStand
    
    
    
    LookupsAreVouched
