--------------------------------- MODULE Tools ---------------------------------
(***************************************************************************)
(* The MCP tools (internal/mcp, internal/httpapi mcpops.go, mcpoauth.go):  *)
(* a call is answered by the lazy OAuth challenge or reaches its tool,     *)
(* which checks the scope, opens the site, changes it in a step or two of  *)
(* the store, and records what it did in the trail.                        *)
(*                                                                         *)
(* Between its steps the site may be locked, deleted, handed over or       *)
(* shared.  What the store checks under the site's lock is checked here;   *)
(* whether the rest of an operation succeeds is left open.  The log takes  *)
(* every line of a site that is there.  What the tools answer beyond       *)
(* whether they did it is not modelled.                                    *)
(***************************************************************************)
EXTENDS Naturals, Sequences

CONSTANTS
    Calls, Accounts, Nobody,
    Offered,    \* the tools that are called
    MaxFiles    \* the files a call carries at most

Reads  == {"list_sites", "get_site", "list_files", "read_file", "download_site", "list_forms"}
Writes == {"create_site", "update_site", "write_files", "delete_file", "delete_site",
           "add_domain", "remove_domain", "set_domain_redirect", "set_domain_target",
           "set_view_address", "open_upload", "add_form", "update_form", "remove_form",
           "resend_form_confirmation"}

ToolsAssumption == Offered \subseteq Reads \cup Writes /\ Nobody \notin Accounts /\ MaxFiles \in Nat \ {0}

VARIABLES
    gated,   \* the instance has accounts
    lazy,    \* SITEBIN_MCP_OAUTH_ISSUER is set: the challenge is in front of /mcp
    site,    \* the site the calls address
    call,    \* each call, and how it was answered
    did,     \* history: what the call changed of the site, and how many files
    made,    \* the site create_site made
    lines    \* what the call recorded

tvars == <<gated, lazy, site, call, did, made, lines>>

(***************************************************************************)
(* What is decided before a tool runs: one table for the door and the tool.*)
(***************************************************************************)

Scope(t) == IF t \in Reads THEN "read" ELSE "write"
PerSite  == (Reads \cup Writes) \ {"create_site", "list_sites"}

\* Auth: an account's token carries no scopes, an OAuth token those it was
\* granted; a bearer that resolves to nothing names nobody.
Credentials ==
    {cr \in [bearer : {"none", "bad", "token", "oauth"}, account : Accounts \cup {Nobody},
             scopes : SUBSET {"read", "write"}] :
        /\ cr.bearer \in {"none", "bad"} <=> cr.account = Nobody
        /\ cr.bearer # "oauth" => cr.scopes = {}}

\* Allows: no scopes restrict nothing, but those of an OAuth token.
Allows(cr, scope) == (cr.bearer # "oauth" /\ cr.scopes = {}) \/ scope \in cr.scopes

\* AnonymousCallAllowed: an edit password may do, where nobody can sign in
\* create_site does too.
AnonymousCallAllowed(t, pw) ==
    \/ t = "create_site" /\ ~gated
    \/ t \in PerSite /\ pw # "none"

\* mcpLazyAuth: seen, when it could read the call.
Challenged(q) ==
    /\ lazy
    /\ CASE q.cr.bearer = "none" -> q.seen /\ ~AnonymousCallAllowed(q.tool, q.pw)
         [] q.cr.bearer = "bad"  -> TRUE
         [] OTHER                -> q.seen /\ ~Allows(q.cr, Scope(q.tool))

Requests ==
    {q \in [tool : Offered, cr : Credentials, pw : {"none", "wrong", "right"}, seen : BOOLEAN,
            size : 0 .. MaxFiles, replace : BOOLEAN] :
        /\ q.cr.account # Nobody => gated
        /\ q.cr.bearer = "oauth" => lazy
        /\ q.tool \notin PerSite => q.pw = "none"
        /\ q.tool \notin {"create_site", "write_files"} => q.size = 0
        /\ q.tool # "write_files" => ~q.replace
        /\ ~lazy => q.seen}

Idle    == [pc |-> "idle"]
Nothing == [n |-> 0, what |-> {}]
NoSite  == [there |-> FALSE, locked |-> "no"]

Roles == {"none", "owner", "admin", "password"}
Ends  == {"ok", "refused", "half", "failed"}
Parts == {"files", "site", "settings", "expiry", "tags", "containers", "token", "created"}

ToolsTypeOK ==
    /\ gated \in BOOLEAN /\ lazy \in BOOLEAN
    /\ site \in [there : BOOLEAN, locked : BOOLEAN, owner : Accounts \cup {Nobody}, admin : Accounts \cup {Nobody}]
    /\ call \in [Calls -> {Idle} \cup
          [pc : {"let in", "open", "made", "changed", "told", "challenged"} \cup Ends, q : Requests,
           role : Roles, files : 0 .. MaxFiles, fin : Ends]]
    /\ did \in [Calls -> [n : 0 .. MaxFiles, what : SUBSET Parts]]
    /\ made \in [Calls -> [there : BOOLEAN, locked : {"no", "guard", "operator"}]]
    /\ lines \in [Calls -> Seq([action : Reads \cup Writes \cup {"replace", "create"},
                                files : 0 .. MaxFiles, role : Roles])]

ToolsInit ==
    /\ gated \in BOOLEAN /\ lazy \in BOOLEAN
    /\ site \in [there : {TRUE}, locked : {FALSE}, owner : Accounts \cup {Nobody}, admin : {Nobody}]
    /\ site.owner # Nobody => gated
    /\ call = [c \in Calls |-> Idle] /\ did = [c \in Calls |-> Nothing]
    /\ made = [c \in Calls |-> NoSite] /\ lines = [c \in Calls |-> <<>>]

(***************************************************************************)
(* The call comes in.                                                      *)
(***************************************************************************)

Goto(c, pc) == call' = [call EXCEPT ![c].pc = pc]

\* The door, then addTool's own check of the scope, which needs no reading of
\* the request, then what the arguments decode to.
Arrive(c, q, decodes) ==
    /\ call[c].pc = "idle"
    /\ call' = [call EXCEPT ![c] =
                  [pc |-> CASE Challenged(q) -> "challenged"
                            [] ~Challenged(q) /\ Allows(q.cr, Scope(q.tool)) /\ decodes
                               /\ (q.tool = "write_files" /\ ~q.replace => q.size > 0) -> "let in"
                            [] OTHER -> "refused",
                   q |-> q, role |-> "none", files |-> 0, fin |-> "ok"]]
    /\ UNCHANGED <<gated, lazy, site, did, made, lines>>

\* list_sites answers an account, and never opens the site.
ListSites(c) ==
    /\ call[c].pc = "let in" /\ call[c].q.tool = "list_sites"
    /\ Goto(c, IF call[c].q.cr.account = Nobody THEN "refused" ELSE "ok")
    /\ UNCHANGED <<gated, lazy, site, did, made, lines>>

\* accountStanding, for a plan that allows sharing, does not, or could not be
\* asked.
Standing(account, plan) ==
    IF account = Nobody \/ site.owner = Nobody THEN "none"
    ELSE IF account = site.owner THEN "owner"
    ELSE IF account # site.admin \/ plan = "no" THEN "none"
    ELSE IF plan = "unknown" THEN "unknown" ELSE "admin"

\* A site without an account has no MCP on an instance with accounts.
PasswordDoes(pw) == pw = "right" /\ ~(gated /\ site.owner = Nobody)

\* openSiteAs, and openSiteEvenLocked for get_site.
Open(c, plan, throttled) ==
    LET q    == call[c].q
        st   == Standing(q.cr.account, plan)
        role == IF st # "none" THEN st ELSE IF PasswordDoes(q.pw) /\ ~throttled THEN "password" ELSE "none"
    IN  /\ call[c].pc = "let in" /\ q.tool \in PerSite
        /\ IF site.there /\ role \in {"owner", "admin", "password"} /\ (site.locked => q.tool = "get_site")
           THEN call' = [call EXCEPT ![c].pc = "open", ![c].role = role]
           ELSE Goto(c, "refused")
        /\ UNCHANGED <<gated, lazy, site, did, made, lines>>

Read(c, found) ==
    /\ call[c].pc = "open" /\ call[c].q.tool \in Reads
    /\ Goto(c, IF found THEN "ok" ELSE "refused")
    /\ UNCHANGED <<gated, lazy, site, did, made, lines>>

(***************************************************************************)
(* What it does.  A change is followed by its record, unless the operation *)
(* failed half-way.                                                        *)
(***************************************************************************)

Running(c, t) == call[c].pc = "open" /\ call[c].q.tool = t

\* The call did n files and what of the site; its record, if there is to be
\* one, names files of them, and the caller is told fin.
Did(c, n, what, files, pc, fin) ==
    /\ did' = [did EXCEPT ![c] = [n |-> n, what |-> what]]
    /\ call' = [call EXCEPT ![c].pc = pc, ![c].files = files, ![c].fin = fin]

Refuse(c)     == Goto(c, "refused") /\ UNCHANGED did
Done(c, what) == Did(c, 0, what, 0, "changed", "ok")
Half(c, what) == Did(c, 0, what, 0, "half", "half")

\* update_site: an admin is refused the expiry, and his own labels, kept in
\* another place, change nothing of the site.  Leaving container mode stops
\* the containers before the rest is checked, and may hold the site; entering
\* it starts them after the rest is written.
SettingsOf(role, expiry, tags, rest) ==
    (IF expiry THEN {"expiry"} ELSE {}) \cup (IF tags /\ role # "admin" THEN {"tags"} ELSE {})
        \cup (IF rest THEN {"settings"} ELSE {})

UpdateSite(c, expiry, tags, rest) ==
    LET role == call[c].role
        what == SettingsOf(role, expiry, tags, rest)
    IN  /\ Running(c, "update_site")
        /\ \/ Refuse(c) /\ UNCHANGED site
           \/ /\ role = "admin" /\ tags /\ what = {}
              /\ Goto(c, "ok") /\ UNCHANGED <<did, site>>
           \/ /\ site.there /\ ~(role = "admin" /\ expiry) /\ ~(role = "admin" /\ tags /\ what = {})
              /\ \/ Done(c, what) /\ UNCHANGED site
                 \/ rest /\ Half(c, what) /\ UNCHANGED site
                 \/ \E held \in BOOLEAN :
                       rest /\ Half(c, {"containers"}) /\ site' = [site EXCEPT !.locked = @ \/ held]
        /\ UNCHANGED <<gated, lazy, made, lines>>

Unlocked == site.there /\ ~site.locked

\* Mutant: of a write that failed, only the files of a clean one are told.
RecordedWhole(c, n, out) ==
    IF out = "in" THEN Did(c, n + 1, {"files"}, n + 1, "changed", "ok")
    ELSE Did(c, IF out = "held" THEN n + 1 ELSE n, {"files"}, n, "refused", "refused")

\* The files before the one that failed are in, and that one too when it held
\* the site: the record says so.
Recorded(c, n, out) ==
    CASE out = "in"   -> Did(c, n + 1, {"files"}, n + 1, "changed", "ok")
      [] out = "held" -> Did(c, n + 1, {"files"}, n + 1, "changed", "refused")
      [] OTHER        -> IF n > 0 THEN Did(c, n, {"files"}, n, "changed", "refused") ELSE Refuse(c)

\* write_files, one file at a time: written, refused, held as evidence, or
\* written without the expiry renewed, which is not told.
WriteFile(c, out) ==
    LET n == did[c].n IN
    /\ Running(c, "write_files") /\ ~call[c].q.replace
    /\ out # "no" => Unlocked
    /\ CASE out = "stuck" -> Did(c, n + 1, {"files"}, n, IF n > 0 THEN "changed" ELSE "half", "half")
         [] out = "in" /\ n + 1 < call[c].q.size -> Did(c, n + 1, {"files"}, 0, "open", "ok")
         [] OTHER -> Recorded(c, n, out)
    /\ site' = [site EXCEPT !.locked = @ \/ out = "held"]
    /\ UNCHANGED <<gated, lazy, made, lines>>

\* Staged, and switched in one step.
ReplaceFiles(c, out) ==
    LET n == call[c].q.size IN
    /\ Running(c, "write_files") /\ call[c].q.replace
    /\ out # "no" => Unlocked
    /\ IF out = "no" THEN Refuse(c)
       ELSE Did(c, n, {"files"}, n, "changed", IF out = "held" THEN "refused" ELSE "ok")
    /\ site' = [site EXCEPT !.locked = @ \/ out = "held"]
    /\ UNCHANGED <<gated, lazy, made, lines>>

DeleteFile(c) ==
    /\ Running(c, "delete_file")
    /\ \/ Refuse(c)
       \/ Unlocked /\ (Done(c, {"files"}) \/ Half(c, {"files"}))
    /\ UNCHANGED <<gated, lazy, site, made, lines>>

OwnerOnly(role) == role # "admin"

\* A site that is gone already is deleted again, and told again.
DeleteSite(c) ==
    /\ Running(c, "delete_site")
    /\ \/ Refuse(c) /\ UNCHANGED site
       \/ /\ OwnerOnly(call[c].role) /\ (site.there => ~site.locked)
          /\ Done(c, {"site"}) /\ site' = [site EXCEPT !.there = FALSE, !.locked = FALSE]
    /\ UNCHANGED <<gated, lazy, made, lines>>

\* These go past a lock placed since the site was opened.
Change(c, tools, halves) ==
    /\ call[c].pc = "open" /\ call[c].q.tool \in tools
    /\ \/ Refuse(c)
       \/ site.there /\ Done(c, {"settings"})
       \/ site.there /\ call[c].q.tool \in halves /\ Half(c, {"settings"})
    /\ UNCHANGED <<gated, lazy, site, made, lines>>

\* The claim is taken before its port is refused.
ChangeDomains(c) ==
    Change(c, {"add_domain", "remove_domain", "set_domain_redirect", "set_domain_target", "set_view_address"},
           {"add_domain"})

\* A mail that could not be sent fails a resend, whose link is already the
\* new one.
ChangeForms(c) ==
    Change(c, {"add_form", "update_form", "remove_form", "resend_form_confirmation"}, {"resend_form_confirmation"})

\* The token is issued for the site that was opened, whatever became of it.
OpenUpload(c) ==
    /\ Running(c, "open_upload")
    /\ Refuse(c) \/ Done(c, {"token"})
    /\ UNCHANGED <<gated, lazy, site, made, lines>>

(***************************************************************************)
(* create_site.                                                            *)
(***************************************************************************)

\* The limits, the account and its plan.
CreateSite(c, allowed) ==
    /\ call[c].pc = "let in" /\ call[c].q.tool = "create_site"
    /\ IF allowed /\ (gated => call[c].q.cr.account # Nobody)
       THEN Goto(c, "made") /\ made' = [made EXCEPT ![c].there = TRUE]
       ELSE Goto(c, "refused") /\ UNCHANGED made
    /\ UNCHANGED <<gated, lazy, site, did, lines>>

\* A failed creation deletes what it made, but not under the operator's lock.
GiveUp(c) ==
    /\ Goto(c, "refused") /\ UNCHANGED <<did, lines>>
    /\ made' = IF made[c].locked = "no" THEN [made EXCEPT ![c] = NoSite] ELSE made

RecordCreate(c, n) ==
    lines' = [lines EXCEPT ![c] = Append(@, [action |-> "create", files |-> n, role |-> "none"])]

\* Its files one by one; one that is held stays, and the site with it.
Fill(c, out) ==
    LET n == did[c].n IN
    /\ call[c].pc = "made" /\ n < call[c].q.size
    /\ out # "no" => made[c].locked = "no"
    /\ IF out = "no" THEN GiveUp(c)
       ELSE /\ Did(c, n + 1, {"created"}, 0, IF out = "held" THEN "refused" ELSE "made", "ok")
            /\ IF out = "held"
               THEN made' = [made EXCEPT ![c].locked = "guard"] /\ RecordCreate(c, n + 1)
               ELSE UNCHANGED <<made, lines>>
    /\ UNCHANGED <<gated, lazy, site>>

\* Its settings, layout and domains.
Finish(c) ==
    /\ call[c].pc = "made" /\ did[c].n = call[c].q.size
    /\ \/ GiveUp(c)
       \/ Goto(c, "ok") /\ RecordCreate(c, did[c].n) /\ UNCHANGED <<did, made>>
    /\ UNCHANGED <<gated, lazy, site>>

(***************************************************************************)
(* The record, and the layout.                                             *)
(***************************************************************************)

Laid == {"update_site", "write_files", "delete_file"}

\* recordMCP: a deletion is told in its owner's log, and nothing to the log of
\* a site that is gone.
RecordMCP(c) ==
    LET q == call[c].q IN
    /\ call[c].pc = "changed"
    /\ lines' = IF site.there \/ q.tool = "delete_site"
                THEN [lines EXCEPT ![c] = Append(@, [action |-> IF q.replace THEN "replace" ELSE q.tool,
                                                     files |-> call[c].files, role |-> call[c].role])]
                ELSE lines
    /\ Goto(c, IF call[c].fin = "ok" /\ q.tool \in Laid THEN "told" ELSE call[c].fin)
    /\ UNCHANGED <<gated, lazy, site, did, made>>

\* syncViewerLayout, which may fail: the change stands, and is told.
Lay(c, laid) ==
    /\ call[c].pc = "told" /\ Goto(c, IF laid THEN "ok" ELSE "failed")
    /\ UNCHANGED <<gated, lazy, site, did, made, lines>>

(***************************************************************************)
(* What the others do meanwhile: the operator, the guard, the account's    *)
(* other surfaces.                                                         *)
(***************************************************************************)

Lock    == site.there /\ site' = [site EXCEPT !.locked = ~@]
Gone    == site.there /\ site' = [site EXCEPT !.there = FALSE, !.locked = FALSE]
Move(a) == site.there /\ site.owner # Nobody /\ site' = [site EXCEPT !.owner = a, !.admin = Nobody]
Share(a) == site.there /\ site.owner \notin {a, Nobody} /\ site' = [site EXCEPT !.admin = a]

Meanwhile ==
    /\ Lock \/ Gone \/ (\E a \in Accounts : Move(a)) \/ (\E a \in Accounts \cup {Nobody} : Share(a))
    /\ UNCHANGED <<gated, lazy, call, did, made, lines>>

LockMade(c) ==
    /\ made[c].there /\ made[c].locked = "no" /\ made' = [made EXCEPT ![c].locked = "operator"]
    /\ UNCHANGED <<gated, lazy, site, call, did, lines>>

ToolsNext ==
    \/ \E c \in Calls :
          \/ call[c].pc = "idle" /\ \E q \in Requests, decodes \in BOOLEAN : Arrive(c, q, decodes)
          \/ ListSites(c)
          \/ \E plan \in {"yes", "no", "unknown"}, throttled \in BOOLEAN : Open(c, plan, throttled)
          \/ \E found \in BOOLEAN : Read(c, found)
          \/ \E expiry, tags, rest \in BOOLEAN : UpdateSite(c, expiry, tags, rest)
          \/ \E out \in {"in", "no", "held", "stuck"} : WriteFile(c, out)
          \/ \E out \in {"in", "no", "held"} : ReplaceFiles(c, out)
          \/ DeleteFile(c) \/ DeleteSite(c) \/ OpenUpload(c)
          \/ ChangeDomains(c) \/ ChangeForms(c)
          \/ \E allowed \in BOOLEAN : CreateSite(c, allowed)
          \/ \E out \in {"in", "no", "held"} : Fill(c, out)
          \/ Finish(c) \/ RecordMCP(c) \/ LockMade(c)
          \/ \E laid \in BOOLEAN : Lay(c, laid)
    \/ Meanwhile

ToolsSpec == ToolsInit /\ [][ToolsNext]_tvars

(***************************************************************************)
(* What it promises.                                                       *)
(***************************************************************************)

Answered(c) == call[c].pc \in Ends

LineOf(c) == [action |-> IF call[c].q.replace THEN "replace" ELSE call[c].q.tool,
              files |-> did[c].n, role |-> call[c].role]
Told(c)   == lines[c] = <<LineOf(c)>> \/ (lines[c] = <<>> /\ ~site.there)

\* Whatever an answered call changed of the site is in its trail, once, with
\* the files that went in, some of a failed call's and the one that was held
\* among them, and by whom; a call that changed nothing told nothing, but for
\* an update that set nothing, which may be told.  Only an operation that
\* failed half-way in the store may go untold, and never tells of more than it
\* did; nothing is told of a site that is gone.
TrailTellsTheCall ==
    \A c \in Calls : Answered(c) /\ call[c].q.tool # "create_site" =>
        CASE did[c].what = {} /\ ~(call[c].q.tool = "update_site" /\ lines[c] # <<>>) -> lines[c] = <<>>
          [] call[c].pc = "half" -> lines[c] = <<>> \/ (Len(lines[c]) = 1 /\ lines[c][1].files < did[c].n)
          [] OTHER -> Told(c)

\* Whoever is sent to sign in, or back for a scope, could not have had it
\* without: the challenge, which is in front of the tools, and the tools
\* agree (a bearer that resolves to nothing is refused for itself).
CouldWork(q) ==
    /\ Allows(q.cr, Scope(q.tool))
    /\ CASE q.tool = "create_site" -> gated => q.cr.account # Nobody
         [] q.tool = "list_sites"  -> q.cr.account # Nobody
         [] OTHER -> Standing(q.cr.account, "yes") # "none" \/ PasswordDoes(q.pw)

DoorAgrees ==
    \A c \in Calls : call[c].pc = "challenged" /\ call[c].q.cr.bearer # "bad" => ~CouldWork(call[c].q)

\* And what got past the challenge unread changes nothing that its credential
\* was not granted, an admin nothing that is the owner's, and nobody anything
\* without either an account on the site or its password.
ChangesAreGranted ==
    \A c \in Calls : call[c].pc # "idle" /\ did[c].what # {} =>
        LET q == call[c].q IN
        /\ q.cr.bearer = "oauth" => "write" \in q.cr.scopes
        /\ call[c].role = "admin" => did[c].what \cap {"site", "expiry", "tags"} = {}
        /\ q.tool # "create_site" => q.cr.account # Nobody \/ q.pw = "right"

\* A creation that failed leaves nothing behind but a site under a lock, and
\* one that the guard held is in the trail with every file that came.
FailedCreateLeavesNothing ==
    \A c \in Calls : Answered(c) /\ call[c].q.tool = "create_site" =>
        /\ made[c].there => call[c].pc = "ok" \/ made[c].locked # "no"
        /\ made[c].there /\ made[c].locked # "operator" =>
              lines[c] = <<[action |-> "create", files |-> did[c].n, role |-> "none"]>>

\* The content a lock holds as evidence is no tool's to change, however long
\* ago it opened the site.
LockHoldsContent ==
    \A c \in Calls : did'[c] # did[c] /\ did'[c].what \cap {"files", "site"} # {} => ~site.locked

(***************************************************************************)
(* What carries them: how far each call is, and what it has done by then.  *)
(***************************************************************************)

Granted(c)  == Allows(call[c].q.cr, Scope(call[c].q.tool))
Entitled(c) ==
    \/ call[c].role \in {"owner", "admin"} /\ call[c].q.cr.account # Nobody
    \/ call[c].role = "password" /\ call[c].q.pw = "right"
Worked(c) ==
    /\ call[c].q.tool \in Writes /\ Granted(c) /\ Entitled(c)
    /\ call[c].role = "admin" => did[c].what \cap {"site", "expiry", "tags"} = {}
    /\ did[c].what # {} \/ call[c].q.tool = "update_site"

\* A call on the site: some of its files may be in, all of it is done, told.
WorkInv(c) ==
    /\ call[c].pc # "made"
    /\ call[c].pc = "open" =>
          /\ Granted(c) /\ Entitled(c) /\ lines[c] = <<>>
          /\ \/ did[c] = Nothing
             \/ /\ call[c].q.tool = "write_files" /\ ~call[c].q.replace
                /\ did[c].what = {"files"} /\ 0 < did[c].n /\ did[c].n < call[c].q.size
    /\ call[c].pc = "changed" =>
          /\ Worked(c) /\ lines[c] = <<>>
          /\ IF call[c].fin = "half" THEN did[c].what # {} /\ call[c].files < did[c].n
             ELSE call[c].files = did[c].n
    /\ call[c].pc = "told" => Worked(c) /\ Told(c)
    /\ call[c].pc \in Ends \ {"half"} =>
          (did[c].what = {} /\ lines[c] = <<>>) \/ (Worked(c) /\ Told(c))
    /\ call[c].pc = "half" =>
          /\ Worked(c) /\ did[c].what # {}
          /\ lines[c] = <<>> \/ (Len(lines[c]) = 1 /\ lines[c][1].files < did[c].n)

\* A creation: what it made is there until it is given up.
CreateLine(c) == lines[c] = <<[action |-> "create", files |-> did[c].n, role |-> "none"]>>
CreateInv(c) ==
    /\ call[c].role = "none" /\ call[c].pc \in {"made", "ok", "refused"}
    /\ did[c].what \subseteq {"created"} /\ (did[c].what # {} => Granted(c))
    /\ call[c].pc = "made" => Granted(c) /\ made[c].there /\ made[c].locked # "guard" /\ lines[c] = <<>>
    /\ call[c].pc = "ok" => CreateLine(c)
    /\ call[c].pc = "refused" /\ made[c].there =>
          made[c].locked = "operator" \/ (made[c].locked = "guard" /\ CreateLine(c))

CallInv(c) ==
    /\ call[c].pc \in {"idle", "challenged", "let in"} =>
          did[c] = Nothing /\ lines[c] = <<>> /\ made[c] = NoSite
    /\ call[c].pc = "challenged" => Challenged(call[c].q)
    /\ call[c].pc = "let in" => Granted(c) /\ call[c].role = "none"
    /\ call[c].pc \notin {"idle", "challenged", "let in"} =>
          IF call[c].q.tool = "create_site" THEN CreateInv(c) ELSE WorkInv(c)

ToolsInv == (site.locked => site.there) /\ \A c \in Calls : CallInv(c)

=============================================================================
