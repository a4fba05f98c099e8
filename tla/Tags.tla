--------------------------------- MODULE Tags ---------------------------------
(***************************************************************************)
(* An account's tags (ee/dashtags.go, ee/tagsmanage.go, ee/account/tags.go,*)
(* siteService.UpdateTags): labels in each site's meta.json, a registry in *)
(* the account's folder that puts tags into groups, and the account-wide   *)
(* rename and delete, which list the sites, change them one by one, each   *)
(* under its own lock, and change the registry last.                       *)
(*                                                                         *)
(* An admin's own tags on a shared site are read, edited and written back  *)
(* with no lock over the three.  A tag is its key: spellings and colours   *)
(* are left out, a colour follows the rules of a group.                    *)
(***************************************************************************)
EXTENDS Naturals, FiniteSets

CONSTANTS
    Sites, Keys, Groups, Forms,   \* forms posted at once
    MaxTags,                      \* MaxSiteTags
    NoGroup,
    MaxChanges, MaxFaults

TagsAssumption ==
    /\ MaxTags \in Nat /\ MaxChanges \in Nat /\ MaxFaults \in Nat /\ NoGroup \notin Groups

VARIABLES
    mine,      \* the sites that are this account's
    locked,    \* the sites under the operator's lock
    tags,      \* Meta.Tags
    groups,    \* the registry: groups, and the group of every tag it knows
    registry,
    own,       \* the account's own tags on the one site shared with it
    form,      \* what each form is doing
    due,       \* history: the labels whoever owns a site asked for on it
    changes, faults

tvars == <<mine, locked, tags, groups, registry, own, form, due, changes, faults>>
siteVars == <<mine, locked, tags, due>>

NoForm == [op |-> "none"]

\* What a form holds: a walk over the account's sites, or a smaller change.
Labels == [Sites -> SUBSET Keys]
Walks  == [op : {"rename", "delete"}, key : Keys, to : Keys, confirmed : BOOLEAN, todo : SUBSET Sites,
           listed : Labels, left : SUBSET Sites, late : SUBSET Sites]
Singles ==
    [op : {"add", "register"}, site : Sites, key : Keys, group : Groups \cup {NoGroup}]
        \cup [op : {"admin"}, next : SUBSET Keys]
        \cup [op : {"group"}, key : Keys, group : Groups \cup {NoGroup}, used : BOOLEAN]
        \cup {NoForm}

TagsTyped ==
    /\ mine \subseteq Sites /\ tags \in Labels /\ due \in Labels
    /\ form \in [Forms -> Walks \cup Singles]

TagsTypeOK ==
    /\ TagsTyped /\ locked \subseteq Sites /\ groups \subseteq Groups /\ own \subseteq Keys
    /\ DOMAIN registry \subseteq Keys /\ \A k \in DOMAIN registry : registry[k] \in groups \cup {NoGroup}
    /\ changes \in 0 .. MaxChanges /\ faults \in 0 .. MaxFaults

TagsInit ==
    /\ mine = Sites /\ locked = {} /\ groups = {} /\ registry = <<>> /\ own = {}
    /\ tags \in [Sites -> {{}} \cup {{k} : k \in Keys}] /\ due = tags
    /\ form = [f \in Forms |-> NoForm]
    /\ changes = 0 /\ faults = 0

Become(f, to) == form' = [form EXCEPT ![f] = to]

Account(f) == form[f].op \in {"rename", "delete"}

\* Every account-wide change of key k takes note that k was put on s.
PutOn(fs, s, k) ==
    [g \in Forms |-> IF Account(g) /\ form[g].key = k THEN [fs[g] EXCEPT !.late = @ \cup {s}] ELSE fs[g]]

\* Every form is one change asked for, bounded.
Post(f, to) ==
    /\ form[f].op = "none" /\ changes < MaxChanges /\ changes' = changes + 1
    /\ Become(f, to)
    /\ UNCHANGED <<siteVars, groups, registry, own, faults>>

InUse(k)  == \E s \in mine : k \in tags[s]
Known(k)  == k \in DOMAIN registry \/ InUse(k)
Entry(k, g) == [j \in DOMAIN registry \cup {k} |-> IF j = k THEN g ELSE registry[j]]

\* validate: nothing is written when a tag would be in a group that is gone.
Valid(reg) == \A k \in DOMAIN reg : reg[k] \in groups \cup {NoGroup}

(***************************************************************************)
(* One site.                                                               *)
(***************************************************************************)

\* tagForm and the reading that decides on spelling and registration.
AskAdd(f, s, k, g) ==
    /\ s \in mine
    /\ Post(f, [op |-> "add", site |-> s, key |-> k, group |-> IF Known(k) THEN NoGroup ELSE g])

\* updateTags under the site's lock, ownership asked again; then the group.
Add(f) ==
    /\ form[f].op = "add"
    /\ LET s == form[f].site  k == form[f].key
           refused == s \notin mine \/ s \in locked \/ Cardinality(tags[s] \cup {k}) > MaxTags
       IN  /\ tags' = IF refused THEN tags ELSE [tags EXCEPT ![s] = @ \cup {k}]
           /\ due'  = IF refused THEN due ELSE [due EXCEPT ![s] = @ \cup {k}]
           /\ LET next == [form EXCEPT ![f] = IF refused \/ @.group = NoGroup THEN NoForm
                                              ELSE [@ EXCEPT !.op = "register"]]
              IN  form' = IF refused THEN next ELSE PutOn(next, s, k)
    /\ UNCHANGED <<mine, locked, groups, registry, own, changes, faults>>

\* A tag registered in the meantime is left as it is.
Register(f) ==
    /\ form[f].op = "register"
    /\ LET next == Entry(form[f].key, form[f].group) IN
       registry' = IF form[f].key \notin DOMAIN registry /\ Valid(next) THEN next ELSE registry
    /\ Become(f, NoForm)
    /\ UNCHANGED <<siteVars, groups, own, changes, faults>>

Remove(s, k) ==
    /\ s \in mine \ locked /\ k \in tags[s]
    /\ changes < MaxChanges /\ changes' = changes + 1
    /\ tags' = [tags EXCEPT ![s] = @ \ {k}] /\ due' = [due EXCEPT ![s] = @ \ {k}]
    /\ UNCHANGED <<mine, locked, groups, registry, own, form, faults>>

\* adminTagEdit: the whole list read, and written back.
AskAdmin(f, k, adds) ==
    Post(f, [op |-> "admin", next |-> IF adds THEN own \cup {k} ELSE own \ {k}])

SetAdminTags(f) ==
    /\ form[f].op = "admin"
    /\ own' = form[f].next /\ Become(f, NoForm)
    /\ UNCHANGED <<siteVars, groups, registry, changes, faults>>

(***************************************************************************)
(* The registry (UpdateTags, under the account's lock).                    *)
(***************************************************************************)

CreateGroup(g) ==
    /\ g \notin groups /\ changes < MaxChanges /\ changes' = changes + 1
    /\ groups' = groups \cup {g}
    /\ UNCHANGED <<siteVars, registry, own, form, faults>>

\* Its tags are kept, without a group.
DeleteGroup(g) ==
    /\ g \in groups /\ changes < MaxChanges /\ changes' = changes + 1
    /\ groups' = groups \ {g}
    /\ registry' = [k \in DOMAIN registry |-> IF registry[k] = g THEN NoGroup ELSE registry[k]]
    /\ UNCHANGED <<siteVars, own, form, faults>>

\* editTagMeta: the sites are listed first, the registry is read when it is
\* changed.
AskGroup(f, k, g) == Post(f, [op |-> "group", key |-> k, group |-> g, used |-> InUse(k)])

SetGroup(f) ==
    /\ form[f].op = "group"
    /\ LET k == form[f].key  g == form[f].group
           next == IF k \notin DOMAIN registry /\ (g = NoGroup \/ ~form[f].used) THEN registry ELSE Entry(k, g)
       IN  registry' = IF Valid(next) THEN next ELSE registry
    /\ Become(f, NoForm)
    /\ UNCHANGED <<siteVars, groups, own, changes, faults>>

(***************************************************************************)
(* Account-wide.                                                           *)
(***************************************************************************)

Carrying(k) == {s \in mine : k \in tags[s]}

\* Onto a tag the account knows a rename is a merge, and asks first.
AskRename(f, k, to, confirmed) ==
    /\ k # to /\ Known(k) /\ (Known(to) => confirmed)
    /\ Post(f, [op |-> "rename", key |-> k, to |-> to, confirmed |-> confirmed, todo |-> Carrying(k),
                listed |-> tags, left |-> {}, late |-> {}])

AskDelete(f, k) ==
    /\ Known(k)
    /\ Post(f, [op |-> "delete", key |-> k, to |-> k, confirmed |-> TRUE, todo |-> Carrying(k),
                listed |-> tags, left |-> {}, late |-> {}])

\* renameIn, removeFrom: of the tags the site carries right then.
Edited(f, cur) ==
    IF form[f].key \notin cur THEN cur
    ELSE (cur \ {form[f].key}) \cup (IF form[f].op = "rename" THEN {form[f].to} ELSE {})

\* Mutant: the edit is made on the list as it was listed.
RetagListed(f, s) ==
    /\ Account(f) /\ s \in form[f].todo
    /\ LET takes == s \in mine \ locked IN
       /\ tags' = IF takes THEN [tags EXCEPT ![s] = Edited(f, form[f].listed[s])] ELSE tags
       /\ due'  = IF takes THEN [due EXCEPT ![s] = Edited(f, @)] ELSE due
    /\ form' = [form EXCEPT ![f].todo = @ \ {s}, ![f].left = IF s \in mine \cap locked THEN @ \cup {s} ELSE @]
    /\ UNCHANGED <<mine, locked, groups, registry, own, changes, faults>>

\* Mutant: a locked site is left out like one that is gone.
RetagSilently(f, s) ==
    /\ Account(f) /\ s \in form[f].todo
    /\ LET takes == s \in mine \ locked IN
       /\ tags' = IF takes THEN [tags EXCEPT ![s] = Edited(f, @)] ELSE tags
       /\ due'  = IF takes THEN [due EXCEPT ![s] = Edited(f, @)] ELSE due
    /\ form' = [form EXCEPT ![f].todo = @ \ {s}]
    /\ UNCHANGED <<mine, locked, groups, registry, own, changes, faults>>

\* retagSites: a site no longer the account's is ignored; a locked one, or
\* one whose write fails, is left and named.
Retag(f, s) ==
    /\ Account(f) /\ s \in form[f].todo
    /\ \E fails \in BOOLEAN :
         LET takes == s \in mine \ locked /\ ~fails IN
         /\ fails => s \in mine \ locked /\ faults < MaxFaults
         /\ faults' = IF fails THEN faults + 1 ELSE faults
         /\ tags' = IF takes THEN [tags EXCEPT ![s] = Edited(f, @)] ELSE tags
         /\ due'  = IF takes THEN [due EXCEPT ![s] = Edited(f, @)] ELSE due
         /\ LET next == [form EXCEPT ![f].todo = @ \ {s},
                                     ![f].left = IF s \in mine /\ ~takes THEN @ \cup {s} ELSE @]
            IN  form' = IF form[f].to \in tags'[s] \ tags[s] THEN PutOn(next, s, form[f].to) ELSE next
    /\ UNCHANGED <<mine, locked, groups, registry, own, changes>>

\* renameEntry: onto an entry that is there its group wins, an empty one is
\* filled; a group gone meanwhile is no group.
Renamed(k, to) ==
    IF k \notin DOMAIN registry THEN registry
    ELSE LET was  == registry[k]
             kept == IF to \in DOMAIN registry /\ registry[to] # NoGroup THEN registry[to] ELSE was
         IN  [j \in (DOMAIN registry \ {k}) \cup {to} |-> IF j = to THEN kept ELSE registry[j]]

WalkEnds(f) ==
    /\ Account(f) /\ form[f].todo = {}
    /\ registry' = IF form[f].op = "rename" THEN Renamed(form[f].key, form[f].to)
                   ELSE [j \in DOMAIN registry \ {form[f].key} |-> registry[j]]
    /\ Become(f, NoForm)
    /\ UNCHANGED <<siteVars, groups, own, changes, faults>>

(***************************************************************************)
(* The operator, another account, a restart.                               *)
(***************************************************************************)

\* A transfer leaves no label of the old owner; the site may come back.
Moves(s) ==
    /\ s \notin locked /\ changes < MaxChanges /\ changes' = changes + 1
    /\ mine' = IF s \in mine THEN mine \ {s} ELSE mine \cup {s}
    /\ tags' = [tags EXCEPT ![s] = {}] /\ due' = [due EXCEPT ![s] = {}]
    /\ UNCHANGED <<locked, groups, registry, own, form, faults>>

\* The new owner labels the site with whatever tag they like.
OthersAdd(s, k) ==
    /\ s \notin mine \cup locked /\ changes < MaxChanges /\ changes' = changes + 1
    /\ tags' = [tags EXCEPT ![s] = @ \cup {k}] /\ due' = [due EXCEPT ![s] = @ \cup {k}]
    /\ UNCHANGED <<mine, locked, groups, registry, own, form, faults>>

Lock(s) ==
    /\ changes < MaxChanges /\ changes' = changes + 1
    /\ locked' = IF s \in locked THEN locked \ {s} ELSE locked \cup {s}
    /\ UNCHANGED <<mine, tags, due, groups, registry, own, form, faults>>

Restart ==
    /\ faults < MaxFaults /\ faults' = faults + 1
    /\ form' = [f \in Forms |-> NoForm]
    /\ UNCHANGED <<siteVars, groups, registry, own, changes>>

TagsNext ==
    \/ \E f \in Forms, k \in Keys :
         \/ \E s \in Sites, g \in Groups \cup {NoGroup} : AskAdd(f, s, k, g)
         \/ \E adds \in BOOLEAN : AskAdmin(f, k, adds)
         \/ \E g \in Groups \cup {NoGroup} : AskGroup(f, k, g)
         \/ \E to \in Keys, confirmed \in BOOLEAN : AskRename(f, k, to, confirmed)
         \/ AskDelete(f, k)
    \/ \E f \in Forms : Add(f) \/ Register(f) \/ SetAdminTags(f) \/ SetGroup(f) \/ WalkEnds(f)
    \/ \E f \in Forms, s \in Sites : Retag(f, s)
    \/ \E s \in Sites : Moves(s) \/ Lock(s) \/ \E k \in Keys : Remove(s, k) \/ OthersAdd(s, k)
    \/ \E g \in Groups : CreateGroup(g) \/ DeleteGroup(g)
    \/ Restart

TagsSpec == TagsInit /\ [][TagsNext]_tvars

(***************************************************************************)
(* Properties.                                                             *)
(***************************************************************************)

\* A site carries what its owner asked for and nothing else: an account-wide
\* change under way loses no label put on meanwhile, and puts none on a site
\* that is somebody else's by then.
LabelsAreTheOwners == tags = due

\* A rename or delete that names no site it left is done: the old tag is on
\* no site of the account but those it was put on since.
AccountWideIsDone ==
    \A f \in Forms :
        Account(f) /\ form[f].todo = {} /\ form'[f] = NoForm /\ faults' = faults /\ form[f].left = {}
          => \A s \in mine : form[f].key \in tags[s] => s \in form[f].late

\* What makes it inductive: every site of the account that carries the tag is
\* still to be walked, was left, or got it since; a rename goes somewhere else.
WalksInv ==
    \A f \in Forms : Account(f) =>
        /\ form[f].op = "rename" => form[f].key # form[f].to
        /\ \A s \in mine : form[f].key \in tags[s] => s \in form[f].todo \cup form[f].left \cup form[f].late

TagsInv == tags = due /\ WalksInv

\* "Onto a tag the account already knows it is a merge, confirmed first": two
\* tags of a site become one only when that was confirmed.  The code breaks it:
\* whether the tag is known is looked up before the sites are walked.
MergesAreConfirmed ==
    [][\A f \in Forms, s \in Sites :
         Account(f) /\ form'[f].op = "rename" /\ s \in form[f].todo \ form'[f].todo /\ tags'[s] # tags[s]
           => form[f].confirmed \/ form[f].to \notin tags[s]]_tvars

===============================================================================
