-------------------------------- MODULE Archive --------------------------------
(***************************************************************************)
(* `sitebin backup` and `sitebin restore` (cmd/sitebin/backup.go): a walk  *)
(* lists a folder, looks at each entry again and then opens it, while      *)
(* containers change the entries of a site between any two of these; what  *)
(* the walk wrote is extracted, entry by entry, into an empty data         *)
(* directory or over the live one.  The entries are a few paths of one     *)
(* site's files/ and of the instance's own; a content is its path.         *)
(***************************************************************************)
EXTENDS Naturals, Sequences, Functions

CONSTANTS
    Paths,       \* in the order a folder lists them
    Content,     \* those inside a site's files/
    Folder,      \* the folder of each path, or Top
    Top,
    MaxChanges, MaxFaults

Entries == Range(Paths)

ArchiveAssumption ==
    /\ Content \subseteq Entries /\ Top \notin Entries
    /\ Folder \in [Entries -> Entries \cup {Top}]
    /\ MaxChanges \in Nat /\ MaxFaults \in Nat

VARIABLES
    kind, denied,     \* what each path is; which a container made unreadable
    touched,          \* history: what has changed since the walk began
    at, agenda,       \* the walk: what it has listed and not yet looked at
    look,             \* what add saw of the head of the agenda
    archive, skipped, \* entries in the order written; entries reported and left out
    onto,             \* the data directory restored into
    tree, through,    \* what stands there; history: a path written through a link
    changes, faults

avars == <<kind, denied, touched, at, agenda, look, archive, skipped, onto, tree, through, changes, faults>>
diskVars    == <<kind, denied, touched, changes>>
restoreVars == <<onto, tree, through>>

\* "link" leads to somewhere in the same root, "out" anywhere else.
Kinds == {"none", "file", "dir", "link", "out", "pipe"}
NoLook == [via |-> "none", stale |-> FALSE]
Children(d) == SelectSeq(Paths, LAMBDA e : Folder[e] = d)

ArchiveTypeOK ==
    /\ kind \in [Entries -> Kinds] /\ denied \subseteq Content /\ touched \subseteq Entries
    /\ at \in {"list", "next", "parent", "open", "again", "read", "unread", "done", "aborted", "extract", "restored", "refused"}
    /\ skipped \subseteq Entries /\ tree \in [Entries -> Kinds] /\ through \subseteq Entries
    /\ onto \in {"empty", "live"} /\ changes \in 0 .. MaxChanges /\ faults \in 0 .. MaxFaults

ArchiveInit ==
    /\ kind = [e \in Entries |-> IF Children(e) # <<>> THEN "dir" ELSE "file"] /\ denied = {} /\ touched = {}
    /\ at = "list" /\ agenda = <<>> /\ look = NoLook /\ archive = <<>> /\ skipped = {}
    /\ onto \in {"empty", "live"} /\ tree = [e \in Entries |-> "none"] /\ through = {}
    /\ changes = 0 /\ faults = 0

\* ---- the disk: containers change their paths, Sitebin replaces its own

Change(e, k) ==
    /\ at # "extract" /\ changes < MaxChanges /\ changes' = changes + 1
    /\ k # kind[e] \/ k = "file"
    /\ k \in (IF e \notin Content THEN {"file", "none"}
              ELSE IF Children(e) # <<>> THEN {"dir", "file", "link", "out", "none"} ELSE Kinds \ {"dir"})
    /\ kind' = [kind EXCEPT ![e] = k] /\ touched' = touched \cup {e} \cup Range(Children(e))
    /\ look' = [look EXCEPT !.stale = @ \/ (agenda # <<>> /\ agenda[1].e = e)]
    /\ UNCHANGED <<denied, at, agenda, archive, skipped, restoreVars, faults>>

Deny(e) ==
    /\ at # "extract" /\ changes < MaxChanges /\ changes' = changes + 1
    /\ denied' = denied \cup {e} /\ touched' = touched \cup {e} \cup Range(Children(e))
    /\ UNCHANGED <<kind, at, agenda, look, archive, skipped, restoreVars, faults>>

\* ---- the walk

InOrder(d, es, isDir(_)) ==
    LET here == SelectSeq(Children(d), LAMBDA e : e \in es)
    IN [i \in DOMAIN here |-> [e |-> here[i], dir |-> isDir(here[i])]]
Listed(d) == LET isDir(e) == kind[e] = "dir" IN InOrder(d, {e \in Entries : kind[e] # "none"}, isDir)
Rest == Tail(agenda)
Head1 == agenda[1].e

Walk(next, to) == at' = next /\ agenda' = to /\ look' = NoLook
Keep == UNCHANGED <<archive, skipped>>
Write(k) == archive' = Append(archive, [e |-> Head1, kind |-> k]) /\ UNCHANGED skipped
Skip == skipped' = skipped \cup {Head1} /\ UNCHANGED archive
Abort == at' = "aborted" /\ agenda' = <<>> /\ look' = NoLook /\ Keep

List ==
    /\ at = "list" /\ Walk("next", Listed(Top)) /\ Keep
    /\ UNCHANGED <<diskVars, restoreVars, faults>>

FolderIs(e) == IF Folder[e] = Top THEN "dir" ELSE kind[Folder[e]]

\* What a fresh Lstat says: the root follows a link that stays within it and
\* refuses one that leaves it.
Lstat(e) ==
    CASE FolderIs(e) = "dir" -> {IF Folder[e] \in denied THEN "error" ELSE kind[e]}
      [] FolderIs(e) = "link" -> {"file", "none"}
      [] FolderIs(e) = "none" -> {"none"}
      [] OTHER -> {"error"}

\* Mutant: the walk goes on as its listing says.
DescendsAsListed(k) == agenda[1].dir

\* add: an entry listed as a folder that is none any more must not be read.
Descends(k) == k = "dir" /\ agenda[1].dir

Add ==
    /\ at = "next" /\ agenda # <<>>
    /\ \E k \in Lstat(Head1) :
         \/ k = "none" /\ Walk("next", Rest) /\ Keep
         \/ k = "error" /\ at' = "parent" /\ UNCHANGED <<agenda, look>> /\ Keep
         \/ k \in {"out", "pipe"} /\ Walk("next", Rest) /\ Skip
         \/ k = "file" /\ at' = "open" /\ look' = [via |-> FolderIs(Head1), stale |-> FALSE]
                       /\ UNCHANGED agenda /\ Keep
         \/ /\ k \in {"link", "dir"} /\ Write(k)
            /\ IF Descends(k) THEN at' = "read" /\ UNCHANGED <<agenda, look>> ELSE Walk("next", Rest)
    /\ UNCHANGED <<diskVars, restoreVars, faults>>

\* parentSwapped, asked after the Lstat failed.
ParentSwapped ==
    /\ at = "parent"
    /\ IF FolderIs(Head1) # "dir" \/ Folder[Head1] \in denied THEN Walk("next", Rest) /\ Skip ELSE Abort
    /\ UNCHANGED <<diskVars, restoreVars, faults>>

\* A folder that became a file is read all the same if its file is gone again
\* or was swapped: open leaves the walk to its listing.
OpenLeft == IF agenda[1].dir THEN at' = "read" /\ UNCHANGED agenda /\ look' = NoLook ELSE Walk("next", Rest)

Same == ~look.stale /\ look.via = FolderIs(Head1)

Open ==
    /\ at = "open"
    /\ \E k \in Lstat(Head1) :
         \/ k = "none" /\ OpenLeft /\ Keep
         \/ k \in {"error", "out"} /\ at' = "again" /\ UNCHANGED <<agenda, look>> /\ Keep
         \/ k = "file" /\ Same /\ Head1 \notin denied /\ Write("file") /\ Walk("next", Rest)
         \/ k \in {"link", "pipe", "dir"} /\ OpenLeft /\ Skip
         \/ k = "file" /\ (Head1 \in denied \/ ~Same) /\ OpenLeft /\ Skip
    /\ UNCHANGED <<diskVars, restoreVars, faults>>

OpenAgain ==
    /\ at = "again"
    /\ IF Lstat(Head1) # {"file"} THEN OpenLeft /\ Skip ELSE Abort
    /\ UNCHANGED <<diskVars, restoreVars, faults>>

\* The walk reads a folder add has just written.
ReadDir ==
    /\ at = "read"
    /\ \/ kind[Head1] = "dir" /\ Head1 \notin denied /\ Walk("next", Listed(Head1) \o Rest) /\ Keep
       \/ kind[Head1] = "dir" /\ Head1 \in denied /\ Walk("next", Rest) /\ Skip
       \/ kind[Head1] = "none" /\ Walk("next", Rest) /\ Keep
       \/ /\ kind[Head1] = "link" /\ Keep
          /\ LET isDir(e) == FALSE IN
             \E of \in SUBSET Entries : Walk("next", InOrder(Head1, of, isDir) \o Rest)
       \/ kind[Head1] \in {"file", "out", "pipe"} /\ at' = "unread" /\ UNCHANGED <<agenda, look>> /\ Keep
    /\ UNCHANGED <<diskVars, restoreVars, faults>>

NotRead ==
    /\ at = "unread"
    /\ IF kind[Head1] # "dir" THEN Walk("next", Rest) /\ Skip ELSE Abort
    /\ UNCHANGED <<diskVars, restoreVars, faults>>

ReadFails ==
    /\ at \in {"next", "open", "read"} /\ agenda # <<>> /\ faults < MaxFaults /\ faults' = faults + 1
    /\ Abort /\ UNCHANGED <<diskVars, restoreVars>>

Complete ==
    /\ at = "next" /\ agenda = <<>> /\ at' = "done"
    /\ UNCHANGED <<diskVars, agenda, look, archive, skipped, restoreVars, faults>>

\* ---- restoreFrom

StartRestore ==
    /\ at = "done" /\ at' = "extract" /\ agenda' = archive
    /\ tree' = (IF onto = "empty" THEN tree ELSE kind)
    /\ UNCHANGED <<diskVars, look, archive, skipped, onto, through, faults>>

Below(e) == IF Folder[e] = Top THEN "dir" ELSE tree[Folder[e]]

\* An entry whose folder leads out of the root, or that cannot take the place
\* of what stands there, ends the restore.
Refused(e, k) ==
    \/ Below(e) = "out" /\ k # "dir"
    \/ k = "dir" /\ tree[e] \in {"file", "pipe"}
    \/ k = "file" /\ tree[e] = "dir"
    \/ k = "link" /\ tree[e] = "dir" /\ \E c \in Range(Children(e)) : tree[c] # "none"

\* A link is replaced, a folder is kept, a file is opened to be written.
Placed(e, k) == IF k = "link" \/ tree[e] = "none" THEN k ELSE tree[e]
Through(e, k) == Below(e) \in {"link", "out"} \/ (k = "file" /\ tree[e] \in {"link", "out"})

Extract ==
    /\ at = "extract" /\ agenda # <<>>
    /\ LET e == Head1  k == agenda[1].kind IN
       IF Refused(e, k) THEN at' = "refused" /\ UNCHANGED <<agenda, tree, through>>
       ELSE /\ tree' = [tree EXCEPT ![e] = Placed(e, k)] /\ agenda' = Rest /\ UNCHANGED at
            /\ through' = through \cup {x \in {e} : Through(e, k)}
    /\ UNCHANGED <<diskVars, look, archive, skipped, onto, faults>>

Restored ==
    /\ at = "extract" /\ agenda = <<>> /\ at' = "restored"
    /\ UNCHANGED <<diskVars, agenda, look, archive, skipped, restoreVars, faults>>

ArchiveNext ==
    \/ \E e \in Entries, k \in Kinds : Change(e, k)
    \/ \E e \in Content : Deny(e)
    \/ List \/ Add \/ ParentSwapped \/ Open \/ OpenAgain \/ ReadDir \/ NotRead \/ ReadFails \/ Complete
    \/ StartRestore \/ Extract \/ Restored

ArchiveSpec == ArchiveInit /\ [][ArchiveNext]_avars

---------------------------------------------------------------------------

\* A backup that ends well is complete: what stood untouched from its
\* beginning to its end is in the archive, whatever containers did around it.
BackupIsComplete ==
    at = "done" => \A e \in Entries \ touched : \E x \in Range(archive) : x.e = e /\ x.kind = kind[e]

\* An archive of this walk goes back as it was taken: into an empty directory
\* every entry is accepted, none is written through a link, and what stands in
\* the end is what was archived.
RestoreIsFaithful ==
    onto = "empty" => /\ at # "refused" /\ through = {}
                      /\ at = "restored" => \A x \in Range(archive) : tree[x.e] = x.kind

BackupsGoBack == BackupIsComplete /\ RestoreIsFaithful

\* Nothing is ever written through a link (backup.go, restoreFrom).  The code
\* breaks it for a link to somewhere else in the data directory.
NothingThroughALink == through = {}

=============================================================================
