--------------------------- MODULE InstanceRestore ----------------------------
(***************************************************************************)
(* Restoring the whole instance (internal/snapshots/instance.go): the      *)
(* agent on the host makes the restored tree beside the data directory,    *)
(* stops the instance, swaps the two trees by renaming them, starts the    *)
(* instance, and switches back when it does not become healthy.  Kept      *)
(* trees are pruned by the age of their contents.                          *)
(*                                                                         *)
(* What the agent knows is in memory and in restore.json, written before   *)
(* each step; it may crash between any two of them, and Recover puts       *)
(* things right from the file and from which names exist.                  *)
(*                                                                         *)
(* A tree is what it holds and how old that is: Own is the instance's data *)
(* as it runs, a snapshot is of the day it was taken.  Docker, the backup  *)
(* lock, the extraction and a rename may fail; the rename that puts a tree *)
(* back where it just was does not, and removing a tree is one step.  Free *)
(* space, the containers of the sites (removed with the stop) and the      *)
(* staging folders a second crash leaves are left out.                     *)
(*                                                                         *)
(* Bounds: LastDay, MaxRestores, MaxFaults failures and crashes together.  *)
(***************************************************************************)
EXTENDS Naturals, FiniteSets

CONSTANTS
    Copies,       \* the names of kept trees, in no order
    None,
    Keep,         \* copyKeep
    LastDay, MaxRestores, MaxFaults

\* What a tree is: whose data, of which day, and all of it or half extracted.
Contents == [holds : {"own", "snapshot"}, of : Nat, whole : BOOLEAN]

InstanceRestoreAssumption ==
    /\ None \notin Copies \cup Contents /\ Keep \in Nat
    /\ LastDay \in Nat \ {0} /\ MaxRestores \in Nat /\ MaxFaults \in Nat

VARIABLES
    data,       \* the tree at the data directory
    staging,    \* the tree a snapshot is extracted to
    kept,       \* the kept trees, by name
    origin,     \* copies.json: how old a kept tree's contents are
    state,      \* restore.json
    task,       \* what the agent is doing; "down" while it is not running
    removing,   \* kept trees a prune or a delete has decided to remove
    up,         \* the instance runs
    letGo,      \* what was removed by age or by the operator
    day, restores, faults

ivars == <<data, staging, kept, origin, state, task, removing, up, letGo, day, restores, faults>>
trees == <<data, staging, kept, origin>>

\* Day 0 is no day: the restore put nothing there.
Days  == 1 .. LastDay
Own == [holds |-> "own", of |-> 0, whole |-> TRUE]
Snap(d, whole) == [holds |-> "snapshot", of |-> d, whole |-> whole]
Trees == {None, Own} \cup {Snap(d, w) : d \in Days, w \in BOOLEAN}

Running == {"preparing", "extracting", "stopping", "swapping", "starting"}
Idle    == [state |-> "idle", copy |-> None, incoming |-> None, previous |-> None, of |-> 0, live |-> 0]

InstanceTyped ==
    /\ data \in Contents \cup {None} /\ staging \in Contents \cup {None}
    /\ kept \in [Copies -> [tree : Contents \cup {None}, since : Nat]]
    /\ origin \in [Copies -> Nat]
    /\ state \in [state : Running \cup {"idle", "done", "failed", "rolled-back"},
                  copy : Copies \cup {None}, incoming : Copies \cup {None, "staging"},
                  previous : Copies \cup {None}, of : Nat, live : Nat]
    /\ removing \subseteq Copies /\ up \in BOOLEAN /\ letGo \in BOOLEAN
    /\ day \in Days

InstanceTypeOK ==
    /\ InstanceTyped
    /\ {data, staging} \cup {kept[c].tree : c \in Copies} \subseteq Trees
    /\ {state.of, state.live} \cup {origin[c] : c \in Copies} \subseteq 0 .. LastDay
    /\ restores \in 0 .. MaxRestores /\ faults \in 0 .. MaxFaults

InstanceInit ==
    /\ data = Own /\ staging = None
    /\ kept = [c \in Copies |-> [tree |-> None, since |-> 0]]
    /\ origin = [c \in Copies |-> 0]
    /\ state = Idle /\ task = "idle" /\ removing = {} /\ up = TRUE /\ letGo = FALSE
    /\ day = 1 /\ restores = 0 /\ faults = 0

Step(from, to) == task = from /\ task' = to
Save(s)   == state' = s
Goes(s)   == Save([state EXCEPT !.state = s])
Fault     == faults < MaxFaults /\ faults' = faults + 1
Steady    == UNCHANGED <<removing, letGo, day, restores>>
NoFault   == UNCHANGED faults
Free(c)   == kept[c].tree = None /\ c \notin removing \cup {state.copy, state.previous}
Incoming  == IF state.copy = None THEN staging ELSE kept[state.copy].tree

(***************************************************************************)
(* Making the tree ready (handleInstanceRestore, runRestore).              *)
(***************************************************************************)

\* Asked for while none runs, for a snapshot of day d or for a kept tree.
Ask(c, d) ==
    /\ Step("idle", IF c = None THEN "extract" ELSE "lock")
    /\ state.state \notin Running /\ restores < MaxRestores /\ restores' = restores + 1
    /\ c # None => kept[c].tree # None
    /\ d \in 1 .. day
    /\ Save([Idle EXCEPT !.state = "preparing", !.copy = c, !.live = state.live,
                !.of = IF c = None THEN d ELSE IF origin[c] # 0 THEN origin[c] ELSE kept[c].since])
    /\ UNCHANGED <<trees, removing, up, letGo, day, faults>>

\* The way out before the swap: a staging tree goes, a kept copy does not,
\* and the instance is started again if it was stopped.
GiveUp ==
    /\ task' = "idle" /\ Goes("failed")
    /\ staging' = None /\ up' = TRUE
    /\ UNCHANGED <<data, kept, origin>> /\ Steady

StartExtracting ==
    /\ Step("extract", "extracting")
    /\ Save([state EXCEPT !.state = "extracting", !.incoming = "staging"])
    /\ staging' = Snap(state.of, FALSE)
    /\ UNCHANGED <<data, kept, origin, up>> /\ Steady /\ NoFault

Extracted ==
    /\ Step("extracting", "lock") /\ staging' = Snap(state.of, TRUE)
    /\ UNCHANGED <<data, kept, origin, state, up>> /\ Steady /\ NoFault

TakeLock ==
    /\ Step("lock", "stop") /\ Goes("stopping")
    /\ UNCHANGED <<trees, up>> /\ Steady /\ NoFault

StopInstance ==
    /\ Step("stop", "mark") /\ up' = FALSE
    /\ UNCHANGED <<trees, state>> /\ Steady /\ NoFault

\* The snapshot cannot be read, the lock is not had, or the instance or a
\* site's container cannot be stopped.
CannotPrepare == task \in {"extract", "extracting", "lock", "stop", "mark"} /\ Fault /\ GiveUp

(***************************************************************************)
(* The swap.                                                               *)
(***************************************************************************)

\* Both names are recorded before the first rename.
Mark(c) ==
    /\ Step("mark", "swap") /\ Free(c)
    /\ Save([state EXCEPT !.incoming = IF state.copy = None THEN "staging" ELSE state.copy, !.previous = c])
    /\ UNCHANGED <<trees, up>> /\ Steady /\ NoFault

Swap ==
    /\ Step("swap", "aside") /\ Goes("swapping")
    /\ UNCHANGED <<trees, up>> /\ Steady /\ NoFault

\* rename(data, previous); the name is free.
Aside(c) ==
    /\ Step("aside", "origin") /\ c = state.previous
    /\ kept' = [kept EXCEPT ![c] = [tree |-> data, since |-> day]] /\ data' = None
    /\ UNCHANGED <<staging, origin, state, up>> /\ Steady /\ NoFault

\* setOrigin(previous, liveOrigin).
SetOrigin ==
    /\ Step("origin", "place")
    /\ origin' = [origin EXCEPT ![state.previous] = IF state.live # 0 THEN state.live ELSE day]
    /\ UNCHANGED <<data, staging, kept, state, up>> /\ Steady /\ NoFault

\* rename(incoming, data); a copy removed meanwhile is not there to rename.
Place ==
    /\ Step("place", "forget") /\ Incoming # None
    /\ data' = Incoming
    /\ IF state.copy = None THEN staging' = None /\ UNCHANGED kept
       ELSE kept' = [kept EXCEPT ![state.copy].tree = None] /\ UNCHANGED staging
    /\ UNCHANGED <<origin, state, up>> /\ Steady /\ NoFault

\* Mutant: the failed second rename is reported, the first not taken back.
LeavesAside ==
    /\ task \in {"aside", "place"} /\ Fault /\ UNCHANGED <<data, kept, origin>>
    /\ task' = "idle" /\ staging' = None /\ up' = TRUE
    /\ Save([state EXCEPT !.state = "failed", !.previous = None])
    /\ Steady

\* Either rename fails: the data goes back where it was.
CannotSwap ==
    /\ \/ task = "aside" /\ Fault /\ UNCHANGED <<data, kept, origin>>
       \/ /\ task = "place" /\ (IF Incoming = None THEN NoFault ELSE Fault)
          /\ data' = kept[state.previous].tree
          /\ kept' = [kept EXCEPT ![state.previous].tree = None]
          /\ origin' = [origin EXCEPT ![state.previous] = 0]
    /\ task' = "idle" /\ staging' = None /\ up' = TRUE
    /\ Save([state EXCEPT !.state = "failed", !.previous = None])
    /\ Steady

\* A copy put in place is no copy any more.
ForgetOrigin ==
    /\ Step("forget", "starting")
    /\ origin' = IF state.copy = None THEN origin ELSE [origin EXCEPT ![state.copy] = 0]
    /\ UNCHANGED <<data, staging, kept, state, up>> /\ Steady /\ NoFault

Starting ==
    /\ Step("starting", "start") /\ Goes("starting")
    /\ UNCHANGED <<trees, up>> /\ Steady /\ NoFault

\* Healthy: the restored tree is what runs, as old as it is.
Healthy ==
    /\ Step("start", "done") /\ up' = TRUE /\ Save([state EXCEPT !.live = state.of])
    /\ UNCHANGED trees /\ Steady /\ NoFault

Finish ==
    /\ Step("done", "idle") /\ Goes("done")
    /\ UNCHANGED <<trees, up>> /\ Steady /\ NoFault

(***************************************************************************)
(* Switching back (rollBack).                                              *)
(***************************************************************************)

Unhealthy ==
    /\ Step("start", "rbaside") /\ Fault /\ up' = FALSE
    /\ UNCHANGED <<trees, state>> /\ Steady

\* rename(data, failed): the restored tree is kept too.
BackAside(c) ==
    /\ Step("rbaside", "rbback") /\ Free(c)
    /\ kept' = [kept EXCEPT ![c] = [tree |-> data, since |-> day]] /\ data' = None
    /\ origin' = [origin EXCEPT ![c] = state.of]
    /\ UNCHANGED <<staging, state, up>> /\ Steady /\ NoFault

BackInPlace ==
    /\ Step("rbback", "rbclear")
    /\ data' = kept[state.previous].tree /\ kept' = [kept EXCEPT ![state.previous].tree = None]
    /\ origin' = [origin EXCEPT ![state.previous] = 0]
    /\ UNCHANGED <<staging, state, up>> /\ Steady /\ NoFault

BackClear ==
    /\ Step("rbclear", "rbstart") /\ Save([state EXCEPT !.previous = None])
    /\ UNCHANGED <<trees, up>> /\ Steady /\ NoFault

BackStart ==
    /\ Step("rbstart", "idle") /\ up' = TRUE /\ Goes("rolled-back")
    /\ UNCHANGED trees /\ Steady /\ NoFault

(***************************************************************************)
(* A crash, and what the next start puts right (Recover).                  *)
(***************************************************************************)

\* A step of the agent's own or nothing; the instance is Docker's and stays
\* as it is.  A decided removal is in memory too.
Crash ==
    /\ task # "down" /\ Fault /\ task' = "down" /\ removing' = {}
    /\ UNCHANGED <<trees, state, up, letGo, day, restores>>

There(c) == c # None /\ kept[c].tree # None

\* The incoming tree is the agent's to remove only if it was extracted.
DropIncoming ==
    /\ staging' = IF state.incoming = "staging" THEN None ELSE staging
    /\ UNCHANGED kept

CutBetween == data = None /\ There(state.previous)

Recover ==
    /\ task = "down"
    /\ CASE state.state \notin Running ->
              task' = "idle" /\ UNCHANGED <<trees, state, up>>
         [] state.state \in Running /\ CutBetween ->
              \* between the two renames
              /\ task' = "recstart"
              /\ data' = kept[state.previous].tree /\ kept' = [kept EXCEPT ![state.previous].tree = None]
              /\ origin' = [origin EXCEPT ![state.previous] = 0]
              /\ UNCHANGED <<staging, state, up>>
         [] state.state = "swapping" /\ data # None /\ There(state.previous) ->
              \* both renames done, never started
              task' = "recaside" /\ up' = FALSE /\ UNCHANGED <<trees, state>>
         [] state.state = "starting" /\ ~CutBetween ->
              \* in place and being started: it stays
              task' = "recstart" /\ Save([state EXCEPT !.live = state.of]) /\ UNCHANGED <<trees, up>>
         [] OTHER ->
              \* before any swap
              task' = "recstart" /\ DropIncoming /\ UNCHANGED <<data, origin, state, up>>
    /\ Steady /\ NoFault

RecoverAside(c) ==
    /\ Step("recaside", "recback") /\ Free(c)
    /\ kept' = [kept EXCEPT ![c] = [tree |-> data, since |-> day]] /\ data' = None
    /\ origin' = [origin EXCEPT ![c] = state.of]
    /\ UNCHANGED <<staging, state, up>> /\ Steady /\ NoFault

RecoverBack ==
    /\ Step("recback", "recstart")
    /\ data' = kept[state.previous].tree /\ kept' = [kept EXCEPT ![state.previous].tree = None]
    /\ origin' = [origin EXCEPT ![state.previous] = 0]
    /\ UNCHANGED <<staging, state, up>> /\ Steady /\ NoFault

\* The instance is started whatever the state.
RecoverStart ==
    /\ Step("recstart", "idle") /\ up' = TRUE /\ Goes("failed")
    /\ UNCHANGED trees /\ Steady /\ NoFault

(***************************************************************************)
(* Removing kept trees (pruneCopies, handleDeleteCopy).                    *)
(***************************************************************************)

Age(c) == IF origin[c] # 0 /\ origin[c] < kept[c].since THEN origin[c] ELSE kept[c].since

\* A prune or the operator's delete finds that no restore runs, and what it
\* is to remove; it removes after that.
LookToPrune ==
    /\ task # "down" /\ removing = {} /\ state.state \notin Running
    /\ removing' = {c \in Copies : kept[c].tree # None /\ day > Age(c) + Keep}
    /\ removing' # {}
    /\ UNCHANGED <<trees, state, task, up, letGo, day, restores, faults>>

LookToDelete(c) ==
    /\ task # "down" /\ removing = {} /\ state.state \notin Running
    /\ kept[c].tree # None /\ removing' = {c}
    /\ UNCHANGED <<trees, state, task, up, letGo, day, restores, faults>>

Remove(c) ==
    /\ c \in removing /\ removing' = removing \ {c}
    /\ kept' = [kept EXCEPT ![c].tree = None]
    /\ origin' = [origin EXCEPT ![c] = 0]
    /\ letGo' = (letGo \/ kept[c].tree = Own)
    /\ UNCHANGED <<data, staging, state, task, up, day, restores, faults>>

\* A restore ends on the day it began.
NewDay ==
    /\ task \in {"idle", "down"} /\ day < LastDay /\ day' = day + 1
    /\ UNCHANGED <<trees, state, task, removing, up, letGo, restores, faults>>

InstanceNext ==
    \/ \E c \in Copies \cup {None}, d \in Days : Ask(c, d)
    \/ StartExtracting \/ Extracted \/ TakeLock \/ StopInstance \/ CannotPrepare
    \/ \E c \in Copies : Mark(c) \/ Aside(c) \/ BackAside(c) \/ RecoverAside(c)
    \/ Swap \/ SetOrigin \/ Place \/ CannotSwap \/ ForgetOrigin \/ Starting \/ Healthy \/ Finish
    \/ Unhealthy \/ BackInPlace \/ BackClear \/ BackStart
    \/ Crash \/ Recover \/ RecoverBack \/ RecoverStart
    \/ LookToPrune \/ NewDay
    \/ \E c \in Copies : LookToDelete(c) \/ Remove(c)

InstanceSpec == InstanceInit /\ [][InstanceNext]_ivars

(***************************************************************************)
(* Properties.                                                             *)
(***************************************************************************)

\* Whatever fails and wherever the agent stops, the instance is never
\* started without its data directory, nor on a tree half extracted.
StartsWhole == up' /\ ~up => data' # None /\ data'.whole

\* The data the instance ran on before the first restore stays whole, in
\* place or as a kept tree, until its age or the operator has it removed.
OwnDataIsKept == letGo \/ data = Own \/ \E c \in Copies : kept[c].tree = Own

\* What instance.go:38 says of LiveOrigin: how old the running data's
\* contents are when a restore put them there.  The code breaks it: a crash in a
\* rollback, after the trees changed places, has the failed start count as done.
LiveOriginIsOfTheData ==
    (up /\ task = "idle" /\ data \in Trees \ {None, Own}) => state.live = data.of

(***************************************************************************)
(* Why it holds.                                                           *)
(***************************************************************************)

\* What restore.json says while the agent is at a step.
Saved ==
    \/ task = "idle" /\ state.state \notin Running
    \/ task = "extract" /\ state.state = "preparing"
    \/ task = "extracting" /\ state.state = "extracting"
    \/ task = "lock" /\ state.state \in {"preparing", "extracting"}
    \/ task \in {"stop", "mark", "swap"} /\ state.state = "stopping"
    \/ task \in {"aside", "origin", "place", "forget", "starting", "recaside", "recback"} /\ state.state = "swapping"
    \/ task \in {"start", "done", "rbaside", "rbback", "rbclear", "rbstart"} /\ state.state = "starting"
    \/ task = "recstart" /\ state.state \in Running
    \/ task = "down"

StateInv ==
    /\ Saved
    \* The name for the data was chosen, is no copy being restored, and nobody removes it.
    /\ task \in {"swap", "aside", "origin", "place", "forget", "starting", "start", "done",
                 "rbaside", "rbback", "rbclear", "recaside", "recback"} => state.previous # None
    /\ state.previous # None => state.previous # state.copy
    /\ state.state \in Running => state.previous \notin removing

TreesInv ==
    \* The data is out of its place between two renames only, and then kept.
    /\ task \in {"origin", "place", "rbback", "recback"} => data = None
    /\ data = None => task \in {"origin", "place", "rbback", "recback", "down"} /\ state.state \in Running
    /\ data = None \/ task \in {"forget", "starting", "start", "rbaside", "recaside"} => There(state.previous)
    /\ task \in {"swap", "aside"} => ~There(state.previous)
    \* Only what is being extracted is half a tree.
    /\ data # None => data.whole
    /\ \A c \in Copies : kept[c].tree # None => kept[c].tree.whole
    /\ task \in {"lock", "stop", "mark", "swap", "aside", "origin", "place"} /\ state.copy = None =>
          staging # None /\ staging.whole

InstanceInv == StateInv /\ TreesInv /\ OwnDataIsKept
=============================================================================
