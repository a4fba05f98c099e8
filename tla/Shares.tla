-------------------------------- MODULE Shares --------------------------------
(***************************************************************************)
(* Sharing a site (ee/share.go, ee/ownership/store.go, the share half of   *)
(* ee/ownership_loop.go and ee/ownership_delete.go): an owner invites an   *)
(* account, which accepts and is an admin until it leaves, is ended, its   *)
(* date passes, or the site changes hands.                                 *)
(*                                                                         *)
(* Four stores with no transaction over them: meta.json says who owns the  *)
(* site and who its admins are, the invitation has a state, the share      *)
(* marker puts the site on the admin's dashboard, and the admin's own tags *)
(* are in its account's registry.  meta.json is the truth; each write to   *)
(* one of the four is a step, and the others may have moved meanwhile.     *)
(*                                                                         *)
(* One site.  Plans are asked at the accept, which may go either way.      *)
(* Mails and logs are left out.  MaxCalls bounds what owners, admins and   *)
(* the operator ask for, MaxFaults failing writes and restarts.            *)
(***************************************************************************)
EXTENDS Naturals, FiniteSets

CONSTANTS
    Accounts,
    Invites,
    Requests,
    Loop,         \* the background loop
    Nobody,
    MaxAdmins,
    MaxCalls,
    MaxFaults

SharesAssumption ==
    /\ Nobody \notin Accounts /\ Loop \notin Requests
    /\ MaxAdmins \in Nat /\ MaxCalls \in Nat /\ MaxFaults \in Nat

VARIABLES
    owner,     \* meta.json: the owner, Nobody once the site is deleted
    locked,    \* meta.json: the operator's lock
    admins,    \* meta.json: each account's entry, by its end date
    invite,    \* the invitations
    marker,    \* share markers, by their age
    tags,      \* the accounts with tags of their own on the site
    erased,    \* deleted accounts
    task,      \* what each request and the loop is doing
    granted,   \* by whose invitation each admin is one
    used,      \* the invitations that made somebody an admin
    calls, faults

svars == <<owner, locked, admins, invite, marker, tags, erased, task,
           granted, used, calls, faults>>
metaVars == <<owner, locked, admins, granted, used>>

Actors  == Requests \cup {Loop}
Entries == {"none", "open", "dated", "past"}
States  == {"unused", "open", "accepted", "declined", "expired", "cancelled"}
Unused  == [state |-> "unused", from |-> Nobody, to |-> Nobody, dated |-> FALSE, old |-> FALSE]
Free    == [step |-> "idle"]
AcceptSteps == {"claim", "link", "set", "undo", "unmark", "reopen", "cancel"}
OtherSteps  == {"end", "tag", "clean", "untag", "expire", "renewed", "ask", "drop", "asktags",
                "miss", "relink", "prune", "leave", "records", "markers", "erase"}

Listed == {a \in Accounts : admins[a] # "none"}

SharesTypeOK ==
    /\ owner \in Accounts \cup {Nobody} /\ locked \in BOOLEAN
    /\ admins \in [Accounts -> Entries] /\ Cardinality(Listed) <= MaxAdmins
    /\ invite \in [Invites -> [state : States, from : Accounts \cup {Nobody}, to : Accounts \cup {Nobody},
                               dated : BOOLEAN, old : BOOLEAN]]
    /\ marker \in [Accounts -> {"none", "young", "old"}]
    /\ tags \subseteq Accounts /\ erased \subseteq Accounts
    /\ \A r \in Actors : task[r].step \in {"idle"} \cup AcceptSteps \cup OtherSteps
    /\ granted \in [Accounts -> Accounts \cup {Nobody}] /\ used \subseteq Invites
    /\ calls \in 0 .. MaxCalls /\ faults \in 0 .. MaxFaults

SharesInit ==
    /\ owner \in Accounts /\ locked = FALSE
    /\ admins = [a \in Accounts |-> "none"]
    /\ invite = [i \in Invites |-> Unused]
    /\ marker = [a \in Accounts |-> "none"]
    /\ tags = {} /\ erased = {}
    /\ task = [r \in Actors |-> Free]
    /\ granted = [a \in Accounts |-> Nobody] /\ used = {}
    /\ calls = 0 /\ faults = 0

Call     == calls < MaxCalls /\ calls' = calls + 1
Fault    == faults < MaxFaults /\ faults' = faults + 1
Does(r, step) == task[r].step = step
Goto(r, step) == task' = [task EXCEPT ![r].step = step]
Done(r)       == task' = [task EXCEPT ![r] = Free]
Begin(r, t)   == task[r] = Free /\ task' = [task EXCEPT ![r] = t]
Clean(r, accs) ==
    task' = [task EXCEPT ![r] = IF accs = {} THEN Free ELSE [step |-> "clean", accs |-> accs]]

\* UpdateInvite: one read, decision and write under the store's mutex.
SetState(i, s) == invite' = [invite EXCEPT ![i].state = s]

(***************************************************************************)
(* UpdateAdmins, under the site lock.                                      *)
(***************************************************************************)

\* Whether it goes through: the site is there, still belongs to whom the
\* caller saw, and is not locked.
MayEdit(who) == owner = who /\ who # Nobody /\ ~locked

RemoveAdmins(accs) ==
    /\ admins' = [a \in Accounts |-> IF a \in accs THEN "none" ELSE admins[a]]
    /\ granted' = [a \in Accounts |-> IF a \in accs THEN Nobody ELSE granted[a]]
    /\ UNCHANGED <<owner, locked, used>>

(***************************************************************************)
(* Inviting.                                                               *)
(***************************************************************************)

\* handleShareInvite.  One open invitation per address is asked for before
\* the record is made, so two may be made at once; the same of the room left.
Invite(i, a, d) ==
    /\ Call /\ owner \notin {a, Nobody} \cup erased /\ ~locked
    /\ invite[i].state = "unused" /\ a \notin Listed
    /\ invite' = [invite EXCEPT ![i] =
                    [state |-> "open", from |-> owner, to |-> a, dated |-> d, old |-> FALSE]]
    /\ UNCHANGED <<metaVars, marker, tags, erased, task, faults>>

\* Decline, withdrawal by the inviter, and lapse by whoever meets it first.
CloseInvite(i) ==
    /\ invite[i].state = "open"
    /\ \/ Call /\ invite[i].to \notin erased /\ SetState(i, "declined")
       \/ Call /\ invite[i].from \notin erased /\ SetState(i, "cancelled")
       \/ invite[i].old /\ SetState(i, "expired") /\ UNCHANGED calls
    /\ UNCHANGED <<metaVars, marker, tags, erased, task, faults>>

(***************************************************************************)
(* Accepting.                                                              *)
(***************************************************************************)

\* The checks of handleInviteAccept.  What they look at may change before
\* the state does; the owner and the lock are asked again by UpdateAdmins.
CheckAccept(r, i) ==
    LET a == invite[i].to
    IN  /\ Call /\ invite[i].state = "open" /\ ~invite[i].old /\ a \notin erased
        /\ IF owner = invite[i].from
           THEN ~locked /\ Begin(r, [step |-> "claim", inv |-> i, acc |-> a]) /\ UNCHANGED invite
           ELSE task[r] = Free /\ SetState(i, "cancelled") /\ UNCHANGED task
        /\ UNCHANGED <<metaVars, marker, tags, erased, faults>>

\* Mutant: the state is written whatever it is by now.
ClaimAny(r) ==
    /\ Does(r, "claim")
    /\ SetState(task[r].inv, "accepted") /\ Goto(r, "link")
    /\ UNCHANGED <<metaVars, marker, tags, erased, calls, faults>>

\* The one state change that decides a race with a cancel or another accept.
ClaimInvite(r) ==
    /\ Does(r, "claim")
    /\ IF invite[task[r].inv].state = "open"
       THEN SetState(task[r].inv, "accepted") /\ Goto(r, "link")
       ELSE Done(r) /\ UNCHANGED invite
    /\ UNCHANGED <<metaVars, marker, tags, erased, calls, faults>>

\* The marker first: without an admin it grants nothing.
LinkShare(r) ==
    /\ Does(r, "link")
    /\ \/ /\ marker' = [marker EXCEPT ![task[r].acc] = "young"] /\ Goto(r, "set")
          /\ UNCHANGED faults
       \/ Fault /\ Goto(r, "undo") /\ UNCHANGED marker
    /\ UNCHANGED <<metaVars, invite, tags, erased, calls>>

Becomes(r) ==
    LET i == task[r].inv  a == task[r].acc
    IN  /\ admins' = [admins EXCEPT ![a] = IF invite[i].dated THEN "dated" ELSE "open"]
        /\ granted' = [granted EXCEPT ![a] = invite[i].from]
        /\ used' = used \cup {i}
        /\ Done(r)
        /\ UNCHANGED <<owner, locked, invite, faults>>

Room(a) == Cardinality(Listed \cup {a}) <= MaxAdmins

\* Mutant: the admins are written whoever owns the site by now.
BecomeAdminAnyway(r) ==
    /\ Does(r, "set")
    /\ IF owner # Nobody /\ ~locked /\ Room(task[r].acc) THEN Becomes(r)
       ELSE Goto(r, "undo") /\ UNCHANGED <<metaVars, invite, faults>>
    /\ UNCHANGED <<marker, tags, erased, calls>>

\* SetAdmins, on behalf of the inviter, an entry there is replaced; refused,
\* everything is undone, and an invitation that can never hold is cancelled.
BecomeAdmin(r) ==
    LET may == MayEdit(invite[task[r].inv].from) /\ Room(task[r].acc)
    IN  /\ Does(r, "set")
        /\ \/ may /\ Becomes(r)
           \/ ~may /\ Goto(r, "undo") /\ UNCHANGED <<metaVars, invite, faults>>
           \/ Fault /\ Goto(r, "undo") /\ UNCHANGED <<metaVars, invite>>
        /\ UNCHANGED <<marker, tags, erased, calls>>

\* undo: the marker goes unless the site lists the account, then the
\* invitation is open again, then it is cancelled where the owner is another.
Undo(r) ==
    /\ Does(r, "undo")
    /\ Goto(r, IF task[r].acc \in Listed THEN "reopen" ELSE "unmark")
    /\ UNCHANGED <<metaVars, invite, marker, tags, erased, calls, faults>>

UndoMarker(r) ==
    /\ Does(r, "unmark")
    /\ marker' = [marker EXCEPT ![task[r].acc] = "none"]
    /\ Goto(r, "reopen")
    /\ UNCHANGED <<metaVars, invite, tags, erased, calls, faults>>

Reopen(r) ==
    /\ Does(r, "reopen")
    /\ invite' = [invite EXCEPT ![task[r].inv].state = IF @ = "accepted" THEN "open" ELSE @]
    /\ IF owner = invite[task[r].inv].from THEN Done(r) ELSE Goto(r, "cancel")
    /\ UNCHANGED <<metaVars, marker, tags, erased, calls, faults>>

CancelGone(r) ==
    /\ Does(r, "cancel")
    /\ invite' = [invite EXCEPT ![task[r].inv].state = IF @ = "open" THEN "cancelled" ELSE @]
    /\ Done(r)
    /\ UNCHANGED <<metaVars, marker, tags, erased, calls, faults>>

Accept(r) ==
    \/ ClaimInvite(r) \/ LinkShare(r) \/ BecomeAdmin(r)
    \/ Undo(r) \/ UndoMarker(r) \/ Reopen(r) \/ CancelGone(r)

(***************************************************************************)
(* Ending, leaving, the site changing hands.                               *)
(***************************************************************************)

\* endShare, by the owner or the admin: on behalf of the owner read before.
AskEnd(r, a) ==
    /\ Call /\ a \in Listed /\ owner # Nobody
    /\ Begin(r, [step |-> "end", acc |-> a, seen |-> owner])
    /\ UNCHANGED <<metaVars, invite, marker, tags, erased, faults>>

EndShare(r) ==
    /\ Does(r, "end")
    /\ IF MayEdit(task[r].seen)
       THEN RemoveAdmins({task[r].acc}) /\ Clean(r, {task[r].acc})
       ELSE Done(r) /\ UNCHANGED metaVars
    /\ UNCHANGED <<invite, marker, tags, erased, calls, faults>>

\* The marker of an account that is no admin any more, then its own tags.
\* Nobody looks whether it is one again; each failure is only logged.
DropMarker(r) ==
    /\ Does(r, "clean")
    /\ \E a \in task[r].accs :
          /\ \/ marker' = [marker EXCEPT ![a] = "none"] /\ UNCHANGED faults
             \/ Fault /\ UNCHANGED marker
          /\ task' = [task EXCEPT ![r] = [step |-> "untag", acc |-> a, accs |-> @.accs \ {a}]]
    /\ UNCHANGED <<metaVars, invite, tags, erased, calls>>

DropTags(r) ==
    /\ Does(r, "untag")
    /\ \/ tags' = tags \ {task[r].acc} /\ UNCHANGED faults
       \/ Fault /\ UNCHANGED tags
    /\ Clean(r, task[r].accs)
    /\ UNCHANGED <<metaVars, invite, marker, erased, calls>>

\* SetAdminTags: asked of meta.json first, written after.
AskTags(r, a) ==
    /\ Call /\ a \in Listed \ (tags \cup erased)
    /\ Begin(r, [step |-> "tag", acc |-> a])
    /\ UNCHANGED <<metaVars, invite, marker, tags, erased, faults>>

SetTags(r) ==
    /\ Does(r, "tag")
    /\ tags' = IF task[r].acc \in erased THEN tags ELSE tags \cup {task[r].acc}
    /\ Done(r)
    /\ UNCHANGED <<metaVars, invite, marker, erased, calls, faults>>

\* TransferOwner clears the admins; afterMove cleans up after them.
Transfer(r, to) ==
    /\ Call /\ owner \notin {to, Nobody} /\ ~locked /\ to \notin erased
    /\ task[r] = Free /\ Clean(r, Listed)
    /\ owner' = to
    /\ admins' = [a \in Accounts |-> "none"] /\ granted' = [a \in Accounts |-> Nobody]
    /\ UNCHANGED <<locked, used, invite, marker, tags, erased, faults>>

\* The owner's delete: what the admins have of it is left to the loop.
DeleteSite ==
    /\ Call /\ owner # Nobody /\ ~locked
    /\ owner' = Nobody
    /\ admins' = [a \in Accounts |-> "none"] /\ granted' = [a \in Accounts |-> Nobody]
    /\ UNCHANGED <<locked, used, invite, marker, tags, erased, task, faults>>

(***************************************************************************)
(* The end of an account: beforeAccountDelete, then the deletion.          *)
(***************************************************************************)

\* Its shares are found by the markers.
AskDelete(r, a) ==
    /\ Call /\ a \notin erased
    /\ Begin(r, IF marker[a] # "none" /\ a \in Listed /\ owner # a
                THEN [step |-> "leave", acc |-> a, seen |-> owner]
                ELSE [step |-> "records", acc |-> a])
    /\ UNCHANGED <<metaVars, invite, marker, tags, erased, faults>>

\* A locked site keeps the entry, as evidence; another failure ends it all.
LeaveSite(r) ==
    /\ Does(r, "leave")
    /\ \/ /\ IF MayEdit(task[r].seen) THEN RemoveAdmins({task[r].acc}) ELSE UNCHANGED metaVars
          /\ Goto(r, "records") /\ UNCHANGED faults
       \/ Fault /\ Done(r) /\ UNCHANGED metaVars
    /\ UNCHANGED <<invite, marker, tags, erased, calls>>

\* cancelAccountRecords: the open ones it made and those made to it.
CancelRecords(r) ==
    LET a == task[r].acc
    IN  /\ Does(r, "records")
        /\ invite' = [i \in Invites |->
              IF invite[i].state = "open" /\ a \in {invite[i].from, invite[i].to}
              THEN [invite[i] EXCEPT !.state = IF invite[i].from = a THEN "cancelled" ELSE "expired"]
              ELSE invite[i]]
        /\ Goto(r, "markers")
        /\ UNCHANGED <<metaVars, marker, tags, erased, calls, faults>>

RemoveShares(r) ==
    /\ Does(r, "markers")
    /\ marker' = [marker EXCEPT ![task[r].acc] = "none"]
    /\ Goto(r, "erase")
    /\ UNCHANGED <<metaVars, invite, tags, erased, calls, faults>>

\* accounts.Delete with its sites; a locked one stops it.
Erase(r) ==
    LET a == task[r].acc
    IN  /\ Does(r, "erase")
        /\ IF owner = a /\ locked THEN Done(r) /\ UNCHANGED <<metaVars, tags, erased>>
           ELSE /\ erased' = erased \cup {a} /\ tags' = tags \ {a}
                /\ IF owner = a
                   THEN /\ owner' = Nobody
                        /\ admins' = [b \in Accounts |-> "none"]
                        /\ granted' = [b \in Accounts |-> Nobody]
                        /\ Clean(r, Listed)
                        /\ UNCHANGED <<locked, used>>
                   ELSE Done(r) /\ UNCHANGED metaVars
        /\ UNCHANGED <<invite, marker, calls, faults>>

DeleteAccount(r) == LeaveSite(r) \/ CancelRecords(r) \/ RemoveShares(r) \/ Erase(r)

(***************************************************************************)
(* The loop.                                                               *)
(***************************************************************************)

\* expireAdmin: found by the marker, with the owner read just now.
FindExpired(a) ==
    /\ marker[a] # "none" /\ admins[a] = "past" /\ owner # Nobody /\ ~locked
    /\ Begin(Loop, [step |-> "expire", acc |-> a, seen |-> owner])
    /\ UNCHANGED <<metaVars, invite, marker, tags, erased, calls, faults>>

ExpireAdmin ==
    LET a == task[Loop].acc
    IN  /\ Does(Loop, "expire")
        /\ IF MayEdit(task[Loop].seen) /\ admins[a] = "past"
           THEN RemoveAdmins({a}) /\ Goto(Loop, "renewed")
           ELSE Done(Loop) /\ UNCHANGED metaVars
        /\ UNCHANGED <<invite, marker, tags, erased, calls, faults>>

\* Marker and tags go only where a fresh read does not list the account.
LookRenewed ==
    /\ Does(Loop, "renewed")
    /\ IF task[Loop].acc \in Listed THEN Done(Loop) ELSE Clean(Loop, {task[Loop].acc})
    /\ UNCHANGED <<metaVars, invite, marker, tags, erased, calls, faults>>

\* Mutant: only what is too much is looked for, not the marker that is missing.
NominateLeftovers(a) ==
    /\ \/ marker[a] = "old" /\ a \notin Listed /\ Begin(Loop, [step |-> "ask", acc |-> a])
       \/ a \in tags \ Listed /\ Begin(Loop, [step |-> "asktags", acc |-> a])
    /\ UNCHANGED <<metaVars, invite, marker, tags, erased, calls, faults>>

\* reconcileShares, its three walks: a marker older than the grace as it was
\* listed, a listed admin without one, tags of one who may be no admin.
Nominate(a) ==
    /\ \/ marker[a] = "old" /\ a \notin Listed /\ Begin(Loop, [step |-> "ask", acc |-> a])
       \/ marker[a] = "none" /\ a \in Listed \ erased /\ Begin(Loop, [step |-> "miss", acc |-> a])
       \/ a \in tags \ Listed /\ Begin(Loop, [step |-> "asktags", acc |-> a])
    /\ UNCHANGED <<metaVars, invite, marker, tags, erased, calls, faults>>

\* Each is asked of meta.json again.
AskAgain ==
    LET a == task[Loop].acc
    IN  /\ \/ Does(Loop, "ask") /\ IF a \in Listed THEN Done(Loop) ELSE Goto(Loop, "drop")
           \/ Does(Loop, "miss") /\ IF a \in Listed THEN Goto(Loop, "relink") ELSE Done(Loop)
           \/ Does(Loop, "asktags") /\ IF a \in Listed THEN Done(Loop) ELSE Goto(Loop, "prune")
        /\ UNCHANGED <<metaVars, invite, marker, tags, erased, calls, faults>>

Repair ==
    LET a == task[Loop].acc
    IN  /\ \/ Does(Loop, "drop") /\ marker' = [marker EXCEPT ![a] = "none"] /\ UNCHANGED tags
           \/ Does(Loop, "relink") /\ marker' = [marker EXCEPT ![a] = "young"] /\ UNCHANGED tags
           \/ Does(Loop, "prune") /\ tags' = tags \ {a} /\ UNCHANGED marker
        /\ Done(Loop)
        /\ UNCHANGED <<metaVars, invite, erased, calls, faults>>

LoopWorks == ExpireAdmin \/ LookRenewed \/ AskAgain \/ Repair

(***************************************************************************)
(* The operator, time, and restarts.                                       *)
(***************************************************************************)

SetLock ==
    /\ Call /\ owner # Nobody
    /\ locked' = ~locked
    /\ UNCHANGED <<owner, admins, granted, used, invite, marker, tags, erased, task, faults>>

EndDate(a) ==
    /\ admins[a] = "dated"
    /\ admins' = [admins EXCEPT ![a] = "past"]
    /\ UNCHANGED <<owner, locked, granted, used, invite, marker, tags, erased, task, calls, faults>>

Lapse(i) ==
    /\ invite[i].state = "open" /\ ~invite[i].old
    /\ invite' = [invite EXCEPT ![i].old = TRUE]
    /\ UNCHANGED <<metaVars, marker, tags, erased, task, calls, faults>>

Age(a) ==
    /\ marker[a] = "young"
    /\ marker' = [marker EXCEPT ![a] = "old"]
    /\ UNCHANGED <<metaVars, invite, tags, erased, task, calls, faults>>

Restart ==
    /\ Fault
    /\ task' = [r \in Actors |-> Free]
    /\ UNCHANGED <<metaVars, invite, marker, tags, erased, calls>>

Works(r) == Accept(r) \/ EndShare(r) \/ DropMarker(r) \/ DropTags(r) \/ SetTags(r) \/ DeleteAccount(r)

SharesNext ==
    \/ \E i \in Invites, a \in Accounts, d \in BOOLEAN : Invite(i, a, d)
    \/ \E i \in Invites : CloseInvite(i) \/ Lapse(i)
    \/ \E r \in Requests : \/ Works(r)
                           \/ \E i \in Invites : CheckAccept(r, i)
                           \/ \E a \in Accounts : \/ AskEnd(r, a) \/ AskTags(r, a)
                                                  \/ Transfer(r, a) \/ AskDelete(r, a)
    \/ \E a \in Accounts : FindExpired(a) \/ Nominate(a) \/ EndDate(a) \/ Age(a)
    \/ LoopWorks \/ DropMarker(Loop) \/ DropTags(Loop)
    \/ DeleteSite \/ SetLock \/ Restart

\* Requests and the loop's steps end, the loop comes to every account again,
\* and markers age.
SharesFairness ==
    /\ \A r \in Requests : WF_svars(Works(r))
    /\ WF_svars(LoopWorks \/ DropMarker(Loop) \/ DropTags(Loop))
    /\ \A a \in Accounts : SF_svars(FindExpired(a)) /\ SF_svars(Nominate(a)) /\ WF_svars(Age(a))

SharesSpec == SharesInit /\ [][SharesNext]_svars /\ SharesFairness

(***************************************************************************)
(* What sharing promises.                                                  *)
(***************************************************************************)

\* Every admin of the site was invited by the account that owns it now.  A
\* transfer may land between an invitation, its acceptance and the write of
\* the entry, and another account's invitation may be accepted beside it.
AdminsOfThisOwner == \A a \in Listed : granted[a] = owner

\* An invitation makes an admin once: when it has, it is never open again,
\* however many requests accept it at once and whatever is undone.  A share
\* the owner ended cannot be taken up again.
InvitationIsSpent == \A i \in used : invite[i].state = "accepted"

\* Who may administer the site was let in by who owns it, and no oftener than
\* it was invited.
SharesStand == AdminsOfThisOwner /\ InvitationIsSpent

\* When nobody asks for anything any more, the four stores agree: an admin
\* sees the site on its dashboard, nobody else does or keeps tags for it, and
\* a share past its date has ended, unless the site is locked.
SharesSettle ==
    <>[](/\ \A a \in Accounts \ erased : marker[a] # "none" <=> a \in Listed
         /\ \A a \in erased : marker[a] # "none" => a \in Listed
         /\ tags \subseteq Listed
         /\ \A a \in Accounts \ erased : admins[a] = "past" => locked)

=============================================================================
