---------------------------- MODULE Shares_proofs ----------------------------
(***************************************************************************)
(* Proofs about Shares, for any accounts, invitations and requests: who    *)
(* administers a site was let in by who owns it, and no invitation lets    *)
(* anybody in twice, whatever is accepted at once, undone or restarted.    *)
(***************************************************************************)
EXTENDS Shares, FiniteSetTheorems, TLAPS

(***************************************************************************)
(* Type correctness, with the fields of what each actor is doing.          *)
(***************************************************************************)

AcceptTasks == [step : AcceptSteps, inv : Invites, acc : Accounts]
SeenTasks   == [step : {"end", "expire", "renewed", "leave", "records", "markers", "erase"},
                acc : Accounts, seen : Accounts \cup {Nobody}]
AccTasks    == [step : {"tag", "records", "markers", "erase", "ask", "drop", "miss", "relink", "asktags", "prune"},
                acc : Accounts]
CleanTasks  == [step : {"clean"}, accs : SUBSET Accounts]
UntagTasks  == [step : {"untag"}, acc : Accounts, accs : SUBSET Accounts]
Tasks == {Free} \cup AcceptTasks \cup SeenTasks \cup AccTasks \cup CleanTasks \cup UntagTasks

\* An invitation that was made is made out to an account.
MadeOut == \A i \in Invites : invite[i].state # "unused" => invite[i].to \in Accounts

SharesTyped == SharesTypeOK /\ task \in [Actors -> Tasks] /\ IsFiniteSet(Listed) /\ MadeOut

\* Which fields a step has.
LEMMA TaskFields ==
    ASSUME NEW t \in Tasks
    PROVE  /\ t.step \in {"idle"} \cup AcceptSteps \cup OtherSteps
           /\ t.step \in AcceptSteps => t \in AcceptTasks
           /\ t.step \in {"end", "expire", "renewed", "leave"} => t \in SeenTasks
           /\ t.step \in {"records", "markers", "erase"} => t \in SeenTasks \cup AccTasks
           /\ t.step \in {"tag", "ask", "drop", "miss", "relink", "asktags", "prune"} => t \in AccTasks
           /\ t.step = "clean" => t \in CleanTasks
           /\ t.step = "untag" => t \in UntagTasks
           /\ t.step \notin {"idle", "clean"} => t.acc \in Accounts
  <1>1. CASE t = Free
    BY <1>1 DEF Free, AcceptSteps, OtherSteps
  <1>2. CASE t \in AcceptTasks
    BY <1>2 DEF AcceptTasks, AcceptSteps, OtherSteps
  <1>3. CASE t \in SeenTasks
    BY <1>3 DEF SeenTasks, AcceptSteps, OtherSteps
  <1>4. CASE t \in AccTasks
    BY <1>4 DEF AccTasks, AcceptSteps, OtherSteps
  <1>5. CASE t \in CleanTasks
    BY <1>5 DEF CleanTasks, AcceptSteps, OtherSteps
  <1>6. CASE t \in UntagTasks
    BY <1>6 DEF UntagTasks, AcceptSteps, OtherSteps
  <1> QED
    BY <1>1, <1>2, <1>3, <1>4, <1>5, <1>6 DEF Tasks

LEMMA SetTask ==
    ASSUME task \in [Actors -> Tasks], NEW r \in Actors, NEW t \in Tasks, task' = [task EXCEPT ![r] = t]
    PROVE  task' \in [Actors -> Tasks]
  OBVIOUS

LEMMA DoneTask ==
    ASSUME task \in [Actors -> Tasks], NEW r \in Actors, Done(r)
    PROVE  task' \in [Actors -> Tasks]
  BY DEF Done, Tasks

LEMMA CleanTask ==
    ASSUME task \in [Actors -> Tasks], NEW r \in Actors, NEW accs \in SUBSET Accounts, Clean(r, accs)
    PROVE  task' \in [Actors -> Tasks]
  BY DEF Clean, Tasks, CleanTasks

LEMMA GotoTask ==
    ASSUME task \in [Actors -> Tasks], NEW r \in Actors, NEW s, Goto(r, s),
           \/ task[r].step \in AcceptSteps /\ s \in AcceptSteps
           \/ task[r].step \in {"end", "expire", "leave"} /\ s \in {"renewed", "records"}
           \/ task[r].step \in {"records", "markers"} /\ s \in {"markers", "erase"}
           \/ task[r].step \in {"ask", "miss", "asktags"} /\ s \in {"drop", "relink", "prune"}
    PROVE  task' \in [Actors -> Tasks]
  <1> DEFINE t == [task[r] EXCEPT !.step = s]
  <1>1. task' = [task EXCEPT ![r] = t]
    BY DEF Goto
  <1>2. CASE task[r].step \in AcceptSteps /\ s \in AcceptSteps
    <2>1. task[r] \in AcceptTasks
      BY <1>2, TaskFields
    <2> QED
      BY <1>1, <1>2, <2>1 DEF Tasks, AcceptTasks
  <1>3. CASE task[r].step \in {"end", "expire", "leave"} /\ s \in {"renewed", "records"}
    <2>1. task[r] \in SeenTasks
      BY <1>3, TaskFields
    <2> QED
      BY <1>1, <1>3, <2>1 DEF Tasks, SeenTasks
  <1>4. CASE task[r].step \in {"records", "markers"} /\ s \in {"markers", "erase"}
    <2>1. task[r] \in SeenTasks \cup AccTasks
      BY <1>4, TaskFields
    <2> QED
      BY <1>1, <1>4, <2>1 DEF Tasks, SeenTasks, AccTasks
  <1>5. CASE task[r].step \in {"ask", "miss", "asktags"} /\ s \in {"drop", "relink", "prune"}
    <2>1. task[r] \in AccTasks
      BY <1>5, TaskFields
    <2> QED
      BY <1>1, <1>5, <2>1 DEF Tasks, AccTasks
  <1> QED
    BY <1>2, <1>3, <1>4, <1>5

(***************************************************************************)
(* What an action leaves alone, and the type of what it changes.           *)
(***************************************************************************)

MetaTyped ==
    /\ owner \in Accounts \cup {Nobody} /\ locked \in BOOLEAN
    /\ admins \in [Accounts -> Entries]
    /\ IsFiniteSet(Listed) /\ Cardinality(Listed) <= MaxAdmins
    /\ granted \in [Accounts -> Accounts \cup {Nobody}] /\ used \subseteq Invites

RestTyped ==
    /\ invite \in [Invites -> [state : States, from : Accounts \cup {Nobody}, to : Accounts \cup {Nobody},
                               dated : BOOLEAN, old : BOOLEAN]]
    /\ MadeOut
    /\ marker \in [Accounts -> {"none", "young", "old"}]
    /\ tags \subseteq Accounts /\ erased \subseteq Accounts
    /\ calls \in 0 .. MaxCalls /\ faults \in 0 .. MaxFaults

LEMMA TypedParts ==
    /\ SharesTyped <=> MetaTyped /\ RestTyped /\ task \in [Actors -> Tasks]
    /\ SharesTyped' <=> MetaTyped' /\ RestTyped' /\ task' \in [Actors -> Tasks]
  <1>1. task \in [Actors -> Tasks] => \A r \in Actors : task[r].step \in {"idle"} \cup AcceptSteps \cup OtherSteps
    BY TaskFields
  <1>2. task' \in [Actors -> Tasks] => \A r \in Actors : task'[r].step \in {"idle"} \cup AcceptSteps \cup OtherSteps
    BY TaskFields
  <1> QED
    BY <1>1, <1>2 DEF SharesTyped, SharesTypeOK, MetaTyped, RestTyped

LEMMA FewerAdmins ==
    ASSUME IsFiniteSet(Listed), Cardinality(Listed) <= MaxAdmins, SharesAssumption,
           \A a \in Accounts : admins'[a] # "none" => admins[a] # "none"
    PROVE  IsFiniteSet(Listed') /\ Cardinality(Listed') <= MaxAdmins
  <1>1. Listed' \subseteq Listed
    BY DEF Listed
  <1>2. IsFiniteSet(Listed') /\ Cardinality(Listed') <= Cardinality(Listed)
    BY <1>1, FS_Subset
  <1>3. Cardinality(Listed) \in Nat /\ Cardinality(Listed') \in Nat
    BY <1>2, FS_CardinalityType
  <1> QED
    BY <1>2, <1>3 DEF SharesAssumption

\* meta.json changes by an entry that is made where there is room, by entries
\* that go, by a lock, or not at all.
LEMMA BecomesTyped ==
    ASSUME SharesAssumption, SharesTyped, NEW r \in Actors, task[r].step = "set", Room(task[r].acc), Becomes(r)
    PROVE  MetaTyped'
  <1>1. PICK i \in Invites, a \in Accounts : i = task[r].inv /\ a = task[r].acc
    <2>1. task[r] \in AcceptTasks
      BY TaskFields DEF SharesTyped, AcceptSteps
    <2> QED
      BY <2>1 DEF AcceptTasks
  <1>2. /\ admins' = [admins EXCEPT ![a] = IF invite[i].dated THEN "dated" ELSE "open"]
        /\ granted' = [granted EXCEPT ![a] = invite[i].from]
        /\ used' = used \cup {i} /\ UNCHANGED <<owner, locked>>
    BY <1>1 DEF Becomes
  <1>3. Listed' = Listed \cup {a}
    BY <1>2 DEF Listed, SharesTyped, SharesTypeOK
  <1>4. IsFiniteSet(Listed') /\ Cardinality(Listed') <= MaxAdmins
    BY <1>1, <1>3, FS_AddElement DEF SharesTyped, Room
  <1>5. invite[i].from \in Accounts \cup {Nobody}
    BY DEF SharesTyped, SharesTypeOK
  <1> QED
    BY <1>2, <1>4, <1>5 DEF MetaTyped, SharesTyped, SharesTypeOK, Entries

LEMMA RemovedTyped ==
    ASSUME SharesAssumption, SharesTyped, owner' \in Accounts \cup {Nobody}, NEW accs,
           admins' = [a \in Accounts |-> IF a \in accs THEN "none" ELSE admins[a]],
           granted' = [a \in Accounts |-> IF a \in accs THEN Nobody ELSE granted[a]],
           UNCHANGED <<locked, used>>
    PROVE  MetaTyped'
  <1>1. IsFiniteSet(Listed') /\ Cardinality(Listed') <= MaxAdmins
    BY FewerAdmins DEF SharesTyped, SharesTypeOK
  <1> QED
    BY <1>1 DEF MetaTyped, SharesTyped, SharesTypeOK, Entries

LEMMA ClearedTyped ==
    ASSUME SharesAssumption, SharesTyped, owner' \in Accounts \cup {Nobody},
           admins' = [a \in Accounts |-> "none"], granted' = [a \in Accounts |-> Nobody],
           UNCHANGED <<locked, used>>
    PROVE  MetaTyped'
  <1>1. IsFiniteSet(Listed') /\ Cardinality(Listed') <= MaxAdmins
    BY FewerAdmins DEF SharesTyped, SharesTypeOK
  <1> QED
    BY <1>1 DEF MetaTyped, SharesTyped, SharesTypeOK, Entries

LEMMA SameMeta == ASSUME SharesTyped, UNCHANGED metaVars PROVE MetaTyped'
  <1>1. Listed' = Listed
    BY DEF metaVars, Listed
  <1> QED
    BY <1>1 DEF metaVars, MetaTyped, SharesTyped, SharesTypeOK

LEMMA MetaStep ==
    ASSUME SharesAssumption, SharesTyped, SharesNext
    PROVE  MetaTyped'
  <1>0. \A r \in Requests : r \in Actors
    BY DEF Actors
  <1>1. ASSUME NEW r \in Requests, Accept(r) PROVE MetaTyped'
    <2>1. CASE BecomeAdmin(r)
      <3>1. CASE Room(task[r].acc) /\ Becomes(r)
        BY <1>0, <2>1, <3>1, BecomesTyped DEF BecomeAdmin, Does
      <3> QED
        BY <2>1, <3>1, SameMeta DEF BecomeAdmin
    <2> QED
      BY <1>1, <2>1, SameMeta DEF Accept, ClaimInvite, LinkShare, Undo, UndoMarker, Reopen, CancelGone
  <1>2. ASSUME NEW r \in Requests, EndShare(r) \/ LeaveSite(r) PROVE MetaTyped'
    <2>1. CASE RemoveAdmins({task[r].acc})
      BY <2>1, RemovedTyped DEF RemoveAdmins, SharesTyped, SharesTypeOK
    <2> QED
      BY <1>2, <2>1, SameMeta DEF EndShare, LeaveSite
  <1>3. ASSUME NEW r \in Requests, Erase(r) PROVE MetaTyped'
    <2>1. CASE UNCHANGED metaVars
      BY <2>1, SameMeta
    <2>2. CASE ~UNCHANGED metaVars
      BY <1>3, <2>2, ClearedTyped DEF Erase
    <2> QED
      BY <2>1, <2>2
  <1>4. ASSUME NEW r \in Requests, NEW a \in Accounts, Transfer(r, a) PROVE MetaTyped'
    BY <1>4, ClearedTyped DEF Transfer
  <1>5. ASSUME DeleteSite PROVE MetaTyped'
    BY <1>5, ClearedTyped DEF DeleteSite
  <1>6. ASSUME ExpireAdmin PROVE MetaTyped'
    <2>1. CASE RemoveAdmins({task[Loop].acc})
      BY <2>1, RemovedTyped DEF RemoveAdmins, SharesTyped, SharesTypeOK
    <2> QED
      BY <1>6, <2>1, SameMeta DEF ExpireAdmin
  <1>7. ASSUME SetLock PROVE MetaTyped'
    <2>1. Listed' = Listed
      BY <1>7 DEF SetLock, Listed
    <2> QED
      BY <1>7, <2>1 DEF SetLock, MetaTyped, SharesTyped, SharesTypeOK
  <1>8. ASSUME NEW a \in Accounts, EndDate(a) PROVE MetaTyped'
    <2>1. IsFiniteSet(Listed') /\ Cardinality(Listed') <= MaxAdmins
      BY <1>8, FewerAdmins DEF EndDate, SharesTyped, SharesTypeOK
    <2> QED
      BY <1>8, <2>1 DEF EndDate, MetaTyped, SharesTyped, SharesTypeOK, Entries
  <1>9. ASSUME NEW r \in Requests, DropMarker(r) \/ DropTags(r) \/ SetTags(r) \/ CancelRecords(r) \/ RemoveShares(r)
        PROVE  MetaTyped'
    BY <1>9, SameMeta DEF DropMarker, DropTags, SetTags, CancelRecords, RemoveShares
  <1>10. ASSUME NEW r \in Requests, Works(r) PROVE MetaTyped'
    BY <1>1, <1>2, <1>3, <1>9, <1>10 DEF Works, DeleteAccount
  <1>11. ASSUME NEW i \in Invites, CloseInvite(i) \/ Lapse(i) \/ \E a \in Accounts, d \in BOOLEAN : Invite(i, a, d)
         PROVE  MetaTyped'
    BY <1>11, SameMeta DEF CloseInvite, Lapse, Invite
  <1>12. ASSUME NEW r \in Requests, \/ \E i \in Invites : CheckAccept(r, i)
                                    \/ \E a \in Accounts : AskEnd(r, a) \/ AskTags(r, a) \/ AskDelete(r, a)
         PROVE  MetaTyped'
    BY <1>12, SameMeta DEF CheckAccept, AskEnd, AskTags, AskDelete
  <1>13. ASSUME NEW a \in Accounts, FindExpired(a) \/ Nominate(a) \/ Age(a) PROVE MetaTyped'
    BY <1>13, SameMeta DEF FindExpired, Nominate, Age
  <1>14. ASSUME LookRenewed \/ AskAgain \/ Repair \/ DropMarker(Loop) \/ DropTags(Loop) \/ Restart PROVE MetaTyped'
    BY <1>14, SameMeta DEF LookRenewed, AskAgain, Repair, DropMarker, DropTags, Restart
  <1> QED
    BY <1>4, <1>5, <1>6, <1>7, <1>8, <1>10, <1>11, <1>12, <1>13, <1>14 DEF SharesNext, LoopWorks

LEMMA RestStep ==
    ASSUME SharesAssumption, SharesTyped, SharesNext
    PROVE  RestTyped'
  <1>0. /\ Loop \in Actors /\ \A r \in Requests : r \in Actors
        /\ \A r \in Actors : task[r].step \notin {"idle", "clean"} => task[r].acc \in Accounts
        /\ RestTyped
    BY TaskFields, TypedParts DEF Actors, SharesTyped
  <1>c. calls' \in 0 .. MaxCalls /\ faults' \in 0 .. MaxFaults
    <2>1. /\ calls \in 0 .. MaxCalls /\ MaxCalls \in Nat
          /\ faults \in 0 .. MaxFaults /\ MaxFaults \in Nat
      BY <1>0 DEF RestTyped, SharesAssumption
    <2>2. (Call => calls' \in 0 .. MaxCalls) /\ (Fault => faults' \in 0 .. MaxFaults)
      BY <2>1 DEF Call, Fault
    <2>3. calls' = calls \/ Call
      BY Zenon DEF SharesNext, Invite, CloseInvite, Lapse, Works, Accept, ClaimInvite, LinkShare, BecomeAdmin, Becomes,
                   Undo, UndoMarker, Reopen, CancelGone, EndShare, DropMarker, DropTags, SetTags, DeleteAccount,
                   LeaveSite, CancelRecords, RemoveShares, Erase, CheckAccept, AskEnd, AskTags, Transfer, AskDelete,
                   FindExpired, Nominate, EndDate, Age, LoopWorks, ExpireAdmin, LookRenewed, AskAgain, Repair,
                   DeleteSite, SetLock, Restart
    <2>4. faults' = faults \/ Fault
      BY Zenon DEF SharesNext, Invite, CloseInvite, Lapse, Works, Accept, ClaimInvite, LinkShare, BecomeAdmin, Becomes,
                   Undo, UndoMarker, Reopen, CancelGone, EndShare, DropMarker, DropTags, SetTags, DeleteAccount,
                   LeaveSite, CancelRecords, RemoveShares, Erase, CheckAccept, AskEnd, AskTags, Transfer, AskDelete,
                   FindExpired, Nominate, EndDate, Age, LoopWorks, ExpireAdmin, LookRenewed, AskAgain, Repair,
                   DeleteSite, SetLock, Restart
    <2> QED
      BY <2>1, <2>2, <2>3, <2>4
  <1>q. ASSUME UNCHANGED <<invite, marker, tags, erased>> PROVE RestTyped'
    BY <1>0, <1>c, <1>q DEF RestTyped, MadeOut
  <1>i. ASSUME NEW i, NEW st \in States, invite[i].state # "unused", SetState(i, st), UNCHANGED <<marker, tags, erased>>
        PROVE  RestTyped'
    <2>1. MadeOut'
      BY <1>0, <1>i DEF SetState, RestTyped, MadeOut
    <2> QED
      BY <1>0, <1>c, <1>i, <2>1 DEF SetState, RestTyped
  \* An invitation in one state is moved to another, any other is left as it is.
  <1>r. ASSUME NEW i, NEW st1 \in States \ {"unused"}, NEW st2 \in States, UNCHANGED <<marker, tags, erased>>,
               invite' = [invite EXCEPT ![i].state = IF @ = st1 THEN st2 ELSE @]
        PROVE  RestTyped'
    <2>1. CASE invite[i].state = st1
      <3>1. SetState(i, st2)
        BY <1>r, <2>1 DEF SetState
      <3>2. invite[i].state # "unused"
        BY <1>r, <2>1
      <3> QED
        BY <1>i, <1>r, <3>1, <3>2
    <2>2. CASE invite[i].state # st1
      <3>1. CASE i \in Invites
        <4>1. invite[i] = [invite[i] EXCEPT !.state = invite[i].state]
          BY <1>0, <3>1 DEF RestTyped
        <4>2. invite' = [invite EXCEPT ![i] = invite[i]]
          BY <1>r, <2>2, <4>1
        <4>3. invite' = invite
          BY <1>0, <3>1, <4>2 DEF RestTyped
        <4> QED
          BY <1>q, <1>r, <4>3
      <3>2. CASE i \notin Invites
        <4>1. invite' = invite
          BY <1>0, <1>r, <3>2 DEF RestTyped
        <4> QED
          BY <1>q, <1>r, <4>1
      <3> QED
        BY <3>1, <3>2
    <2> QED
      BY <2>1, <2>2
  <1>m. ASSUME NEW a, NEW age \in {"none", "young", "old"}, marker' = [marker EXCEPT ![a] = age],
               UNCHANGED <<invite, tags, erased>>
        PROVE  RestTyped'
    BY <1>0, <1>c, <1>m DEF RestTyped, MadeOut
  <1>t. ASSUME tags' \subseteq Accounts, erased' \subseteq Accounts, UNCHANGED <<invite, marker>> PROVE RestTyped'
    BY <1>0, <1>c, <1>t DEF RestTyped, MadeOut
  <1>1. ASSUME NEW r \in Requests, Accept(r) PROVE RestTyped'
    <2>1. CASE ClaimInvite(r)
      BY <2>1, <1>q, <1>i DEF ClaimInvite, States
    <2>2. CASE LinkShare(r)
      BY <2>2, <1>q, <1>m DEF LinkShare
    <2>3. CASE UndoMarker(r)
      BY <2>3, <1>m DEF UndoMarker
    <2>4. CASE BecomeAdmin(r) \/ Undo(r)
      BY <2>4, <1>q DEF BecomeAdmin, Becomes, Undo
    <2>5. CASE Reopen(r)
      <3>1. UNCHANGED <<marker, tags, erased>>
        BY <2>5 DEF Reopen
      <3>2. invite' = [invite EXCEPT ![task[r].inv].state = IF @ = "accepted" THEN "open" ELSE @]
        BY <2>5 DEF Reopen
      <3> QED
        BY <3>1, <3>2, <1>r DEF States
    <2>6. CASE CancelGone(r)
      <3>1. UNCHANGED <<marker, tags, erased>>
        BY <2>6 DEF CancelGone
      <3>2. invite' = [invite EXCEPT ![task[r].inv].state = IF @ = "open" THEN "cancelled" ELSE @]
        BY <2>6 DEF CancelGone
      <3> QED
        BY <3>1, <3>2, <1>r DEF States
    <2> QED
      BY <1>1, <2>1, <2>2, <2>3, <2>4, <2>5, <2>6 DEF Accept
  <1>2. ASSUME NEW r \in Actors, DropMarker(r) \/ DropTags(r) PROVE RestTyped'
    <2>1. CASE DropMarker(r)
      BY <2>1, <1>q, <1>m DEF DropMarker
    <2>2. CASE DropTags(r)
      BY <2>2, <1>0, <1>t DEF DropTags, RestTyped
    <2> QED
      BY <1>2, <2>1, <2>2
  <1>3. ASSUME NEW r \in Requests, SetTags(r) PROVE RestTyped'
    BY <1>0, <1>3, <1>t DEF SetTags, RestTyped, Does
  <1>4. ASSUME NEW r \in Requests, EndShare(r) \/ LeaveSite(r) PROVE RestTyped'
    BY <1>4, <1>q DEF EndShare, LeaveSite
  <1>5. ASSUME NEW r \in Requests, CancelRecords(r) PROVE RestTyped'
    <2>1. \A i \in Invites : invite'[i] \in {invite[i], [invite[i] EXCEPT !.state = "cancelled"],
                                             [invite[i] EXCEPT !.state = "expired"]}
      BY <1>5 DEF CancelRecords
    <2> DEFINE Records == [state : States, from : Accounts \cup {Nobody}, to : Accounts \cup {Nobody},
                           dated : BOOLEAN, old : BOOLEAN]
    <2>a. \A rec \in Records, st \in States : [rec EXCEPT !.state = st] \in Records
      OBVIOUS
    <2>b. "cancelled" \in States /\ "expired" \in States
      BY DEF States
    <2>c. \A i \in Invites : invite[i] \in Records
      BY <1>0 DEF RestTyped
    <2>2. \A i \in Invites : invite'[i] \in Records
      <3> HIDE DEF Records
      <3> QED
        BY <2>1, <2>a, <2>b, <2>c
    <2>3. invite' = [i \in Invites |-> invite'[i]]
      BY <1>5 DEF CancelRecords
    <2>4. UNCHANGED <<marker, tags, erased>>
      BY <1>5 DEF CancelRecords
    <2>5. MadeOut'
      BY <1>0, <1>5, <2>1 DEF CancelRecords, RestTyped, MadeOut
    <2> QED
      BY <1>0, <1>c, <2>2, <2>3, <2>4, <2>5 DEF RestTyped
  <1>6. ASSUME NEW r \in Requests, RemoveShares(r) PROVE RestTyped'
    BY <1>6, <1>m DEF RemoveShares
  <1>7. ASSUME NEW r \in Requests, Erase(r) PROVE RestTyped'
    <2>1. task[r].acc \in Accounts
      BY <1>0, <1>7 DEF Erase, Does
    <2>2. tags' \in {tags, tags \ {task[r].acc}} /\ erased' \in {erased, erased \cup {task[r].acc}}
          /\ UNCHANGED <<invite, marker>>
      BY <1>7 DEF Erase
    <2> QED
      BY <1>0, <2>1, <2>2, <1>t DEF RestTyped
  <1>8. ASSUME NEW r \in Requests, Works(r) PROVE RestTyped'
    BY <1>0, <1>1, <1>2, <1>3, <1>4, <1>5, <1>6, <1>7, <1>8 DEF Works, DeleteAccount
  <1>9. ASSUME NEW i \in Invites, NEW a \in Accounts, NEW d \in BOOLEAN, Invite(i, a, d) PROVE RestTyped'
    <2>1. owner \in Accounts \cup {Nobody}
      BY DEF SharesTyped, SharesTypeOK
    <2>2. MadeOut'
      BY <1>0, <1>9 DEF Invite, RestTyped, MadeOut
    <2> QED
      BY <1>0, <1>c, <1>9, <2>1, <2>2 DEF Invite, RestTyped, States
  <1>10. ASSUME NEW i \in Invites, CloseInvite(i) PROVE RestTyped'
    BY <1>10, <1>i DEF CloseInvite, States
  <1>11. ASSUME NEW i \in Invites, Lapse(i) PROVE RestTyped'
    BY <1>0, <1>c, <1>11 DEF Lapse, RestTyped, MadeOut
  <1>12. ASSUME NEW r \in Requests, NEW i \in Invites, CheckAccept(r, i) PROVE RestTyped'
    BY <1>12, <1>q, <1>i DEF CheckAccept, States
  <1>13. ASSUME NEW r \in Requests, NEW a \in Accounts, AskEnd(r, a) \/ AskTags(r, a) \/ Transfer(r, a) \/ AskDelete(r, a)
         PROVE  RestTyped'
    BY <1>13, <1>q DEF AskEnd, AskTags, Transfer, AskDelete
  <1>14. ASSUME NEW a \in Accounts, FindExpired(a) \/ Nominate(a) \/ EndDate(a) PROVE RestTyped'
    BY <1>14, <1>q DEF FindExpired, Nominate, EndDate
  <1>15. ASSUME NEW a \in Accounts, Age(a) PROVE RestTyped'
    BY <1>15, <1>m DEF Age
  <1>16. ASSUME ExpireAdmin \/ LookRenewed \/ AskAgain \/ DeleteSite \/ SetLock \/ Restart PROVE RestTyped'
    BY <1>16, <1>q DEF ExpireAdmin, LookRenewed, AskAgain, DeleteSite, SetLock, Restart
  <1>17. ASSUME Repair PROVE RestTyped'
    <2>1. CASE UNCHANGED tags
      <3>1. PICK a : a = task[Loop].acc
        OBVIOUS
      <3>2. UNCHANGED <<invite, erased>>
        BY <1>17 DEF Repair
      <3>3. CASE UNCHANGED marker
        BY <2>1, <3>2, <3>3, <1>q
      <3>4. CASE ~UNCHANGED marker
        <4>1. marker' = [marker EXCEPT ![a] = "none"] \/ marker' = [marker EXCEPT ![a] = "young"]
          BY <1>17, <3>1, <3>4 DEF Repair
        <4> QED
          BY <2>1, <3>2, <4>1, <1>m
      <3> QED
        BY <3>3, <3>4
    <2>2. CASE ~UNCHANGED tags
      BY <1>0, <1>17, <2>2, <1>t DEF Repair, RestTyped
    <2> QED
      BY <2>1, <2>2
  <1> QED
    BY <1>0, <1>2, <1>8, <1>9, <1>10, <1>11, <1>12, <1>13, <1>14, <1>15, <1>16, <1>17 DEF SharesNext, LoopWorks

LEMMA TaskStep ==
    ASSUME SharesAssumption, SharesTyped, SharesNext
    PROVE  task' \in [Actors -> Tasks]
  <1>0. /\ Loop \in Actors /\ \A r \in Requests : r \in Actors
        /\ task \in [Actors -> Tasks] /\ Listed \subseteq Accounts /\ owner \in Accounts \cup {Nobody}
        /\ \A r \in Actors : /\ task[r].step \notin {"idle", "clean"} => task[r].acc \in Accounts
                             /\ task[r].step \in {"clean", "untag"} => task[r].accs \in SUBSET Accounts
    BY TaskFields DEF Actors, SharesTyped, SharesTypeOK, Listed, CleanTasks, UntagTasks
  <1>b. ASSUME NEW r \in Actors, NEW t \in Tasks, Begin(r, t) PROVE task' \in [Actors -> Tasks]
    BY <1>0, <1>b DEF Begin
  <1>1. ASSUME NEW r \in Requests, Accept(r) PROVE task' \in [Actors -> Tasks]
    <2>1. CASE Done(r)
      BY <1>0, <2>1, DoneTask
    <2>2. CASE \E s \in AcceptSteps : Goto(r, s)
      <3>1. task[r].step \in AcceptSteps
        BY <1>1 DEF Accept, ClaimInvite, LinkShare, BecomeAdmin, Undo, UndoMarker, Reopen, CancelGone, Does, AcceptSteps
      <3> QED
        BY <1>0, <2>2, <3>1, GotoTask
    <2> QED
      BY <1>1, <2>1, <2>2
         DEF Accept, ClaimInvite, LinkShare, BecomeAdmin, Becomes, Undo, UndoMarker, Reopen, CancelGone, AcceptSteps
  <1>2. ASSUME NEW r \in Actors, DropMarker(r) PROVE task' \in [Actors -> Tasks]
    <2>1. PICK a \in task[r].accs :
            task' = [task EXCEPT ![r] = [step |-> "untag", acc |-> a, accs |-> task[r].accs \ {a}]]
      BY <1>0, <1>2 DEF DropMarker
    <2>2. task[r].accs \in SUBSET Accounts
      BY <1>0, <1>2 DEF DropMarker, Does
    <2>3. [step |-> "untag", acc |-> a, accs |-> task[r].accs \ {a}] \in Tasks
      BY <2>2 DEF Tasks, UntagTasks
    <2> QED
      BY <1>0, <2>1, <2>3
  <1>3. ASSUME NEW r \in Actors, DropTags(r) PROVE task' \in [Actors -> Tasks]
    BY <1>0, <1>3, CleanTask DEF DropTags, Does
  <1>4. ASSUME NEW r \in Requests, EndShare(r) PROVE task' \in [Actors -> Tasks]
    <2>1. task[r].acc \in Accounts
      BY <1>0, <1>4 DEF EndShare, Does
    <2> QED
      BY <1>0, <1>4, <2>1, DoneTask, CleanTask DEF EndShare
  <1>5. ASSUME NEW r \in Requests, SetTags(r) PROVE task' \in [Actors -> Tasks]
    BY <1>0, <1>5, DoneTask DEF SetTags
  <1>6. ASSUME NEW r \in Requests, DeleteAccount(r) PROVE task' \in [Actors -> Tasks]
    <2>1. CASE LeaveSite(r)
      BY <1>0, <2>1, DoneTask, GotoTask DEF LeaveSite, Does
    <2>2. CASE CancelRecords(r)
      BY <1>0, <2>2, GotoTask DEF CancelRecords, Does
    <2>3. CASE RemoveShares(r)
      BY <1>0, <2>3, GotoTask DEF RemoveShares, Does
    <2>4. CASE Erase(r)
      BY <1>0, <2>4, DoneTask, CleanTask DEF Erase
    <2> QED
      BY <1>6, <2>1, <2>2, <2>3, <2>4 DEF DeleteAccount
  <1>7. ASSUME NEW i \in Invites, CloseInvite(i) \/ Lapse(i) \/ \E a \in Accounts, d \in BOOLEAN : Invite(i, a, d)
        PROVE  task' \in [Actors -> Tasks]
    BY <1>0, <1>7 DEF CloseInvite, Lapse, Invite
  <1>8. ASSUME NEW r \in Requests, NEW i \in Invites, CheckAccept(r, i) PROVE task' \in [Actors -> Tasks]
    <2>1. CASE UNCHANGED task
      BY <1>0, <2>1
    <2>2. CASE Begin(r, [step |-> "claim", inv |-> i, acc |-> invite[i].to]) /\ invite[i].state = "open"
      <3>1. invite[i].to \in Accounts
        BY <2>2 DEF SharesTyped, MadeOut
      <3>2. [step |-> "claim", inv |-> i, acc |-> invite[i].to] \in Tasks
        BY <3>1 DEF Tasks, AcceptTasks, AcceptSteps
      <3> QED
        BY <1>0, <1>b, <2>2, <3>2
    <2> QED
      BY <1>8, <2>1, <2>2 DEF CheckAccept
  <1>9. ASSUME NEW r \in Requests, NEW a \in Accounts, AskEnd(r, a) \/ AskTags(r, a) \/ AskDelete(r, a)
        PROVE  task' \in [Actors -> Tasks]
    <2>1. /\ [step |-> "end", acc |-> a, seen |-> owner] \in Tasks
          /\ [step |-> "leave", acc |-> a, seen |-> owner] \in Tasks
          /\ [step |-> "tag", acc |-> a] \in Tasks
          /\ [step |-> "records", acc |-> a] \in Tasks
      BY <1>0 DEF Tasks, SeenTasks, AccTasks
    <2> QED
      BY <1>0, <1>9, <1>b, <2>1 DEF AskEnd, AskTags, AskDelete
  <1>10. ASSUME NEW r \in Requests, NEW a \in Accounts, Transfer(r, a) PROVE task' \in [Actors -> Tasks]
    BY <1>0, <1>10, CleanTask DEF Transfer
  <1>11. ASSUME NEW a \in Accounts, FindExpired(a) \/ Nominate(a) PROVE task' \in [Actors -> Tasks]
    <2>1. /\ [step |-> "expire", acc |-> a, seen |-> owner] \in Tasks
          /\ \A s \in {"ask", "miss", "asktags"} : [step |-> s, acc |-> a] \in Tasks
      BY <1>0 DEF Tasks, SeenTasks, AccTasks
    <2> QED
      BY <1>0, <1>11, <1>b, <2>1 DEF FindExpired, Nominate
  <1>12. ASSUME ExpireAdmin PROVE task' \in [Actors -> Tasks]
    BY <1>0, <1>12, DoneTask, GotoTask DEF ExpireAdmin, Does
  <1>13. ASSUME LookRenewed PROVE task' \in [Actors -> Tasks]
    <2>1. task[Loop].acc \in Accounts
      BY <1>0, <1>13 DEF LookRenewed, Does
    <2> QED
      BY <1>0, <1>13, <2>1, DoneTask, CleanTask DEF LookRenewed
  <1>14. ASSUME AskAgain PROVE task' \in [Actors -> Tasks]
    BY <1>0, <1>14, DoneTask, GotoTask DEF AskAgain, Does
  <1>15. ASSUME Repair PROVE task' \in [Actors -> Tasks]
    BY <1>0, <1>15, DoneTask DEF Repair
  <1>16. ASSUME DeleteSite \/ SetLock \/ \E a \in Accounts : EndDate(a) \/ Age(a) PROVE task' \in [Actors -> Tasks]
    BY <1>0, <1>16 DEF DeleteSite, SetLock, EndDate, Age
  <1>17. ASSUME Restart PROVE task' \in [Actors -> Tasks]
    BY <1>17 DEF Restart, Tasks
  <1>18. ASSUME NEW r \in Requests, Works(r) PROVE task' \in [Actors -> Tasks]
    BY <1>0, <1>1, <1>2, <1>3, <1>4, <1>5, <1>6, <1>18 DEF Works
  <1> QED
    BY <1>0, <1>2, <1>3, <1>7, <1>8, <1>9, <1>10, <1>11, <1>12, <1>13, <1>14, <1>15, <1>16, <1>17, <1>18
       DEF SharesNext, LoopWorks

LEMMA SharesInitType == ASSUME SharesAssumption, SharesInit PROVE SharesTyped
  <1>1. Listed = {}
    BY DEF SharesInit, Listed
  <1>2. IsFiniteSet(Listed) /\ Cardinality(Listed) = 0
    BY <1>1, FS_EmptySet
  <1>3. MetaTyped
    <2>1. admins \in [Accounts -> Entries] /\ granted \in [Accounts -> Accounts \cup {Nobody}]
      BY DEF SharesInit, Entries
    <2>2. Cardinality(Listed) <= MaxAdmins
      BY <1>2 DEF SharesAssumption
    <2> QED
      BY <1>2, <2>1, <2>2 DEF SharesInit, MetaTyped
  <1>4. RestTyped
    BY DEF SharesInit, RestTyped, MadeOut, SharesAssumption, Unused, States
  <1>5. task \in [Actors -> Tasks]
    BY DEF SharesInit, Tasks
  <1> QED
    BY <1>3, <1>4, <1>5, TypedParts

LEMMA SharesNextType ==
    ASSUME SharesAssumption, SharesTyped, [SharesNext]_svars
    PROVE  SharesTyped'
  <1>1. CASE SharesNext
    BY <1>1, MetaStep, RestStep, TaskStep, TypedParts
  <1>2. CASE UNCHANGED svars
    <2>1. Listed' = Listed
      BY <1>2 DEF svars, Listed
    <2> QED
      BY <1>2, <2>1 DEF svars, SharesTyped, SharesTypeOK, MadeOut
  <1> QED
    BY <1>1, <1>2

\* Every reachable state is well-typed; in particular there are never more
\* admins than the plan allows.
THEOREM SharesTypeCorrect == ASSUME SharesAssumption PROVE SharesSpec => []SharesTypeOK
  <1>1. SharesTyped => SharesTypeOK
    BY DEF SharesTyped
  <1> QED
    BY <1>1, SharesInitType, SharesNextType, PTL DEF SharesSpec

(***************************************************************************)
(* The inductive invariant.                                                *)
(***************************************************************************)

\* From the state change that claims an invitation until its accept is through
\* or undone.
Holding == {"link", "set", "undo", "unmark", "reopen"}

\* One accept at a time has claimed an invitation, which stays accepted and
\* has made nobody an admin.
ClaimsHold ==
    \A r \in Actors : task[r].step \in Holding =>
        /\ invite[task[r].inv].state = "accepted" /\ task[r].inv \notin used
        /\ \A q \in Actors \ {r} : task[q].step \in Holding => task[q].inv # task[r].inv

SharesInv == SharesStand /\ ClaimsHold

LEMMA SharesInitInv == ASSUME SharesInit PROVE SharesInv
  BY DEF SharesInit, SharesInv, SharesStand, AdminsOfThisOwner, InvitationIsSpent, ClaimsHold, Listed, Free, Holding

\* A step after which every admin is one it was before, of the same owner.
LEMMA AdminsStay ==
    ASSUME SharesInv,
           \A a \in Accounts : admins'[a] # "none" =>
               admins[a] # "none" /\ granted'[a] = granted[a] /\ owner' = owner
    PROVE  AdminsOfThisOwner'
  BY DEF SharesInv, SharesStand, AdminsOfThisOwner, Listed

\* A step that uses no invitation, takes none of the accepted ones back, and
\* begins no claim.
LEMMA ClaimsStay ==
    ASSUME SharesInv, used' = used,
           \A i \in Invites : invite[i].state = "accepted" => invite'[i].state = "accepted",
           used \subseteq Invites,
           \A r \in Actors : task[r].step \in Holding => task[r].inv \in Invites,
           \A r \in Actors : task'[r].step \in Holding => task[r].step \in Holding /\ task'[r].inv = task[r].inv
    PROVE  InvitationIsSpent' /\ ClaimsHold'
  <1>1. InvitationIsSpent'
    BY DEF SharesInv, SharesStand, InvitationIsSpent
  <1>2. ClaimsHold'
    BY DEF SharesInv, ClaimsHold
  <1> QED
    BY <1>1, <1>2

LEMMA AcceptInv ==
    ASSUME SharesAssumption, SharesTyped, SharesInv, NEW r \in Actors, Accept(r)
    PROVE  SharesInv'
  <1>0. /\ task \in [Actors -> Tasks] /\ used \subseteq Invites
        /\ invite \in [Invites -> [state : States, from : Accounts \cup {Nobody}, to : Accounts \cup {Nobody},
                                   dated : BOOLEAN, old : BOOLEAN]]
        /\ \A q \in Actors : task[q].step \in AcceptSteps => task[q].inv \in Invites /\ task[q] \in AcceptTasks
    BY TaskFields DEF SharesTyped, SharesTypeOK, AcceptTasks
  <1>h. \A q \in Actors : task[q].step \in Holding => task[q].inv \in Invites
    BY <1>0 DEF Holding, AcceptSteps
  <1>g. ASSUME NEW s \in AcceptSteps, Goto(r, s), task[r].step \in AcceptSteps
        PROVE  /\ task'[r].step = s /\ task'[r].inv = task[r].inv
               /\ \A q \in Actors \ {r} : task'[q] = task[q]
    BY <1>0, <1>g DEF Goto, AcceptTasks
  <1>d. ASSUME Done(r)
        PROVE  task'[r].step = "idle" /\ \A q \in Actors \ {r} : task'[q] = task[q]
    BY <1>0, <1>d DEF Done, Free
  <1>1. CASE ClaimInvite(r)
    <2>1. PICK i \in Invites : i = task[r].inv
      BY <1>0, <1>1 DEF ClaimInvite, Does, AcceptSteps
    <2>2. UNCHANGED metaVars /\ task[r].step = "claim"
      BY <1>1 DEF ClaimInvite, Does
    <2>3. AdminsOfThisOwner'
      BY <2>2, AdminsStay DEF metaVars
    <2>4. CASE invite[i].state = "open" /\ SetState(i, "accepted") /\ Goto(r, "link")
      <3>1. /\ task'[r].step = "link" /\ task'[r].inv = i
            /\ \A q \in Actors \ {r} : task'[q] = task[q]
        BY <1>g, <2>1, <2>2, <2>4 DEF AcceptSteps
      <3>2. /\ invite'[i].state = "accepted"
            /\ \A k \in Invites \ {i} : invite'[k] = invite[k]
        BY <1>0, <2>4 DEF SetState
      <3>3. i \notin used /\ \A q \in Actors : task[q].step \in Holding => task[q].inv # i
        BY <2>4 DEF SharesInv, SharesStand, InvitationIsSpent, ClaimsHold
      <3>4. InvitationIsSpent'
        BY <1>0, <2>2, <3>2, <3>3 DEF SharesInv, SharesStand, InvitationIsSpent, metaVars
      <3>5. ClaimsHold'
        BY <1>h, <2>2, <3>1, <3>2, <3>3 DEF SharesInv, ClaimsHold, metaVars
      <3> QED
        BY <2>3, <3>4, <3>5 DEF SharesInv, SharesStand
    <2>5. CASE Done(r) /\ UNCHANGED invite
      BY <1>0, <1>d, <1>h, <2>2, <2>3, <2>5, ClaimsStay DEF metaVars, Holding, SharesInv, SharesStand
    <2> QED
      BY <1>1, <2>1, <2>4, <2>5 DEF ClaimInvite
  <1>2. CASE LinkShare(r) \/ Undo(r) \/ UndoMarker(r)
    <2>1. UNCHANGED <<metaVars, invite>> /\ task[r].step \in Holding \cap AcceptSteps
      BY <1>2 DEF LinkShare, Undo, UndoMarker, Does, Holding, AcceptSteps
    <2>2. \E s \in {"set", "undo", "unmark", "reopen"} : Goto(r, s)
      BY <1>2 DEF LinkShare, Undo, UndoMarker
    <2>3. \A q \in Actors : task'[q].step \in Holding => task[q].step \in Holding /\ task'[q].inv = task[q].inv
      BY <1>g, <2>1, <2>2 DEF AcceptSteps
    <2> QED
      BY <1>0, <1>h, <2>1, <2>3, AdminsStay, ClaimsStay DEF metaVars, SharesInv, SharesStand
  <1>3. CASE BecomeAdmin(r)
    <2>1. PICK i \in Invites, a \in Accounts : i = task[r].inv /\ a = task[r].acc
      BY <1>0, <1>3 DEF BecomeAdmin, Does, AcceptSteps, AcceptTasks
    <2>2. task[r].step = "set" /\ task[r].step \in Holding \cap AcceptSteps
      BY <1>3 DEF BecomeAdmin, Does, Holding, AcceptSteps
    <2>3. CASE Goto(r, "undo") /\ UNCHANGED <<metaVars, invite>>
      <3>1. \A q \in Actors : task'[q].step \in Holding => task[q].step \in Holding /\ task'[q].inv = task[q].inv
        BY <1>g, <2>2, <2>3 DEF AcceptSteps
      <3> QED
        BY <1>0, <1>h, <2>3, <3>1, AdminsStay, ClaimsStay DEF metaVars, SharesInv, SharesStand
    <2>4. CASE MayEdit(invite[i].from) /\ Becomes(r)
      <3>1. /\ admins' = [admins EXCEPT ![a] = IF invite[i].dated THEN "dated" ELSE "open"]
            /\ granted' = [granted EXCEPT ![a] = invite[i].from]
            /\ used' = used \cup {i} /\ Done(r) /\ UNCHANGED <<owner, invite>>
        BY <2>1, <2>4 DEF Becomes
      <3>2. AdminsOfThisOwner'
        BY <2>4, <3>1 DEF MayEdit, SharesInv, SharesStand, AdminsOfThisOwner, Listed, SharesTyped, SharesTypeOK
      <3>3. invite[i].state = "accepted" /\ \A q \in Actors \ {r} : task[q].step \in Holding => task[q].inv # i
        BY <2>1, <2>2 DEF SharesInv, ClaimsHold
      <3>4. InvitationIsSpent'
        BY <3>1, <3>3 DEF SharesInv, SharesStand, InvitationIsSpent
      <3>5. ClaimsHold'
        BY <1>d, <3>1, <3>3 DEF SharesInv, ClaimsHold, Holding
      <3> QED
        BY <3>2, <3>4, <3>5 DEF SharesInv, SharesStand
    <2> QED
      BY <1>3, <2>1, <2>3, <2>4 DEF BecomeAdmin
  <1>4. CASE Reopen(r)
    <2>1. PICK i \in Invites : i = task[r].inv
      BY <1>0, <1>4 DEF Reopen, Does, AcceptSteps
    <2>2. UNCHANGED metaVars /\ task[r].step \in Holding \cap AcceptSteps
      BY <1>4 DEF Reopen, Does, Holding, AcceptSteps
    <2>3. AdminsOfThisOwner'
      BY <2>2, AdminsStay DEF metaVars
    <2>4. \A k \in Invites \ {i} : invite'[k] = invite[k]
      BY <1>0, <1>4, <2>1 DEF Reopen
    <2>5. i \notin used /\ \A q \in Actors \ {r} : task[q].step \in Holding => task[q].inv # i
      BY <2>1, <2>2 DEF SharesInv, ClaimsHold
    <2>6. InvitationIsSpent'
      BY <1>0, <2>2, <2>4, <2>5 DEF SharesInv, SharesStand, InvitationIsSpent, metaVars
    <2>7. task'[r].step \notin Holding /\ \A q \in Actors \ {r} : task'[q] = task[q]
      BY <1>4, <1>g, <1>d, <2>2 DEF Reopen, Holding, AcceptSteps
    <2>8. ClaimsHold'
      BY <1>h, <2>2, <2>4, <2>5, <2>7 DEF SharesInv, ClaimsHold, metaVars
    <2> QED
      BY <2>3, <2>6, <2>8 DEF SharesInv, SharesStand
  <1>5. CASE CancelGone(r)
    <2>1. UNCHANGED metaVars /\ Done(r)
      BY <1>5 DEF CancelGone
    <2>2. \A i \in Invites : invite[i].state = "accepted" => invite'[i].state = "accepted"
      BY <1>0, <1>5 DEF CancelGone
    <2> QED
      BY <1>0, <1>d, <1>h, <2>1, <2>2, AdminsStay, ClaimsStay DEF metaVars, Holding, SharesInv, SharesStand
  <1> QED
    BY <1>1, <1>2, <1>3, <1>4, <1>5 DEF Accept

\* Every other step takes admins away or leaves them, and claims nothing.
LEMMA OtherInv ==
    ASSUME SharesAssumption, SharesTyped, SharesInv,
           \A a \in Accounts : admins'[a] # "none" =>
               admins[a] # "none" /\ granted'[a] = granted[a] /\ owner' = owner,
           used' = used,
           \A i \in Invites : invite[i].state = "accepted" => invite'[i].state = "accepted",
           \A r \in Actors : task'[r] = task[r] \/ task'[r].step \notin Holding
    PROVE  SharesInv'
  <1>1. used \subseteq Invites /\ \A r \in Actors : task[r].step \in Holding => task[r].inv \in Invites
    BY TaskFields DEF SharesTyped, SharesTypeOK, AcceptTasks, Holding, AcceptSteps
  <1> QED
    BY <1>1, AdminsStay, ClaimsStay DEF SharesInv, SharesStand

LEMMA SharesStep ==
    ASSUME SharesAssumption, SharesTyped, SharesInv, [SharesNext]_svars
    PROVE  SharesInv'
  <1>0. /\ Loop \in Actors /\ \A r \in Requests : r \in Actors
        /\ task \in [Actors -> Tasks] /\ admins \in [Accounts -> Entries]
        /\ invite \in [Invites -> [state : States, from : Accounts \cup {Nobody}, to : Accounts \cup {Nobody},
                                   dated : BOOLEAN, old : BOOLEAN]]
    BY DEF Actors, SharesTyped, SharesTypeOK
  <1> DEFINE Fewer == \A a \in Accounts : admins'[a] # "none" =>
                         admins[a] # "none" /\ granted'[a] = granted[a] /\ owner' = owner
             Spent == \A i \in Invites : invite[i].state = "accepted" => invite'[i].state = "accepted"
             Freed == \A r \in Actors : task'[r] = task[r] \/ task'[r].step \notin Holding
  <1>f. ASSUME Fewer, used' = used, Spent, Freed PROVE SharesInv'
    BY <1>f, OtherInv
  <1>m. UNCHANGED metaVars => Fewer /\ used' = used
    BY DEF metaVars
  <1>r. ASSUME NEW accs, RemoveAdmins(accs) PROVE Fewer /\ used' = used
    BY <1>r DEF RemoveAdmins
  <1>i. UNCHANGED invite => Spent
    OBVIOUS
  <1>t. ASSUME NEW r \in Actors,
               \/ UNCHANGED task \/ Done(r) \/ \E accs : Clean(r, accs)
               \/ \E t : t.step \notin Holding /\ Begin(r, t)
               \/ \E s : s \notin Holding /\ Goto(r, s)
        PROVE  Freed
    <2>1. \A q \in Actors \ {r} : task'[q] = task[q]
      BY <1>0, <1>t DEF Done, Clean, Begin, Goto
    <2>2. task'[r] = task[r] \/ task'[r].step \notin Holding
      <3>1. ASSUME NEW s, s \notin Holding, Goto(r, s) PROVE task'[r].step \notin Holding \/ task'[r] = task[r]
        <4>1. task[r] \in Tasks
          BY <1>0
        <4>2. task'[r] = [task[r] EXCEPT !.step = s]
          BY <1>0, <3>1 DEF Goto
        <4>3. [task[r] EXCEPT !.step = s].step = s
          BY <4>1 DEF Tasks, Free, AcceptTasks, SeenTasks, AccTasks, CleanTasks, UntagTasks
        <4> QED
          BY <3>1, <4>2, <4>3
      <3> QED
        BY <1>0, <1>t, <3>1 DEF Done, Clean, Begin, Free, Holding
    <2> QED
      BY <2>1, <2>2
  <1> HIDE DEF Fewer, Spent, Freed
  <1>1. ASSUME NEW r \in Requests, EndShare(r) PROVE SharesInv'
    <2>1. Fewer /\ used' = used
      BY <1>1, <1>m, <1>r DEF EndShare
    <2>2. Spent /\ Freed
      BY <1>0, <1>1, <1>i, <1>t DEF EndShare
    <2> QED
      BY <2>1, <2>2, <1>f
  <1>2. ASSUME NEW r \in Actors, DropMarker(r) PROVE SharesInv'
    <2>1. Freed
      BY <1>0, <1>2 DEF DropMarker, Freed, Holding
    <2> QED
      BY <1>2, <1>f, <1>m, <1>i, <2>1 DEF DropMarker
  <1>3. ASSUME NEW r \in Actors, DropTags(r) PROVE SharesInv'
    BY <1>3, <1>f, <1>m, <1>i, <1>t DEF DropTags
  <1>4. ASSUME NEW r \in Requests, SetTags(r) PROVE SharesInv'
    BY <1>0, <1>4, <1>f, <1>m, <1>i, <1>t DEF SetTags
  <1>5. ASSUME NEW r \in Requests, LeaveSite(r) PROVE SharesInv'
    <2>1. Fewer /\ used' = used
      BY <1>5, <1>m, <1>r DEF LeaveSite
    <2>2. Spent /\ Freed
      BY <1>0, <1>5, <1>i, <1>t DEF LeaveSite, Holding
    <2> QED
      BY <2>1, <2>2, <1>f
  <1>6. ASSUME NEW r \in Requests, CancelRecords(r) PROVE SharesInv'
    <2>1. Spent
      BY <1>0, <1>6 DEF CancelRecords, Spent
    <2>2. Freed
      BY <1>0, <1>6, <1>t DEF CancelRecords, Holding
    <2> QED
      BY <1>6, <1>f, <1>m, <2>1, <2>2 DEF CancelRecords
  <1>7. ASSUME NEW r \in Requests, RemoveShares(r) PROVE SharesInv'
    <2>1. Freed
      BY <1>0, <1>7, <1>t DEF RemoveShares, Holding
    <2> QED
      BY <1>7, <1>f, <1>m, <1>i, <2>1 DEF RemoveShares
  <1>8. ASSUME NEW r \in Requests, Erase(r) PROVE SharesInv'
    <2>1. Fewer /\ used' = used
      BY <1>8, <1>m DEF Erase, Fewer
    <2>2. Spent /\ Freed
      BY <1>0, <1>8, <1>i, <1>t DEF Erase
    <2> QED
      BY <2>1, <2>2, <1>f
  <1>9. ASSUME NEW r \in Requests, Works(r) PROVE SharesInv'
    BY <1>0, <1>1, <1>2, <1>3, <1>4, <1>5, <1>6, <1>7, <1>8, <1>9, AcceptInv DEF Works, DeleteAccount
  <1>10. ASSUME NEW i \in Invites, NEW a \in Accounts, NEW d \in BOOLEAN, Invite(i, a, d) PROVE SharesInv'
    <2>1. Spent
      BY <1>0, <1>10 DEF Invite, Spent
    <2>2. Freed
      BY <1>10 DEF Invite, Freed
    <2> QED
      BY <1>10, <1>f, <1>m, <2>1, <2>2 DEF Invite
  <1>11. ASSUME NEW i \in Invites, CloseInvite(i) \/ Lapse(i) PROVE SharesInv'
    <2>1. Spent
      BY <1>0, <1>11 DEF CloseInvite, Lapse, SetState, Spent
    <2>2. Freed
      BY <1>11 DEF CloseInvite, Lapse, Freed
    <2> QED
      BY <1>11, <1>f, <1>m, <2>1, <2>2 DEF CloseInvite, Lapse
  <1>12. ASSUME NEW r \in Requests, NEW i \in Invites, CheckAccept(r, i) PROVE SharesInv'
    <2>1. Spent
      BY <1>0, <1>12 DEF CheckAccept, SetState, Spent
    <2>2. Freed
      BY <1>0, <1>12, <1>t DEF CheckAccept, Holding
    <2> QED
      BY <1>12, <1>f, <1>m, <2>1, <2>2 DEF CheckAccept
  <1>13. ASSUME NEW r \in Requests, NEW a \in Accounts, AskEnd(r, a) \/ AskTags(r, a) \/ AskDelete(r, a) PROVE SharesInv'
    <2>1. Freed
      BY <1>0, <1>13, <1>t DEF AskEnd, AskTags, AskDelete, Holding
    <2> QED
      BY <1>13, <1>f, <1>m, <1>i, <2>1 DEF AskEnd, AskTags, AskDelete
  <1>14. ASSUME NEW r \in Requests, NEW a \in Accounts, Transfer(r, a) PROVE SharesInv'
    <2>1. Fewer /\ used' = used
      BY <1>14 DEF Transfer, Fewer
    <2>2. Spent /\ Freed
      BY <1>0, <1>14, <1>i, <1>t DEF Transfer
    <2> QED
      BY <2>1, <2>2, <1>f
  <1>15. ASSUME NEW a \in Accounts, FindExpired(a) \/ Nominate(a) PROVE SharesInv'
    <2>1. Freed
      BY <1>0, <1>15, <1>t DEF FindExpired, Nominate, Holding
    <2> QED
      BY <1>15, <1>f, <1>m, <1>i, <2>1 DEF FindExpired, Nominate
  <1>16. ASSUME NEW a \in Accounts, EndDate(a) \/ Age(a) PROVE SharesInv'
    <2>1. Fewer /\ used' = used
      BY <1>0, <1>16 DEF EndDate, Age, metaVars, Fewer
    <2>2. Freed /\ Spent
      BY <1>16, <1>i DEF EndDate, Age, Freed
    <2> QED
      BY <2>1, <2>2, <1>f
  <1>17. ASSUME ExpireAdmin PROVE SharesInv'
    <2>1. Fewer /\ used' = used
      BY <1>17, <1>m, <1>r DEF ExpireAdmin
    <2>2. Spent /\ Freed
      BY <1>0, <1>17, <1>i, <1>t DEF ExpireAdmin, Holding
    <2> QED
      BY <2>1, <2>2, <1>f
  <1>18. ASSUME LookRenewed \/ AskAgain \/ Repair PROVE SharesInv'
    <2>1. Freed
      BY <1>0, <1>18, <1>t DEF LookRenewed, AskAgain, Repair, Holding
    <2> QED
      BY <1>18, <1>f, <1>m, <1>i, <2>1 DEF LookRenewed, AskAgain, Repair
  <1>19. ASSUME DeleteSite PROVE SharesInv'
    <2>1. Fewer /\ used' = used
      BY <1>19 DEF DeleteSite, Fewer
    <2>2. Spent /\ Freed
      BY <1>19, <1>i DEF DeleteSite, Freed
    <2> QED
      BY <2>1, <2>2, <1>f
  <1>20. ASSUME SetLock \/ Restart PROVE SharesInv'
    <2>1. Fewer /\ used' = used
      BY <1>20 DEF SetLock, Restart, metaVars, Fewer
    <2>2. Spent /\ Freed
      BY <1>0, <1>20, <1>i DEF SetLock, Restart, Freed, Free, Holding
    <2> QED
      BY <2>1, <2>2, <1>f
  <1>21. ASSUME UNCHANGED svars PROVE SharesInv'
    BY <1>21, <1>f, <1>m, <1>i DEF svars, metaVars, Freed
  <1> QED
    BY <1>0, <1>2, <1>3, <1>9, <1>10, <1>11, <1>12, <1>13, <1>14, <1>15, <1>16, <1>17, <1>18, <1>19, <1>20, <1>21
       DEF SharesNext, LoopWorks

\* Every admin was invited by the account that owns the site now, and an
\* invitation that made somebody an admin is never open again: for any number
\* of accounts, invitations and requests, with failing writes and restarts.
THEOREM SharesHold == ASSUME SharesAssumption PROVE SharesSpec => []SharesStand
  <1>1. SharesInv => SharesStand
    BY DEF SharesInv
  <1> QED
    BY <1>1, SharesInitType, SharesNextType, SharesInitInv, SharesStep, PTL DEF SharesSpec
=============================================================================
