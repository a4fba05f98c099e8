--------------------------- MODULE TransferOffer ---------------------------
(***************************************************************************)
(* Handing sites over (ee/transfer_send.go, ee/transfer_accept.go,         *)
(* ee/ownership/store.go, ee/ownership_loop.go): an account offers a       *)
(* bundle of its sites to another; the recipient accepts the bundle as a   *)
(* whole; the sites then change owner one by one in meta.json; a run that  *)
(* stops part-way is finished forward by the background loop.  Three       *)
(* stores take part, with no transaction across them: the offer record     *)
(* (one mutex per process), meta.json of each site (its site lock), and    *)
(* the ownership markers of each account's index.                          *)
(*                                                                         *)
(* Abstracted: whether a check refuses for a suspension, a lock, a plan, a *)
(* limit or a host (each may answer either way at any time, so the answer  *)
(* is a free choice), the mails, the passwords, the caps, the shares.      *)
(* The recipient's address stands for its account.  An offer record is not *)
(* pruned while the model watches (90 days).                               *)
(***************************************************************************)
EXTENDS Naturals, FiniteSets

CONSTANTS
    Accounts,   \* accounts with a verified address
    Sites,      \* sites of the installation
    Offers,     \* offer records, each created once
    Accepts,    \* accept requests
    Loop,       \* the background loop's run
    Asks,       \* the sender's create and edit requests
    NoOne,      \* no account, no site, no offer
    MaxFaults   \* bound on crashes, I/O errors and refused moves

ASSUME ConstantsAssumption ==
    /\ Loop \notin Accepts
    /\ NoOne \notin Accounts /\ NoOne \notin Sites /\ NoOne \notin Offers
    /\ MaxFaults \in Nat

VARIABLES
    offers,   \* the offer records
    owner,    \* meta.json: each site's owner, NoOne once it is deleted
    markers,  \* the account indexes: <<account, site>>
    young,    \* markers linked less than markerGrace ago
    run,      \* accept requests and the loop's completion
    ask,      \* the sender's requests between their checks and their writes
    rec,      \* the loop's reconciliation of one marker
    moved,    \* history: the sites TransferSite moved for each offer
    faults    \* history: crashes and errors so far

storeVars == <<offers, owner, moved>>
indexVars == <<markers, young>>
vars == <<offers, owner, markers, young, run, ask, rec, moved, faults>>

Runs == Accepts \cup {Loop}
Pairs == Accounts \X Sites

Held   == {"open", "paused", "accepting"}
Finals == {"accepted", "declined", "expired", "cancelled", "ended"}
States == Held \cup Finals \cup {"none"}
\* offerWindow: before AvailableFrom, between the dates, after AcceptBy.
Windows == {"early", "in", "late"}

Records == [state : States, sites : SUBSET Sites, from : Accounts \cup {NoOne},
            to : Accounts \cup {NoOne}, done : SUBSET Sites, window : Windows]
NoOffer == [state |-> "none", sites |-> {}, from |-> NoOne, to |-> NoOne,
            done |-> {}, window |-> "in"]

\* An accept looks, claims the offer, checks, and starts the acceptance; from
\* "record" on it runs runAccepting, as the loop does.
Moving   == {"record", "decide", "link", "transfer", "unlink", "mark", "finish", "give up"}
Claiming == Moving \cup {"check", "pause", "start"}
RunSteps == Claiming \cup {"idle", "looked"}
IdleRun  == [step |-> "idle", offer |-> NoOne, saw |-> {}, left |-> {},
             todo |-> {}, site |-> NoOne, pass |-> 0]
RunRecords == [step : RunSteps, offer : Offers \cup {NoOne}, saw : SUBSET Sites,
               left : SUBSET Sites, todo : SUBSET Sites,
               site : Sites \cup {NoOne}, pass : {0, 1}]

AskSteps == {"idle", "replace", "restore", "edit"}
IdleAsk  == [step |-> "idle", offer |-> NoOne, from |-> NoOne, to |-> NoOne,
             sites |-> {}, drop |-> {}, replace |-> {},
             undo |-> [o \in Offers |-> "none"]]
AskRecords == [step : AskSteps, offer : Offers \cup {NoOne},
               from : Accounts \cup {NoOne}, to : Accounts \cup {NoOne},
               sites : SUBSET Sites, drop : SUBSET Sites, replace : SUBSET Offers,
               undo : [Offers -> {"none", "open", "paused"}]]

RecSteps == {"idle", "ask", "unlink", "link"}
IdleRec  == [step |-> "idle", account |-> NoOne, site |-> NoOne]
RecRecords == [step : RecSteps, account : Accounts \cup {NoOne},
               site : Sites \cup {NoOne}]

TypeOK ==
    /\ offers \in [Offers -> Records]
    /\ owner \in [Sites -> Accounts \cup {NoOne}]
    /\ markers \subseteq Pairs
    /\ young \subseteq Pairs
    /\ run \in [Runs -> RunRecords]
    /\ ask \in [Asks -> AskRecords]
    /\ rec \in RecRecords
    /\ moved \in [Offers -> SUBSET Sites]
    /\ faults \in Nat

\* Every site has an owner and its marker; nothing is offered yet.
Init ==
    /\ offers = [o \in Offers |-> NoOffer]
    /\ owner \in [Sites -> Accounts]
    /\ markers = {<<owner[x], x>> : x \in Sites}
    /\ young = {}
    /\ run = [r \in Runs |-> IdleRun]
    /\ ask = [c \in Asks |-> IdleAsk]
    /\ rec = IdleRec
    /\ moved = [o \in Offers |-> {}]
    /\ faults = 0

(***************************************************************************)
(* The offer store: every write is one read-modify-write under its mutex.  *)
(***************************************************************************)

\* !IsFinal: the offer still holds its sites.
Holds(o) == offers[o].state \in Held

\* Mutant: the rule is checked at creation only.
SitesFreeAlways(o, S) == TRUE

\* checkSitesFree: no other offer that is not final holds one of the sites.
SitesFree(o, S) == \A p \in Offers \ {o} : Holds(p) => offers[p].sites \cap S = {}

\* UpdateOffer: an offer that is not final keeps the rule, or is not written.
UpdateOffer(o, new) ==
    /\ new.state \in Held => SitesFree(o, new.sites)
    /\ offers' = [offers EXCEPT ![o] = new]

SetState(o, s) == UpdateOffer(o, [offers[o] EXCEPT !.state = s])

\* Mutant: an offer being accepted can still be changed.
EditableInFlight(o) == offers[o].state \in Held

Editable(o) == offers[o].state \in {"open", "paused"}

(***************************************************************************)
(* The sender.                                                             *)
(***************************************************************************)

\* openOffersOf: the offers that are not final and hold one of the sites.
OffersOf(S) == {o \in Offers : Holds(o) /\ offers[o].sites \cap S # {}}

\* planOffer and the confirm page: the sites are the sender's (ownable) and
\* the offers in the way are the sender's own and editable, as read now;
\* createOffer follows with whatever has become of them.
PlanOffer(c) ==
    /\ ask[c] = IdleAsk
    /\ \E from, to \in Accounts, S \in (SUBSET Sites) \ {{}} :
        /\ from # to
        /\ \A x \in S : owner[x] = from
        /\ \A o \in OffersOf(S) : offers[o].from = from /\ Editable(o)
        /\ ask' = [ask EXCEPT ![c] = [IdleAsk EXCEPT !.step = "replace", !.from = from,
                                          !.to = to, !.sites = S,
                                          !.replace = OffersOf(S)]]
    /\ UNCHANGED <<storeVars, indexVars, run, rec, faults>>

\* The request goes on to put back the offers in undo, or ends.
PutBack(c, undo) ==
    ask' = [ask EXCEPT ![c] = IF \A o \in Offers : undo[o] = "none" THEN IdleAsk
                              ELSE [@ EXCEPT !.step = "restore", !.replace = {},
                                             !.undo = undo]]

\* createOffer: the replaced offers are cancelled one by one; one that can no
\* longer be changed stops the request, which puts the others back.
CancelReplaced(c) ==
    /\ ask[c].step = "replace"
    /\ \E o \in ask[c].replace :
        \/ /\ Editable(o)
           /\ SetState(o, "cancelled")
           /\ ask' = [ask EXCEPT ![c].replace = @ \ {o},
                                 ![c].undo = [@ EXCEPT ![o] = offers[o].state]]
        \/ /\ ~Editable(o)
           /\ PutBack(c, ask[c].undo)
           /\ UNCHANGED offers
    /\ UNCHANGED <<owner, moved, indexVars, run, rec, faults>>

\* CreateOffer: a fresh record, if no other offer holds a site of it.
CreateOffer(c) ==
    /\ ask[c].step = "replace" /\ ask[c].replace = {}
    /\ \E o \in Offers, w \in {"early", "in"} :
        /\ offers[o].state = "none"
        /\ UpdateOffer(o, [state |-> "open", sites |-> ask[c].sites, from |-> ask[c].from,
                           to |-> ask[c].to, done |-> {}, window |-> w])
    /\ ask' = [ask EXCEPT ![c] = IdleAsk]
    /\ UNCHANGED <<owner, moved, indexVars, run, rec, faults>>

\* The store refuses: a site is offered again, or the daily limit is reached.
CreateRefused(c) ==
    /\ ask[c].step = "replace" /\ ask[c].replace = {}
    /\ PutBack(c, ask[c].undo)
    /\ UNCHANGED <<storeVars, indexVars, run, rec, faults>>

\* restore: a cancelled offer gets the state it had, whatever it is in by now,
\* unless a site of it is in another offer meanwhile (the error is logged).
Restore(c) ==
    /\ ask[c].step = "restore"
    /\ \E o \in Offers :
        /\ ask[c].undo[o] # "none"
        /\ IF SitesFree(o, offers[o].sites) THEN SetState(o, ask[c].undo[o])
                                            ELSE UNCHANGED offers
        /\ PutBack(c, [ask[c].undo EXCEPT ![o] = "none"])
    /\ UNCHANGED <<owner, moved, indexVars, run, rec, faults>>

\* handleTransferSites, its checks: the additions are the sender's and in no
\* other offer, as read now.
PlanEdit(c) ==
    /\ ask[c] = IdleAsk
    /\ \E o \in Offers : \E drop \in SUBSET offers[o].sites,
                            add \in SUBSET (Sites \ offers[o].sites) :
        /\ Editable(o)
        /\ add \cup drop # {}
        /\ \A x \in add : owner[x] = offers[o].from
        /\ SitesFree(o, add)
        /\ ask' = [ask EXCEPT ![c] = [IdleAsk EXCEPT !.step = "edit", !.offer = o,
                                          !.from = offers[o].from, !.sites = add,
                                          !.drop = drop]]
    /\ UNCHANGED <<storeVars, indexVars, run, rec, faults>>

\* editOffer with bundleAfter: the offer as it is at the write, if it is still
\* editable, the bundle does not become empty and the store lets it.
EditSites(c) ==
    /\ ask[c].step = "edit"
    /\ LET o == ask[c].offer
           bundle == (offers[o].sites \ ask[c].drop) \cup ask[c].sites
       IN  \/ /\ Editable(o) /\ bundle # {}
              /\ UpdateOffer(o, [offers[o] EXCEPT !.sites = bundle])
           \/ /\ ~Editable(o) \/ bundle = {} \/ ~SitesFree(o, bundle)
              /\ UNCHANGED offers
    /\ ask' = [ask EXCEPT ![c] = IdleAsk]
    /\ UNCHANGED <<owner, moved, indexVars, run, rec, faults>>

\* handleTransferCancel, and an account's deletion ending the offers it made.
Cancel(o) ==
    /\ Editable(o)
    /\ SetState(o, "cancelled")
    /\ UNCHANGED <<owner, moved, indexVars, run, ask, rec, faults>>

\* handleTransferDates.
EditDates(o) ==
    /\ Editable(o)
    /\ \E w \in {"early", "in"} : UpdateOffer(o, [offers[o] EXCEPT !.window = w])
    /\ UNCHANGED <<owner, moved, indexVars, run, ask, rec, faults>>

\* The owner deletes a site (from the dashboard or with the edit password);
\* the dashboard drops the marker, and nothing else does.
DeleteSite(x) ==
    /\ owner[x] # NoOne
    /\ owner' = [owner EXCEPT ![x] = NoOne]
    /\ markers' \in {markers, markers \ {<<owner[x], x>>}}
    /\ young' = young \cap markers'
    /\ UNCHANGED <<offers, moved, run, ask, rec, faults>>

(***************************************************************************)
(* The recipient.                                                          *)
(***************************************************************************)

\* Mutant: the state is not checked again in the write.
DeclineAsSeen(o) ==
    /\ Holds(o) /\ offers[o].window # "early"
    /\ SetState(o, "declined")
    /\ UNCHANGED <<owner, moved, indexVars, run, ask, rec, faults>>

\* handleTakeoverDecline: its dates are checked before, its state in the write.
Decline(o) ==
    /\ Editable(o) /\ offers[o].window # "early"
    /\ SetState(o, "declined")
    /\ UNCHANGED <<owner, moved, indexVars, run, ask, rec, faults>>

\* recipientOffer and openForRecipient: the bundle the recipient saw is the
\* offer's as read now.
LookAtOffer(r) ==
    /\ run[r] = IdleRun
    /\ \E o \in Offers :
        /\ offers[o].state = "open" /\ offers[o].window = "in"
        /\ run' = [run EXCEPT ![r] = [IdleRun EXCEPT !.step = "looked", !.offer = o,
                                          !.saw = offers[o].sites]]
    /\ UNCHANGED <<storeVars, indexVars, ask, rec, faults>>

\* claimAccept: one run per offer in this process.
Claimed(o) == \E r \in Runs : run[r].step \in Claiming /\ run[r].offer = o

Stop(r)     == run' = [run EXCEPT ![r] = IdleRun]
GoTo(r, st) == run' = [run EXCEPT ![r].step = st]

Claim(r) ==
    /\ run[r].step = "looked"
    /\ IF Claimed(run[r].offer) THEN Stop(r) ELSE GoTo(r, "check")
    /\ UNCHANGED <<storeVars, indexVars, ask, rec, faults>>

\* The owner check of acceptCheck, by meta.json.
StillSenders(o, S) == \A x \in S : owner[x] = offers[o].from

\* acceptCheck on the offer the request read: a pause, a plan or a limit
\* refuses it; a host conflict pauses the offer; or it passes.
CheckAccept(r) ==
    /\ run[r].step = "check"
    /\ \/ Stop(r)
       \/ StillSenders(run[r].offer, run[r].saw) /\ GoTo(r, "pause")
       \/ StillSenders(run[r].offer, run[r].saw) /\ GoTo(r, "start")
    /\ UNCHANGED <<storeVars, indexVars, ask, rec, faults>>

\* pauseOffer: only an offer that is still open.
PauseOffer(r) ==
    /\ run[r].step = "pause"
    /\ IF offers[run[r].offer].state = "open" THEN SetState(run[r].offer, "paused")
                                              ELSE UNCHANGED offers
    /\ Stop(r)
    /\ UNCHANGED <<owner, moved, indexVars, ask, rec, faults>>

\* What the one state change still asks of the offer.
Startable(o, saw) ==
    offers[o].state = "open" /\ offers[o].sites = saw /\ offers[o].window = "in"

\* notDone.
NotDone(o) == offers[o].sites \ offers[o].done

\* The one state change that decides every race, then runAccepting.
StartAccepting(r) ==
    /\ run[r].step = "start"
    /\ LET o == run[r].offer IN
        \/ /\ Startable(o, run[r].saw)
           /\ SetState(o, "accepting")
           /\ run' = [run EXCEPT ![r].step = "record", ![r].left = NotDone(o)]
        \/ /\ ~Startable(o, run[r].saw)
           /\ Stop(r)
           /\ UNCHANGED offers
    /\ UNCHANGED <<owner, moved, indexVars, ask, rec, faults>>

(***************************************************************************)
(* Moving the sites: runAccepting, by the accept or by the loop.           *)
(***************************************************************************)

\* finishAccepting and completeAccepting: an accepting offer nobody moves.
PickAccepting(o) ==
    /\ run[Loop] = IdleRun /\ rec = IdleRec
    /\ offers[o].state = "accepting" /\ ~Claimed(o)
    /\ run' = [run EXCEPT ![Loop] = [IdleRun EXCEPT !.step = "record", !.offer = o,
                                         !.left = NotDone(o)]]
    /\ UNCHANGED <<storeVars, indexVars, ask, rec, faults>>

\* LinkSite: a marker linked again is young again.
Link(a, x) ==
    /\ markers' = markers \cup {<<a, x>>}
    /\ young' = young \cup {<<a, x>>}
    /\ UNCHANGED faults

\* UnlinkSite.
Unlink(a, x) ==
    /\ markers' = markers \ {<<a, x>>}
    /\ young' = young \ {<<a, x>>}
    /\ UNCHANGED faults

\* An index write fails and is only logged.
IndexFails ==
    /\ faults < MaxFaults /\ faults' = faults + 1
    /\ UNCHANGED indexVars

\* Mutant: what an earlier run moved is not looked for.
ArrivedNever(o, x) == FALSE

\* By meta.json the site is the recipient's: it moved in an earlier run.
Arrived(o, x) == owner[x] = offers[o].to

\* recordMoved: the bookkeeping of the sites that moved, or the rest to do.
RecordMoved(r) ==
    /\ run[r].step = "record"
    /\ LET o == run[r].offer IN
        \/ \E x \in run[r].left :
            IF Arrived(o, x)
            THEN /\ run' = [run EXCEPT ![r].step = "unlink", ![r].site = x, ![r].left = @ \ {x}]
                 /\ Link(offers[o].to, x) \/ IndexFails
            ELSE /\ run' = [run EXCEPT ![r].left = @ \ {x}, ![r].todo = @ \cup {x}]
                 /\ UNCHANGED <<indexVars, faults>>
        \/ /\ run[r].left = {}
           /\ GoTo(r, "decide")
           /\ UNCHANGED <<indexVars, faults>>
    /\ UNCHANGED <<storeVars, ask, rec>>

\* Mutant: the second look is not counted.
DecideAgain(r) ==
    /\ run[r].step = "decide"
    /\ LET o == run[r].offer
           gone == ~StillSenders(o, run[r].todo)
       IN  \/ run[r].todo = {} /\ GoTo(r, "finish")
           \/ run[r].todo # {} /\ (r # Loop \/ ~gone) /\ GoTo(r, "link")
           \/ /\ run[r].todo # {} /\ r = Loop /\ gone
              /\ run' = [run EXCEPT ![r].step = "record", ![r].left = NotDone(o),
                                    ![r].todo = {}]
    /\ UNCHANGED <<storeVars, indexVars, ask, rec, faults>>

\* The re-check before the moves, which the accept itself skips: a site that is
\* no longer the sender's is looked at once more.  The rest stays with the
\* sender when it is still not, when the check refuses for another reason, and
\* (the accept's too) when the recipient's account is gone.
Decide(r) ==
    /\ run[r].step = "decide"
    /\ LET o == run[r].offer
           gone == ~StillSenders(o, run[r].todo)
       IN  \/ run[r].todo = {} /\ GoTo(r, "finish")
           \/ run[r].todo # {} /\ (r # Loop \/ ~gone) /\ GoTo(r, "link")
           \/ /\ run[r].todo # {} /\ r = Loop /\ gone /\ run[r].pass = 0
              /\ run' = [run EXCEPT ![r].step = "record", ![r].pass = 1,
                                    ![r].left = NotDone(o), ![r].todo = {}]
           \/ run[r].todo # {} /\ GoTo(r, "give up")
    /\ UNCHANGED <<storeVars, indexVars, ask, rec, faults>>

\* moveSite: the recipient's marker first.
LinkRecipient(r) ==
    /\ run[r].step = "link"
    /\ \/ \E x \in run[r].todo :
            /\ Link(offers[run[r].offer].to, x)
            /\ run' = [run EXCEPT ![r].step = "transfer", ![r].site = x]
       \/ /\ run[r].todo = {}
          /\ GoTo(r, "finish")
          /\ UNCHANGED <<indexVars, faults>>
    /\ UNCHANGED <<storeVars, ask, rec>>

\* TransferSite: under the site lock, if the sender still owns the site.
TransferSite(r) ==
    /\ run[r].step = "transfer"
    /\ LET o == run[r].offer
           x == run[r].site
       IN  \/ /\ owner[x] = offers[o].from
              /\ owner' = [owner EXCEPT ![x] = offers[o].to]
              /\ moved' = [moved EXCEPT ![o] = @ \cup {x}]
              /\ GoTo(r, "unlink")
           \/ /\ owner[x] # offers[o].from
              /\ Stop(r)
              /\ UNCHANGED <<owner, moved>>
    /\ UNCHANGED <<offers, indexVars, ask, rec, faults>>

\* afterMove: the sender's marker goes; a failure is logged.
UnlinkSender(r) ==
    /\ run[r].step = "unlink"
    /\ Unlink(offers[run[r].offer].from, run[r].site) \/ IndexFails
    /\ GoTo(r, "mark")
    /\ UNCHANGED <<storeVars, ask, rec>>

\* markDone; the run goes on with recordMoved or with the next move.
MarkDone(r) ==
    /\ run[r].step = "mark"
    /\ LET o == run[r].offer
           x == run[r].site
       IN  /\ offers[o].state = "accepting"
           /\ UpdateOffer(o, [offers[o] EXCEPT !.done = @ \cup {x}])
           /\ run' = [run EXCEPT ![r].step = IF x \in run[r].todo THEN "link" ELSE "record",
                                 ![r].todo = @ \ {x}, ![r].site = NoOne]
    /\ UNCHANGED <<owner, moved, indexVars, ask, rec, faults>>

\* The last write: every site is done.
Finish(r) ==
    /\ run[r].step = "finish"
    /\ offers[run[r].offer].state = "accepting" /\ NotDone(run[r].offer) = {}
    /\ SetState(run[r].offer, "accepted")
    /\ Stop(r)
    /\ UNCHANGED <<owner, moved, indexVars, ask, rec, faults>>

\* endAccepting: the sites that are not done stay with the sender.
GiveUp(r) ==
    /\ run[r].step = "give up"
    /\ LET o == run[r].offer IN
        /\ offers[o].state = "accepting"
        /\ SetState(o, IF offers[o].done # {} THEN "accepted" ELSE "ended")
    /\ Stop(r)
    /\ UNCHANGED <<owner, moved, indexVars, ask, rec, faults>>

\* An error stops a run where it is; the offer stays as the run left it.
RunFails(r) ==
    /\ run[r].step \in Claiming /\ faults < MaxFaults
    /\ faults' = faults + 1
    /\ Stop(r)
    /\ UNCHANGED <<storeVars, indexVars, ask, rec>>

\* The server goes down: every request, the loop and the claims are gone.
Crash ==
    /\ faults < MaxFaults
    /\ faults' = faults + 1
    /\ run' = [r \in Runs |-> IdleRun]
    /\ ask' = [c \in Asks |-> IdleAsk]
    /\ rec' = IdleRec
    /\ UNCHANGED <<storeVars, indexVars>>

(***************************************************************************)
(* The background loop's other steps.  One goroutine runs them in turn.    *)
(***************************************************************************)

\* expireOffers, re-checked in the write.
Expire(o) ==
    /\ Editable(o) /\ offers[o].window = "late"
    /\ SetState(o, "expired")
    /\ UNCHANGED <<owner, moved, indexVars, run, ask, rec, faults>>

\* cancelAccountRecords: the recipient's account is being deleted; an offer
\* made to it ends as a lapse does.
RecipientLeaves(o) ==
    /\ Editable(o)
    /\ SetState(o, "expired")
    /\ UNCHANGED <<owner, moved, indexVars, run, ask, rec, faults>>

\* reopenPaused: nothing pauses the offer any more.
Reopen(o) ==
    /\ offers[o].state = "paused"
    /\ SetState(o, "open")
    /\ UNCHANGED <<owner, moved, indexVars, run, ask, rec, faults>>

\* reconcileIndex lists the markers: one that was old when it was listed, and
\* that a fresh read of its one site shows to be another's.
FindStray ==
    /\ rec = IdleRec /\ run[Loop] = IdleRun
    /\ \E m \in markers \ young :
        /\ owner[m[2]] # m[1]
        /\ rec' = [step |-> "ask", account |-> m[1], site |-> m[2]]
    /\ UNCHANGED <<storeVars, indexVars, run, ask, faults>>

\* heldByAcceptance, read last.
HeldByAcceptance(a, x) ==
    \E o \in Offers : offers[o].state = "accepting" /\ offers[o].to = a /\ x \in offers[o].sites

AskAcceptances ==
    /\ rec.step = "ask"
    /\ rec' = IF HeldByAcceptance(rec.account, rec.site)
              THEN IdleRec ELSE [rec EXCEPT !.step = "unlink"]
    /\ UNCHANGED <<storeVars, indexVars, run, ask, faults>>

UnlinkStray ==
    /\ rec.step = "unlink"
    /\ Unlink(rec.account, rec.site)
    /\ rec' = IdleRec
    /\ UNCHANGED <<storeVars, run, ask>>

\* reconcileIndex the other way: an owner without a marker, read once more.
FindMissing(x) ==
    /\ rec = IdleRec /\ run[Loop] = IdleRun
    /\ owner[x] # NoOne /\ <<owner[x], x>> \notin markers
    /\ rec' = [step |-> "link", account |-> owner[x], site |-> x]
    /\ UNCHANGED <<storeVars, indexVars, run, ask, faults>>

\* Mutant: a missing marker is not put back.
LinkNothing ==
    /\ rec.step = "link"
    /\ rec' = IdleRec
    /\ UNCHANGED <<storeVars, indexVars, run, ask, faults>>

LinkMissing ==
    /\ rec.step = "link"
    /\ Link(rec.account, rec.site)
    /\ rec' = IdleRec
    /\ UNCHANGED <<storeVars, run, ask>>

\* The dates of an offer pass.
Later(o) ==
    /\ Holds(o) /\ offers[o].window # "late"
    /\ offers' = [offers EXCEPT ![o].window = IF @ = "early" THEN "in" ELSE "late"]
    /\ UNCHANGED <<owner, moved, indexVars, run, ask, rec, faults>>

\* markerGrace passes.
Age ==
    /\ young # {}
    /\ young' = {}
    /\ UNCHANGED <<storeVars, markers, run, ask, rec, faults>>

(***************************************************************************)
(* The specification.                                                      *)
(***************************************************************************)

AskStep(c) ==
    \/ CancelReplaced(c) \/ CreateOffer(c) \/ CreateRefused(c) \/ Restore(c)
    \/ EditSites(c)

Completing(r) ==
    \/ RecordMoved(r) \/ Decide(r) \/ LinkRecipient(r) \/ TransferSite(r)
    \/ UnlinkSender(r) \/ MarkDone(r) \/ Finish(r) \/ GiveUp(r)

RunStep(r) ==
    \/ Claim(r) \/ CheckAccept(r) \/ PauseOffer(r) \/ StartAccepting(r) \/ Completing(r)

Reconcile ==
    AskAcceptances \/ UnlinkStray \/ LinkMissing

OfferStep(o) ==
    \/ Cancel(o) \/ EditDates(o) \/ Decline(o) \/ Expire(o) \/ RecipientLeaves(o)
    \/ Reopen(o) \/ Later(o)

Next ==
    \/ \E c \in Asks : PlanOffer(c) \/ PlanEdit(c) \/ AskStep(c)
    \/ \E r \in Accepts : LookAtOffer(r)
    \/ \E r \in Runs : RunStep(r) \/ RunFails(r)
    \/ \E o \in Offers : OfferStep(o) \/ PickAccepting(o)
    \/ \E x \in Sites : DeleteSite(x) \/ FindMissing(x)
    \/ FindStray \/ Reconcile \/ Age \/ Crash

Spec == Init /\ [][Next]_vars

\* A request goes on once it claimed an offer; the loop goes on, and each of
\* its ticks looks at every accepting offer and, hourly, at every site.
Fairness ==
    /\ \A r \in Runs : WF_vars(RunStep(r))
    /\ \A o \in Offers : SF_vars(PickAccepting(o))
    /\ \A x \in Sites : SF_vars(FindMissing(x))
    /\ WF_vars(Reconcile)

FairSpec == Spec /\ Fairness

(***************************************************************************)
(* What must hold.                                                         *)
(***************************************************************************)

\* A site is in at most one offer that is not final (ErrSiteOffered): the
\* one-open-offer rule of the store, over creations, edits, replacements put
\* back, pauses lifted and acceptances.
OneOfferPerSite ==
    \A o, p \in Offers :
        o # p /\ Holds(o) /\ Holds(p) => offers[o].sites \cap offers[p].sites = {}

\* A site changes hands only under an offer that is being accepted, from its
\* sender to the account it was made to: never after a cancel, a decline, an
\* expiry, a pause or an edit won the race, whatever the run saw before.
MovesUnder(o, x) ==
    /\ offers[o].state = "accepting" /\ x \in NotDone(o)
    /\ owner[x] = offers[o].from /\ owner'[x] = offers[o].to

MovesOnlyAccepted ==
    [][\A x \in Sites :
        owner'[x] \notin {owner[x], NoOne} => \E o \in Offers : MovesUnder(o, x)]_vars

\* A final state is left only by the request that cancelled the offer to replace
\* it and puts it back: an acceptance, a pause lifted or a lapse that was decided
\* on an older reading never brings an offer back.
FinalIsFinal ==
    [][\A o \in Offers :
        offers[o].state \in Finals /\ offers'[o].state # offers[o].state =>
            /\ offers[o].state = "cancelled"
            /\ \E c \in Asks : ask[c].undo[o] = offers'[o].state]_vars

\* What an offer's record says once it is final is what happened: a site the
\* core moved for it is in Done, or was deleted by its new owner before the
\* move was recorded, over crashes and lost writes at every step.
FinalIsTheTruth ==
    \A o \in Offers :
        offers[o].state \in Finals =>
            \A x \in moved[o] \ offers[o].done : owner[x] = NoOne

\* An acceptance that began is not undone: no offer of which a site moved is
\* ever open, paused, declined, expired or cancelled again.
AcceptanceGoesForward ==
    \A o \in Offers :
        moved[o] # {} => offers[o].state \in {"accepting", "accepted", "ended"}

\* An offer that is being accepted ends, whatever stopped the run that began it.
BeingAccepted(o) == offers[o].state = "accepting"

\* A site's owner finds it in its account in the end, or hands it on first.
Misses(x, a) == owner[x] = a /\ <<a, x>> \notin markers

\* The store says of an ended offer that every site stayed with the sender.
\* The code breaks it: a site whose move was not recorded may have gone.
EndedMovedNothing ==
    \A o \in Offers : offers[o].state = "ended" => moved[o] = {}

\* The loop removes a marker only after the grace and a fresh read showed it
\* wrong: never the marker of the account that owns the site.
ReconcileSparesOwner ==
    [][rec.step = "unlink" /\ rec' = IdleRec /\ markers' # markers
        => owner[rec.site] # rec.account]_vars

=============================================================================
