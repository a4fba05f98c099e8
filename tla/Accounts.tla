------------------------------ MODULE Accounts -------------------------------
(***************************************************************************)
(* An account, its sessions and its sites under the stack's orders         *)
(* (src/ee/suspend.go, src/ee/gdpr.go, src/ee/dashboard.go,                *)
(* src/ee/ownership_delete.go, src/ee/account/store.go,                    *)
(* src/ee/session/session.go).                                             *)
(*                                                                         *)
(* The stack orders an account suspended, the suspension lifted, or the    *)
(* account erased, one order at a time; an order that was not answered     *)
(* with success is sent again.  An order reads the account's sites by      *)
(* their markers and changes them one by one, while people sign in, create *)
(* and adopt sites and delete them, and the operator holds sites too.      *)
(*                                                                         *)
(* One account.  A site's owner is the truth of its meta.json; the marker  *)
(* under accounts/<id>/sites only says where to look.                      *)
(***************************************************************************)
EXTENDS Naturals

CONSTANTS
    OwnSites,   \* the sites
    Takers,     \* requests that create or adopt a site
    Cookies,    \* browsers
    NoTask,     \* nothing under way
    NoSession,  \* a browser without a session
    MaxUpsets   \* bound: failures, crashes, the operator's and others' steps


VARIABLES
    account,    \* is it there, is it suspended, its token version
    owned,      \* per site: "none" before it is there, whose it is, or gone
    marker,     \* the sites the account has a marker of
    held,       \* per site: not held, held by a suspension or the operator
    order,      \* the order under way
    owed,       \* the order the stack sends again
    taker,      \* per creation or adoption: how far it is
    cookie,     \* per browser: the version its session was signed with
    signing,    \* per browser: the version a sign-in read
    upsets,     \* upsets so far
    spared,     \* sites whose hold is not this suspension's to answer for
    lateTaken   \* sites taken while an erasure was past its check

accountsVars == <<account, owned, marker, held, order, owed, taker, cookie,
                  signing, upsets, spared, lateTaken>>

Kinds == {"suspend", "lift", "erase"}
Orders == [kind : Kinds, step : {"begin", "list", "walk", "erase"},
           todo : SUBSET OwnSites, failed : BOOLEAN]

AccountsAssumption ==
    /\ MaxUpsets \in Nat
    /\ NoTask \notin Orders \cup Kinds /\ NoTask \notin [step : {"allowed", "made"}, site : OwnSites]
    /\ NoSession \notin Nat

\* Bound of the token version that sign-outs and orders push.
MaxVersion == 2

AccountsTyped ==
    /\ account \in [there : BOOLEAN, suspended : BOOLEAN, version : Nat]
    /\ owned \in [OwnSites -> {"none", "mine", "others", "gone"}]
    /\ marker \subseteq OwnSites
    /\ held \in [OwnSites -> {"no", "account", "operator"}]
    /\ order \in Orders \cup {NoTask} /\ owed \in Kinds \cup {NoTask}
    /\ taker \in [Takers -> {NoTask} \cup
                  [step : {"allowed", "made"}, site : OwnSites]]
    /\ cookie \in [Cookies -> Nat \cup {NoSession}]
    /\ signing \in [Cookies -> Nat \cup {NoSession}]
    /\ spared \subseteq OwnSites /\ lateTaken \subseteq OwnSites

AccountsTypeOK ==
    /\ AccountsTyped
    /\ account.version <= MaxVersion + 1 /\ upsets \in 0..MaxUpsets

\* One site of the account is there, another may be taken.
AccountsInit ==
    /\ account = [there |-> TRUE, suspended |-> FALSE, version |-> 0]
    /\ \E s \in OwnSites :
         /\ owned = [t \in OwnSites |-> IF t = s THEN "mine" ELSE "none"]
         /\ marker = {s}
    /\ held = [s \in OwnSites |-> "no"]
    /\ order = NoTask /\ owed = NoTask
    /\ taker = [k \in Takers |-> NoTask]
    /\ cookie = [c \in Cookies |-> NoSession]
    /\ signing = [c \in Cookies |-> NoSession]
    /\ upsets = 0 /\ spared = {} /\ lateTaken = {}

Upset == upsets < MaxUpsets /\ upsets' = upsets + 1

(***************************************************************************)
(* Sessions: signed cookies that carry the account's token version.        *)
(***************************************************************************)

\* currentAccount: the account is there, its version the cookie's, and it is
\* not suspended.
SignedIn(c) == account.there /\ ~account.suspended /\ cookie[c] = account.version

\* A sign-in reads the account, and refuses a suspended one ...
SignInReads(c) ==
    /\ signing[c] = NoSession
    /\ account.there /\ ~account.suspended
    /\ signing' = [signing EXCEPT ![c] = account.version]
    /\ UNCHANGED <<account, owned, marker, held, order, owed, taker, cookie,
                   upsets, spared, lateTaken>>

\* ... and later signs the cookie.
SignInSets(c) ==
    /\ signing[c] # NoSession
    /\ cookie' = [cookie EXCEPT ![c] = signing[c]]
    /\ signing' = [signing EXCEPT ![c] = NoSession]
    /\ UNCHANGED <<account, owned, marker, held, order, owed, taker, upsets,
                   spared, lateTaken>>

\* handleLogout ends every session, by the version.
SignOut(c) ==
    /\ SignedIn(c) /\ account.version < MaxVersion
    /\ ~(order # NoTask /\ order.step = "erase")
    /\ account' = [account EXCEPT !.version = @ + 1]
    /\ cookie' = [cookie EXCEPT ![c] = NoSession]
    /\ UNCHANGED <<owned, marker, held, order, owed, taker, signing, upsets,
                   spared, lateTaken>>

(***************************************************************************)
(* Creating and adopting a site: allowed, then made the account's, then    *)
(* linked on the account.                                                  *)
(***************************************************************************)

\* AuthorizeCreate, or the adoption's checks.
Allow(k, s) ==
    /\ taker[k] = NoTask
    /\ \E c \in Cookies : SignedIn(c)
    /\ owned[s] = "none"
    /\ \A j \in Takers : taker[j] # NoTask => taker[j].site # s
    /\ taker' = [taker EXCEPT ![k] = [step |-> "allowed", site |-> s]]
    /\ UNCHANGED <<account, owned, marker, held, order, owed, cookie, signing,
                   upsets, spared, lateTaken>>

PastCheck == ~account.there \/ (order # NoTask /\ order.step = "erase")

\* The site's meta.json names the account.
Make(k) ==
    /\ taker[k] # NoTask /\ taker[k].step = "allowed"
    /\ owned' = [owned EXCEPT ![taker[k].site] = "mine"]
    /\ taker' = [taker EXCEPT ![k].step = "made"]
    /\ lateTaken' = IF PastCheck THEN lateTaken \cup {taker[k].site} ELSE lateTaken
    /\ spared' = spared \cup {taker[k].site}
    /\ UNCHANGED <<account, marker, held, order, owed, cookie, signing, upsets>>

\* OnSiteCreated: the marker, under the account's lock, if the account is
\* still there; or the process dies, or the write fails, and there is none.
Link(k) ==
    /\ taker[k] # NoTask /\ taker[k].step = "made"
    /\ \/ /\ ~(order # NoTask /\ order.step = "erase")
          /\ marker' = IF account.there THEN marker \cup {taker[k].site} ELSE marker
          /\ UNCHANGED upsets
       \/ Upset /\ UNCHANGED marker
    /\ taker' = [taker EXCEPT ![k] = NoTask]
    /\ UNCHANGED <<account, owned, held, order, owed, cookie, signing, spared,
                   lateTaken>>

(***************************************************************************)
(* Orders.                                                                 *)
(***************************************************************************)

OrderStart(kind) ==
    /\ order = NoTask /\ account.there /\ owed \in {NoTask, kind}
    /\ kind = "suspend" => account.version < MaxVersion
    /\ order' = [kind |-> kind, step |-> "begin", todo |-> {}, failed |-> FALSE]
    /\ owed' = kind
    /\ UNCHANGED <<account, owned, marker, held, taker, cookie, signing, upsets,
                   spared, lateTaken>>

At(kind, step) == order # NoTask /\ order.kind = kind /\ order.step = step

\* MUTANT: a suspension is trusted to refuse the sessions by itself.
MarkSuspendedOnly ==
    /\ At("suspend", "begin")
    /\ account' = [account EXCEPT !.suspended = TRUE]
    /\ order' = [order EXCEPT !.step = "list"]
    /\ UNCHANGED <<owned, marker, held, owed, taker, cookie, signing, upsets, spared, lateTaken>>

\* The account's own state first: the mark, and every session's end.
MarkSuspended ==
    /\ At("suspend", "begin")
    /\ account' = [account EXCEPT !.suspended = TRUE, !.version = @ + 1]
    /\ order' = [order EXCEPT !.step = "list"]
    /\ UNCHANGED <<owned, marker, held, owed, taker, cookie, signing, upsets,
                   spared, lateTaken>>

MarkLifted ==
    /\ At("lift", "begin")
    /\ account' = [account EXCEPT !.suspended = FALSE]
    /\ order' = [order EXCEPT !.step = "list"]
    /\ UNCHANGED <<owned, marker, held, owed, taker, cookie, signing, upsets,
                   spared, lateTaken>>

\* ownedSiteIDs: the marked sites that are the account's, or gone; a site whose
\* owner cannot be read is left out and makes the order fail.
List ==
    /\ order # NoTask /\ order.step = "list"
    /\ LET mine == {s \in marker : owned[s] \in {"mine", "gone"}}
       IN  \/ /\ order' = [order EXCEPT !.step = "walk", !.todo = mine]
              /\ UNCHANGED upsets
           \/ \E s \in mine :
                /\ Upset
                /\ order' = [order EXCEPT !.step = "walk", !.todo = mine \ {s},
                                          !.failed = TRUE]
    /\ UNCHANGED <<account, owned, marker, held, owed, taker, cookie, signing,
                   spared, lateTaken>>

\* eachSite, one site: SetLock never replaces a lock, ReleaseLock lifts only
\* the suspension's; a site that is gone loses its marker; a failure is
\* counted and stops nothing.
Walk(s) ==
    /\ order # NoTask /\ order.step = "walk" /\ s \in order.todo
    /\ \/ /\ order' = [order EXCEPT !.todo = @ \ {s}]
          /\ IF owned[s] = "gone"
             THEN marker' = marker \ {s} /\ UNCHANGED held
             ELSE /\ held' = [held EXCEPT ![s] =
                        CASE order.kind = "suspend" /\ @ = "no" -> "account"
                          [] order.kind = "lift" /\ @ = "account" -> "no"
                          [] OTHER -> @]
                  /\ UNCHANGED marker
          /\ spared' = spared \ {s}
          /\ UNCHANGED upsets
       \/ /\ Upset
          /\ order' = [order EXCEPT !.todo = @ \ {s}, !.failed = TRUE]
          /\ UNCHANGED <<marker, held, spared>>
    /\ UNCHANGED <<account, owned, owed, taker, cookie, signing, lateTaken>>

\* MUTANT: an order is answered with success whatever failed.
WalkEndsWell ==
    /\ order # NoTask /\ order.step = "walk" /\ order.todo = {}
    /\ order' = NoTask /\ owed' = NoTask
    /\ UNCHANGED <<account, owned, marker, held, taker, cookie, signing, upsets, spared, lateTaken>>

\* The answer: success, or a 500 that the stack repeats the order for.
WalkEnds ==
    /\ order # NoTask /\ order.step = "walk" /\ order.todo = {}
    /\ order' = NoTask
    /\ owed' = IF order.failed THEN order.kind ELSE NoTask
    /\ UNCHANGED <<account, owned, marker, held, taker, cookie, signing, upsets,
                   spared, lateTaken>>

(***************************************************************************)
(* Erasing the account, by the stack's order or its owner.                 *)
(***************************************************************************)

Mine == {s \in OwnSites : owned[s] = "mine"}

\* MUTANT: the check looks at the sites that have a marker.
CheckMarked ==
    /\ At("erase", "begin")
    /\ IF \E s \in Mine \cap marker : held[s] # "no"
       THEN order' = NoTask /\ owed' = NoTask
       ELSE order' = [order EXCEPT !.step = "erase", !.todo = marker] /\ UNCHANGED owed
    /\ UNCHANGED <<account, owned, marker, held, taker, cookie, signing, upsets, spared, lateTaken>>

\* lockedSites: every site meta.json gives the account is marked first, then a
\* held one refuses the erasure.  Delete takes the account's lock and lists
\* the markers.
CheckErase ==
    /\ At("erase", "begin")
    /\ marker' = marker \cup Mine
    /\ IF \E s \in Mine : held[s] # "no"
       THEN order' = NoTask /\ owed' = NoTask
       ELSE order' = [order EXCEPT !.step = "erase", !.todo = marker'] /\ UNCHANGED owed
    /\ UNCHANGED <<account, owned, held, taker, cookie, signing, upsets, spared,
                   lateTaken>>

\* deleteOwnedSite: deleted if meta.json still names the account and nothing
\* holds it; a hold placed since, or a failure, stops the deletion.
EraseSite(s) ==
    /\ At("erase", "erase") /\ s \in order.todo
    /\ \/ /\ owned[s] # "mine" \/ held[s] = "no"
          /\ owned' = [owned EXCEPT ![s] = IF @ = "mine" THEN "gone" ELSE @]
          /\ order' = [order EXCEPT !.todo = @ \ {s}]
          /\ UNCHANGED upsets
       \/ /\ owned[s] = "mine" /\ held[s] # "no"
          /\ order' = NoTask /\ UNCHANGED <<owned, upsets>>
       \/ Upset /\ order' = NoTask /\ UNCHANGED owned
    /\ UNCHANGED <<account, marker, held, owed, taker, cookie, signing, spared,
                   lateTaken>>

\* The indexes and the folder with its markers.
EraseAccount ==
    /\ At("erase", "erase") /\ order.todo = {}
    /\ account' = [account EXCEPT !.there = FALSE]
    /\ marker' = {}
    /\ order' = NoTask /\ owed' = NoTask
    /\ UNCHANGED <<owned, held, taker, cookie, signing, upsets, spared, lateTaken>>

(***************************************************************************)
(* The operator, the owner, and the sites' other lives.                    *)
(***************************************************************************)

OperatorHolds(s) ==
    /\ Upset /\ owned[s] \in {"mine", "others"}
    /\ held' = [held EXCEPT ![s] = "operator"]
    /\ UNCHANGED <<account, owned, marker, order, owed, taker, cookie, signing,
                   spared, lateTaken>>

\* The operator's unlock lifts a suspension's lock too.
OperatorLifts(s) ==
    /\ Upset /\ held[s] # "no"
    /\ held' = [held EXCEPT ![s] = "no"]
    /\ spared' = spared \cup {s}
    /\ UNCHANGED <<account, owned, marker, order, owed, taker, cookie, signing,
                   lateTaken>>

\* The owner's delete, from the edit page: the marker stays behind.
SiteGoes(s) ==
    /\ Upset /\ owned[s] = "mine" /\ held[s] = "no"
    /\ owned' = [owned EXCEPT ![s] = "gone"]
    /\ UNCHANGED <<account, marker, held, order, owed, taker, cookie, signing,
                   spared, lateTaken>>

\* A transfer: meta.json names another account, the marker stays until it is
\* dropped.
SiteMoves(s) ==
    /\ Upset /\ owned[s] = "mine" /\ held[s] = "no"
    /\ owned' = [owned EXCEPT ![s] = "others"]
    /\ UNCHANGED <<account, marker, held, order, owed, taker, cookie, signing,
                   spared, lateTaken>>

AccountsNext ==
    \/ \E c \in Cookies : SignInReads(c) \/ SignInSets(c) \/ SignOut(c)
    \/ \E k \in Takers : Make(k) \/ Link(k) \/ \E s \in OwnSites : Allow(k, s)
    \/ \E kind \in Kinds : OrderStart(kind)
    \/ MarkSuspended \/ MarkLifted \/ List \/ WalkEnds \/ CheckErase \/ EraseAccount
    \/ \E s \in OwnSites :
         \/ Walk(s) \/ EraseSite(s) \/ OperatorHolds(s) \/ OperatorLifts(s)
         \/ SiteGoes(s) \/ SiteMoves(s)

(***************************************************************************)
(* What is promised.                                                       *)
(***************************************************************************)

\* Once the stack's order is answered with success, the locks agree with it,
\* whatever failed and was repeated before: under a suspension every marked
\* site of the account is held, but those the operator released and those no
\* order found marked since they were taken; after it was lifted none is held by it.
LocksFollowTheOrder ==
    order = NoTask /\ owed = NoTask /\ account.there =>
        \A s \in marker : owned[s] = "mine" =>
            IF account.suspended THEN s \in spared \/ held[s] # "no"
            ELSE held[s] # "account"

\* A session that a suspension or a sign-out ended does not come back, not
\* when the suspension is lifted, and not for a sign-in that was under way.
EndedStayEnded ==
    \A c \in Cookies : ~SignedIn(c) /\ SignedIn(c)' => cookie'[c] # cookie[c]

\* An erased account leaves no site of its own behind, not even one whose
\* marker a crash kept from being written; only a site taken while the erasure
\* was past its check may stay.
ErasureTakesItsSites == ~account.there => Mine \subseteq lateTaken

(***************************************************************************)
(* Why it holds.                                                           *)
(***************************************************************************)

\* A session was signed no later than the account is now, and before the
\* suspension it is under.
Signed(v) == v # NoSession => v <= account.version /\ (account.suspended => v < account.version)
SessionsInv == \A c \in Cookies : Signed(cookie[c]) /\ Signed(signing[c])

\* The stack repeats the order that is under way, which has set the account's mark.
OrderInv ==
    order # NoTask =>
        /\ account.there /\ order.kind = owed
        /\ order.step \in IF order.kind = "erase" THEN {"begin", "erase"} ELSE {"begin", "list", "walk"}
        /\ order.step \in {"list", "walk"} => (account.suspended <=> order.kind = "suspend")
        /\ \A s \in order.todo : owned[s] # "none" /\ (owned[s] = "mine" => s \in marker)

\* A site that is to be taken is not there, and nobody else takes it.
TakersInv ==
    \A k \in Takers : taker[k] # NoTask =>
        /\ owned[taker[k].site] = "none" <=> taker[k].step = "allowed"
        /\ \A j \in Takers : taker[j] # NoTask /\ taker[j].site = taker[k].site => j = k

\* No order has met a site that was never marked.
UnmetInv ==
    \A s \in OwnSites :
        /\ owned[s] = "none" => s \notin marker /\ held[s] = "no"
        /\ account.there /\ owned[s] = "mine" /\ s \notin marker => s \in spared /\ held[s] # "account"

\* What the site's hold must be; an order not done with may still have it to change.
Agrees(s) == IF account.suspended THEN s \in spared \/ held[s] # "no" ELSE held[s] # "account"
Open(s) ==
    /\ owed \in {"suspend", "lift"}
    /\ order # NoTask /\ order.step = "walk" => s \in order.todo \/ order.failed
LocksInv == account.there => \A s \in marker : owned[s] = "mine" => Agrees(s) \/ Open(s)

ErasureInv ==
    /\ At("erase", "erase") => Mine \subseteq order.todo \cup lateTaken
    /\ ErasureTakesItsSites

AccountsInv == SessionsInv /\ OrderInv /\ TakersInv /\ UnmetInv /\ LocksInv /\ ErasureInv
==============================================================================
