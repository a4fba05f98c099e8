-------------------------------- MODULE Zones --------------------------------
(***************************************************************************)
(* Account zones (internal/store/zones.go): an account that proves a zone  *)
(* by DNS holds every name inside it without further proof, and nobody     *)
(* else may attach one.                                                    *)
(*                                                                         *)
(* A zone is a file: zones/<zone>.json once verified, and before that one  *)
(* pending file per account that claims it.  zones.mu serialises the       *)
(* writes of files, but not the DNS lookups and not the look at the        *)
(* domains already attached inside, which may take seconds: those are      *)
(* steps of their own here.  What DNS answers is up to the environment.    *)
(*                                                                         *)
(* Dates are left out: any pending claim may be past its seven days and    *)
(* any revocation window over its 72 hours when the sweep asks.            *)
(***************************************************************************)
EXTENDS Naturals, FiniteSets

CONSTANTS
    Accounts,
    ZoneNames,
    Names,        \* custom domains that sites may attach
    Inside,       \* the names inside each zone, the zone itself included
    Nested,       \* pairs of different zones of which one lies in the other
    Claimants,    \* requests: an owner claims a zone, or asks again
    Attachers,    \* requests: an owner attaches a name
    ZSweep,       \* the hourly sweep, ReconcileZones
    NoAccount

ZonesAssumption ==
    /\ NoAccount \notin Accounts
    /\ ZSweep \notin Claimants
    /\ Inside \in [ZoneNames -> SUBSET Names]
    /\ Nested \subseteq ZoneNames \X ZoneNames
    /\ \A p \in Nested : p[1] # p[2] /\ <<p[2], p[1]>> \in Nested

Checkers == Claimants \cup {ZSweep}

VARIABLES
    verified,   \* zones/<zone>.json: the account that holds the zone
    failing,    \* whether its revocation window runs
    pending,    \* zones/pending/: the accounts that claim each zone
    check,      \* what each checker is doing
    toCheck,    \* the zone files the sweep read and has not come to
    holder,     \* the owner of the site that has each name attached
    asking,     \* the account for which each attacher has passed the gate, per name
    late        \* names attached while a check of their zone was under way

zvars == <<verified, failing, pending, check, toCheck, holder, asking, late>>

Overlap(y, z) == y = z \/ <<y, z>> \in Nested
Zones(n) == {z \in ZoneNames : n \in Inside[z]}
Idle == [step |-> "idle"]
Kinds == {"verified", "pending", "seen"}
Files == [zone : ZoneNames, account : Accounts, kind : Kinds]

ZonesTypeOK ==
    /\ verified \in [ZoneNames -> Accounts \cup {NoAccount}]
    /\ failing \in [ZoneNames -> BOOLEAN]
    /\ pending \in [ZoneNames -> SUBSET Accounts]
    /\ check \in [Checkers ->
         {Idle} \cup [step : {"look", "ask", "record"}, zone : ZoneNames, account : Accounts]
                \cup [step : {"renew"}, zone : ZoneNames, account : Accounts, ok : BOOLEAN]]
    /\ toCheck \subseteq Files
    /\ holder \in [Names -> Accounts \cup {NoAccount}]
    /\ asking \in [Attachers -> (Names \X Accounts) \cup {<<>>}]
    /\ late \subseteq Names

ZonesInit ==
    /\ verified = [z \in ZoneNames |-> NoAccount]
    /\ failing = [z \in ZoneNames |-> FALSE]
    /\ pending = [z \in ZoneNames |-> {}]
    /\ check = [c \in Checkers |-> Idle]
    /\ toCheck = {}
    /\ holder = [n \in Names |-> NoAccount]
    /\ asking = [r \in Attachers |-> <<>>]
    /\ late = {}

\* accountZoneFor: the verified zone a name lies in.
HeldBy(n) == {verified[z] : z \in Zones(n)} \ {NoAccount}

\* zoneConflicts: names inside the zone attached to a site of somebody else.
Conflicts(z, a) == {n \in Inside[z] : holder[n] \notin {a, NoAccount}}

Goto(c, r) == check' = [check EXCEPT ![c] = r]
Stop(c) == Goto(c, Idle)

(***************************************************************************)
(* A claim.                                                                *)
(***************************************************************************)

\* ClaimZone up to the release of the mutex: a verified zone that overlaps
\* refuses it, whoever holds that one; the plan may refuse a new claim.  A
\* claim made just now is looked up at once only where nothing is looked up
\* at all (verification off), for a resolver would remember the absence.
Claim(c, z, a) ==
    /\ check[c] = Idle
    /\ \A y \in ZoneNames : Overlap(y, z) /\ verified[y] # NoAccount => y = z /\ verified[y] = a
    /\ verified[z] # a
    /\ \/ /\ a \notin pending[z]
          /\ pending' = [pending EXCEPT ![z] = @ \cup {a}]
          /\ \/ Stop(c)
             \/ Goto(c, [step |-> "look", zone |-> z, account |-> a])
       \/ /\ a \in pending[z]
          /\ Goto(c, [step |-> "look", zone |-> z, account |-> a])
          /\ UNCHANGED pending
    /\ UNCHANGED <<verified, failing, toCheck, holder, asking, late>>

\* Mutant: DNS alone decides.
LookAway(c) ==
    /\ check[c].step = "look"
    /\ Goto(c, [check[c] EXCEPT !.step = "ask"])
    /\ UNCHANGED <<verified, failing, pending, toCheck, holder, asking, late>>

\* checkZone, its first half: a conflict makes the answer no, whatever DNS says.
LookForConflicts(c) ==
    /\ check[c].step = "look"
    /\ \/ /\ Conflicts(check[c].zone, check[c].account) = {}
          /\ Goto(c, [check[c] EXCEPT !.step = "ask"])
       \/ /\ Conflicts(check[c].zone, check[c].account) # {}
          /\ Stop(c)
    /\ UNCHANGED <<verified, failing, pending, toCheck, holder, asking, late>>

\* checkZone, its second half: VerifyZone.  A lookup that fails changes
\* nothing; a definite no is recorded, which changes nothing modelled.
Lookup(c) ==
    /\ check[c].step = "ask"
    /\ \/ Stop(c)
       \/ Goto(c, [check[c] EXCEPT !.step = "record"])
    /\ UNCHANGED <<verified, failing, pending, toCheck, holder, asking, late>>

Promote(c) ==
    LET z == check[c].zone  a == check[c].account
    IN  /\ verified' = [verified EXCEPT ![z] = a]
        /\ failing' = [failing EXCEPT ![z] = FALSE]

\* Mutant: the zones verified since the claim are not looked at again.
RecordUnasked(c) ==
    /\ check[c].step = "record"
    /\ IF check[c].account \notin pending[check[c].zone]
       THEN UNCHANGED <<verified, failing, pending>>
       ELSE /\ Promote(c)
            /\ pending' = [pending EXCEPT ![check[c].zone] = @ \ {check[c].account}]
    /\ Stop(c)
    /\ UNCHANGED <<toCheck, holder, asking, late>>

\* recordZoneCheck: under the mutex, the claim must still be there, and no
\* zone that overlaps may have been verified since; if one was, the claim
\* can never hold and goes.
Record(c) ==
    /\ check[c].step = "record"
    /\ LET z == check[c].zone  a == check[c].account
       IN  IF a \notin pending[z]
           THEN UNCHANGED <<verified, failing, pending>>
           ELSE /\ pending' = [pending EXCEPT ![z] = @ \ {a}]
                /\ IF \E y \in ZoneNames : Overlap(y, z) /\ verified[y] # NoAccount
                   THEN UNCHANGED <<verified, failing>>
                   ELSE Promote(c)
    /\ toCheck' = IF c = ZSweep /\ verified' # verified
                  THEN toCheck \cup {[zone |-> check[c].zone, account |-> check[c].account, kind |-> "seen"]}
                  ELSE toCheck
    /\ Stop(c)
    /\ UNCHANGED <<holder, asking, late>>

\* The process dies after the verified file is in place and before the
\* pending one is gone: both stay, and every check is forgotten.
DieRecording(c) ==
    /\ check[c].step = "record"
    /\ check[c].account \in pending[check[c].zone]
    /\ \A y \in ZoneNames : Overlap(y, check[c].zone) => verified[y] = NoAccount
    /\ Promote(c)
    /\ check' = [k \in Checkers |-> Idle]
    /\ toCheck' = {}
    /\ asking' = [r \in Attachers |-> <<>>]
    /\ UNCHANGED <<pending, holder, late>>

\* ReleaseZone, by the owner or by the end of the account: the zone and the
\* claim go; names inside it fall back to their own proof.
Release(z, a) ==
    /\ verified[z] = a \/ a \in pending[z]
    /\ verified' = [verified EXCEPT ![z] = IF @ = a THEN NoAccount ELSE @]
    /\ failing' = [failing EXCEPT ![z] = IF verified[z] = a THEN FALSE ELSE @]
    /\ pending' = [pending EXCEPT ![z] = @ \ {a}]
    /\ UNCHANGED <<check, toCheck, holder, asking, late>>

(***************************************************************************)
(* The sweep.                                                              *)
(***************************************************************************)

\* ReconcileZones reads every file once.  A verified one it is through with
\* stays in sight, for the claims after it.
SweepBegin ==
    /\ check[ZSweep] = Idle /\ toCheck = {}
    /\ toCheck' = {f \in Files :
         \/ f.kind = "verified" /\ verified[f.zone] = f.account
         \/ f.kind = "pending" /\ f.account \in pending[f.zone]}
    /\ toCheck' # {}
    /\ UNCHANGED <<verified, failing, pending, check, holder, asking, late>>

SweepEnd ==
    /\ check[ZSweep] = Idle /\ toCheck # {}
    /\ \A f \in toCheck : f.kind = "seen"
    /\ toCheck' = {}
    /\ UNCHANGED <<verified, failing, pending, check, holder, asking, late>>

\* A pending file, read after the verified ones: dropped past its time, and
\* when the sweep saw a zone of another account that overlaps; else checked
\* like a claim.  dropZone removes the claim that is there now.
SweepPending(f) ==
    /\ check[ZSweep] = Idle
    /\ f \in toCheck /\ f.kind = "pending"
    /\ \A g \in toCheck : g.kind # "verified"
    /\ toCheck' = toCheck \ {f}
    /\ \/ /\ pending' = [pending EXCEPT ![f.zone] = @ \ {f.account}]
          /\ UNCHANGED check
       \/ /\ \A g \in toCheck : g.kind = "seen" /\ Overlap(g.zone, f.zone) => g.account = f.account
          /\ Goto(ZSweep, [step |-> "look", zone |-> f.zone, account |-> f.account])
          /\ UNCHANGED pending
    /\ UNCHANGED <<verified, failing, holder, asking, late>>

\* A verified file: left alone when it was checked within the day or when
\* the lookup fails, else asked again.
SweepVerified(f) ==
    /\ check[ZSweep] = Idle
    /\ f \in toCheck /\ f.kind = "verified"
    /\ toCheck' = (toCheck \ {f}) \cup {[f EXCEPT !.kind = "seen"]}
    /\ \/ UNCHANGED check
       \/ \E yes \in BOOLEAN :
            Goto(ZSweep, [step |-> "renew", zone |-> f.zone, account |-> f.account, ok |-> yes])
    /\ UNCHANGED <<verified, failing, pending, holder, asking, late>>

\* The answer is applied under the mutex to the file that is there now, if
\* it is still this account's: a window begins, ends with the proof's return,
\* or is over.
SweepRenews ==
    /\ check[ZSweep].step = "renew"
    /\ LET z == check[ZSweep].zone
           mine == verified[z] = check[ZSweep].account
       IN  \/ /\ mine /\ ~check[ZSweep].ok /\ failing[z]
              /\ verified' = [verified EXCEPT ![z] = NoAccount]
              /\ failing' = [failing EXCEPT ![z] = FALSE]
           \/ /\ failing' = [failing EXCEPT ![z] = IF mine THEN ~check[ZSweep].ok ELSE @]
              /\ UNCHANGED verified
    /\ Stop(ZSweep)
    /\ UNCHANGED <<pending, toCheck, holder, asking, late>>

(***************************************************************************)
(* The names inside, as far as zones and names meet (AddDomain, in full in *)
(* Domains.tla).                                                           *)
(***************************************************************************)

\* A check of one of the name's zones for another account has looked for
\* conflicts and not yet recorded its answer.
UnderWay(n, a) ==
    \E c \in Checkers : /\ check[c].step \in {"ask", "record"}
                        /\ check[c].zone \in Zones(n)
                        /\ check[c].account # a

\* AddDomain's gate: nobody else's verified zone encloses the name.
AskForName(r, n, a) ==
    /\ asking[r] = <<>> /\ holder[n] = NoAccount
    /\ HeldBy(n) \subseteq {a}
    /\ asking' = [asking EXCEPT ![r] = <<n, a>>]
    /\ UNCHANGED <<verified, failing, pending, check, toCheck, holder, late>>

\* attach, some lookups later; or the claim stays pending or is refused.
\* verify asks the zone again, so a zone verified meanwhile is noticed up to
\* the moment DNS is asked.
AttachName(r) ==
    /\ asking[r] # <<>>
    /\ LET n == asking[r][1]  a == asking[r][2]
       IN  \/ /\ holder[n] = NoAccount
              /\ holder' = [holder EXCEPT ![n] = a]
              /\ late' = IF UnderWay(n, a) \/ ~(HeldBy(n) \subseteq {a})
                         THEN late \cup {n} ELSE late
           \/ UNCHANGED <<holder, late>>
    /\ asking' = [asking EXCEPT ![r] = <<>>]
    /\ UNCHANGED <<verified, failing, pending, check, toCheck>>

\* The owner removes the name, or its own proof is revoked.
DetachName(n) ==
    /\ holder[n] # NoAccount
    /\ holder' = [holder EXCEPT ![n] = NoAccount]
    /\ late' = late \ {n}
    /\ UNCHANGED <<verified, failing, pending, check, toCheck, asking>>

\* The site is handed to another account: what it held through the sender's
\* zone is detached (AccountBoundAddresses), the rest goes along.
HandOverName(n, b) ==
    /\ holder[n] \notin {b, NoAccount}
    /\ IF holder[n] \in HeldBy(n)
       THEN holder' = [holder EXCEPT ![n] = NoAccount] /\ late' = late \ {n}
       ELSE /\ holder' = [holder EXCEPT ![n] = b]
            /\ late' = IF UnderWay(n, b) THEN late \cup {n} ELSE late
    /\ UNCHANGED <<verified, failing, pending, check, toCheck, asking>>

ZonesNext ==
    \/ \E c \in Claimants, z \in ZoneNames, a \in Accounts : Claim(c, z, a)
    \/ \E c \in Checkers : LookForConflicts(c) \/ Lookup(c) \/ Record(c) \/ DieRecording(c)
    \/ \E z \in ZoneNames, a \in Accounts : Release(z, a)
    \/ SweepBegin \/ SweepRenews \/ SweepEnd
    \/ \E f \in Files : SweepPending(f) \/ SweepVerified(f)
    \/ \E r \in Attachers, n \in Names, a \in Accounts : AskForName(r, n, a)
    \/ \E r \in Attachers : AttachName(r)
    \/ \E n \in Names : DetachName(n)
    \/ \E n \in Names, b \in Accounts : HandOverName(n, b)

ZonesSpec == ZonesInit /\ [][ZonesNext]_zvars

(***************************************************************************)
(* What zones promise.                                                     *)
(***************************************************************************)

\* Two verified zones never overlap: what one account holds as a zone, no
\* other holds in part.  Claims of overlapping zones may be looked up at the
\* same time, by requests and by the sweep; only the second look under the
\* mutex keeps the later of the two from being verified as well.
ZonesDisjoint ==
    \A y, z \in ZoneNames :
        <<y, z>> \in Nested => verified[y] = NoAccount \/ verified[z] = NoAccount

\* A verified zone encloses no attached name of another account, unless that
\* name was attached while a check of the zone was already past its look for
\* conflicts, or past its own gate when the zone was verified.  An account
\* cannot get other people's names into its zone by any longer sequence of
\* claims, releases, revocations and hand-overs.
NoForeignNameInside ==
    \A z \in ZoneNames : verified[z] # NoAccount =>
        \A n \in Conflicts(z, verified[z]) : n \in late

\* Two verified zones never overlap, and none has a foreign name inside.
ZonesAreExclusive == ZonesDisjoint /\ NoForeignNameInside
=============================================================================
