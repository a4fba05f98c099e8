-------------------------------- MODULE MCLive --------------------------------
(***************************************************************************)
(* Model values for what must happen in the end, in the parts where the    *)
(* code promises it.  As in MCParts a behaviour is one of one part, chosen *)
(* at the start, and the parts' variables take turns in v1 .. v16.         *)
(***************************************************************************)
EXTENDS Naturals, FiniteSets, TLC

CONSTANTS None, Unreadable

VARIABLES which, v1, v2, v3, v4, v5, v6, v7, v8, v9, v10, v11, v12, v13, v14, v15, v16

\* A push, again and again, beside two operations.
P == INSTANCE PushRegistry WITH
        Pushes <- {"p"}, Ops <- {"o1", "o2"}, Accounts <- {"a"}, NoOne <- None,
        MaxPacks <- 1, MaxPasswords <- 0,
        exists <- v1, meta <- v2, repo <- v3, packs <- v4, log <- v5, running <- v6,
        barred <- v7, cancelled <- v8, siteLock <- v9, statsLock <- v10, push <- v11,
        snap <- v12, op <- v13, kind <- v14, waitsFor <- v15, timedOut <- v16

\* One process: two requests of the server, retention of two sweeps.
L == INSTANCE SiteLock WITH
        ServerReqs <- {"r1", "r2"}, CliReqs <- {}, Retention <- 2,
        exists <- v1, lock <- v2, finding <- v3, marker <- v4, tier <- v5,
        step <- v6, kind <- v7, copy <- v8, stamp <- v9

\* One site, one offer, one accept beside the loop.
O == INSTANCE TransferOffer WITH
        Accounts <- {"a", "b"}, Sites <- {"s"}, Offers <- {"o"}, Accepts <- {"accept"},
        Loop <- "loop", Asks <- {"ask"}, NoOne <- None, MaxFaults <- 2,
        offers <- v1, owner <- v2, markers <- v3, young <- v4, run <- v5, ask <- v6,
        rec <- v7, moved <- v8, faults <- v9

\* A project with two compose files, of one service and of none.
C == INSTANCE Containers WITH
        Projects <- {"p"}, Files <- {"f", "g"}, Need <- [f |-> 1, g |-> 0], Plans <- {0, 1},
        NoFile <- None, MaxSeq <- 2, MaxChanges <- 2, MaxBreaks <- 1,
        want <- v1, seen <- v2, up <- v3, known <- v4, waiting <- v5, worker <- v6,
        ending <- v7, scan <- v8, plan <- v9, leftover <- v10, changes <- v11,
        breaks <- v12

\* Limits from 1 to 3 on a host that has 2.
M == INSTANCE ContainerLimits WITH
        Services <- {"s1", "s2"}, Admins <- {"admin"}, Env <- 2, Host <- 2, MaxLimit <- 3,
        MaxChanges <- 2, MaxFaults <- 1,
        file <- v1, saved <- v2, err <- v3, capacity <- v4, own <- v5, call <- v6,
        observed <- v7, runs <- v8, pass <- v9, lost <- v10, changes <- v11,
        faults <- v12

\* Licences with and without grace, with and without a certificate.
E == INSTANCE Licence WITH
        Dates <- {[cert |-> 0, ends |-> 1, grace |-> 2], [cert |-> 2, ends |-> 3, grace |-> 0],
                  [cert |-> 0, ends |-> 0, grace |-> 0]},
        None <- None, Unreadable <- Unreadable, Trial <- 1, LastTime <- 3, MaxIssued <- 2,
        MaxFaults <- 1,
        stack <- v1, env <- v2, cache <- v3, marker <- v4, snap <- v5, fetch <- v6,
        now <- v7, issued <- v8, faults <- v9

\* One of each: person, call, browser and viewer.
S == INSTANCE SignIn WITH
        People <- {"p"}, Calls <- {"c"}, Browsers <- {"b"}, Viewers <- {"v"}, Room <- 1,
        Trusted <- 1, Patience <- 1, Retry <- 2, Shown <- 2, Hidden <- 1,
        up <- v1, web <- v2, tokens <- v3, tab <- v4, viewer <- v5,
        outstanding <- v6, passed <- v7, accounts <- v8, call <- v9, browser <- v10,
        gap <- v11

\* What each part assumes of its constants.
ASSUME LivePartsAssumption ==
    /\ L!SiteLockAssumption /\ C!ContainersAssumption /\ M!LimitsAssumption
    /\ E!LicenceAssumption /\ S!SignInAssumption

\* The variables a part has no use for.
Unused(n) ==
    /\ IF n <= 10 THEN v10 = None ELSE TRUE
    /\ IF n <= 11 THEN v11 = None ELSE TRUE
    /\ IF n <= 12 THEN v12 = None ELSE TRUE
    /\ IF n <= 13 THEN v13 = None ELSE TRUE
    /\ IF n <= 14 THEN v14 = None ELSE TRUE
    /\ IF n <= 15 THEN v15 = None ELSE TRUE
    /\ IF n <= 16 THEN v16 = None ELSE TRUE

Init ==
    \/ which = "push" /\ P!Init
    \/ which = "lock" /\ L!Init /\ Unused(10)
    \/ which = "transfer" /\ O!Init /\ Unused(10)
    \/ which = "containers" /\ C!ContainersInit /\ Unused(13)
    \/ which = "limits" /\ M!LimitsInit /\ Unused(13)
    \/ which = "licence" /\ E!LicenceInit /\ Unused(10)
    \/ which = "signin" /\ S!SignInInit /\ Unused(12)

Next ==
    /\ UNCHANGED which
    /\ \/ which = "push" /\ P!Next
       \/ which = "lock" /\ L!Next /\ UNCHANGED <<v10, v11, v12, v13, v14, v15, v16>>
       \/ which = "transfer" /\ O!Next /\ UNCHANGED <<v10, v11, v12, v13, v14, v15, v16>>
       \/ which = "containers" /\ C!ContainersNext /\ UNCHANGED <<v13, v14, v15, v16>>
       \/ which = "limits" /\ M!LimitsNext /\ UNCHANGED <<v13, v14, v15, v16>>
       \/ which = "licence" /\ E!LicenceNext /\ UNCHANGED <<v10, v11, v12, v13, v14, v15, v16>>
       \/ which = "signin" /\ S!SignInNext /\ UNCHANGED <<v12, v13, v14, v15, v16>>

slots == <<which, v1, v2, v3, v4, v5, v6, v7, v8, v9, v10, v11, v12, v13, v14, v15, v16>>

(***************************************************************************)
(* Fairness: that of each part, as its module gives it and says why.  The  *)
(* strongly fair actions of different parts share a condition, which is    *)
(* the same since a behaviour is of one part.                              *)
(***************************************************************************)

\* A step of a part leaves the variables it has no use for as they are.
Push(A)       == which = "push" /\ A /\ UNCHANGED which
Lock(A)       == which = "lock" /\ A /\ UNCHANGED <<which, v10, v11, v12, v13, v14, v15, v16>>
Transfer(A)   == which = "transfer" /\ A /\ UNCHANGED <<which, v10, v11, v12, v13, v14, v15, v16>>
Containers(A) == which = "containers" /\ A /\ UNCHANGED <<which, v13, v14, v15, v16>>
Limits(A)     == which = "limits" /\ A /\ UNCHANGED <<which, v13, v14, v15, v16>>
Licence(A)    == which = "licence" /\ A /\ UNCHANGED <<which, v10, v11, v12, v13, v14, v15, v16>>
SignIn(A)     == which = "signin" /\ A /\ UNCHANGED <<which, v12, v13, v14, v15, v16>>

PushFairness ==
    /\ WF_slots(Push(P!CheckUnlocked("p") \/ P!CheckStanding("p") \/ P!Record("p") \/ P!End("p")))
    /\ WF_slots(Push(P!GitDies("p")))
    /\ \A o \in {"o1", "o2"} : WF_slots(Push(P!GoesOn(o)))

LockFairness ==
    /\ WF_slots(Lock(L!Tick))
    /\ \A r \in {"r1", "r2"} : WF_slots(Lock(L!Write(r) \/ L!Remove(r)))

TransferFairness ==
    /\ \A r \in {"accept", "loop"} : WF_slots(Transfer(O!RunStep(r)))
    /\ WF_slots(Transfer(O!Reconcile))

ContainersFairness ==
    WF_slots(Containers(C!Works("p"))) /\ WF_slots(Containers(C!RetryIsDue("p")))

LimitsFairness == WF_slots(Limits(M!Converges))

LicenceFairness == WF_slots(Licence(E!Boot(TRUE))) /\ WF_slots(Licence(E!Collects))

SignInFairness ==
    /\ WF_slots(SignIn(S!Tick)) /\ WF_slots(SignIn(S!Works("c")))
    /\ WF_slots(SignIn(S!Leave("b")))
    /\ WF_slots(SignIn(S!TabDiscovers)) /\ WF_slots(SignIn(S!OpenTab("v")))

StrongFairness ==
    /\ SF_slots(\/ Lock(\E r \in {"r1", "r2"} : L!Read(r, "purge"))
                \/ Transfer(O!PickAccepting("o"))
                \/ Containers(C!Ends("p")))
    /\ SF_slots(Transfer(O!FindMissing("s")) \/ Containers(C!Scan))

Spec ==
    /\ Init /\ [][Next]_slots
    /\ PushFairness /\ LockFairness /\ TransferFairness /\ ContainersFairness
    /\ LimitsFairness /\ LicenceFairness /\ SignInFairness /\ StrongFairness

(***************************************************************************)
(* The promises of the parts, each explained in its module.                *)
(***************************************************************************)

\* PushRegistry: a delete, a lock, a transfer and an admin change end.
Stopping(o) == which = "push" /\ P!Busy(o)
OperationEnds == \A o \in {"o1", "o2"} : Stopping(o) ~> ~Stopping(o)

\* SiteLock: the clock of a lock never restarts; only the operator lifts the
\* operator's lock and the hold; the sweep removes nothing that is held; an
\* unsuspension serves no kit; and a site that stays locked is purged, unless a
\* hold is placed on it.
LeftLocked == which = "lock" /\ L!LeftLocked
LockStands ==
    /\ [][which = "lock" =>
            L!ClockStands /\ L!OperatorsStands /\ L!EvidenceStands /\ L!NoKitReleased]_slots
    /\ LeftLocked ~> ~LeftLocked

\* TransferOffer: an acceptance ends, and a site's owner finds it in the end.
BeingAccepted == which = "transfer" /\ O!BeingAccepted("o")
Misses(a) == which = "transfer" /\ O!Misses("s", a)
TransfersSettle ==
    /\ BeingAccepted ~> ~BeingAccepted
    /\ \A a \in {"a", "b"} : Misses(a) ~> ~Misses(a)

\* Containers, ContainerLimits: once they are left alone, every project comes
\* to rest as it should and its containers run with the limits they should
\* have; a call that was refused changed none.
Converges ==
    /\ <>[](which = "containers" => C!Settled)
    /\ <>[](which = "limits" => M!Follows)
    /\ [][which = "limits" => M!ErrorChangesNothing]_slots

\* Licence: a renewal reaches the running instance, and a mistake never costs
\* more than having no licence.
RenewalArrives ==
    /\ \A n \in 1 .. 2 :
          <>[](which = "licence" /\ E!Collectable(n)) => <>[](which = "licence" /\ E!Collected)
    /\ [](which = "licence" => E!NeverHarsherThanNone)

\* SignIn: an issuer that is back is back for every call and for the Git tab,
\* and what is outstanding is asked for, except what was just asked.
SignInStands ==
    /\ <>[](which = "signin" /\ S!IssuerIsUp) => <>[](which = "signin" /\ S!NobodyWaits)
    /\ [][which = "signin" => S!GateIsAskedFor]_slots
=============================================================================
