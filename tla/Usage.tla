--------------------------------- MODULE Usage ---------------------------------
(***************************************************************************)
(* What a site's running containers use (ee/containers/usage.go): every    *)
(* few seconds the counters of each container and of Sitebin's own         *)
(* interface on the project's network are read, one by one, and compared   *)
(* with the last ones read under the same name; the owner and the operator *)
(* see the differences.  A container or a network made again starts its    *)
(* counters again under the same name.  One counter stands for a           *)
(* container's bytes and CPU; memory and processes are left out.           *)
(***************************************************************************)
EXTENDS Naturals, FiniteSets

CONSTANTS
    Services,    \* of one site
    Web,         \* Sitebin's interface on the project's network
    Wrap,        \* where a counter starts over: 2^64
    MaxAge,      \* usageMaxAge
    MaxTime, MaxPassed, MaxChanges

UsageAssumption ==
    /\ Web \notin Services /\ IsFiniteSet(Services) /\ Wrap \in Nat \ {0}
    /\ MaxAge \in Nat /\ MaxTime \in Nat /\ MaxPassed \in Nat /\ MaxChanges \in Nat

VARIABLES
    clock,
    counter,    \* what each container and interface counts since it was made
    passed,     \* history: what truly passed, ever
    running,    \* containers that run
    published,  \* services with ports
    outward,    \* services with an egress interface
    sampling,   \* a sample is under way
    round,      \* the containers and interfaces it has still to read
    got,        \* the counters it has read
    prev,       \* usageBook.prev, prevWeb
    sites,      \* usageBook.sites: the figures of the last sample
    changes

uvars == <<clock, counter, passed, running, published, outward, sampling, round, got, prev, sites, changes>>
Parts == Services \cup {Web}
NoRate == [n |-> 0, real |-> 0, known |-> FALSE]
Nothing == [at |-> 0, by |-> [x \in {} |-> NoRate]]

UsageTypeOK ==
    /\ clock \in 0 .. MaxTime /\ counter \in [Parts -> Nat] /\ passed \in [Parts -> Nat]
    /\ running \subseteq Services /\ published \subseteq Services /\ outward \subseteq Services
    /\ sampling \in BOOLEAN /\ round \subseteq Parts
    /\ DOMAIN got \subseteq Parts /\ DOMAIN prev \subseteq Parts /\ DOMAIN sites.by \subseteq Parts
    /\ changes \in 0 .. MaxChanges

UsageInit ==
    /\ clock = 0 /\ counter = [x \in Parts |-> 0] /\ passed = counter
    /\ running = Services /\ published \in {{s} : s \in Services} /\ outward = Services
    /\ sampling = FALSE /\ round = {} /\ got = [x \in {} |-> NoRate] /\ prev = got /\ sites = Nothing /\ changes = 0

bookVars  == <<sampling, round, got, prev, sites>>
worldVars == <<running, published, outward>>

Pass(x) ==
    /\ x = Web \/ x \in running
    /\ passed[x] < MaxPassed
    /\ counter' = [counter EXCEPT ![x] = (@ + 1) % Wrap] /\ passed' = [passed EXCEPT ![x] = @ + 1]
    /\ UNCHANGED <<clock, worldVars, bookVars, changes>>

Tick ==
    /\ clock < MaxTime /\ clock' = clock + 1
    /\ UNCHANGED <<counter, passed, worldVars, bookVars, changes>>

Changed == changes < MaxChanges /\ changes' = changes + 1

\* A container, or the network and Sitebin's interface on it, is made again.
MakeAgain(x) ==
    /\ Changed /\ counter' = [counter EXCEPT ![x] = 0]
    /\ running' = running \cup (Services \cap {x})
    /\ UNCHANGED <<clock, passed, published, outward, bookVars>>

Stop(s) ==
    /\ Changed /\ s \in running /\ running' = running \ {s}
    /\ UNCHANGED <<clock, counter, passed, published, outward, bookVars>>

\* Another project was applied: Observed names other ports and egress.
Redeploy ==
    /\ Changed /\ published' \in SUBSET Services /\ outward' \in SUBSET Services
    /\ UNCHANGED <<clock, counter, passed, running, bookVars>>

\* ---- sample(): list, read each in turn, Sitebin's own last

List ==
    /\ ~sampling /\ sampling' = TRUE /\ round' = running \cup {Web} /\ got' = [x \in {} |-> NoRate]
    /\ UNCHANGED <<clock, counter, passed, worldVars, prev, sites, changes>>

With(f, x, v) == [y \in DOMAIN f \cup {x} |-> IF y = x THEN v ELSE f[y]]

Read(x) ==
    /\ sampling /\ x \in round /\ (x = Web => round = {Web})
    /\ \/ got' = With(got, x, [at |-> clock, n |-> counter[x], real |-> passed[x]])
       \/ got' = got
    /\ round' = round \ {x}
    /\ UNCHANGED <<clock, sampling, counter, passed, worldVars, prev, sites, changes>>

\* uint64 subtraction
Minus(a, b) == (a + Wrap - b) % Wrap

\* Mutant: a counter is taken to go only forwards.
RateForwards(old, cur) ==
    IF cur.at <= old.at THEN NoRate
    ELSE [n |-> Minus(cur.n, old.n), real |-> cur.real - old.real, known |-> TRUE]

Rate(old, cur) ==
    IF cur.n < old.n \/ cur.at <= old.at THEN NoRate
    ELSE [n |-> Minus(cur.n, old.n), real |-> cur.real - old.real, known |-> TRUE]

\* The figures are of the containers that answered; what did not answer is
\* not in the book for the next time either.
Record ==
    /\ sampling /\ round = {}
    /\ LET site == DOMAIN got \cap Services # {}
           kept == IF site THEN DOMAIN got ELSE {} IN
       /\ prev' = [x \in kept |-> got[x]]
       /\ sites' = IF site THEN [at |-> clock,
                                 by |-> [x \in kept |-> IF x \in DOMAIN prev THEN Rate(prev[x], got[x]) ELSE NoRate]]
                   ELSE Nothing
    /\ sampling' = FALSE /\ round' = {} /\ got' = [x \in {} |-> NoRate]
    /\ UNCHANGED <<clock, counter, passed, worldVars, changes>>

UsageNext ==
    \/ \E x \in Parts : Pass(x) \/ MakeAgain(x) \/ Read(x)
    \/ \E s \in Services : Stop(s)
    \/ Tick \/ Redeploy \/ List \/ Record

UsageSpec == UsageInit /\ [][UsageNext]_uvars

---------------------------------------------------------------------------
\* Usage(): what is shown of a service, the sum of the parts it has; known
\* once every part has a rate.

Fresh == DOMAIN sites.by # {} /\ clock - sites.at <= MaxAge
PartsOf(s) == (IF s \in outward THEN {s} ELSE {}) \cup (IF published = {s} THEN {Web} ELSE {})
Figure(x)  == IF x \in DOMAIN sites.by THEN sites.by[x] ELSE NoRate
Shown(s)   == Fresh /\ s \in DOMAIN sites.by /\ \A x \in PartsOf(s) : Figure(x).known

Total(f(_), xs) == (IF xs \cap Services = {} THEN 0 ELSE f(CHOOSE x \in xs : x \in Services))
                   + (IF Web \in xs THEN f(Web) ELSE 0)
In(s)   == LET n(x) == Figure(x).n    IN Total(n, PartsOf(s))
Real(s) == LET r(x) == Figure(x).real IN Total(r, PartsOf(s))

\* No figure is more than what passed through the interfaces it is made of
\* between the two readings, whatever was stopped, made again, missed by a
\* sample or redeployed in between: a restarted counter shows as no figure or
\* as a smaller one, never as a burst.
NoMoreThanPassed == \A s \in Services : Shown(s) => In(s) <= Real(s)

\* What makes it so.  A counter is never further from a reading than what has
\* passed since, for it either went on, wrapped or started again at zero; the
\* same holds of two readings of it; and so a figure never exceeds what passed.
Readings == [at : Nat, n : Nat, real : Nat]
Follows(old, n, real) == old.real <= real /\ n <= old.n + (real - old.real)

ReadingsTyped ==
    /\ DOMAIN got \subseteq Parts /\ \A x \in DOMAIN got : got[x] \in Readings
    /\ DOMAIN prev \subseteq Parts /\ \A x \in DOMAIN prev : prev[x] \in Readings
CountersFollow ==
    /\ \A x \in DOMAIN got : Follows(got[x], counter[x], passed[x])
    /\ \A x \in DOMAIN prev : Follows(prev[x], counter[x], passed[x])
ReadingsFollow == \A x \in DOMAIN got \cap DOMAIN prev : Follows(prev[x], got[x].n, got[x].real)
FiguresStand ==
    \A x \in DOMAIN sites.by : sites.by[x] \in [n : Nat, real : Nat, known : BOOLEAN] /\ sites.by[x].n <= sites.by[x].real
UsageInv == ReadingsTyped /\ CountersFollow /\ ReadingsFollow /\ FiguresStand

=============================================================================
