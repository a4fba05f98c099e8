---------------------------- MODULE ContainerLimits ----------------------------
(***************************************************************************)
(* The limits of a project's containers (ee/containers/limits.go,          *)
(* manager.go, ee/admincontainers.go): the environment's defaults, over    *)
(* them the ones an admin saved, over those a service's own, all held to   *)
(* the host's size; a running project is brought to them one container at  *)
(* a time, without a restart.  One number stands for memory, CPUs and      *)
(* processes, 0 for "not set".  The project is one that keeps running;     *)
(* starting and stopping it is the module Containers.                      *)
(***************************************************************************)
EXTENDS Naturals, FiniteSets

CONSTANTS
    Services, Admins,
    Env,         \* SITEBIN_CONTAINER_*
    Host,        \* what the Engine's host has
    MaxLimit,    \* the static bound
    MaxChanges, MaxFaults

LimitsAssumption ==
    /\ Env \in 1 .. MaxLimit /\ Host \in 1 .. MaxLimit /\ MaxLimit \in Nat
    /\ IsFiniteSet(Services) /\ MaxChanges \in Nat /\ MaxFaults \in Nat

Limits == 0 .. MaxLimit

VARIABLES
    file,        \* limits.json
    saved, err,  \* LimitBook: what it read or was given; it could not read it
    capacity,    \* the host's size, once the Engine said it
    own,         \* ContainerMeta.Limits
    call,        \* the map each admin's request has read
    observed,    \* the limits recorded with the running project
    runs,        \* the limits the containers have
    pass,        \* updateLimits: services it has gone through, what it will record
    lost,        \* a change of a container was left unrecorded
    changes, faults

lvars == <<file, saved, err, capacity, own, call, observed, runs, pass, lost, changes, faults>>
book  == <<file, saved, err, capacity>>
Idle  == [on |-> FALSE, left |-> {}, obs |-> [s \in Services |-> 0]]
NoCall == [s \in {} |-> 0]

LimitsTypeOK ==
    /\ file \in Limits /\ saved \in Limits /\ err \in BOOLEAN /\ capacity \in {0, Host}
    /\ own \in [Services -> Limits] /\ observed \in [Services -> Limits] /\ runs \in [Services -> Limits]
    /\ pass.on \in BOOLEAN /\ pass.left \subseteq Services /\ pass.obs \in [Services -> Limits]
    /\ lost \in BOOLEAN /\ changes \in 0 .. MaxChanges /\ faults \in 0 .. MaxFaults

Or(l, m) == IF l # 0 THEN l ELSE m
Fit(l)   == IF capacity # 0 /\ l > capacity THEN capacity ELSE l
For(s)   == Fit(Or(own[s], Or(saved, Env)))
Check(l) == l <= (IF capacity # 0 THEN capacity ELSE MaxLimit)

LimitsInit ==
    /\ file = 0 /\ saved = 0 /\ err = FALSE /\ capacity \in {0, Host}
    /\ own = [s \in Services |-> 0] /\ call = [a \in Admins |-> NoCall]
    /\ runs = [s \in Services |-> Fit(Env)] /\ observed = runs
    /\ pass = Idle /\ lost = FALSE /\ changes = 0 /\ faults = 0

Counted == changes < MaxChanges /\ changes' = changes + 1
Fault   == faults < MaxFaults /\ faults' = faults + 1

\* ---- the console

SetDefaults(l) ==
    /\ Counted /\ Check(l)
    /\ file' = l /\ saved' = l /\ err' = FALSE
    /\ UNCHANGED <<capacity, own, call, observed, runs, pass, lost, faults>>

\* handleAdminContainerLimits reads the whole map, and writes it back with
\* one service's entry changed.
ReadOwn(a) ==
    /\ call[a] = NoCall /\ Counted /\ call' = [call EXCEPT ![a] = own]
    /\ UNCHANGED <<book, own, observed, runs, pass, lost, faults>>

SetContainerLimits(a, s, l) ==
    /\ call[a] # NoCall /\ Check(l)
    /\ own' = [call[a] EXCEPT ![s] = l] /\ call' = [call EXCEPT ![a] = NoCall]
    /\ UNCHANGED <<book, observed, runs, pass, lost, changes, faults>>

\* ---- the runtime

Known == ~err
LimitsStale == Known /\ \E s \in Services : observed[s] # For(s)

StartUpdate ==
    /\ ~pass.on /\ LimitsStale
    /\ pass' = [on |-> TRUE, left |-> Services, obs |-> observed]
    /\ UNCHANGED <<book, own, call, observed, runs, lost, changes, faults>>

\* Mutant: what is wanted is recorded before the Engine has taken it.
UpdateRecordsFirst(s) ==
    /\ pass.on /\ s \in pass.left
    /\ \/ /\ For(s) <= Host /\ runs' = [runs EXCEPT ![s] = For(s)] /\ UNCHANGED <<observed, faults>>
          /\ pass' = [pass EXCEPT !.left = @ \ {s}, !.obs[s] = For(s)]
       \/ /\ (For(s) > Host /\ UNCHANGED faults) \/ Fault
          /\ observed' = [pass.obs EXCEPT ![s] = For(s)] /\ pass' = Idle /\ UNCHANGED runs
    /\ UNCHANGED <<book, own, call, lost, changes>>

\* One container: as it should be, changed, or refused -- by an Engine that
\* fails or has not that much.  What was changed before is recorded.
Update(s) ==
    /\ pass.on /\ s \in pass.left
    /\ \/ /\ pass.obs[s] = For(s) /\ UNCHANGED <<runs, observed, faults>>
          /\ pass' = [pass EXCEPT !.left = @ \ {s}]
       \/ /\ pass.obs[s] # For(s) /\ For(s) <= Host
          /\ runs' = [runs EXCEPT ![s] = For(s)] /\ UNCHANGED <<observed, faults>>
          /\ pass' = [pass EXCEPT !.left = @ \ {s}, !.obs[s] = For(s)]
       \/ /\ pass.obs[s] # For(s) /\ (Fault \/ (For(s) > Host /\ UNCHANGED faults))
          /\ observed' = pass.obs /\ pass' = Idle /\ UNCHANGED runs
    /\ UNCHANGED <<book, own, call, lost, changes>>

Lose == lost' = (lost \/ (pass.on /\ pass.obs # observed))

\* report; one that fails is only logged.
EndUpdate ==
    /\ pass.on /\ pass.left = {} /\ pass' = Idle
    /\ \/ observed' = pass.obs /\ UNCHANGED <<lost, faults>>
       \/ Fault /\ Lose /\ UNCHANGED observed
    /\ UNCHANGED <<book, own, call, runs, changes>>

\* NewLimitBook, then setup; the Engine may not say how large its host is.
Restart ==
    /\ Fault /\ Lose /\ pass' = Idle /\ call' = [a \in Admins |-> NoCall]
    /\ \/ saved' = file /\ err' = FALSE
       \/ file # 0 /\ saved' = 0 /\ err' = TRUE
    /\ capacity' \in {0, Host}
    /\ UNCHANGED <<file, own, observed, runs, changes>>

LimitsNext ==
    \/ \E l \in Limits : SetDefaults(l)
    \/ \E a \in Admins : ReadOwn(a) \/ \E s \in Services, l \in Limits : SetContainerLimits(a, s, l)
    \/ StartUpdate \/ EndUpdate \/ Restart
    \/ \E s \in Services : Update(s)

Converges == StartUpdate \/ EndUpdate \/ \E s \in Services : Update(s)

LimitsSpec == LimitsInit /\ [][LimitsNext]_lvars /\ WF_lvars(Converges)

---------------------------------------------------------------------------

\* Once admins stop changing them, the containers come to run with the limits
\* they should have, whatever the Engine refused and the server forgot on the
\* way -- unless the saved defaults cannot be read, or nobody knows how large
\* the host is, or the record of a change was lost: limitsStale compares with
\* the record, so a container changed by a pass the server did not survive
\* keeps that change when the admins have since gone back on it.
Follows ==
    Known /\ capacity = Host =>
        \A s \in Services : observed[s] = For(s) /\ (lost \/ runs[s] = For(s))

\* While the saved defaults are unknown no running container is changed but
\* by a pass that began before.
ErrorChangesNothing == err /\ ~pass.on => UNCHANGED runs

=============================================================================
