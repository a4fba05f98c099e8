------------------------------ MODULE ProofLookup ------------------------------
(***************************************************************************)
(* The lookup of an ownership proof (internal/store/authdns.go): the       *)
(* nameservers of the nearest zone above the name are found through the    *)
(* system resolver, asked one after another, and followed where they       *)
(* delegate; a CNAME chain starts over at every hop; the system resolver   *)
(* answers only when no authoritative server did.                          *)
(*                                                                         *)
(* The ancestors of the name are its depths, 0 the root; Aside stands for  *)
(* every zone that does not hold it.  What a server answers is a choice    *)
(* over everything it can say; one host has one address.                   *)
(***************************************************************************)
EXTENDS Naturals, FiniteSets

CONSTANTS
    Depth,         \* labels of the name asked
    Skipped,       \* of which leading underscore labels, never an apex
    Hosts, Home,   \* nameservers, and the zone each host's name lies in
    Aside, Resolver,
    MaxAuthServers, MaxReferrals, MaxCNAMEHops

Zone == 0 .. Depth \cup {Aside}

LookupAssumption ==
    /\ Depth \in Nat \ {0} /\ Skipped \in 0 .. Depth - 1
    /\ Home \in [Hosts -> Zone] /\ IsFiniteSet(Hosts)
    /\ MaxAuthServers \in Nat \ {0} /\ MaxReferrals \in Nat /\ MaxCNAMEHops \in Nat \ {0}

VARIABLES
    kind,        \* LookupTXT or LookupCNAME
    at,
    cand,        \* servers(): the ancestor whose NS set is asked for
    zone,        \* the zone whose servers are asked
    servers,     \* those not asked yet, and who gave each one's address
    referrals,
    hops,        \* CNAMEs followed; a target is known once one was
    result,
    authority    \* history: an authoritative server answered this lookup

luvars == <<kind, at, cand, zone, servers, referrals, hops, result, authority>>

Server == [host : Hosts, via : Zone \cup {Resolver}]

LookupTypeOK ==
    /\ kind \in {"TXT", "CNAME"} /\ at \in {"walk", "ask", "resolver", "done"}
    /\ cand \in 0 .. Depth /\ zone \in Zone /\ servers \in SUBSET Server
    /\ referrals \in 0 .. MaxReferrals /\ hops \in 0 .. MaxCNAMEHops
    /\ result \in {"none", "found", "absent", "unknown"} /\ authority \in BOOLEAN

LookupInit ==
    /\ kind \in {"TXT", "CNAME"} /\ at = "walk" /\ cand = Depth - Skipped /\ zone = 0
    /\ servers = {} /\ referrals = 0 /\ hops = 0 /\ result = "none" /\ authority = FALSE

InZone(z, of) == of = 0 \/ z = of \/ (z # Aside /\ of # Aside /\ z >= of)

\* addresses(): the glue that was kept, else what the resolver knows; at most
\* so many.
Addresses(hosts, glue, from) ==
    {s \in SUBSET ({[host |-> h, via |-> from] : h \in hosts \cap glue}
                   \cup {[host |-> h, via |-> Resolver] : h \in hosts \ glue}) :
       /\ Cardinality(s) <= MaxAuthServers
       /\ Cardinality(s) < MaxAuthServers => \A h \in hosts \cap glue : \E x \in s : x.host = h}

\* ---- what a lookup comes to: the ends of query, LookupTXT and LookupCNAME

Finish(r) == at' = "done" /\ result' = r /\ UNCHANGED <<cand, zone, servers, referrals, hops>>

\* A chain ends at the last target it reached, whatever stopped it there.
NotFound    == Finish(IF hops > 0 THEN "found" ELSE "absent")
NoAuthority ==
    \/ hops > 0 /\ Finish("found")
    \/ hops = 0 /\ at' = "resolver" /\ UNCHANGED <<cand, zone, servers, referrals, hops, result>>

Found ==
    \/ (kind = "TXT" \/ hops + 1 = MaxCNAMEHops) /\ Finish("found")
    \/ /\ kind = "CNAME" /\ hops + 1 < MaxCNAMEHops
       /\ hops' = hops + 1 /\ at' = "walk" /\ cand' = Depth - Skipped
       /\ zone' = 0 /\ servers' = {} /\ referrals' = 0 /\ UNCHANGED result

\* ---- servers(): up from the name to the nearest ancestor with an NS set

StepUp ==
    /\ at = "walk"
    /\ \/ cand > 1 /\ cand' = cand - 1 /\ UNCHANGED <<at, zone, servers, referrals, hops, result>>
       \/ cand <= 1 /\ NoAuthority
    /\ UNCHANGED <<kind, authority>>

FindServers ==
    /\ at = "walk"
    /\ \E hosts \in SUBSET Hosts \ {{}} : \E s \in Addresses(hosts, {}, Aside) :
         \/ s = {} /\ NoAuthority
         \/ /\ s # {} /\ at' = "ask" /\ zone' = cand /\ servers' = s
            /\ UNCHANGED <<cand, referrals, hops, result>>
    /\ UNCHANGED <<kind, authority>>

\* ---- query(): one server at a time

Unhelpful(srv) ==
    \/ servers = {srv} /\ NoAuthority
    \/ servers # {srv} /\ servers' = servers \ {srv} /\ UNCHANGED <<at, cand, zone, referrals, hops, result>>

\* Unreachable, an answer to another question, an error, a lame server, a
\* denial without authority, cut even over TCP.
AskInVain(srv) ==
    /\ at = "ask" /\ srv \in servers /\ Unhelpful(srv)
    /\ UNCHANGED <<kind, authority>>

AskWell(srv) ==
    /\ at = "ask" /\ srv \in servers
    /\ (Found \/ NotFound) /\ authority' = TRUE
    /\ UNCHANGED kind

\* delegation(): the deepest zone on the way to the name, and glue only for
\* hosts the sender's zone holds.
Towards(ns) == {z \in 0 .. Depth : z # zone /\ InZone(z, zone) /\ ns[z] # {}}
Child(ns)   == CHOOSE z \in Towards(ns) : \A y \in Towards(ns) : y <= z

\* Mutant: glue for any host the answer names.
GlueAny(given, hosts) == given \cap hosts

Glue(given, hosts) == {h \in given \cap hosts : InZone(Home[h], zone)}

Refer(srv) ==
    /\ at = "ask" /\ srv \in servers
    /\ \E ns \in [Zone -> SUBSET Hosts], given \in SUBSET Hosts :
         IF Towards(ns) = {} THEN Unhelpful(srv)
         ELSE IF referrals >= MaxReferrals THEN NoAuthority
         ELSE LET hosts == ns[Child(ns)] IN
              \E s \in Addresses(hosts, Glue(given, hosts), zone) :
                \/ s = {} /\ Unhelpful(srv)
                \/ /\ s # {} /\ servers' = s /\ zone' = Child(ns) /\ referrals' = referrals + 1
                   /\ UNCHANGED <<at, cand, hops, result>>
    /\ UNCHANGED <<kind, authority>>

\* withFallback
AskResolver ==
    /\ at = "resolver"
    /\ at' = "done" /\ result' \in {"found", "absent", "unknown"}
    /\ UNCHANGED <<kind, cand, zone, servers, referrals, hops, authority>>

LookupNext ==
    \/ StepUp \/ FindServers \/ AskResolver
    \/ \E srv \in servers : AskInVain(srv) \/ AskWell(srv) \/ Refer(srv)

LookupSpec == LookupInit /\ [][LookupNext]_luvars

---------------------------------------------------------------------------

\* No server is asked on the word of one that does not hold its name: its
\* address is the resolver's, or glue from the zone the host's name lies in,
\* however many delegations were followed (authdns.go, delegation).
GlueIsVouchedFor == \A s \in servers : s.via = Resolver \/ InZone(Home[s.host], s.via)

\* The resolver, whose answer may be an hour old, is asked only when no
\* authoritative server has said anything in this lookup -- not when a later
\* hop of a chain fails.
ResolverIsLast == at = "resolver" => ~authority

\* A delegation leads towards the name or nowhere: a lookup cannot be sent in
\* a circle, sideways or back up.
DelegationDescends == referrals' > referrals => zone' > zone /\ zone' \in 0 .. Depth

\* What makes these three inductive: servers are asked for an ancestor of the
\* name, and after an authoritative answer a lookup that goes on has a target.
ZoneIsAnAncestor == zone \in 0 .. Depth
AnswerIsATarget  == authority => hops > 0 \/ at = "done"
ResolverIsFirst  == at = "resolver" => hops = 0

LookupInv ==
    ZoneIsAnAncestor /\ AnswerIsATarget /\ ResolverIsFirst /\ GlueIsVouchedFor

=============================================================================
