-------------------------- MODULE MCTransferOffer --------------------------
(* Model values for the transfer of sites.                                 *)
EXTENDS TransferOffer, FiniteSets, TLC

\* What is bounded is either of two: offers of one site that race each other,
\* the other sites deleted and nobody's any more, or an offer of several sites
\* that crashes and failures hit.
Gone(x) ==
    /\ owner[x] = NoOne /\ rec.site # x
    /\ \A a \in Accounts : <<a, x>> \notin markers \cup young
    /\ \A o \in Offers : x \notin offers[o].sites
    /\ \A c \in Asks : x \notin ask[c].sites \cup ask[c].drop
    /\ \A r \in Runs : x \notin run[r].saw \cup run[r].left \cup run[r].todo

OneSite == faults = 0 /\ \E x \in Sites : \A y \in Sites \ {x} : Gone(y)

OneOffer ==
    /\ Cardinality({o \in Offers : offers[o].state # "none"}) <= 1
    /\ Cardinality({r \in Accepts : run[r].step # "idle"}) <= 1
    /\ Cardinality({c \in Asks : ask[c].step # "idle"}) <= 1
    /\ faults > 0 => \E o \in Offers : Cardinality(offers[o].sites) > 1

Bound == OneSite \/ OneOffer

Symmetry ==
    Permutations(Offers) \cup Permutations(Sites) \cup Permutations(Accounts)
    \cup Permutations(Accepts) \cup Permutations(Asks)
=============================================================================
