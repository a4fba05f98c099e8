------------------------------ MODULE SiteRules ------------------------------
(***************************************************************************)
(* What each address of a site does (internal/store/redirects.go,          *)
(* addresses.go): custom domains that serve or redirect, the generated     *)
(* address that serves, is off or redirects, and, while the site runs      *)
(* containers, one generated address per HTTP port.                        *)
(*                                                                         *)
(* A setter is one Update and checks what is attached at that moment; the  *)
(* sweep attaches and detaches domains behind the owner's back, the        *)
(* compose file adds and drops ports, and the mode changes.  What is       *)
(* stored and what is in effect are therefore two things.                  *)
(*                                                                         *)
(* A generated address is found through the address index, one link per    *)
(* label, written after the Update and removed after it.                   *)
(***************************************************************************)
EXTENDS Naturals, FiniteSets

CONSTANTS
    Names,      \* custom domains
    Ports,      \* HTTP ports a compose file may declare
    Labels,     \* random labels
    OwnLabel,   \* the site's view id
    Nothing     \* no rule, no target, no label

RulesAssumption == /\ Nothing \notin Names \cup Ports \cup Labels
                          /\ OwnLabel \notin Labels \cup {Nothing}
                          /\ {"serve", "off"} \cap Names = {}

VARIABLES
    mode,       \* "files" or "container"
    attached,   \* CustomDomains
    claimed,    \* CustomDomains and DomainClaims
    redirect,   \* DomainRedirects
    view,       \* ViewAddress: "serve", "off" or a redirect's target
    label,      \* Addresses: the label of each declared port
    rule,       \* Addresses: the rule of each declared port
    target,     \* DomainTargets
    index,      \* address-index/: the labels that lead to the site
    sync,       \* a SyncAddresses or ClearAddresses between Update and index
    disturbed,  \* something else than its owner took from a stored rule what it may need
    torn        \* a crash or a late sync came between the two writes

rvars == <<mode, attached, claimed, redirect, view, label, rule, target, index,
           sync, disturbed, torn>>

NoSync == [does |-> "nothing", drop |-> {}, add |-> {}]
Rules  == {"serve", "off"} \cup Names

RulesTypeOK ==
    /\ mode \in {"files", "container"}
    /\ attached \subseteq claimed /\ claimed \subseteq Names
    /\ redirect \in [Names -> Names \cup {Nothing}]
    /\ view \in Rules
    /\ label \in [Ports -> Labels \cup {OwnLabel, Nothing}]
    /\ rule \in [Ports -> Rules]
    /\ target \in [Names -> Ports \cup {Nothing}]
    /\ index \subseteq Labels
    /\ sync \in [does : {"nothing", "sync", "clear"}, drop : SUBSET Labels, add : SUBSET Labels]
    /\ disturbed \in BOOLEAN /\ torn \in BOOLEAN

RulesInit ==
    /\ mode = "files"
    /\ attached = {} /\ claimed = {}
    /\ redirect = [d \in Names |-> Nothing]
    /\ view = "serve"
    /\ label = [e \in Ports |-> Nothing]
    /\ rule = [e \in Ports |-> "serve"]
    /\ target = [d \in Names |-> Nothing]
    /\ index = {}
    /\ sync = NoSync
    /\ disturbed = FALSE /\ torn = FALSE

(***************************************************************************)
(* What is in effect, of a record m of the stored fields.                  *)
(***************************************************************************)

Meta == [mode |-> mode, attached |-> attached, redirect |-> redirect,
         label |-> label, rule |-> rule, target |-> target, view |-> view]

Declared(m) == {e \in Ports : m.label[e] # Nothing}
HasTarget(m, d) == m.mode = "files" \/ m.target[d] \in Declared(m)

\* followable: one hop, to an attached domain that serves.
Followable(m, d) ==
    LET t == m.redirect[d]
    IN  /\ t \notin {Nothing, d} /\ t \in m.attached
        /\ m.redirect[t] = Nothing
        /\ HasTarget(m, t)

ServesSite(m, d) == d \in m.attached /\ ~Followable(m, d) /\ HasTarget(m, d)
ServesPort(m, e) == \E d \in m.attached : m.target[d] = e /\ ServesSite(m, d)

\* AddressRule and ViewRule: the stored rule while it can be followed.
AddressRule(m, e) ==
    CASE m.rule[e] = "off"  -> IF ServesPort(m, e) THEN "off" ELSE "serve"
      [] m.rule[e] \in Names -> IF ServesSite(m, m.rule[e]) THEN m.rule[e] ELSE "serve"
      [] OTHER              -> "serve"

ViewRule(m) ==
    CASE m.view = "off"  -> IF \E d \in Names : ServesSite(m, d) THEN "off" ELSE "serve"
      [] m.view \in Names -> IF ServesSite(m, m.view) THEN m.view ELSE "serve"
      [] OTHER           -> "serve"

(***************************************************************************)
(* The owner's setters.                                                    *)
(***************************************************************************)

\* checkTarget and redirectSource.
MayTarget(t) == t \in attached /\ redirect[t] = Nothing /\ HasTarget(Meta, t)
IsTarget(d) ==
    \/ \E from \in Names : redirect[from] = d
    \/ mode = "files" /\ view = d
    \/ \E e \in Declared(Meta) : rule[e] = d

\* Mutant: a domain others redirect to may redirect itself.
RedirectOnwards(d, t) ==
    /\ d \in attached /\ t # d /\ MayTarget(t)
    /\ redirect' = [redirect EXCEPT ![d] = t]
    /\ UNCHANGED <<mode, attached, claimed, view, label, rule, target, index, sync, disturbed, torn>>

SetDomainRedirect(d, t) ==
    /\ d \in attached /\ t # d
    /\ MayTarget(t) /\ ~IsTarget(d)
    /\ redirect' = [redirect EXCEPT ![d] = t]
    /\ UNCHANGED <<mode, attached, claimed, view, label, rule, target, index, sync, disturbed, torn>>

ServeAgain(d) ==
    /\ redirect[d] # Nothing
    /\ redirect' = [redirect EXCEPT ![d] = Nothing]
    /\ UNCHANGED <<mode, attached, claimed, view, label, rule, target, index, sync, disturbed, torn>>

SetViewAddress(r) ==
    /\ mode = "files" /\ view # r
    /\ r = "off" => \E d \in Names : ServesSite(Meta, d)
    /\ r \in Names => MayTarget(r)
    /\ view' = r
    /\ UNCHANGED <<mode, attached, claimed, redirect, label, rule, target, index, sync, disturbed, torn>>

\* The mode is not asked: only a container site has ports.
SetAddressRule(e, r) ==
    /\ e \in Declared(Meta) /\ rule[e] # r
    /\ r = "off" => ServesPort(Meta, e)
    /\ r \in Names => MayTarget(r)
    /\ rule' = [rule EXCEPT ![e] = r]
    /\ UNCHANGED <<mode, attached, claimed, redirect, view, label, target, index, sync, disturbed, torn>>

SetDomainTarget(d, e) ==
    /\ mode = "container" /\ d \in claimed /\ e \in Declared(Meta)
    /\ target' = [target EXCEPT ![d] = e]
    /\ UNCHANGED <<mode, attached, claimed, redirect, view, label, rule, index, sync, disturbed, torn>>

(***************************************************************************)
(* Domains come and go (Domains.tla).                                      *)
(***************************************************************************)

\* mainEndpoint: the port of the site's own address, else the file's first.
Own(l)  == {e \in Ports : l[e] = OwnLabel}
Main(l) == IF Own(l) # {} THEN Own(l) ELSE
           IF \E e \in Ports : l[e] # Nothing THEN {e \in Ports : l[e] # Nothing} ELSE {Nothing}
Defaulted(t, D, main) ==
    [d \in Names |-> IF d \in D /\ t[d] = Nothing THEN main ELSE t[d]]

\* claimDomain: attached or pending, with the main port where it has none.
Claim(d, now) ==
    /\ d \notin claimed
    /\ claimed' = claimed \cup {d}
    /\ attached' = IF now THEN attached \cup {d} ELSE attached
    /\ \E main \in Main(label) :
          target' = IF mode = "container" THEN Defaulted(target, {d}, main) ELSE target
    /\ UNCHANGED <<mode, redirect, view, label, rule, index, sync, disturbed, torn>>

SweepAttaches(d) ==
    /\ d \in claimed \ attached
    /\ attached' = attached \cup {d}
    /\ UNCHANGED <<mode, claimed, redirect, view, label, rule, target, index, sync, disturbed, torn>>

\* The rules it was part of stay: detaching is not the owner's decision.
SweepDetaches(d) ==
    /\ d \in attached
    /\ attached' = attached \ {d}
    /\ disturbed' = TRUE
    /\ UNCHANGED <<mode, claimed, redirect, view, label, rule, target, index, sync, torn>>

\* dropAddressRules, of a domain that is off the lists by then.
Remove(d) ==
    /\ d \in claimed
    /\ claimed' = claimed \ {d} /\ attached' = attached \ {d}
    /\ redirect' = [x \in Names |-> IF x = d \/ redirect[x] = d THEN Nothing ELSE redirect[x]]
    /\ target' = [target EXCEPT ![d] = Nothing]
    /\ LET m == [Meta EXCEPT !.attached = attached', !.redirect = redirect', !.target = target']
       IN  /\ view' = IF view = d \/ (view = "off" /\ \A x \in Names : ~ServesSite(m, x))
                      THEN "serve" ELSE view
           /\ rule' = [e \in Ports |->
                         IF rule[e] = d \/ (rule[e] = "off" /\ ~ServesPort(m, e))
                         THEN "serve" ELSE rule[e]]
    /\ UNCHANGED <<mode, label, index, sync, disturbed, torn>>

(***************************************************************************)
(* Ports.                                                                  *)
(***************************************************************************)

\* SyncAddresses' Update: a declared port keeps its label and rule; the own
\* label goes to a new one when no declared port has it, the others get a
\* label nobody holds; domains without a port get the main one.  `first` is
\* the first new port of the file.
SyncPorts(P, first, fresh) ==
    LET kept == P \cap Declared(Meta)
        new  == P \ kept
        owned == \E e \in kept : label[e] = OwnLabel
        needy == {e \in new : owned \/ e # first}
        label2 == [e \in Ports |->
                     CASE e \in kept        -> label[e]
                       [] e \in new \ needy -> OwnLabel
                       [] e \in needy       -> fresh[e]
                       [] OTHER             -> Nothing]
        taken == index \cup {label[e] : e \in Ports}
    IN  /\ mode = "container" /\ sync = NoSync
        /\ first \in IF new = {} THEN {Nothing} ELSE new
        /\ \A e \in Ports : fresh[e] \in IF e \in needy THEN Labels \ taken ELSE {Nothing}
        /\ \A e, f \in needy : e # f => fresh[e] # fresh[f]
        /\ label' = label2
        /\ rule' = [e \in Ports |-> IF e \in kept THEN rule[e] ELSE "serve"]
        /\ \E main \in Main(label2) : target' = Defaulted(target, claimed, main)
        /\ disturbed' = (disturbed \/ Declared(Meta) \ kept # {})
        /\ sync' = [does |-> "sync",
                    drop |-> {label[e] : e \in Declared(Meta) \ kept} \cap Labels,
                    add  |-> {label2[e] : e \in P} \cap Labels]
        /\ UNCHANGED <<mode, attached, claimed, redirect, view, index, torn>>

\* Mutant: with no label dropped, the index is taken to be right.
SyncOnDrop ==
    /\ sync.does = "sync"
    /\ index' = IF sync.drop = {} THEN index ELSE (index \ sync.drop) \cup sync.add
    /\ torn' = FALSE /\ sync' = NoSync
    /\ UNCHANGED <<mode, attached, claimed, redirect, view, label, rule, target, disturbed>>

\* The rest of SyncAddresses: dropped labels leave the index, and every label
\* of a port is in it, those a crash lost included.
SyncIndex ==
    /\ sync.does = "sync"
    /\ index' = (index \ sync.drop) \cup sync.add
    /\ torn' = FALSE /\ sync' = NoSync
    /\ UNCHANGED <<mode, attached, claimed, redirect, view, label, rule, target, disturbed>>

\* Whether there is a rule that a change of mode could undo.
RulesStored ==
    \/ view # "serve"
    \/ \E d \in Names : redirect[d] # Nothing
    \/ \E e \in Ports : rule[e] # "serve"

\* ClearAddresses, with the containers gone: a sync may be on its way still,
\* from a site read before.
ClearAddresses ==
    /\ mode = "container" /\ sync = NoSync
    /\ sync' = [does |-> "clear", drop |-> {label[e] : e \in Ports} \cap Labels, add |-> {}]
    /\ label' = [e \in Ports |-> Nothing] /\ rule' = [e \in Ports |-> "serve"]
    /\ target' = [d \in Names |-> Nothing]
    /\ disturbed' = (disturbed \/ RulesStored)
    /\ UNCHANGED <<mode, attached, claimed, redirect, view, index, torn>>

ClearIndex ==
    /\ sync.does = "clear"
    /\ index' = index \ sync.drop
    /\ sync' = NoSync
    /\ UNCHANGED <<mode, attached, claimed, redirect, view, label, rule, target, disturbed, torn>>

\* A crash, in the middle of either.
Die ==
    /\ sync # NoSync
    /\ \E drop \in SUBSET sync.drop, add \in SUBSET sync.add :
          index' = (index \ drop) \cup add
    /\ torn' = TRUE /\ sync' = NoSync
    /\ UNCHANGED <<mode, attached, claimed, redirect, view, label, rule, target, disturbed>>

\* writeSettings, entering container mode or leaving it: after ClearAddresses,
\* with nobody to keep a sync from coming in between.
SwitchMode(to) ==
    /\ mode # to /\ sync = NoSync
    /\ mode' = to
    /\ disturbed' = (disturbed \/ RulesStored)
    /\ torn' = (torn \/ (to = "files" /\ Declared(Meta) # {}))
    /\ UNCHANGED <<attached, claimed, redirect, view, label, rule, target, index, sync>>

RulesNext ==
    \/ \E d, t \in Names : SetDomainRedirect(d, t)
    \/ \E d \in Names : \/ ServeAgain(d) \/ Remove(d)
                        \/ SweepAttaches(d) \/ SweepDetaches(d)
                        \/ \E now \in BOOLEAN : Claim(d, now)
    \/ \E r \in Rules : SetViewAddress(r) \/ \E e \in Ports : SetAddressRule(e, r)
    \/ \E d \in Names, e \in Ports : SetDomainTarget(d, e)
    \/ \E P \in SUBSET Ports, first \in Ports \cup {Nothing},
          fresh \in [Ports -> Labels \cup {Nothing}] : SyncPorts(P, first, fresh)
    \/ SyncIndex \/ ClearAddresses \/ ClearIndex \/ Die
    \/ \E to \in {"files", "container"} : SwitchMode(to)

RulesSpec == RulesInit /\ [][RulesNext]_rvars

(***************************************************************************)
(* What the rules promise.                                                 *)
(***************************************************************************)

\* A rule the owner stored is in effect, whatever the owner does in whatever
\* order afterwards, until something that is not the owner's decision takes
\* away what it needs: the sweep a domain, the compose file a port, a switch
\* of the mode the ports.  An off of one port alone may lapse before, when the
\* domain that serves the port is pointed elsewhere.
RulesInEffect ==
    ~disturbed =>
        /\ \A d \in attached : redirect[d] # Nothing => Followable(Meta, d)
        /\ mode = "files" => ViewRule(Meta) = view
        /\ \A e \in Declared(Meta) : rule[e] \in Names => AddressRule(Meta, e) = rule[e]

\* Every declared port has an address no other has, every address is found,
\* and a static site has none.  Ports come and go while domains and rules
\* change, and a crash in between is made good by the next sync.
PortsHaveAddresses ==
    sync = NoSync /\ ~torn =>
        /\ \A e, f \in Declared(Meta) : label[e] = label[f] => e = f
        /\ {label[e] : e \in Declared(Meta)} \ {OwnLabel} \subseteq index
        /\ mode = "files" => Declared(Meta) = {}

\* What keeps them: a rule leads to a domain that serves, so a rule of a port
\* is one of a declared port; and labels are drawn that no port and no link has.
Serving == {d \in attached : redirect[d] = Nothing /\ HasTarget(Meta, d)}

EffectInv ==
    ~disturbed =>
        /\ \A d \in Names : redirect[d] # Nothing =>
              d \in attached /\ redirect[d] # d /\ redirect[d] \in Serving
        /\ view \in Names => mode = "files" /\ view \in Serving
        /\ view = "off" => mode = "files" /\ Serving # {}
        /\ \A e \in Ports : rule[e] \in Names => rule[e] \in Serving
        /\ \A e \in Ports \ Declared(Meta) : rule[e] = "serve"

LabelsInv ==
    /\ \A e, f \in Declared(Meta) : label[e] = label[f] => e = f
    /\ sync = NoSync \/ sync.does \in {"sync", "clear"}
    /\ sync = NoSync /\ ~torn => {label[e] : e \in Declared(Meta)} \cap Labels \subseteq index
    /\ sync.does = "sync" =>
          mode = "container" /\ {label[e] : e \in Declared(Meta)} \cap Labels \subseteq sync.add
    /\ sync.does = "clear" => Declared(Meta) = {}
    /\ ~torn /\ mode = "files" => Declared(Meta) = {}
===============================================================================
