-------------------------------- MODULE SignIn --------------------------------
(***************************************************************************)
(* Signing in with the operator's issuer: in the browser (ee/oauth.go,     *)
(* ee/authn/oidc.go), with an access token at /mcp or the Git gate         *)
(* (ee/mcpoauth.go, ee/mcpconsent.go), and what the Git tab offers         *)
(* (httpapi/gitoauth.go).  Each discovers the issuer lazily and keeps what *)
(* it found in a way of its own; a token also needs the stack's word that  *)
(* its person has no document outstanding, kept for a while.               *)
(*                                                                         *)
(* Time is counted in what is left or has gone by, so that nothing bounds  *)
(* it.  Steps of the process take none; the issuer, the stack and the      *)
(* people may.  Signatures, audiences and token types are one condition.   *)
(***************************************************************************)
EXTENDS Integers, FiniteSets

CONSTANTS
    People,        \* subjects at the issuer
    Calls,         \* requests with an access token
    Browsers,
    Viewers,       \* people looking at the Git tab
    Room,          \* consentCacheMax
    Trusted,       \* consentCacheTTL
    Patience,      \* consentTimeout
    Retry,         \* discoveryRetry
    Shown, Hidden  \* gitOAuthTTL, gitOAuthFailedTTL

SignInAssumption ==
    /\ Room \in Nat \ {0} /\ Trusted \in Nat \ {0} /\ Patience \in Nat
    /\ Retry \in Nat \ {0} /\ Shown \in Nat \ {0} /\ Hidden \in Nat \ {0}

VARIABLES
    up,           \* the issuer answers
    web,          \* what the browser sign-in's one discovery found
    tokens,       \* the token verifier: found, and the wait for the next try
    tab,          \* the Git tab's cache
    viewer,       \* per person looking at the Git tab: what they see
    outstanding,  \* people a required document is outstanding for
    passed,       \* the consent cache: what is left of each answer
    accounts,     \* people with an account here
    call,         \* per request: where it is, and whose
    browser,      \* per browser: where it is, and whose
    gap           \* history: per person, time since the stack last had them in

svars == <<up, web, tokens, tab, viewer, outstanding, passed, accounts, call, browser, gap>>
discovered == <<web, tokens, tab, viewer>>
people     == <<outstanding, accounts, gap>>

Stale == Trusted + Patience + 1

CallPlaces == {"idle", "unavailable", "verified", "asked", "complete", "honoured", "refused"}

SignInTypeOK ==
    /\ up \in BOOLEAN /\ web \in {"new", "found", "failed"}
    /\ tokens \in [found : BOOLEAN, wait : 0 .. Retry]
    /\ tab \in [found : BOOLEAN, left : 0 .. (Shown + Hidden), pending : BOOLEAN]
    /\ viewer \in [Viewers -> {"away", "waiting", "offered", "nothing"}]
    /\ outstanding \subseteq People /\ accounts \subseteq People
    /\ DOMAIN passed \subseteq People /\ \A p \in DOMAIN passed : passed[p] \in 0 .. Trusted
    /\ call \in [Calls -> [at : CallPlaces, who : People, age : 0 .. Patience]]
    /\ browser \in [Browsers -> [at : {"away", "unavailable", "atIssuer", "in"}, who : People]]
    /\ gap \in [People -> 0 .. Stale]

SignInInit ==
    /\ up \in BOOLEAN /\ web = "new"
    /\ tokens = [found |-> FALSE, wait |-> 0]
    /\ tab = [found |-> FALSE, left |-> 0, pending |-> FALSE] /\ viewer = [v \in Viewers |-> "away"]
    /\ outstanding = {} /\ passed = <<>> /\ accounts = {}
    /\ call \in [Calls -> [at : {"idle"}, who : People, age : {0}]]
    /\ browser \in [Browsers -> [at : {"away"}, who : People]]
    /\ gap = [p \in People |-> 0]

(***************************************************************************)
(* An access token (mcpOAuth.Verify).                                      *)
(***************************************************************************)

Move(c, at) == call' = [call EXCEPT ![c].at = at, ![c].age = 0]

\* Mutant: every refused request starts the retry interval again.
PresentResets(c) ==
    /\ call[c].at = "idle"
    /\ LET found == tokens.found \/ (tokens.wait = 0 /\ up) IN
       /\ tokens' = [found |-> found, wait |-> IF found THEN 0 ELSE Retry]
       /\ Move(c, IF found THEN "verified" ELSE "unavailable")
    /\ UNCHANGED <<up, web, tab, viewer, people, passed, browser>>

\* tokenVerifier: one discovery at a time, and after a failure no other
\* before the retry interval is over.
Present(c) ==
    /\ call[c].at = "idle"
    /\ LET found == tokens.found \/ (tokens.wait = 0 /\ up) IN
       /\ tokens' = [found |-> found,
                     wait  |-> IF found THEN 0 ELSE IF tokens.wait = 0 THEN Retry ELSE tokens.wait]
       /\ Move(c, IF found THEN "verified" ELSE "unavailable")
    /\ UNCHANGED <<up, web, tab, viewer, people, passed, browser>>

\* Mutant: an answer found is good however old it is.
FoundIsGood(p) == p \in DOMAIN passed

Cached(p) == p \in DOMAIN passed /\ passed[p] > 0

Without(p) == [q \in DOMAIN passed \ {p} |-> passed[q]]

\* The account of the token's person, created as their first browser sign-in
\* would have; of two at once the second finds the first's.
Honour(c) ==
    /\ accounts' = accounts \cup {call[c].who}
    /\ Move(c, "honoured")

LookUp(c) ==
    /\ call[c].at = "verified"
    /\ IF Cached(call[c].who)
       THEN Honour(c) /\ UNCHANGED passed
       ELSE Move(c, "asked") /\ passed' = Without(call[c].who) /\ UNCHANGED accounts
    /\ UNCHANGED <<up, discovered, outstanding, gap, browser>>

\* The stack's answer, of the moment it gives it; it may be on its way until
\* the question times out.
StackAnswers(c) ==
    /\ call[c].at = "asked"
    /\ call' = [call EXCEPT ![c].at = IF call[c].who \in outstanding THEN "refused" ELSE "complete"]
    /\ UNCHANGED <<up, discovered, people, passed, browser>>

\* It fails closed.
NoAnswer(c) ==
    /\ call[c].at \in {"asked", "complete"}
    /\ Move(c, "refused")
    /\ UNCHANGED <<up, discovered, people, passed, browser>>

\* What is left when there is no room: first the expired go, then any.
Fresh    == {p \in DOMAIN passed : passed[p] > 0}
Kept(ps) == IF Cardinality(DOMAIN passed) < Room THEN ps = DOMAIN passed
            ELSE /\ ps \subseteq Fresh
                 /\ IF Cardinality(Fresh) < Room THEN ps = Fresh ELSE Cardinality(ps) = Room - 1

Remember(c) ==
    /\ call[c].at = "complete"
    /\ \E ps \in SUBSET People :
         /\ Kept(ps)
         /\ passed' = [p \in ps \cup {call[c].who} |-> IF p = call[c].who THEN Trusted ELSE passed[p]]
    /\ Honour(c)
    /\ UNCHANGED <<up, discovered, outstanding, gap, browser>>

Answered(c) ==
    /\ call[c].at \in {"unavailable", "honoured", "refused"}
    /\ Move(c, "idle")
    /\ UNCHANGED <<up, discovered, people, passed, browser>>

(***************************************************************************)
(* The browser, and the Git tab.                                           *)
(***************************************************************************)

\* oidcProvider.init is done once, under the context of the request that came
\* first: that person hanging up is a failure too.
Discover(hangsUp) == web' = IF web # "new" THEN web ELSE IF up /\ ~hangsUp THEN "found" ELSE "failed"

Leave(b) ==
    /\ browser[b].at \in {"away", "unavailable"}
    /\ \E hangsUp \in BOOLEAN : Discover(hangsUp)
    /\ browser' = [browser EXCEPT ![b].at = IF web' = "found" THEN "atIssuer" ELSE "unavailable"]
    /\ UNCHANGED <<up, tokens, tab, viewer, people, passed, call>>

\* The code is exchanged with the issuer, whose gate the person came through.
Exchanged(b) == up /\ browser[b].who \notin outstanding

\* handleOAuthCallback: the account linked to the subject, or a new one; any
\* failure sends the person back to the sign-in page.
Return(b) ==
    /\ browser[b].at = "atIssuer"
    /\ \/ /\ Exchanged(b)
          /\ browser' = [browser EXCEPT ![b].at = "in"]
          /\ accounts' = accounts \cup {browser[b].who}
       \/ browser' = [browser EXCEPT ![b].at = "away"] /\ UNCHANGED accounts
    /\ UNCHANGED <<up, discovered, outstanding, gap, passed, call>>

SignOut(b) ==
    /\ browser[b].at = "in" /\ browser' = [browser EXCEPT ![b].at = "away"]
    /\ UNCHANGED <<up, discovered, people, passed, call>>

OpenTab(v) ==
    /\ viewer[v] # "waiting"
    /\ IF tab.left > 0
       THEN viewer' = [viewer EXCEPT ![v] = IF tab.found THEN "offered" ELSE "nothing"] /\ UNCHANGED tab
       ELSE viewer' = [viewer EXCEPT ![v] = "waiting"] /\ tab' = [tab EXCEPT !.pending = TRUE]
    /\ UNCHANGED <<up, web, tokens, people, passed, call, browser>>

\* The discovery goes on when the person who asked for it does not wait.
CloseTab(v) ==
    /\ viewer[v] = "waiting" /\ viewer' = [viewer EXCEPT ![v] = "away"]
    /\ UNCHANGED <<up, web, tokens, tab, people, passed, call, browser>>

TabDiscovers ==
    /\ tab.pending
    /\ tab' = [found |-> up, left |-> IF up THEN Shown ELSE Hidden, pending |-> FALSE]
    /\ viewer' = [v \in Viewers |-> IF viewer[v] # "waiting" THEN viewer[v]
                                    ELSE IF up THEN "offered" ELSE "nothing"]
    /\ UNCHANGED <<up, web, tokens, people, passed, call, browser>>

(***************************************************************************)
(* The world.                                                              *)
(***************************************************************************)

IssuerGoes  == up /\ up' = FALSE /\ UNCHANGED <<discovered, people, passed, call, browser>>
IssuerComes == ~up /\ up' = TRUE /\ UNCHANGED <<discovered, people, passed, call, browser>>

\* A new document to accept, and its acceptance.
Publish(p) ==
    /\ p \notin outstanding /\ outstanding' = outstanding \cup {p}
    /\ UNCHANGED <<up, discovered, passed, accounts, call, browser, gap>>

Accept(p) ==
    /\ p \in outstanding /\ outstanding' = outstanding \ {p}
    /\ gap' = [gap EXCEPT ![p] = 0]
    /\ UNCHANGED <<up, discovered, passed, accounts, call, browser>>

Less(n) == IF n = 0 THEN 0 ELSE n - 1

Waiting(c) == call[c].at \in {"asked", "complete"}

Tick ==
    /\ \A c \in Calls : Waiting(c) => call[c].age < Patience
    /\ call'   = [c \in Calls |-> IF Waiting(c) THEN [call[c] EXCEPT !.age = @ + 1] ELSE call[c]]
    /\ tokens' = [tokens EXCEPT !.wait = Less(@)]
    /\ tab'    = [tab EXCEPT !.left = Less(@)]
    /\ passed' = [p \in DOMAIN passed |-> Less(passed[p])]
    /\ gap'    = [p \in People |-> IF p \notin outstanding THEN 0
                                   ELSE IF gap[p] = Stale THEN Stale ELSE gap[p] + 1]
    /\ UNCHANGED <<up, web, viewer, outstanding, accounts, browser>>

Works(c) == Present(c) \/ LookUp(c) \/ StackAnswers(c) \/ NoAnswer(c) \/ Remember(c) \/ Answered(c)

SignInNext ==
    \/ \E c \in Calls : Works(c)
    \/ \E b \in Browsers : Leave(b) \/ Return(b) \/ SignOut(b)
    \/ TabDiscovers \/ \E v \in Viewers : OpenTab(v) \/ CloseTab(v)
    \/ IssuerGoes \/ IssuerComes
    \/ \E p \in People : Publish(p) \/ Accept(p)
    \/ Tick

\* Clients call again, people try again and look again, and time passes.
SignInFairness ==
    /\ WF_svars(Tick) /\ \A c \in Calls : WF_svars(Works(c))
    /\ \A b \in Browsers : WF_svars(Leave(b))
    /\ WF_svars(TabDiscovers) /\ \A v \in Viewers : WF_svars(OpenTab(v))

SignInSpec == SignInInit /\ [][SignInNext]_svars /\ SignInFairness

(***************************************************************************)
(* Properties.                                                             *)
(***************************************************************************)

\* A document published is asked for soon: a token is honoured only while its
\* person had nothing outstanding at most one trusted answer, and the time the
\* answer may have been on its way, ago.
GateIsAskedFor ==
    \A c \in Calls : call[c].at # "honoured" /\ call'[c].at = "honoured" => gap[call[c].who] < Stale

\* An issuer that is back is back for everybody: once it stays up, no call is
\* told for ever that it is not there, and the Git tab offers the sign-in.
IssuerIsUp == up
NobodyWaits ==
    /\ \A c \in Calls : call[c].at # "unavailable"
    /\ \A v \in Viewers : viewer[v] # "nothing"

\* "This provider is temporarily unavailable. Try again shortly.": a person
\* who tries again gets to the issuer once it stays up.  The code breaks it: a
\* failed discovery is kept for the life of the provider.
SignInRecovers ==
    <>[]up => \A b \in Browsers : <>[](browser[b].at # "unavailable")
===============================================================================
