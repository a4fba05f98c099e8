------------------------------- MODULE Identities -------------------------------
(***************************************************************************)
(* Who an account is: its record, the index entries that find it by mail   *)
(* address, by OAuth subject, by payment customer and by API token         *)
(* (ee/account), and the sign-ins, webhooks, mints and deletions that      *)
(* change them.  Everyone here uses one mail address and there is one      *)
(* payment customer.  An entry is claimed with O_EXCL; entries, record and *)
(* folder are written one by one, and only some of the writers take the    *)
(* account's lock.  Passwords, sessions and mails are left out.            *)
(***************************************************************************)
EXTENDS Naturals, FiniteSets

CONSTANTS
    Ids,        \* account ids, never used twice
    Subjects,   \* OAuth identities
    Secrets,    \* API tokens, never minted twice
    Calls,      \* requests under way
    MaxTokens,  \* MaxTokensPerAccount
    Nobody,
    MaxFaults

IdentitiesAssumption ==
    /\ MaxTokens \in Nat /\ MaxFaults \in Nat
    /\ Nobody \notin Ids \cup Subjects \cup Secrets

VARIABLES
    record,    \* account.json: the subject ("Nobody": a password), whether its address is claimed, the customer
    byOAuth, byMail, byBilling, byToken,   \* account-index
    token,     \* the token records in the account's folder
    held,      \* account ids whose lock a deletion holds
    call,
    born,      \* history: ids ever given out
    erased,    \* history: accounts whose deletion ended well
    torn,      \* history: accounts whose deletion was cut short
    faults

idvars == <<record, byOAuth, byMail, byBilling, byToken, token, held, call, born, erased, torn, faults>>
index  == <<byOAuth, byMail, byBilling, byToken>>

NoRecord == [stands |-> FALSE, subject |-> Nobody, claims |-> FALSE, billed |-> FALSE]
Idle     == [at |-> "idle"]
Stands(a) == record[a].stands
Step(c, at) == call' = [call EXCEPT ![c].at = at]

IdentitiesTypeOK ==
    /\ \A a \in Ids : /\ record[a].stands \in BOOLEAN /\ record[a].claims \in BOOLEAN
                      /\ record[a].subject \in Subjects \cup {Nobody} /\ record[a].billed \in BOOLEAN
    /\ byOAuth \in [Subjects -> Ids \cup {Nobody}] /\ byToken \in [Secrets -> Ids \cup {Nobody}]
    /\ byMail \in Ids \cup {Nobody} /\ byBilling \in Ids \cup {Nobody}
    /\ token \in [Ids -> SUBSET Secrets] /\ held \subseteq Ids /\ born \subseteq Ids /\ erased \subseteq Ids
    /\ torn \subseteq Ids /\ faults \in 0 .. MaxFaults

IdentitiesInit ==
    /\ record = [a \in Ids |-> NoRecord] /\ token = [a \in Ids |-> {}]
    /\ byOAuth = [s \in Subjects |-> Nobody] /\ byToken = [t \in Secrets |-> Nobody]
    /\ byMail = Nobody /\ byBilling = Nobody
    /\ held = {} /\ call = [c \in Calls |-> Idle] /\ born = {} /\ erased = {} /\ torn = {} /\ faults = 0

\* ---- signing up: ByOAuth, then claimIndex by claimIndex, then the record

ByOAuth(s) == byOAuth[s] # Nobody /\ Stands(byOAuth[s])

SignIn(c, s, verified) ==
    /\ call[c] = Idle
    /\ ~ByOAuth(s)
    /\ \E a \in Ids \ born :
         /\ call' = [call EXCEPT ![c] = [at |-> "oauth", id |-> a, subject |-> s, claims |-> verified]]
         /\ born' = born \cup {a}
    /\ UNCHANGED <<record, index, token, held, erased, torn, faults>>

SignUp(c) ==
    /\ call[c] = Idle
    /\ \E a \in Ids \ born :
         /\ call' = [call EXCEPT ![c] = [at |-> "mail", id |-> a, subject |-> Nobody, claims |-> TRUE]]
         /\ born' = born \cup {a}
    /\ UNCHANGED <<record, index, token, held, erased, torn, faults>>

\* ErrOAuthTaken: provisionFromToken asks ByOAuth again, a browser is told to
\* sign in another time; either way this request makes no account.
ClaimOAuth(c) ==
    /\ call[c].at = "oauth"
    /\ LET s == call[c].subject IN
       IF byOAuth[s] = Nobody
       THEN /\ byOAuth' = [byOAuth EXCEPT ![s] = call[c].id]
            /\ Step(c, IF call[c].claims THEN "mail" ELSE "persist")
       ELSE byOAuth' = byOAuth /\ call' = [call EXCEPT ![c] = Idle]
    /\ UNCHANGED <<record, byMail, byBilling, byToken, token, held, born, erased, torn, faults>>

DropOAuth(c) == byOAuth' = [s \in Subjects |-> IF s = call[c].subject THEN Nobody ELSE byOAuth[s]]

ClaimMail(c) ==
    /\ call[c].at = "mail"
    /\ \/ byMail = Nobody /\ byMail' = call[c].id /\ Step(c, "persist") /\ UNCHANGED byOAuth
       \/ /\ byMail # Nobody /\ byMail' = byMail
          /\ DropOAuth(c) /\ call' = [call EXCEPT ![c] = Idle]
    /\ UNCHANGED <<record, byBilling, byToken, token, held, born, erased, torn, faults>>

Persist(c) ==
    /\ call[c].at = "persist"
    /\ record' = [record EXCEPT ![call[c].id] =
         [stands |-> TRUE, subject |-> call[c].subject, claims |-> call[c].claims, billed |-> FALSE]]
    /\ call' = [call EXCEPT ![c] = Idle]
    /\ UNCHANGED <<index, token, held, born, erased, torn, faults>>

PersistFails(c) ==
    /\ call[c].at = "persist" /\ faults < MaxFaults /\ faults' = faults + 1
    /\ DropOAuth(c) /\ byMail' = (IF call[c].claims THEN Nobody ELSE byMail)
    /\ call' = [call EXCEPT ![c] = Idle]
    /\ UNCHANGED <<record, byBilling, byToken, token, held, born, erased, torn>>

\* ---- API tokens

\* handleCreateToken: the session names a standing account; CreateToken then
\* waits for the lock and makes the folder if it must.
AskToken(c, a) ==
    /\ call[c] = Idle /\ Stands(a)
    /\ call' = [call EXCEPT ![c] = [at |-> "mint", id |-> a]]
    /\ UNCHANGED <<record, index, token, held, born, erased, torn, faults>>

CreateToken(c) ==
    /\ call[c].at = "mint" /\ call[c].id \notin held
    /\ LET a == call[c].id IN
       \/ /\ Cardinality(token[a]) < MaxTokens
          /\ \E t \in Secrets :
               /\ byToken[t] = Nobody /\ \A b \in Ids : t \notin token[b]
               /\ byToken' = [byToken EXCEPT ![t] = a] /\ token' = [token EXCEPT ![a] = @ \cup {t}]
       \/ Cardinality(token[a]) >= MaxTokens /\ UNCHANGED <<byToken, token>>
    /\ call' = [call EXCEPT ![c] = Idle]
    /\ UNCHANGED <<record, byOAuth, byMail, byBilling, held, born, erased, torn, faults>>

DeleteToken(a, t) ==
    /\ Stands(a) /\ a \notin held /\ t \in token[a]
    /\ byToken' = [byToken EXCEPT ![t] = Nobody] /\ token' = [token EXCEPT ![a] = @ \ {t}]
    /\ UNCHANGED <<record, byOAuth, byMail, byBilling, held, call, born, erased, torn, faults>>

\* ---- payments: LinkBilling without the lock, then Update with it

Webhook(c, a) ==
    /\ call[c] = Idle /\ Stands(a) /\ byBilling \in {Nobody, a} /\ ~record[a].billed
    /\ call' = [call EXCEPT ![c] = [at |-> "link", id |-> a]]
    /\ UNCHANGED <<record, index, token, held, born, erased, torn, faults>>

LinkBilling(c) ==
    /\ call[c].at = "link"
    /\ byBilling' = call[c].id /\ Step(c, "bill")
    /\ UNCHANGED <<record, byOAuth, byMail, byToken, token, held, born, erased, torn, faults>>

UpdateBilling(c) ==
    /\ call[c].at = "bill" /\ call[c].id \notin held
    /\ record' = [record EXCEPT ![call[c].id].billed = Stands(call[c].id)]
    /\ call' = [call EXCEPT ![c] = Idle]
    /\ UNCHANGED <<index, token, held, born, erased, torn, faults>>

\* ---- Delete: by what the request read of the account before the lock

AskDelete(c, a) ==
    /\ call[c] = Idle /\ Stands(a)
    /\ call' = [call EXCEPT ![c] = [at |-> "delete", id |-> a, was |-> record[a]]]
    /\ UNCHANGED <<record, index, token, held, born, erased, torn, faults>>

StartDelete(c) ==
    /\ call[c].at = "delete" /\ call[c].id \notin held
    /\ held' = held \cup {call[c].id} /\ Step(c, "unmail")
    /\ UNCHANGED <<record, index, token, born, erased, torn, faults>>

\* Mutant: the entry is removed whoever it names.
UnMailAny(c) ==
    /\ call[c].at = "unmail"
    /\ byMail' = Nobody /\ Step(c, "unlink")
    /\ UNCHANGED <<record, byOAuth, byBilling, byToken, token, held, born, erased, torn, faults>>

\* The entry of the address goes only if it names this account.
UnMail(c) ==
    /\ call[c].at = "unmail"
    /\ byMail' = (IF byMail = call[c].id THEN Nobody ELSE byMail) /\ Step(c, "unlink")
    /\ UNCHANGED <<record, byOAuth, byBilling, byToken, token, held, born, erased, torn, faults>>

UnLink(c) ==
    /\ call[c].at = "unlink"
    /\ byOAuth' = [s \in Subjects |-> IF s = call[c].was.subject THEN Nobody ELSE byOAuth[s]]
    /\ byBilling' = (IF call[c].was.billed THEN Nobody ELSE byBilling) /\ Step(c, "remove")
    /\ UNCHANGED <<record, byMail, byToken, token, held, born, erased, torn, faults>>

RemoveFolder(c) ==
    /\ call[c].at = "remove"
    /\ record' = [record EXCEPT ![call[c].id] = NoRecord] /\ token' = [token EXCEPT ![call[c].id] = {}]
    /\ Step(c, "tokens")
    /\ UNCHANGED <<index, held, born, erased, torn, faults>>

RemoveFails(c) ==
    /\ call[c].at = "remove" /\ faults < MaxFaults /\ faults' = faults + 1
    /\ held' = held \ {call[c].id} /\ torn' = torn \cup {call[c].id}
    /\ call' = [call EXCEPT ![c] = Idle]
    /\ UNCHANGED <<record, index, token, born, erased>>

DropTokenIndex(c) ==
    /\ call[c].at = "tokens"
    /\ byToken' = [t \in Secrets |-> IF byToken[t] = call[c].id THEN Nobody ELSE byToken[t]]
    /\ held' = held \ {call[c].id} /\ erased' = erased \cup {call[c].id}
    /\ call' = [call EXCEPT ![c] = Idle]
    /\ UNCHANGED <<record, byOAuth, byMail, byBilling, token, born, torn, faults>>

Crash ==
    /\ faults < MaxFaults /\ faults' = faults + 1
    /\ call' = [c \in Calls |-> Idle] /\ held' = {} /\ torn' = torn \cup held
    /\ UNCHANGED <<record, index, token, born, erased>>

IdentitiesNext ==
    \/ \E c \in Calls : \/ SignUp(c) \/ ClaimOAuth(c) \/ ClaimMail(c) \/ Persist(c) \/ PersistFails(c)
                        \/ CreateToken(c) \/ LinkBilling(c) \/ UpdateBilling(c)
                        \/ StartDelete(c) \/ UnMail(c) \/ UnLink(c) \/ RemoveFolder(c) \/ RemoveFails(c) \/ DropTokenIndex(c)
    \/ \E c \in Calls, s \in Subjects, v \in BOOLEAN : SignIn(c, s, v)
    \/ \E c \in Calls, a \in Ids : AskToken(c, a) \/ Webhook(c, a) \/ AskDelete(c, a)
    \/ \E a \in Ids, t \in Secrets : DeleteToken(a, t)
    \/ Crash

IdentitiesSpec == IdentitiesInit /\ [][IdentitiesNext]_idvars

---------------------------------------------------------------------------

\* The address is exclusive, whatever deletions, failed sign-ups and crashes
\* fall between: an account whose provider vouched for it (or that signed up
\* with it) is the one the mail index finds, unless it is being deleted or a
\* deletion of it was cut short -- so no two of them ever stand.
Leaving(a) == \E c \in Calls : call[c].at \in {"unlink", "remove"} /\ call[c].id = a

MailIsExclusive ==
    \A a \in Ids \ torn : Stands(a) /\ record[a].claims /\ ~Leaving(a) => byMail = a

\* An erased account leaves no row naming it, dead or not (ee/account/store.go).
\* The code breaks it: a webhook links the billing row without the lock.
ErasedLeavesNoRow ==
    \A a \in erased : /\ byMail # a /\ byBilling # a
                      /\ \A s \in Subjects : byOAuth[s] # a
                      /\ \A t \in Secrets : byToken[t] # a

\* What makes the address exclusive.  A sign-up has its id to itself until the
\* record stands; one that is about to write the record has the address it
\* claims; and a deletion, from the index on, has the account's lock to itself.
SigningUp == {"oauth", "mail", "persist"}
Deleting  == {"unmail", "unlink", "remove", "tokens"}
Records   == [stands : BOOLEAN, subject : Subjects \cup {Nobody}, claims : BOOLEAN, billed : BOOLEAN]
Requests  ==
    {Idle} \cup [at : SigningUp, id : Ids, subject : Subjects \cup {Nobody}, claims : BOOLEAN]
    \cup [at : {"mint", "link", "bill"}, id : Ids] \cup [at : {"delete"} \cup Deleting, id : Ids, was : Records]

RequestsTyped == record \in [Ids -> Records] /\ call \in [Calls -> Requests]
IdsKnown ==
    /\ \A a \in Ids : Stands(a) => a \in born
    /\ \A c \in Calls : call[c].at # "idle" => call[c].id \in born
SignUpsAlone ==
    \A c \in Calls : call[c].at \in SigningUp =>
        /\ ~Stands(call[c].id)
        /\ \A d \in Calls \ {c} : call[d].at # "idle" => call[d].id # call[c].id
AddressClaimed == \A c \in Calls : call[c].at = "persist" /\ call[c].claims => byMail = call[c].id
DeletionsAlone ==
    \A c \in Calls : call[c].at \in Deleting =>
        /\ call[c].id \in held
        /\ \A d \in Calls \ {c} : call[d].at \in Deleting => call[d].id # call[c].id
MailInv == IdsKnown /\ SignUpsAlone /\ AddressClaimed /\ DeletionsAlone /\ MailIsExclusive

=============================================================================
