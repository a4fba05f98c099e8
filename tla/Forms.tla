--------------------------------- MODULE Forms ---------------------------------
(***************************************************************************)
(* The mail forms of one site (internal/store/forms.go, internal/forms,    *)
(* internal/httpapi/forms*.go): a form mails what visitors post to a       *)
(* recipient who confirmed by a mailed link and may stop it by another,    *)
(* from any message, however old.  Every change of a form is one Update of *)
(* meta.json; what is mailed follows from what was read before.  The       *)
(* links' life and the wording of mails are left out, the throttles and    *)
(* the parse of a post are choices.                                        *)
(***************************************************************************)
EXTENDS Naturals, Sequences, FiniteSets

CONSTANTS
    Keys,          \* form keys, each used once
    People,        \* addresses
    Calls,         \* requests of the owner under way
    Posts,         \* submissions under way
    Solutions,     \* captcha challenges
    Limit,         \* the site's plan
    Nobody,
    MaxChanges, MaxFaults

FormsAssumption ==
    /\ Limit \in Nat /\ MaxChanges \in Nat /\ MaxFaults \in Nat
    /\ Nobody \notin People \cup Solutions

VARIABLES
    forms,     \* Meta.Forms, in creation order
    allowed,   \* formsLimit: the plan's, or none while the site is not trusted
    served,    \* neither locked nor expired
    call,      \* the link each request of the owner is about to mail
    mail,      \* confirmation links in mailboxes
    stops,     \* stop links in mailboxes
    post,      \* what each submission has read, and where it is
    bound,     \* the form each challenge was made for
    used,      \* Captcha.used
    consent,   \* history: whose last word on a form is yes
    void,      \* history: links minted before a stop or a change of recipient
    mailed,    \* history: messages each solution mailed
    excused,   \* history: lost answers and restarts that allow another
    changes, faults

fvars == <<forms, allowed, served, call, mail, stops, post, bound, used, consent, void, mailed, excused,
           changes, faults>>
historyVars == <<consent, void>>
captchaVars == <<bound, used, mailed, excused>>
siteVars    == <<allowed, served>>

NoLink == [key |-> Nobody, rcpt |-> Nobody, seq |-> 0]
NoPost == [at |-> "none"]

Statuses == {"pending", "active", "stopped"}
Entries  == [key : Keys, rcpt : People, status : Statuses, seq : Nat, captcha : BOOLEAN]
Links    == [key : Keys, rcpt : People, seq : Nat]
Read     == [at : {"read", "send"}, form : Entries, sol : Solutions \cup {Nobody}, agreed : BOOLEAN]

FormsTyped ==
    /\ forms \in Seq(Entries) /\ call \in [Calls -> Links \cup {NoLink}]
    /\ mail \subseteq Links /\ void \subseteq Links
    /\ post \in [Posts -> Read \cup {NoPost}]
    /\ used \subseteq Solutions
    /\ consent \subseteq Keys \X People /\ stops \subseteq Keys \X People
    /\ mailed \in [Solutions -> Nat] /\ excused \in [Solutions -> Nat]

FormsTypeOK ==
    /\ FormsTyped
    /\ allowed \in {0, Limit} /\ served \in BOOLEAN
    /\ changes \in 0 .. MaxChanges /\ faults \in 0 .. MaxFaults

FormsInit ==
    /\ forms = <<>> /\ allowed = Limit /\ served = TRUE
    /\ call = [c \in Calls |-> NoLink] /\ mail = {} /\ stops = {}
    /\ post = [p \in Posts |-> NoPost]
    /\ bound = [s \in Solutions |-> Nobody] /\ used = {}
    /\ consent = {} /\ void = {}
    /\ mailed = [s \in Solutions |-> 0] /\ excused = [s \in Solutions |-> 0]
    /\ changes = 0 /\ faults = 0

At(k)   == {i \in DOMAIN forms : forms[i].key = k}
Gone(k) == At(k) = {}
Find(k) == CHOOSE i \in DOMAIN forms : forms[i].key = k
Paused(i) == i > allowed

LinkOf(f) == [key |-> f.key, rcpt |-> f.rcpt, seq |-> f.seq]
Minted == mail \cup ({call[c] : c \in Calls} \ {NoLink})

Counted == changes < MaxChanges /\ changes' = changes + 1
Idle(c) == call[c] = NoLink

(***************************************************************************)
(* The owner.  Each request ends by mailing the link it has minted.        *)
(***************************************************************************)

\* addForm: the plan is asked before the throttles and again under the lock.
AddForm(c, k, r, captcha) ==
    /\ Idle(c) /\ Gone(k) /\ Counted /\ Len(forms) < allowed
    /\ \A l \in Minted \cup void : l.key # k
    /\ LET f == [key |-> k, rcpt |-> r, status |-> "pending", seq |-> 0, captcha |-> captcha] IN
       /\ forms' = Append(forms, f)
       /\ call' = [call EXCEPT ![c] = LinkOf(f)]
    /\ UNCHANGED <<siteVars, captchaVars, historyVars, mail, stops, post, faults>>

\* updateForm: a new recipient puts the form back and moves its seq.
ChangeRecipient(c, k, r) ==
    /\ Idle(c) /\ ~Gone(k) /\ Counted
    /\ LET i == Find(k)
           f == [forms[i] EXCEPT !.rcpt = r, !.status = "pending", !.seq = @ + 1]
       IN  /\ r # forms[i].rcpt
           /\ forms' = [forms EXCEPT ![i] = f]
           /\ call' = [call EXCEPT ![c] = LinkOf(f)]
    /\ void' = void \cup {l \in Minted : l.key = k}
    /\ consent' = {x \in consent : x[1] # k}
    /\ UNCHANGED <<siteVars, captchaVars, mail, stops, post, faults>>

ToggleCaptcha(k) ==
    /\ ~Gone(k) /\ Counted
    /\ forms' = [forms EXCEPT ![Find(k)].captcha = ~@]
    /\ UNCHANGED <<siteVars, captchaVars, historyVars, call, mail, stops, post, faults>>

Without(fs, i) == SubSeq(fs, 1, i - 1) \o SubSeq(fs, i + 1, Len(fs))

DeleteForm(k) ==
    /\ ~Gone(k) /\ Counted
    /\ forms' = Without(forms, Find(k))
    /\ UNCHANGED <<siteVars, captchaVars, historyVars, call, mail, stops, post, faults>>

\* resendConfirmation, RequestConfirmation: a stopped form waits again.
Resend(c, k) ==
    /\ Idle(c) /\ ~Gone(k) /\ Counted
    /\ LET i == Find(k)  f == [forms[i] EXCEPT !.status = "pending"] IN
       /\ forms[i].status # "active"
       /\ forms' = [forms EXCEPT ![i] = f]
       /\ call' = [call EXCEPT ![c] = LinkOf(f)]
    /\ UNCHANGED <<siteVars, captchaVars, historyVars, mail, stops, post, faults>>

\* sendConfirmation; the mail may fail, and the form stays pending.
SendConfirmation(c) ==
    /\ ~Idle(c)
    /\ \E fails \in BOOLEAN :
         /\ fails => faults < MaxFaults
         /\ faults' = IF fails THEN faults + 1 ELSE faults
         /\ mail' = IF fails THEN mail ELSE mail \cup {call[c]}
    /\ call' = [call EXCEPT ![c] = NoLink]
    /\ UNCHANGED <<siteVars, captchaVars, historyVars, forms, stops, post, changes>>

(***************************************************************************)
(* The recipient.  A link is kept, and may be followed at any time.        *)
(***************************************************************************)

Stale(f, l) == f.rcpt # l.rcpt \/ f.seq # l.seq \/ f.status = "stopped"

\* formConfirm, ConfirmForm.
ConfirmForm(l) ==
    /\ l \in mail /\ ~Gone(l.key)
    /\ LET i == Find(l.key)  takes == ~Stale(forms[i], l) IN
       /\ takes /\ forms[i].status = "pending"
       /\ forms' = [forms EXCEPT ![i].status = "active"]
    /\ consent' = IF l \in void THEN consent ELSE consent \cup {<<l.key, l.rcpt>>}
    /\ UNCHANGED <<siteVars, captchaVars, void, call, mail, stops, post, changes, faults>>

\* Mutant: a stop leaves the seq alone.
StopKeepsSeq(k, r) ==
    /\ <<k, r>> \in stops
    /\ forms' = IF Gone(k) \/ forms[Find(k)].rcpt # r THEN forms
                ELSE [forms EXCEPT ![Find(k)].status = "stopped"]
    /\ consent' = consent \ {<<k, r>>}
    /\ void' = void \cup {l \in Minted : l.key = k /\ l.rcpt = r}
    /\ UNCHANGED <<siteVars, captchaVars, call, mail, stops, post, changes, faults>>

\* formStop, StopForm: checked against the address alone.
StopForm(k, r) ==
    /\ <<k, r>> \in stops
    /\ LET i == Find(k)
           changed == ~Gone(k) /\ forms[i].rcpt = r /\ forms[i].status # "stopped"
           f == [forms[i] EXCEPT !.status = "stopped", !.seq = @ + 1]
       IN  /\ changed => Counted
           /\ ~changed => UNCHANGED changes
           /\ forms' = IF changed THEN [forms EXCEPT ![i] = f] ELSE forms
    /\ consent' = consent \ {<<k, r>>}
    /\ void' = void \cup {l \in Minted : l.key = k /\ l.rcpt = r}
    /\ UNCHANGED <<siteVars, captchaVars, call, mail, stops, post, faults>>

(***************************************************************************)
(* Visitors.                                                               *)
(***************************************************************************)

Open(i) == served /\ ~Paused(i) /\ forms[i].status = "active"

\* formChallenge: bound to the form that asks.
Challenge(k, s) ==
    /\ ~Gone(k) /\ Open(Find(k)) /\ forms[Find(k)].captcha /\ bound[s] = Nobody
    /\ bound' = [bound EXCEPT ![s] = k]
    /\ UNCHANGED <<siteVars, historyVars, forms, call, mail, stops, post, used, mailed, excused, changes, faults>>

\* submitForm up to the body: the site as it was read decides from here on.
Submit(p, k, s) ==
    /\ post[p].at = "none" /\ ~Gone(k) /\ Open(Find(k))
    /\ forms[Find(k)].captcha => s # Nobody
    /\ ~forms[Find(k)].captcha => s = Nobody
    /\ post' = [post EXCEPT ![p] = [at |-> "read", form |-> forms[Find(k)], sol |-> s,
                                    agreed |-> <<k, forms[Find(k)].rcpt>> \in consent]]
    /\ UNCHANGED <<siteVars, historyVars, captchaVars, forms, call, mail, stops, changes, faults>>

\* Parse, Honeypot: refused, or a success that mails nothing.
Refuse(p) ==
    /\ post[p].at = "read" /\ post' = [post EXCEPT ![p] = NoPost]
    /\ UNCHANGED <<siteVars, historyVars, captchaVars, forms, call, mail, stops, changes, faults>>

\* Verify: the solution is of this form and not spent; it is spent now.
Verify(p) ==
    /\ post[p].at = "read"
    /\ LET s == post[p].sol
           solved == ~post[p].form.captcha \/ (bound[s] = post[p].form.key /\ s \notin used)
       IN  /\ used' = IF solved /\ s # Nobody THEN used \cup {s} ELSE used
           /\ post' = [post EXCEPT ![p] = IF solved THEN [@ EXCEPT !.at = "send"] ELSE NoPost]
    /\ UNCHANGED <<siteVars, historyVars, forms, call, mail, stops, bound, mailed, excused, changes, faults>>

\* Empty, throttled or not built: the solution is given back.
Release(p) ==
    /\ post[p].at = "send"
    /\ used' = used \ {post[p].sol} /\ post' = [post EXCEPT ![p] = NoPost]
    /\ UNCHANGED <<siteVars, historyVars, forms, call, mail, stops, bound, mailed, excused, changes, faults>>

Count(s, f) == IF s = Nobody THEN f ELSE [f EXCEPT ![s] = @ + 1]

\* Mutant: an unsent QUIT makes a message the server took a failed one.
SendReportsQuit(p) ==
    /\ post[p].at = "send"
    /\ \E delivered, quit \in BOOLEAN :
         /\ used' = IF delivered /\ quit THEN used ELSE used \ {post[p].sol}
         /\ mailed' = IF delivered THEN Count(post[p].sol, mailed) ELSE mailed
         /\ stops' = IF delivered THEN stops \cup {<<post[p].form.key, post[p].form.rcpt>>} ELSE stops
    /\ post' = [post EXCEPT ![p] = NoPost]
    /\ UNCHANGED <<siteVars, historyVars, forms, call, mail, bound, excused, changes, faults>>

\* Send, over SMTP: what the server took is sent; a failure gives the
\* solution back, though the answer may only have been lost.
Send(p) ==
    /\ post[p].at = "send"
    /\ \E delivered, told \in BOOLEAN :
         /\ ~(delivered /\ told) => faults < MaxFaults
         /\ faults' = IF delivered /\ told THEN faults ELSE faults + 1
         /\ used' = IF delivered /\ told THEN used ELSE used \ {post[p].sol}
         /\ mailed' = IF delivered THEN Count(post[p].sol, mailed) ELSE mailed
         /\ excused' = IF delivered /\ ~told THEN Count(post[p].sol, excused) ELSE excused
         /\ stops' = IF delivered THEN stops \cup {<<post[p].form.key, post[p].form.rcpt>>} ELSE stops
    /\ post' = [post EXCEPT ![p] = NoPost]
    /\ UNCHANGED <<siteVars, historyVars, forms, call, mail, bound, changes>>

(***************************************************************************)
(* The plan, the lock, a restart.                                          *)
(***************************************************************************)

PlanOrTrust ==
    /\ Counted /\ allowed' = IF allowed = 0 THEN Limit ELSE 0
    /\ UNCHANGED <<served, historyVars, captchaVars, forms, call, mail, stops, post, faults>>

LockOrExpiry ==
    /\ Counted /\ served' = ~served
    /\ UNCHANGED <<allowed, historyVars, captchaVars, forms, call, mail, stops, post, faults>>

\* A restart ends every request and forgets which solutions were spent.
Restart ==
    /\ faults < MaxFaults /\ faults' = faults + 1
    /\ call' = [c \in Calls |-> NoLink] /\ post' = [p \in Posts |-> NoPost]
    /\ used' = {} /\ excused' = [s \in Solutions |-> excused[s] + (IF s \in used THEN 1 ELSE 0)]
    /\ UNCHANGED <<siteVars, historyVars, forms, mail, stops, bound, mailed, changes>>

FormsNext ==
    \/ \E k \in Keys :
         \/ \E c \in Calls, r \in People :
              ChangeRecipient(c, k, r) \/ \E captcha \in BOOLEAN : AddForm(c, k, r, captcha)
         \/ \E c \in Calls : Resend(c, k)
         \/ ToggleCaptcha(k) \/ DeleteForm(k)
         \/ \E r \in People : StopForm(k, r)
         \/ \E s \in Solutions : Challenge(k, s)
         \/ \E p \in Posts, s \in Solutions \cup {Nobody} : Submit(p, k, s)
    \/ \E c \in Calls : SendConfirmation(c)
    \/ \E l \in mail : ConfirmForm(l)
    \/ \E p \in Posts : Refuse(p) \/ Verify(p) \/ Release(p) \/ Send(p)
    \/ PlanOrTrust \/ LockOrExpiry \/ Restart

FormsSpec == FormsInit /\ [][FormsNext]_fvars

(***************************************************************************)
(* Properties.                                                             *)
(***************************************************************************)

\* A form mails only somebody whose last word is yes: who followed a link
\* made after the last stop and after the last change of recipient.
ConsentStands ==
    /\ \A i \in DOMAIN forms : forms[i].status = "active" => <<forms[i].key, forms[i].rcpt>> \in consent
    /\ \A p \in Posts : post[p].at # "none" => post[p].agreed

\* A solution mails one message: another needs an answer of the mail server
\* that was lost, or a restart.
OneMailPerSolution == \A s \in Solutions : mailed[s] <= 1 + excused[s]

(***************************************************************************)
(* What makes them inductive: a link is no newer than its form, and older  *)
(* once it is void or its form stopped; who is about to mail for a         *)
(* solution is the only one, and has spent it.                             *)
(***************************************************************************)

KeysAreOnce == \A i, j \in DOMAIN forms : forms[i].key = forms[j].key => i = j

\* What a form of this state makes of a link of its own.
Aged(f, l) ==
    /\ l.seq <= f.seq
    /\ (l \in void /\ l.rcpt = f.rcpt) \/ f.status = "stopped" => l.seq < f.seq

LinksAged == \A i \in DOMAIN forms, l \in Minted \cup void : l.key = forms[i].key => Aged(forms[i], l)

ActiveAgreed == \A i \in DOMAIN forms : forms[i].status = "active" => <<forms[i].key, forms[i].rcpt>> \in consent

PostsAgreed == \A p \in Posts : post[p].at # "none" => post[p].agreed

Sends(p, s) == post[p].at = "send" /\ post[p].sol = s

Spent(s) ==
    /\ \A p \in Posts : Sends(p, s) => s \in used /\ mailed[s] <= excused[s]
    /\ \A p, q \in Posts : Sends(p, s) /\ Sends(q, s) => p = q
    /\ s \notin used => mailed[s] <= excused[s]
    /\ mailed[s] <= 1 + excused[s]

\* A form without a captcha is posted without a solution.
Solved == \A p \in Posts : post[p].at # "none" /\ ~post[p].form.captcha => post[p].sol = Nobody

LinksInv == KeysAreOnce /\ LinksAged /\ ActiveAgreed
MailsInv == Solved /\ \A s \in Solutions : Spent(s)
FormsInv == LinksInv /\ PostsAgreed /\ MailsInv

===============================================================================
