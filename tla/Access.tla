-------------------------------- MODULE Access --------------------------------
(***************************************************************************)
(* Who is let in to a site (httpapi/server.go's edit gate, mcpops.go,      *)
(* gitauth.go, ftpauth.go, webdav.go) and the upload tokens an agent opens *)
(* (httpapi/uploadtokens.go, uploadauth.go).                               *)
(*                                                                         *)
(* One site.  A request reads meta.json once and is judged by what it      *)
(* read, while the edit password is rotated, the site transferred, shared  *)
(* or locked.  Two things in memory outlive a request: the cache of edit   *)
(* passwords that verified, and the upload tokens with what opened them.   *)
(* A rotation, a transfer and a lock write meta.json first, then drop the  *)
(* cache, then revoke the tokens; a lock from the command line is another  *)
(* process's and does neither.                                             *)
(*                                                                         *)
(* A password is the number of its hash.  An account stands on a site the  *)
(* same way through its API token, its browser session, OAuth or MCP, so   *)
(* these are one credential.  The plans a listed admin needs, the rate     *)
(* limit and the instance's limit of tokens may answer either way.  The    *)
(* pushes that follow gitAuth are PushRegistry's.                          *)
(*                                                                         *)
(* Bounds: LastHash passwords, MaxCalls requests, LastTick the clock.      *)
(***************************************************************************)
EXTENDS Integers, FiniteSets

CONSTANTS
    People,        \* accounts
    Tokens,        \* upload tokens, each minted at most once
    Requests,
    Nobody,
    PerSite,       \* uploadTokensPerSite
    MaxAge, Idle,  \* uploadTokenMaxAge, uploadTokenIdle
    LastHash, LastTick, MaxCalls

AccessAssumption ==
    /\ Nobody \notin People
    /\ PerSite \in Nat \ {0} /\ Idle \in Nat \ {0} /\ MaxAge \in Nat
    /\ LastHash \in Nat \ {0} /\ LastTick \in Nat /\ MaxCalls \in Nat

VARIABLES
    meta,      \* meta.json: owner, admins, edit password hash, lock
    cached,    \* verifyCache
    uploads,   \* uploadTokens' registry
    req,       \* what each request is doing
    tick, served

avars == <<meta, cached, uploads, req, tick, served>>

Hashes == 1 .. LastHash
Metas  == [owner : People \cup {Nobody}, admins : SUBSET People, hash : Hashes, locked : BOOLEAN]
Creds  == [kind : {"password"}, pass : Hashes] \cup [kind : {"account"}, who : People]
          \cup [kind : {"upload"}, token : Tokens]

\* A token not minted; and one: what opened it, its times and its requests.
Blank == [known |-> FALSE, by |-> "none", running |-> 0]
Rest  == [step |-> "idle"]

Roles == {"owner", "admin", "password"}
Minted == [known : BOOLEAN, by : Creds, role : Roles, hash : Hashes,
           issued : 0 .. LastTick, seen : 0 .. LastTick, running : Int]
Steps == {"check", "verify", "put", "stand", "let", "issue",
          "who", "begin", "stands", "run", "write", "drop", "revoke"}
Asked == [step : Steps, how : {"edit", "open", "files", "dav", "rotate", "transfer", "lock"},
          cred : Creds, site : Metas, role : Roles \cup {"none"}, as : People \cup {Nobody}]

AccessTyped ==
    /\ meta \in Metas /\ cached \subseteq Hashes \X Hashes
    /\ uploads \in [Tokens -> {Blank} \cup Minted]
    /\ req \in [Requests -> {Rest} \cup Asked]
    /\ tick \in 0 .. LastTick

AccessTypeOK ==
    /\ AccessTyped
    /\ \A t \in Tokens : uploads[t].running \in 0 .. Cardinality(Requests)
    /\ served \in 0 .. MaxCalls

AccessInit ==
    /\ meta \in [owner : People, admins : {{}}, hash : {1}, locked : {FALSE}]
    /\ cached = {} /\ uploads = [t \in Tokens |-> Blank]
    /\ req = [r \in Requests |-> Rest]
    /\ tick = 0 /\ served = 0

(***************************************************************************)
(* A request and the site it reads.                                        *)
(***************************************************************************)

At(r, step) == req[r].step = step
Go(r, step) == req' = [req EXCEPT ![r].step = step]
Stop(r)     == req' = [req EXCEPT ![r] = Rest]

\* The gates' common start: the site by its edit id, then the credential.  An
\* upload token goes its own way and is never tried as a password.
Arrive(r, how, c) ==
    /\ At(r, "idle") /\ served < MaxCalls /\ served' = served + 1
    /\ how \in (IF c.kind = "upload" THEN {"files", "dav"} ELSE {"edit", "open"})
    /\ c.kind = "upload" => uploads[c.token] # Blank
    /\ req' = [req EXCEPT ![r] = [step |-> CASE c.kind = "password" -> "check"
                                             [] c.kind = "account" -> "stand"
                                             [] how = "dav" -> "who"
                                             [] OTHER -> "begin",
                                  how |-> how, cred |-> c, site |-> meta, role |-> "none", as |-> Nobody]]
    /\ UNCHANGED <<meta, cached, uploads, tick>>

\* standingWith: the owner, or a listed admin whose plan and whose owner's
\* plan share (`plans`: they may say no, or not answer).
Standing(m, a, plans) ==
    IF m.owner = Nobody THEN "none"
    ELSE IF a = m.owner THEN "owner"
    ELSE IF a \in m.admins /\ plans THEN "admin" ELSE "none"

\* tokenAccount, sessionStanding, openSiteAs and gitAuth's OAuth branch.
Stand(r, plans) ==
    /\ At(r, "stand")
    /\ LET role == Standing(req[r].site, req[r].cred.who, plans) IN
         IF role = "none" THEN Stop(r)
         ELSE req' = [req EXCEPT ![r].step = "let", ![r].role = role]
    /\ UNCHANGED <<meta, cached, uploads, tick, served>>

(***************************************************************************)
(* The edit password (verifyEditIP).                                       *)
(***************************************************************************)

\* Mutant: the entry is the password's alone.
CacheKeyBare(hash, pass) == <<1, pass>>

\* The entry is bound to the hash it was checked against.
CacheKey(hash, pass) == <<hash, pass>>

\* The entry a request's password would be found by.
Presented(r) == CacheKey(req[r].site.hash, req[r].cred.pass)

\* The cache answers, or the limiters refuse, or the hash is asked.
CheckCache(r, allowed) ==
    /\ At(r, "check")
    /\ IF Presented(r) \in cached
       THEN req' = [req EXCEPT ![r].step = "let", ![r].role = "password"]
       ELSE IF ~allowed THEN Stop(r) ELSE Go(r, "verify")
    /\ UNCHANGED <<meta, cached, uploads, tick, served>>

Verify(r) ==
    /\ At(r, "verify")
    /\ IF req[r].cred.pass = req[r].site.hash THEN Go(r, "put") ELSE Stop(r)
    /\ UNCHANGED <<meta, cached, uploads, tick, served>>

Put(r) ==
    /\ At(r, "put")
    /\ cached' = cached \cup {Presented(r)}
    /\ req' = [req EXCEPT ![r].step = "let", ![r].role = "password"]
    /\ UNCHANGED <<meta, uploads, tick, served>>

\* An entry's five minutes end.
Forget == \E k \in cached : cached' = cached \ {k} /\ UNCHANGED <<meta, uploads, req, tick, served>>

\* What every gate refuses an authenticated caller: an anonymous site to its
\* password, and a locked one.
Refused(m) == m.owner = Nobody \/ m.locked

LetIn(r) ==
    /\ At(r, "let")
    /\ IF Refused(req[r].site) THEN Stop(r)
       ELSE Go(r, IF req[r].how = "open" THEN "issue" ELSE "run")
    /\ UNCHANGED <<meta, cached, uploads, tick, served>>

(***************************************************************************)
(* Upload tokens.                                                          *)
(***************************************************************************)

\* live: within its age, and running or not idle for long.
Live(u) == tick < u.issued + MaxAge /\ (u.running > 0 \/ tick < u.seen + Idle)
Known   == {t \in Tokens : uploads[t].known}

Forgotten(ts) == [t \in Tokens |-> IF t \in ts THEN [uploads[t] EXCEPT !.known = FALSE] ELSE uploads[t]]

\* issueAs, from open_upload: the tokens that are dead are pruned, the oldest
\* of too many goes, and the new one carries what opened it -- the role and
\* account, or the hash the password was checked against.
Issue(r, t, full) ==
    /\ At(r, "issue") /\ uploads[t] = Blank
    /\ LET left == {u \in Known : uploads[u].running > 0 \/ Live(uploads[u])}
           Oldest(us) == CHOOSE u \in us : \A v \in us : uploads[u].issued <= uploads[v].issued
           kept == IF Cardinality(left) >= PerSite THEN left \ {Oldest(left)} ELSE left
       IN  IF full /\ kept = left
           THEN uploads' = Forgotten(Known \ left)
           ELSE uploads' = [Forgotten(Known \ kept) EXCEPT ![t] =
                    [known |-> TRUE, by |-> req[r].cred, role |-> req[r].role,
                     hash |-> req[r].site.hash, issued |-> tick, seen |-> tick, running |-> 0]]
    /\ Stop(r)
    /\ UNCHANGED <<meta, cached, tick, served>>

Token(r) == req[r].cred.token

\* begin: a known, live token; one that died is dropped.
Begin(r) ==
    /\ At(r, "begin")
    /\ LET u == uploads[Token(r)] IN
         \/ ~u.known /\ Stop(r) /\ UNCHANGED uploads
         \/ /\ u.known /\ ~Live(u) /\ Stop(r)
            /\ uploads' = IF u.running = 0 THEN Forgotten({Token(r)}) ELSE uploads
         \/ /\ u.known /\ Live(u) /\ Go(r, "stands")
            /\ uploads' = [uploads EXCEPT ![Token(r)].running = @ + 1, ![Token(r)].seen = tick]
    /\ UNCHANGED <<meta, cached, tick, served>>

\* Mutant: the idle time counts from the request's start.
EndedUnseen(t) == [uploads EXCEPT ![t].running = @ - 1]

\* The deferred end: the idle time counts from here, known or not.
Ended(t) == [uploads EXCEPT ![t].running = @ - 1, ![t].seen = tick]

\* Mutant: a revoked token is unknown, so a known one stands on its password.
StillKnown(u, m, plans) ==
    u.known /\ (u.role = "password" \/ Standing(m, u.by.who, plans) = u.role)

\* uploadTokenStands: what opened the token, on the meta.json the request
\* read.  A token revoked since begin is unknown here, and refused.
StillStands(u, m, plans) ==
    /\ u.known
    /\ CASE u.role = "password" -> u.hash = m.hash
         [] OTHER -> Standing(m, u.by.who, plans) = u.role

Recheck(r, plans) ==
    /\ At(r, "stands")
    /\ IF ~Refused(req[r].site) /\ StillStands(uploads[Token(r)], req[r].site, plans)
       THEN Go(r, IF req[r].how = "dav" THEN "run" ELSE "who") /\ UNCHANGED uploads
       ELSE Stop(r) /\ uploads' = Ended(Token(r))
    /\ UNCHANGED <<meta, cached, tick, served>>

\* uploadActor: who the write is recorded as.  WebDAV asks before begin, the
\* JSON API once the token stood; the registry is read again for it.
Who(r) ==
    /\ At(r, "who")
    /\ LET u == uploads[Token(r)] IN
         req' = [req EXCEPT ![r].step = IF req[r].how = "dav" THEN "begin" ELSE "run",
                            ![r].as = IF u.known /\ u.role # "password" THEN u.by.who ELSE Nobody]
    /\ UNCHANGED <<meta, cached, uploads, tick, served>>

\* The handler returns.
Finish(r) ==
    /\ At(r, "run") /\ Stop(r)
    /\ uploads' = IF req[r].cred.kind = "upload" THEN Ended(Token(r)) ELSE uploads
    /\ UNCHANGED <<meta, cached, tick, served>>

(***************************************************************************)
(* What takes access away: meta.json, then the cache, then the tokens.     *)
(***************************************************************************)

\* A request of the operator's or the owner's for what follows.
Ask(r, how) ==
    /\ At(r, "idle") /\ served < MaxCalls /\ served' = served + 1
    /\ how \in {"rotate", "transfer", "lock"}
    /\ how = "rotate" => ~meta.locked
    /\ meta.owner # Nobody
    /\ req' = [req EXCEPT ![r] = [step |-> "write", how |-> how, site |-> meta, role |-> "none",
                                  cred |-> [kind |-> "account", who |-> meta.owner], as |-> Nobody]]
    /\ UNCHANGED <<meta, cached, uploads, tick>>

\* RotateEditPasswordIfOwner, TransferSite: under the site lock, for the
\* owner that asked and only unlocked.  A transfer replaces the password too
\* and ends the shares.
Rehash(r, to) ==
    /\ At(r, "write") /\ req[r].how \in {"rotate", "transfer"}
    /\ IF meta.owner = req[r].site.owner /\ ~meta.locked
       THEN /\ meta.hash < LastHash
            /\ IF req[r].how = "rotate" THEN meta' = [meta EXCEPT !.hash = @ + 1]
               ELSE to # meta.owner /\ meta' = [owner |-> to, admins |-> {}, hash |-> meta.hash + 1, locked |-> FALSE]
            /\ Go(r, "drop")
       ELSE Stop(r) /\ UNCHANGED meta
    /\ UNCHANGED <<cached, uploads, tick, served>>

\* SetLock and lockChanged; nothing follows when nothing changed.
LockSite(r, on) ==
    /\ At(r, "write") /\ req[r].how = "lock"
    /\ meta' = [meta EXCEPT !.locked = on]
    /\ IF on = meta.locked THEN Stop(r) ELSE Go(r, "drop")
    /\ UNCHANGED <<cached, uploads, tick, served>>

Drop(r) ==
    /\ At(r, "drop") /\ Go(r, "revoke") /\ cached' = {}
    /\ UNCHANGED <<meta, uploads, tick, served>>

Revoke(r) ==
    /\ At(r, "revoke") /\ Stop(r) /\ uploads' = Forgotten(Known)
    /\ UNCHANGED <<meta, cached, tick, served>>

\* A lock of the command line's process, and an admin who comes or goes
\* (UpdateAdmins): meta.json alone.
LockElsewhere ==
    /\ served < MaxCalls /\ served' = served + 1
    /\ meta' = [meta EXCEPT !.locked = ~@]
    /\ UNCHANGED <<cached, uploads, req, tick>>

SetAdmin(a) ==
    /\ served < MaxCalls /\ served' = served + 1 /\ ~meta.locked /\ a # meta.owner
    /\ meta' = [meta EXCEPT !.admins = IF a \in @ THEN @ \ {a} ELSE @ \cup {a}]
    /\ UNCHANGED <<cached, uploads, req, tick>>

Tick == tick < LastTick /\ tick' = tick + 1 /\ UNCHANGED <<meta, cached, uploads, req, served>>

(***************************************************************************)
(* The specification.                                                      *)
(***************************************************************************)

AccessNext ==
    \/ \E r \in Requests :
          \/ \E how \in {"edit", "open", "files", "dav"}, c \in Creds : Arrive(r, how, c)
          \/ \E b \in BOOLEAN : Stand(r, b) \/ CheckCache(r, b) \/ Recheck(r, b) \/ LockSite(r, b)
          \/ Verify(r) \/ Put(r) \/ LetIn(r) \/ Begin(r) \/ Who(r) \/ Finish(r)
          \/ \E t \in Tokens, full \in BOOLEAN : Issue(r, t, full)
          \/ \E how \in {"rotate", "transfer", "lock"} : Ask(r, how)
          \/ \E a \in People : Rehash(r, a)
          \/ Drop(r) \/ Revoke(r)
    \/ \E a \in People : SetAdmin(a)
    \/ Forget \/ LockElsewhere \/ Tick

AccessSpec == AccessInit /\ [][AccessNext]_avars

(***************************************************************************)
(* What it promises.                                                       *)
(***************************************************************************)

\* What a credential is worth on a site's meta.json, however it is checked.
Worth(c, m) ==
    LET opener == IF c.kind = "upload" THEN uploads[c.token].by ELSE c IN
    IF opener.kind = "password" THEN opener.pass = m.hash
    ELSE opener.who = m.owner \/ opener.who \in m.admins

\* A request's handler runs only for a credential that is worth something on
\* the meta.json the request read, of an unlocked site: an old password never
\* passes by what the cache or a late token remembers of it, and a token never
\* outlives what opened it, also one minted in the moment after the revoke of
\* a transfer, a rotation or a lock (server.go's comment on the cache key,
\* uploadauth.go's on uploadTokenStands).
LetInStands ==
    \A r \in Requests : At(r, "run") => Worth(req[r].cred, req[r].site) /\ ~req[r].site.locked

\* A long upload does not lose its token: when its request ends within the
\* token's age, the token -- unless it was revoked or evicted meanwhile -- is
\* good for another one (uploadTokenIdle's comment).
TokenOutlivesUpload ==
    \A r \in Requests :
        (At(r, "run") /\ ~At(r, "run")' /\ req[r].cred.kind = "upload") =>
            LET u == uploads[Token(r)] IN
            (u.known /\ tick < u.issued + MaxAge) => Live(uploads'[Token(r)])

\* An upload with a token an account opened is recorded as that account's
\* (mcpops.go, OpenUpload: "an upload through it is then that account's, in
\* that role"; uploadActor).  The code breaks it: who writes is looked up
\* after the gate, when another request may have ended the token.
UploadsNameTheirAccount ==
    \A r \in Requests :
        (At(r, "run") /\ req[r].cred.kind = "upload") =>
            LET u == uploads[Token(r)] IN u.role # "password" => req[r].as = u.by.who

(***************************************************************************)
(* What makes the first inductive: an entry of the cache was verified, a   *)
(* token remembers what opened it, and where a request has got to says     *)
(* what its credential was found to be.                                    *)
(***************************************************************************)

CacheVerified == \A k \in cached : k[1] = k[2]

\* What opens: a password as itself, an account as what it is to the site.
Opens(c, role, m) ==
    \/ c.kind = "password" /\ role = "password" /\ c.pass = m.hash
    \/ c.kind = "account" /\ role \in {"owner", "admin"} /\ (c.who = m.owner \/ c.who \in m.admins)

OpenerKept ==
    \A t \in Tokens : LET u == uploads[t] IN
        u # Blank => \/ u.by.kind = "password" /\ u.role = "password" /\ u.by.pass = u.hash
                     \/ u.by.kind = "account" /\ u.role \in {"owner", "admin"}

\* Let in already: by WebDAV's order who writes is asked before, by the other's after.
Let(q) == Worth(q.cred, q.site) /\ ~q.site.locked

Found(q) ==
    /\ q.step \in {"check", "verify", "put"} => q.cred.kind = "password"
    /\ q.step = "put" => q.cred.pass = q.site.hash
    /\ q.step = "stand" => q.cred.kind = "account"
    /\ q.step \in {"let", "issue"} => Opens(q.cred, q.role, q.site)
    /\ q.step = "issue" => ~q.site.locked
    /\ q.step \in {"who", "begin", "stands"} => q.cred.kind = "upload"
    /\ q.step = "who" /\ q.how # "dav" => Let(q)
    /\ q.step = "run" => Let(q)
    /\ q.cred.kind = "upload" /\ (q.step \in {"stands", "run"} \/ (q.step = "who" /\ q.how # "dav"))
         => uploads[q.cred.token] # Blank

RequestsFound == \A r \in Requests : req[r] # Rest => Found(req[r])

AccessInv == CacheVerified /\ OpenerKept /\ RequestsFound

=============================================================================
