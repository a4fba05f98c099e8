--------------------------- MODULE ContentSwitch ---------------------------
(***************************************************************************)
(* What the content of one site promises, whatever the surface: a          *)
(* replacement changes all of it at once or, when it fails or the process  *)
(* dies, leaves no mixture of two uploads and loses nothing that was sent; *)
(* nothing goes in while the site is locked, except what locked it.        *)
(* SiteContent implements this over directories and renames.               *)
(***************************************************************************)
CONSTANTS
    Paths,      \* the top-level entries of the content root
    Writers,    \* everything that was ever written, one per upload
    Old,        \* what was there before the first of them
    Absent,     \* no entry
    Unlocked,
    Operator

VARIABLES
    content,    \* what each path holds: a writer's version, an older one, nothing
    rest,       \* what a broken switch has not put in place: <<writer, path>>
    lock,       \* who holds the site: no one, the operator, the verdict on a writer
    live        \* the site has not been deleted

svars == <<content, rest, lock, live>>

Only(w, P)  == [p \in Paths |-> IF p \in P THEN w ELSE Absent]
Without(P)  == [p \in Paths |-> IF p \in P THEN Absent ELSE content[p]]
MayGoIn(w)  == live /\ lock \in {Unlocked, w}

Init ==
    /\ content \in [Paths -> {Old, Absent}]
    /\ rest = {} /\ lock = Unlocked /\ live = TRUE

\* A replacement: everything it sent, and nothing else.
Switch(w) ==
    /\ MayGoIn(w)
    /\ \E P \in SUBSET Paths : content' = Only(w, P)
    /\ UNCHANGED <<rest, lock, live>>

\* A replacement that broke while it made room: some of the old content is
\* gone, none of the new is in, and all of the new is kept.
BreakEmptying(w) ==
    /\ MayGoIn(w) /\ rest = {}
    /\ \E lost, P \in SUBSET Paths :
          content' = Without(lost) /\ rest' = {w} \X P
    /\ UNCHANGED <<lock, live>>

\* A replacement that broke while it moved in: what is missing is kept.
BreakFilling(w) ==
    /\ live /\ rest = {}
    /\ \E lost \in SUBSET {p \in Paths : content[p] = w} :
          content' = Without(lost) /\ rest' = {w} \X lost
    /\ UNCHANGED <<lock, live>>

\* The next replacement begins.
Discard == rest' = {} /\ UNCHANGED <<content, lock, live>>

\* Files of one upload go in, and the verdict on them may hold the site.
Write(w) ==
    /\ live /\ lock = Unlocked
    /\ \E P \in SUBSET Paths :
          content' = [p \in Paths |-> IF p \in P THEN w ELSE content[p]]
    /\ lock' \in {Unlocked, w}
    /\ UNCHANGED <<rest, live>>

\* One entry is removed; a session that asked before a lock may still do it.
Remove == \E p \in Paths : content' = Without({p}) /\ UNCHANGED <<rest, lock, live>>

\* One entry gets another name, under which it may hold the site.
Move(p, q) ==
    /\ live /\ lock = Unlocked /\ content[p] # Absent
    /\ content' = [content EXCEPT ![q] = content[p], ![p] = Absent]
    /\ lock' \in {Unlocked, content[p]}
    /\ UNCHANGED <<rest, live>>

SetLock == lock' \in Writers \cup {Unlocked, Operator} /\ UNCHANGED <<content, rest, live>>

Delete ==
    /\ live' = FALSE /\ content' = Without(Paths) /\ rest' = {} /\ lock' = Unlocked

Next ==
    \/ \E w \in Writers : Switch(w) \/ BreakEmptying(w) \/ BreakFilling(w) \/ Write(w)
    \/ \E p, q \in Paths : Move(p, q)
    \/ Discard \/ Remove \/ SetLock \/ Delete

Spec == Init /\ [][Next]_svars
=============================================================================
