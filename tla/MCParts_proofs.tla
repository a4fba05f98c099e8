--------------------------- MODULE MCParts_proofs ---------------------------
(***************************************************************************)
(* The promises of MCParts that are proved of its parts for every value of *)
(* the constants, a behaviour of MCParts being one of one part: zones,     *)
(* usage, identities, proof lookups, domains, access and forms.            *)
(***************************************************************************)
EXTENDS MCParts, Sequences, WellFoundedInduction, TLAPS

(***************************************************************************)
(* Zones.                                                                  *)
(***************************************************************************)

ZoneChecks ==
    {Z!Idle} \cup [step : {"look", "ask", "record"}, zone : ZoneNames, account : Some]
           \cup [step : {"renew"}, zone : ZoneNames, account : Some, ok : BOOLEAN]

LEMMA ZonesInitType == ASSUME Z!ZonesAssumption, Z!ZonesInit PROVE Z!ZonesTypeOK
  <1>1. \A s, S : s \in S => [c \in Z!Checkers |-> s] \in [Z!Checkers -> S]
    OBVIOUS
  <1>2. v4 \in [Z!Checkers -> ZoneChecks]
    BY DEF Z!ZonesInit, ZoneChecks
  <1> QED
    BY <1>2 DEF Z!ZonesInit, Z!ZonesTypeOK, ZoneChecks

\* What a check that has begun is of.
LEMMA ZoneCheckFields ==
    ASSUME Z!ZonesTypeOK, NEW c \in Z!Checkers, v4[c].step \in {"look", "ask", "record", "renew"}
    PROVE  v4[c].zone \in ZoneNames /\ v4[c].account \in Some
  BY DEF Z!ZonesTypeOK, Z!Idle

LEMMA ZoneCheckGoes ==
    ASSUME Z!ZonesTypeOK, NEW c \in Z!Checkers, NEW r \in ZoneChecks, Z!Goto(c, r)
    PROVE  v4' \in [Z!Checkers -> ZoneChecks]
  BY DEF Z!ZonesTypeOK, Z!Goto, ZoneChecks

LEMMA ZonesNextType ==
    ASSUME Z!ZonesAssumption, Z!ZonesTypeOK, [Z!ZonesNext]_(Z!zvars)
    PROVE  Z!ZonesTypeOK'
  <1>0. /\ v4 \in [Z!Checkers -> ZoneChecks] /\ ZoneSweep \in Z!Checkers /\ Z!Idle \in ZoneChecks
        /\ \A c \in Z!Checkers : v4[c] \in ZoneChecks
        /\ \A c \in ZoneClaims : c \in Z!Checkers
    BY DEF Z!ZonesTypeOK, ZoneChecks, Z!Checkers
  <1>s. ASSUME NEW c \in Z!Checkers, Z!Stop(c) PROVE v4' \in [Z!Checkers -> ZoneChecks]
    BY <1>0, <1>s, ZoneCheckGoes DEF Z!Stop
  <1>n. ASSUME NEW s \in {"look", "ask", "record"}, NEW z \in ZoneNames, NEW a \in Some
        PROVE  [step |-> s, zone |-> z, account |-> a] \in ZoneChecks
    BY DEF ZoneChecks
  <1>1. ASSUME NEW c \in ZoneClaims, NEW z \in ZoneNames, NEW a \in Some, Z!Claim(c, z, a) PROVE Z!ZonesTypeOK'
    <2>1. v4' \in [Z!Checkers -> ZoneChecks]
      BY <1>0, <1>1, <1>s, <1>n, ZoneCheckGoes DEF Z!Claim
    <2>2. v3' \in [ZoneNames -> SUBSET Some]
      BY <1>1 DEF Z!Claim, Z!ZonesTypeOK
    <2> QED
      BY <1>1, <2>1, <2>2 DEF Z!Claim, Z!ZonesTypeOK, ZoneChecks
  <1>2. ASSUME NEW c \in Z!Checkers, Z!LookForConflicts(c) \/ Z!Lookup(c) PROVE Z!ZonesTypeOK'
    <2>1. ASSUME NEW s \in {"ask", "record"}, v4[c].step \in {"look", "ask"}
          PROVE  [v4[c] EXCEPT !.step = s] \in ZoneChecks
      BY <1>0, <2>1 DEF ZoneChecks, Z!Idle
    <2>2. v4' \in [Z!Checkers -> ZoneChecks]
      BY <1>0, <1>2, <2>1, <1>s, ZoneCheckGoes DEF Z!LookForConflicts, Z!Lookup
    <2> QED
      BY <1>2, <2>2 DEF Z!LookForConflicts, Z!Lookup, Z!ZonesTypeOK, ZoneChecks
  <1>3. ASSUME NEW c \in Z!Checkers, Z!Record(c) PROVE Z!ZonesTypeOK'
    <2>1. v4[c].zone \in ZoneNames /\ v4[c].account \in Some
      BY <1>3, ZoneCheckFields DEF Z!Record
    <2>2. v4' \in [Z!Checkers -> ZoneChecks]
      BY <1>3, <1>s DEF Z!Record
    <2>3. PICK z \in ZoneNames, a \in Some : z = v4[c].zone /\ a = v4[c].account
      BY <2>1
    <2>a. /\ v3' \in {v3, [v3 EXCEPT ![z] = @ \ {a}]}
          /\ v1' \in {v1, [v1 EXCEPT ![z] = a]}
          /\ v2' \in {v2, [v2 EXCEPT ![z] = FALSE]}
      BY <1>3, <2>3 DEF Z!Record, Z!Promote
    <2>b. /\ v1' \in [ZoneNames -> Some \cup {None}]
          /\ v2' \in [ZoneNames -> BOOLEAN] /\ v3' \in [ZoneNames -> SUBSET Some]
      <3>1. v1' \in [ZoneNames -> Some \cup {None}]
        BY <2>a DEF Z!ZonesTypeOK
      <3>2. v2' \in [ZoneNames -> BOOLEAN]
        BY <2>a DEF Z!ZonesTypeOK
      <3>3. v3' \in [ZoneNames -> SUBSET Some]
        BY <2>a DEF Z!ZonesTypeOK
      <3> QED
        BY <3>1, <3>2, <3>3
    <2>4. v5' \subseteq Z!Files
      <3>1. v5' \subseteq
              v5 \cup {[zone |-> v4[c].zone, account |-> v4[c].account, kind |-> "seen"]}
        BY <1>3 DEF Z!Record
      <3> QED
        BY <3>1, <2>1 DEF Z!ZonesTypeOK, Z!Files, Z!Kinds
    <2> QED
      BY <1>3, <2>2, <2>b, <2>4 DEF Z!Record, Z!ZonesTypeOK, ZoneChecks
  <1>4. ASSUME NEW c \in Z!Checkers, Z!DieRecording(c) PROVE Z!ZonesTypeOK'
    <2>1. v4[c].zone \in ZoneNames /\ v4[c].account \in Some
      BY <1>4, ZoneCheckFields DEF Z!DieRecording
    <2>2. v4' \in [Z!Checkers -> ZoneChecks]
      BY <1>0, <1>4 DEF Z!DieRecording
    <2> QED
      BY <1>4, <2>1, <2>2 DEF Z!DieRecording, Z!Promote, Z!ZonesTypeOK, ZoneChecks
  <1>5. ASSUME NEW z \in ZoneNames, NEW a \in Some, Z!Release(z, a) PROVE Z!ZonesTypeOK'
    BY <1>5 DEF Z!Release, Z!ZonesTypeOK
  <1>6. ASSUME Z!SweepBegin \/ Z!SweepEnd PROVE Z!ZonesTypeOK'
    BY <1>6 DEF Z!SweepBegin, Z!SweepEnd, Z!ZonesTypeOK
  <1>7. ASSUME Z!SweepRenews PROVE Z!ZonesTypeOK'
    <2>1. v4[ZoneSweep].zone \in ZoneNames /\ v4[ZoneSweep].ok \in BOOLEAN
      BY <1>0, <1>7 DEF Z!SweepRenews, ZoneChecks, Z!Idle
    <2>2. v4' \in [Z!Checkers -> ZoneChecks]
      BY <1>0, <1>7, <1>s DEF Z!SweepRenews
    <2> QED
      BY <1>7, <2>1, <2>2 DEF Z!SweepRenews, Z!ZonesTypeOK, ZoneChecks
  <1>8. ASSUME NEW f \in Z!Files, Z!SweepPending(f) PROVE Z!ZonesTypeOK'
    <2>1. f.zone \in ZoneNames /\ f.account \in Some
      BY DEF Z!Files
    <2>2. v4' \in [Z!Checkers -> ZoneChecks]
      BY <1>0, <1>8, <1>n, <2>1, ZoneCheckGoes DEF Z!SweepPending
    <2> QED
      BY <1>8, <2>1, <2>2 DEF Z!SweepPending, Z!ZonesTypeOK, ZoneChecks
  <1>9. ASSUME NEW f \in Z!Files, Z!SweepVerified(f) PROVE Z!ZonesTypeOK'
    <2>1. /\ f.zone \in ZoneNames /\ f.account \in Some
          /\ [f EXCEPT !.kind = "seen"] \in Z!Files
      BY DEF Z!Files, Z!Kinds
    <2>2. \A yes \in BOOLEAN :
            [step |-> "renew", zone |-> f.zone, account |-> f.account, ok |-> yes] \in ZoneChecks
      BY <2>1 DEF ZoneChecks
    <2>3. v4' \in [Z!Checkers -> ZoneChecks]
      BY <1>0, <1>9, <2>2, ZoneCheckGoes DEF Z!SweepVerified
    <2> QED
      BY <1>9, <2>1, <2>3 DEF Z!SweepVerified, Z!ZonesTypeOK, ZoneChecks
  <1>10. ASSUME NEW r \in ZoneAttachers, NEW n \in ZoneHosts, NEW a \in Some, Z!AskForName(r, n, a) PROVE Z!ZonesTypeOK'
    BY <1>10 DEF Z!AskForName, Z!ZonesTypeOK
  <1>11. ASSUME NEW r \in ZoneAttachers, Z!AttachName(r) PROVE Z!ZonesTypeOK'
    <2>1. v7[r][1] \in ZoneHosts /\ v7[r][2] \in Some
      BY <1>11 DEF Z!AttachName, Z!ZonesTypeOK
    <2>2. v6' \in [ZoneHosts -> Some \cup {None}] /\ v8' \subseteq ZoneHosts
      BY <1>11, <2>1 DEF Z!AttachName, Z!ZonesTypeOK
    <2> QED
      BY <1>11, <2>2 DEF Z!AttachName, Z!ZonesTypeOK
  <1>12. ASSUME NEW n \in ZoneHosts, Z!DetachName(n) PROVE Z!ZonesTypeOK'
    BY <1>12 DEF Z!DetachName, Z!ZonesTypeOK
  <1>13. ASSUME NEW n \in ZoneHosts, NEW b \in Some, Z!HandOverName(n, b) PROVE Z!ZonesTypeOK'
    <2>1. v6' \in [ZoneHosts -> Some \cup {None}] /\ v8' \subseteq ZoneHosts
      BY <1>13 DEF Z!HandOverName, Z!ZonesTypeOK
    <2> QED
      BY <1>13, <2>1 DEF Z!HandOverName, Z!ZonesTypeOK
  <1>14. ASSUME UNCHANGED Z!zvars PROVE Z!ZonesTypeOK'
    BY <1>14 DEF Z!zvars, Z!ZonesTypeOK
  <1> QED
    BY <1>1, <1>2, <1>3, <1>4, <1>5, <1>6, <1>7, <1>8, <1>9, <1>10, <1>11, <1>12, <1>13, <1>14 DEF Z!ZonesNext

\* A check that is past its look for conflicts would enclose no name of
\* another account but one attached since.
ChecksLooked ==
    \A c \in Z!Checkers : v4[c].step \in {"ask", "record"} =>
        Z!Conflicts(v4[c].zone, v4[c].account) \subseteq v8

ZonesInv == Z!ZonesDisjoint /\ Z!NoForeignNameInside /\ ChecksLooked

LEMMA ZonesInitInv == ASSUME Z!ZonesInit PROVE ZonesInv
  BY DEF Z!ZonesInit, ZonesInv, Z!ZonesDisjoint, Z!NoForeignNameInside, ChecksLooked, Z!Idle

\* A step that verifies one zone at most, over nothing that overlaps it.
LEMMA ZonesStayDisjoint ==
    ASSUME Z!ZonesAssumption, Z!ZonesTypeOK, Z!ZonesDisjoint, NEW z \in ZoneNames, NEW a,
           \A y \in ZoneNames : Z!Overlap(y, z) => v1[y] = None,
           v1' = [v1 EXCEPT ![z] = a]
    PROVE  Z!ZonesDisjoint'
  <1>1. \A y \in ZoneNames : v1'[y] = IF y = z THEN a ELSE v1[y]
    BY DEF Z!ZonesTypeOK
  <1>2. \A y, x \in ZoneNames : <<y, x>> \in ZoneNested => y # x /\ <<x, y>> \in ZoneNested
    BY DEF Z!ZonesAssumption
  <1> QED
    BY <1>1, <1>2 DEF Z!ZonesDisjoint, Z!Overlap

\* A step that verifies none.
LEMMA FewerZonesAreDisjoint ==
    ASSUME Z!ZonesDisjoint, \A y \in ZoneNames : v1'[y] \in {v1[y], None}
    PROVE  Z!ZonesDisjoint'
  BY DEF Z!ZonesDisjoint

\* A verified zone whose account was the holder of every name inside that was
\* not attached late.
LEMMA PromotedZoneEncloses ==
    ASSUME Z!ZonesTypeOK, Z!NoForeignNameInside, NEW z \in ZoneNames, NEW a,
           Z!Conflicts(z, a) \subseteq v8,
           v1' = [v1 EXCEPT ![z] = a], UNCHANGED <<v6, v8>>
    PROVE  Z!NoForeignNameInside'
  BY DEF Z!ZonesTypeOK, Z!NoForeignNameInside, Z!Conflicts

\* Every change of who holds a name, seen from one zone and one account.
LEMMA ZoneNamesMove ==
    ASSUME Z!ZonesTypeOK, NEW n \in ZoneHosts, NEW b,
           v6' = [v6 EXCEPT ![n] = b], NEW z, NEW a,
           v8 \ {n} \subseteq v8',
           n \in ZoneInside[z] /\ b \notin {a, None} => n \in v8',
           Z!Conflicts(z, a) \subseteq v8
    PROVE  Z!Conflicts(z, a)' \subseteq v8'
  <1>1. Z!Conflicts(z, a)' = {m \in ZoneInside[z] : v6'[m] \notin {a, None}}
    BY DEF Z!Conflicts
  <1>2. \A m \in ZoneInside[z] : m # n /\ v6'[m] \notin {a, None} => m \in v8
    BY DEF Z!Conflicts, Z!ZonesTypeOK
  <1> QED
    BY <1>1, <1>2 DEF Z!ZonesTypeOK

\* Attaching, detaching and handing over a name keeps foreign names out of the
\* verified zones and of those under a check past its look.
LEMMA ZoneNamesStep ==
    ASSUME Z!ZonesTypeOK, ZonesInv, UNCHANGED <<v1, v4>>,
           NEW n \in ZoneHosts, NEW b, v6' = [v6 EXCEPT ![n] = b],
           v8 \ {n} \subseteq v8',
           b # None /\ Z!UnderWay(n, b) => n \in v8',
           \A z \in ZoneNames : n \in ZoneInside[z] /\ v1[z] # None /\ b \notin {v1[z], None}
                                  => n \in v8'
    PROVE  ZonesInv'
  <1>1. Z!ZonesDisjoint'
    BY FewerZonesAreDisjoint DEF ZonesInv
  <1>2. ASSUME NEW z \in ZoneNames, v1[z] # None, NEW a, a = v1[z]
        PROVE  Z!Conflicts(z, a)' \subseteq v8'
    <2>1. Z!Conflicts(z, a) \subseteq v8
      BY <1>2 DEF ZonesInv, Z!NoForeignNameInside
    <2> QED
      BY <1>2, <2>1, ZoneNamesMove
  <1>3. Z!NoForeignNameInside'
    BY <1>2 DEF Z!NoForeignNameInside, Z!Conflicts
  <1>4. ASSUME NEW c \in Z!Checkers, v4[c].step \in {"ask", "record"},
               NEW z, NEW a, z = v4[c].zone, a = v4[c].account
        PROVE  Z!Conflicts(z, a)' \subseteq v8'
    <2>1. Z!Conflicts(z, a) \subseteq v8
      BY <1>4 DEF ZonesInv, ChecksLooked
    <2>2. n \in ZoneInside[z] /\ b \notin {a, None} => Z!UnderWay(n, b)
      BY <1>4, ZoneCheckFields DEF Z!UnderWay, Z!Zones
    <2> QED
      BY <2>1, <2>2, ZoneNamesMove
  <1>5. ChecksLooked'
    BY <1>4 DEF ChecksLooked, Z!Conflicts
  <1> QED
    BY <1>1, <1>3, <1>5 DEF ZonesInv

\* A step that verifies nothing and attaches nothing, and takes no check past
\* its look for conflicts but one that found none.
LEMMA QuietZonesStep ==
    ASSUME Z!ZonesTypeOK, ZonesInv, UNCHANGED <<v6, v8>>,
           \A y \in ZoneNames : v1'[y] \in {v1[y], None},
           \A c \in Z!Checkers : v4'[c].step \in {"ask", "record"} =>
              /\ v4'[c].zone = v4[c].zone /\ v4'[c].account = v4[c].account
              /\ v4[c].step \in {"ask", "record"} \/ Z!Conflicts(v4[c].zone, v4[c].account) = {}
    PROVE  ZonesInv'
  <1>1. Z!ZonesDisjoint'
    BY FewerZonesAreDisjoint DEF ZonesInv
  <1>2. Z!NoForeignNameInside'
    BY DEF ZonesInv, Z!NoForeignNameInside, Z!Conflicts
  <1>3. ChecksLooked'
    BY DEF ZonesInv, ChecksLooked, Z!Conflicts
  <1> QED
    BY <1>1, <1>2, <1>3 DEF ZonesInv

\* A check past its look verifies its zone over nothing that overlaps it.
LEMMA PromoteZoneStep ==
    ASSUME Z!ZonesAssumption, Z!ZonesTypeOK, ZonesInv, UNCHANGED <<v6, v8>>,
           NEW c \in Z!Checkers, v4[c].step = "record", Z!Promote(c),
           \A y \in ZoneNames : Z!Overlap(y, v4[c].zone) => v1[y] = None,
           \A k \in Z!Checkers : v4'[k] \in {v4[k], Z!Idle}
    PROVE  ZonesInv'
  <1>1. PICK z \in ZoneNames, a \in Some : z = v4[c].zone /\ a = v4[c].account
    BY ZoneCheckFields
  <1>2. v1' = [v1 EXCEPT ![z] = a]
    BY <1>1 DEF Z!Promote
  <1>3. Z!Conflicts(z, a) \subseteq v8
    BY <1>1 DEF ZonesInv, ChecksLooked
  <1>4. Z!ZonesDisjoint'
    BY <1>1, <1>2, ZonesStayDisjoint DEF ZonesInv
  <1>5. Z!NoForeignNameInside'
    BY <1>2, <1>3, PromotedZoneEncloses DEF ZonesInv
  <1>6. ChecksLooked'
    BY DEF ZonesInv, ChecksLooked, Z!Conflicts, Z!Idle
  <1> QED
    BY <1>4, <1>5, <1>6 DEF ZonesInv

LEMMA ZonesStep ==
    ASSUME Z!ZonesAssumption, Z!ZonesTypeOK, ZonesInv, [Z!ZonesNext]_(Z!zvars)
    PROVE  ZonesInv'
  <1>0. /\ v4 \in [Z!Checkers -> ZoneChecks] /\ v1 \in [ZoneNames -> Some \cup {None}]
        /\ ZoneSweep \in Z!Checkers /\ \A c \in ZoneClaims : c \in Z!Checkers
    BY DEF Z!ZonesTypeOK, ZoneChecks, Z!Checkers
  <1>1. ASSUME NEW c \in ZoneClaims, NEW z \in ZoneNames, NEW a \in Some, Z!Claim(c, z, a) PROVE ZonesInv'
    <2>1. \A k \in Z!Checkers : v4'[k] = v4[k] \/ v4'[k].step \in {"idle", "look"}
      BY <1>0, <1>1 DEF Z!Claim, Z!Goto, Z!Stop, Z!Idle
    <2>2. UNCHANGED <<v6, v8, v1>>
      BY <1>1 DEF Z!Claim
    <2> QED
      BY <2>1, <2>2, QuietZonesStep
  <1>2. ASSUME NEW c \in Z!Checkers, Z!LookForConflicts(c) PROVE ZonesInv'
    <2>1. v4[c].step = "look" /\ UNCHANGED <<v6, v8, v1>>
      BY <1>2 DEF Z!LookForConflicts
    <2>2. CASE Z!Stop(c)
      BY <1>0, <2>1, <2>2, QuietZonesStep DEF Z!Stop, Z!Goto, Z!Idle
    <2>3. CASE Z!Conflicts(v4[c].zone, v4[c].account) = {} /\ Z!Goto(c, [v4[c] EXCEPT !.step = "ask"])
      <3>1. \A k \in Z!Checkers : k # c => v4'[k] = v4[k]
        BY <1>0, <2>3 DEF Z!Goto
      <3>2. v4'[c].zone = v4[c].zone /\ v4'[c].account = v4[c].account
        BY <1>0, <2>1, <2>3 DEF Z!Goto, ZoneChecks, Z!Idle
      <3> QED
        BY <2>1, <2>3, <3>1, <3>2, QuietZonesStep
    <2> QED
      BY <1>2, <2>2, <2>3 DEF Z!LookForConflicts
  <1>3. ASSUME NEW c \in Z!Checkers, Z!Lookup(c) PROVE ZonesInv'
    <2>1. v4[c].step = "ask" /\ UNCHANGED <<v6, v8, v1>>
      BY <1>3 DEF Z!Lookup
    <2>2. CASE Z!Stop(c)
      BY <1>0, <2>1, <2>2, QuietZonesStep DEF Z!Stop, Z!Goto, Z!Idle
    <2>3. CASE Z!Goto(c, [v4[c] EXCEPT !.step = "record"])
      <3>1. \A k \in Z!Checkers : k # c => v4'[k] = v4[k]
        BY <1>0, <2>3 DEF Z!Goto
      <3>2. v4'[c].zone = v4[c].zone /\ v4'[c].account = v4[c].account
        BY <1>0, <2>1, <2>3 DEF Z!Goto, ZoneChecks, Z!Idle
      <3> QED
        BY <2>1, <3>1, <3>2, QuietZonesStep
    <2> QED
      BY <1>3, <2>2, <2>3 DEF Z!Lookup
  <1>4. ASSUME NEW c \in Z!Checkers, Z!Record(c) PROVE ZonesInv'
    <2>1. \A k \in Z!Checkers : v4'[k] \in {v4[k], Z!Idle}
      BY <1>0, <1>4 DEF Z!Record, Z!Stop, Z!Goto
    <2>2. v4[c].step = "record" /\ UNCHANGED <<v6, v8>>
      BY <1>4 DEF Z!Record
    <2>3. CASE v1' = v1
      BY <2>1, <2>2, <2>3, QuietZonesStep DEF Z!Idle
    <2>4. CASE v1' # v1
      <3>1. Z!Promote(c) /\ ~\E y \in ZoneNames : Z!Overlap(y, v4[c].zone) /\ v1[y] # None
        BY <1>4, <2>4 DEF Z!Record
      <3> QED
        BY <2>1, <2>2, <3>1, PromoteZoneStep
    <2> QED
      BY <2>3, <2>4
  <1>5. ASSUME NEW c \in Z!Checkers, Z!DieRecording(c) PROVE ZonesInv'
    BY <1>5, PromoteZoneStep DEF Z!DieRecording
  <1>6. ASSUME NEW z \in ZoneNames, NEW a \in Some, Z!Release(z, a) PROVE ZonesInv'
    BY <1>0, <1>6, QuietZonesStep DEF Z!Release
  <1>7. ASSUME Z!SweepBegin \/ Z!SweepEnd PROVE ZonesInv'
    BY <1>7, QuietZonesStep DEF Z!SweepBegin, Z!SweepEnd
  <1>8. ASSUME Z!SweepRenews PROVE ZonesInv'
    <2>1. \A y \in ZoneNames : v1'[y] \in {v1[y], None}
      BY <1>0, <1>8 DEF Z!SweepRenews
    <2>2. \A k \in Z!Checkers : v4'[k] \in {v4[k], Z!Idle}
      BY <1>0, <1>8 DEF Z!SweepRenews, Z!Stop, Z!Goto
    <2>3. UNCHANGED <<v6, v8>>
      BY <1>8 DEF Z!SweepRenews
    <2> QED
      BY <2>1, <2>2, <2>3, QuietZonesStep DEF Z!Idle
  <1>9. ASSUME NEW f \in Z!Files, Z!SweepPending(f) \/ Z!SweepVerified(f) PROVE ZonesInv'
    <2>1. \A k \in Z!Checkers : v4'[k] = v4[k] \/ v4'[k].step \in {"look", "renew"}
      BY <1>0, <1>9 DEF Z!SweepPending, Z!SweepVerified, Z!Goto
    <2>2. UNCHANGED <<v6, v8, v1>>
      BY <1>9 DEF Z!SweepPending, Z!SweepVerified
    <2> QED
      BY <2>1, <2>2, QuietZonesStep
  <1>10. ASSUME NEW r \in ZoneAttachers, NEW n \in ZoneHosts, NEW a \in Some, Z!AskForName(r, n, a) PROVE ZonesInv'
    BY <1>10, QuietZonesStep DEF Z!AskForName
  <1>11. ASSUME NEW r \in ZoneAttachers, Z!AttachName(r) PROVE ZonesInv'
    <2>1. PICK n \in ZoneHosts, a \in Some : n = v7[r][1] /\ a = v7[r][2]
      BY <1>11 DEF Z!AttachName, Z!ZonesTypeOK
    <2>2. UNCHANGED <<v1, v4>>
      BY <1>11 DEF Z!AttachName
    <2>3. CASE UNCHANGED <<v6, v8>>
      BY <2>2, <2>3, QuietZonesStep
    <2>4. CASE /\ v6' = [v6 EXCEPT ![n] = a]
               /\ v8' = IF Z!UnderWay(n, a) \/ ~(Z!HeldBy(n) \subseteq {a}) THEN v8 \cup {n} ELSE v8
      <3>1. \A z \in ZoneNames : n \in ZoneInside[z] /\ v1[z] \notin {a, None} => ~(Z!HeldBy(n) \subseteq {a})
        BY DEF Z!HeldBy, Z!Zones
      <3> QED
        BY <2>1, <2>2, <2>4, <3>1, ZoneNamesStep
    <2> QED
      BY <1>11, <2>1, <2>3, <2>4 DEF Z!AttachName
  <1>12. ASSUME NEW n \in ZoneHosts, Z!DetachName(n) PROVE ZonesInv'
    BY <1>12, ZoneNamesStep DEF Z!DetachName
  <1>13. ASSUME NEW n \in ZoneHosts, NEW b \in Some, Z!HandOverName(n, b) PROVE ZonesInv'
    <2>1. UNCHANGED <<v1, v4>> /\ v6[n] \notin {b, None}
      BY <1>13 DEF Z!HandOverName
    <2>2. CASE v6[n] \in Z!HeldBy(n)
      BY <1>13, <2>1, <2>2, ZoneNamesStep DEF Z!HandOverName
    <2>3. CASE v6[n] \notin Z!HeldBy(n)
      <3>1. \A z \in ZoneNames : n \in ZoneInside[z] /\ v1[z] # None => n \in Z!Conflicts(z, v1[z])
        BY <2>1, <2>3 DEF Z!HeldBy, Z!Zones, Z!Conflicts
      <3>2. \A z \in ZoneNames : n \in ZoneInside[z] /\ v1[z] # None => n \in v8
        BY <3>1 DEF ZonesInv, Z!NoForeignNameInside
      <3> QED
        BY <1>13, <2>1, <2>3, <3>2, ZoneNamesStep DEF Z!HandOverName
    <2> QED
      BY <2>2, <2>3
  <1>14. ASSUME UNCHANGED Z!zvars PROVE ZonesInv'
    BY <1>14, QuietZonesStep DEF Z!zvars
  <1> QED
    BY <1>1, <1>2, <1>3, <1>4, <1>5, <1>6, <1>7, <1>8, <1>9, <1>10, <1>11, <1>12, <1>13, <1>14 DEF Z!ZonesNext

ZonesGood == which = "zones" => Z!ZonesTypeOK /\ ZonesInv

LEMMA ZonesBegin == Init => ZonesGood
  BY PartsAssumption, ZonesInitType, ZonesInitInv DEF Init, ZonesGood

LEMMA ZonesGoOn == ZonesGood /\ [Next]_slots => ZonesGood'
  <1> SUFFICES ASSUME ZonesGood, [Next]_slots, which' = "zones"
               PROVE  Z!ZonesTypeOK' /\ ZonesInv'
    BY DEF ZonesGood
  <1>1. which = "zones" /\ [Z!ZonesNext]_(Z!zvars)
    BY DEF Next, slots, Z!zvars
  <1>2. Z!ZonesTypeOK /\ ZonesInv
    BY <1>1 DEF ZonesGood
  <1> QED
    BY <1>1, <1>2, PartsAssumption, ZonesNextType, ZonesStep

\* Every reachable state of the zones is well-typed.
THEOREM ZonesTyped == Spec => [](which = "zones" => Z!ZonesTypeOK)
  <1>1. ZonesGood => (which = "zones" => Z!ZonesTypeOK)
    BY DEF ZonesGood
  <1> QED
    BY <1>1, ZonesBegin, ZonesGoOn, PTL DEF Spec

\* Two verified zones never overlap, and a verified zone encloses no attached
\* name of another account that was not attached past the look for conflicts:
\* for any accounts, zones, names, nesting and requests in any order.
THEOREM ZonesHold == Spec => []ZonesAreExclusive
  <1>1. ZonesGood => ZonesAreExclusive
    BY DEF ZonesGood, ZonesAreExclusive, Z!ZonesAreExclusive, ZonesInv
  <1> QED
    BY <1>1, ZonesBegin, ZonesGoOn, PTL DEF Spec

(***************************************************************************)
(* Usage.                                                                  *)
(***************************************************************************)

UsageGood == which = "usage" => U!UsageTypeOK /\ U!UsageInv

LEMMA UsageConstants ==
    /\ Web \notin Services /\ Wrap \in Nat \ {0} /\ MaxTime \in Nat /\ MaxChanges \in Nat
  BY PartsAssumption DEF U!UsageAssumption

\* What the book holds does not change while the world does, and readings
\* stay behind a counter that goes on, wraps or starts again.
LEMMA CounterMoves ==
    ASSUME U!UsageTypeOK, U!UsageInv, UNCHANGED <<v9, v10, v11>>,
           NEW x \in U!Parts, NEW n \in Nat, NEW more \in {0, 1},
           n <= v2[x] + more,
           v2' = [v2 EXCEPT ![x] = n], v3' = [v3 EXCEPT ![x] = @ + more]
    PROVE  U!UsageInv'
  <1>1. \A y \in U!Parts : /\ v2[y] \in Nat /\ v3[y] \in Nat
                          /\ v2'[y] <= v2[y] + (v3'[y] - v3[y]) /\ v3'[y] >= v3[y] /\ v3'[y] \in Nat /\ v2'[y] \in Nat
    BY DEF U!UsageTypeOK
  <1>2. U!CountersFollow'
    BY <1>1 DEF U!UsageInv, U!CountersFollow, U!ReadingsTyped, U!Follows, U!Readings
  <1> QED
    BY <1>2 DEF U!UsageInv, U!ReadingsTyped, U!ReadingsFollow, U!FiguresStand

\* uint64 subtraction of a smaller number is subtraction.
LEMMA MinusIsLess ==
    ASSUME NEW a \in Nat, NEW b \in Nat, b <= a
    PROVE  U!Minus(a, b) \in Nat /\ U!Minus(a, b) <= a - b
  <1>1. a - b \in Nat /\ a + Wrap - b = (a - b) + Wrap
    BY UsageConstants
  <1>2. \A k \in Nat : (k + Wrap) % Wrap \in Nat /\ (k + Wrap) % Wrap <= k
    BY UsageConstants
  <1> QED
    BY <1>1, <1>2 DEF U!Minus

LEMMA UsageBegin == Init => UsageGood
  <1> SUFFICES ASSUME U!UsageInit PROVE U!UsageTypeOK /\ U!UsageInv
    BY DEF Init, UsageGood
  <1>1. U!UsageTypeOK
    <2>1. v5 \subseteq Services
      BY DEF U!UsageInit
    <2>2. DOMAIN v9 = {} /\ DOMAIN v10 = {} /\ DOMAIN v11.by = {}
      BY DEF U!UsageInit, U!Nothing
    <2>3. v2 \in [U!Parts -> Nat] /\ v3 \in [U!Parts -> Nat]
      BY DEF U!UsageInit
    <2>4. v1 \in 0 .. MaxTime /\ v12 \in 0 .. MaxChanges
      BY UsageConstants DEF U!UsageInit
    <2>5. v4 \subseteq Services /\ v6 \subseteq Services
      BY DEF U!UsageInit
    <2>6. v7 \in BOOLEAN /\ v8 \subseteq U!Parts
      BY DEF U!UsageInit
    <2> QED
      BY <2>1, <2>2, <2>3, <2>4, <2>5, <2>6 DEF U!UsageTypeOK
  <1>2. U!UsageInv
    BY DEF U!UsageInit, U!UsageInv, U!ReadingsTyped, U!CountersFollow, U!ReadingsFollow, U!FiguresStand,
           U!Nothing
  <1> QED
    BY <1>1, <1>2

LEMMA UsageTypeStep == U!UsageTypeOK /\ [U!UsageNext]_(U!uvars) => U!UsageTypeOK'
  <1> SUFFICES ASSUME U!UsageTypeOK, [U!UsageNext]_(U!uvars) PROVE U!UsageTypeOK'
    OBVIOUS
  <1> USE UsageConstants DEF U!UsageTypeOK, U!Parts, U!bookVars, U!worldVars
  <1>1. ASSUME NEW x \in U!Parts, U!Pass(x) PROVE U!UsageTypeOK'
    BY <1>1 DEF U!Pass
  <1>2. ASSUME NEW x \in U!Parts, U!MakeAgain(x) PROVE U!UsageTypeOK'
    BY <1>2 DEF U!MakeAgain, U!Changed
  <1>3. ASSUME NEW x \in U!Parts, U!Read(x) PROVE U!UsageTypeOK'
    BY <1>3 DEF U!Read, U!With
  <1>4. ASSUME NEW s \in Services, U!Stop(s) PROVE U!UsageTypeOK'
    BY <1>4 DEF U!Stop, U!Changed
  <1>5. CASE U!Tick
    BY <1>5 DEF U!Tick
  <1>6. CASE U!Redeploy
    BY <1>6 DEF U!Redeploy, U!Changed
  <1>7. CASE U!List
    BY <1>7 DEF U!List
  <1>8. CASE U!Record
    BY <1>8 DEF U!Record, U!Nothing
  <1>9. CASE UNCHANGED U!uvars
    BY <1>9 DEF U!uvars
  <1> QED
    BY <1>1, <1>2, <1>3, <1>4, <1>5, <1>6, <1>7, <1>8, <1>9 DEF U!UsageNext

\* Reading a counter puts what it counts now beside what it counted then.
LEMMA ReadKeeps ==
    ASSUME U!UsageTypeOK, U!UsageInv, NEW x \in U!Parts, U!Read(x) PROVE U!UsageInv'
  <1>1. CASE v9' = v9
    BY <1>1 DEF U!Read, U!UsageInv, U!ReadingsTyped, U!CountersFollow, U!ReadingsFollow, U!FiguresStand, U!worldVars
  <1>2. ASSUME v9' = U!With(v9, x, [at |-> v1, n |-> v2[x], real |-> v3[x]]) PROVE U!UsageInv'
    <2>1. UNCHANGED <<v1, v2, v3, v10, v11>>
      BY DEF U!Read
    <2>2. DOMAIN v9' = DOMAIN v9 \cup {x} /\ \A y \in DOMAIN v9' :
             IF y = x THEN v9'[y] = [at |-> v1, n |-> v2[x], real |-> v3[x]] ELSE y \in DOMAIN v9 /\ v9'[y] = v9[y]
      BY <1>2 DEF U!With
    <2>3. v1 \in Nat /\ v2[x] \in Nat /\ v3[x] \in Nat
      BY UsageConstants DEF U!UsageTypeOK
    <2>4. U!ReadingsTyped'
      BY <2>1, <2>2, <2>3 DEF U!UsageInv, U!ReadingsTyped, U!Readings
    <2>5. U!CountersFollow'
      BY <2>1, <2>2, <2>3 DEF U!UsageInv, U!CountersFollow, U!Follows
    <2>6. U!ReadingsFollow'
      BY <2>1, <2>2, <2>3 DEF U!UsageInv, U!CountersFollow, U!ReadingsFollow, U!Follows
    <2> QED
      BY <2>1, <2>4, <2>5, <2>6 DEF U!UsageInv, U!FiguresStand
  <1> QED
    BY <1>1, <1>2 DEF U!Read

\* A figure is made of two readings of one counter.
LEMMA RecordKeeps ==
    ASSUME U!UsageTypeOK, U!UsageInv, U!Record PROVE U!UsageInv'
  <1> DEFINE kept == IF DOMAIN v9 \cap Services # {} THEN DOMAIN v9 ELSE {}
  <1>1. /\ UNCHANGED <<v2, v3>> /\ DOMAIN v9' = {}
        /\ v10' = [x \in kept |-> v9[x]] /\ kept \subseteq DOMAIN v9
    BY DEF U!Record
  <1>2. U!ReadingsTyped' /\ U!CountersFollow' /\ U!ReadingsFollow'
    BY <1>1 DEF U!UsageInv, U!ReadingsTyped, U!CountersFollow, U!ReadingsFollow
  <1>3. ASSUME NEW x \in DOMAIN v9 \cap DOMAIN v10
        PROVE  LET r == U!Rate(v10[x], v9[x]) IN
               r \in [n : Nat, real : Nat, known : BOOLEAN] /\ r.n <= r.real
    <2>1. v9[x] \in U!Readings /\ v10[x] \in U!Readings /\ U!Follows(v10[x], v9[x].n, v9[x].real)
      BY DEF U!UsageInv, U!ReadingsTyped, U!ReadingsFollow
    <2>2. CASE v9[x].n < v10[x].n \/ v9[x].at <= v10[x].at
      BY <2>2 DEF U!Rate, U!NoRate
    <2>3. CASE ~(v9[x].n < v10[x].n \/ v9[x].at <= v10[x].at)
      <3>1. U!Rate(v10[x], v9[x]) = [n |-> U!Minus(v9[x].n, v10[x].n), real |-> v9[x].real - v10[x].real, known |-> TRUE]
        BY <2>3 DEF U!Rate
      <3>2. U!Minus(v9[x].n, v10[x].n) \in Nat /\ U!Minus(v9[x].n, v10[x].n) <= v9[x].n - v10[x].n
        BY <2>1, <2>3, MinusIsLess DEF U!Readings
      <3> HIDE DEF U!Minus
      <3> QED
        BY <2>1, <3>1, <3>2 DEF U!Readings, U!Follows
    <2> QED
      BY <2>2, <2>3
  <1>4. \/ v11' = U!Nothing
        \/ v11' = [at |-> v1, by |-> [x \in kept |-> IF x \in DOMAIN v10 THEN U!Rate(v10[x], v9[x]) ELSE U!NoRate]]
    BY DEF U!Record
  <1>5. U!FiguresStand'
    <2>1. U!NoRate \in [n : Nat, real : Nat, known : BOOLEAN] /\ U!NoRate.n <= U!NoRate.real
      BY DEF U!NoRate
    <2>2. CASE v11' = U!Nothing
      <3>1. DOMAIN v11'.by = {}
        BY <2>2 DEF U!Nothing
      <3> QED
        BY <3>1 DEF U!FiguresStand
    <2>3. CASE v11' = [at |-> v1, by |-> [x \in kept |-> IF x \in DOMAIN v10 THEN U!Rate(v10[x], v9[x]) ELSE U!NoRate]]
      <3>1. /\ DOMAIN v11'.by = kept
            /\ \A x \in kept : v11'.by[x] = IF x \in DOMAIN v10 THEN U!Rate(v10[x], v9[x]) ELSE U!NoRate
        BY <2>3
      <3> HIDE DEF kept
      <3> QED
        BY <1>1, <1>3, <2>1, <3>1 DEF U!FiguresStand
    <2> QED
      BY <1>4, <2>2, <2>3
  <1> QED
    BY <1>2, <1>5 DEF U!UsageInv

LEMMA UsageStep == U!UsageTypeOK /\ U!UsageInv /\ [U!UsageNext]_(U!uvars) => U!UsageInv'
  <1> SUFFICES ASSUME U!UsageTypeOK, U!UsageInv, [U!UsageNext]_(U!uvars) PROVE U!UsageInv'
    OBVIOUS
  <1>1. ASSUME NEW x \in U!Parts, U!Pass(x) PROVE U!UsageInv'
    <2>1. v2[x] \in Nat /\ (v2[x] + 1) % Wrap \in Nat /\ (v2[x] + 1) % Wrap <= v2[x] + 1
      BY UsageConstants DEF U!UsageTypeOK
    <2> QED
      BY <1>1, <2>1, CounterMoves DEF U!Pass, U!bookVars
  <1>2. ASSUME NEW x \in U!Parts, U!MakeAgain(x) PROVE U!UsageInv'
    <2>1. UNCHANGED <<v3, v9, v10, v11>> /\ v2' = [v2 EXCEPT ![x] = 0]
      BY <1>2 DEF U!MakeAgain, U!bookVars
    <2>2. v2[x] \in Nat /\ v3[x] \in Nat /\ v3 = [v3 EXCEPT ![x] = @ + 0]
      BY DEF U!UsageTypeOK
    <2>3. v3' = [v3 EXCEPT ![x] = @ + 0] /\ 0 <= v2[x] + 0
      BY <2>1, <2>2
    <2> QED
      BY <2>1, <2>3, CounterMoves
  <1>3. ASSUME NEW x \in U!Parts, U!Read(x) PROVE U!UsageInv'
    BY <1>3, ReadKeeps
  <1>4. CASE U!Record
    BY <1>4, RecordKeeps
  <1>5. ASSUME UNCHANGED <<v2, v3, v10, v11>>, v9' = v9 \/ DOMAIN v9' = {} PROVE U!UsageInv'
    BY <1>5 DEF U!UsageInv, U!ReadingsTyped, U!CountersFollow, U!ReadingsFollow, U!FiguresStand
  <1>6. ASSUME NEW s \in Services, U!Stop(s) PROVE U!UsageInv'
    BY <1>5, <1>6 DEF U!Stop, U!bookVars
  <1>7. CASE U!Tick \/ U!Redeploy \/ U!List \/ UNCHANGED U!uvars
    BY <1>5, <1>7 DEF U!Tick, U!Redeploy, U!List, U!uvars, U!bookVars
  <1> QED
    BY <1>1, <1>2, <1>3, <1>4, <1>6, <1>7 DEF U!UsageNext

LEMMA UsageGoesOn == UsageGood /\ [Next]_slots => UsageGood'
  <1> SUFFICES ASSUME UsageGood, [Next]_slots, which' = "usage"
               PROVE  (U!UsageTypeOK /\ U!UsageInv)'
    BY DEF UsageGood
  <1>1. which = "usage" /\ [U!UsageNext]_(U!uvars)
    BY DEF Next, slots, U!uvars
  <1> QED
    BY <1>1, UsageTypeStep, UsageStep DEF UsageGood

\* What is shown of a service adds up figures that each stand.
LEMMA FiguresAddUp ==
    ASSUME U!UsageInv PROVE U!NoMoreThanPassed
  <1>1. \A x : /\ U!Figure(x).n \in Nat /\ U!Figure(x).real \in Nat
               /\ U!Figure(x).n <= U!Figure(x).real
    BY DEF U!UsageInv, U!FiguresStand, U!Figure, U!NoRate
  <1> HIDE DEF U!Figure
  <1>2. ASSUME NEW s \in Services PROVE U!In(s) <= U!Real(s)
    BY <1>1 DEF U!In, U!Real, U!Total
  <1> QED
    BY <1>2 DEF U!NoMoreThanPassed

\* Of the usage figures of any services, counters and bounds: none shown is
\* more than what passed.
THEOREM UsageHolds == Spec => []NoMoreThanPassed
  <1>1. UsageGood => NoMoreThanPassed
    BY FiguresAddUp DEF UsageGood, NoMoreThanPassed
  <1> QED
    BY <1>1, UsageBegin, UsageGoesOn, PTL DEF Spec

(***************************************************************************)
(* Identities.                                                             *)
(***************************************************************************)

IdentitiesGood == which = "identities" => E!RequestsTyped /\ E!MailInv

LEMMA IdentitiesConstants == None \notin Some
  BY PartsAssumption DEF E!IdentitiesAssumption

LEMMA IdentitiesBegin == Init => IdentitiesGood
  <1> SUFFICES ASSUME E!IdentitiesInit PROVE E!RequestsTyped /\ E!MailInv
    BY DEF Init, IdentitiesGood
  <1>1. E!RequestsTyped
    BY DEF E!IdentitiesInit, E!RequestsTyped, E!NoRecord, E!Records, E!Requests
  <1>2. E!MailInv
    BY DEF E!IdentitiesInit, E!MailInv, E!IdsKnown, E!SignUpsAlone, E!AddressClaimed, E!DeletionsAlone,
           E!MailIsExclusive, E!Stands, E!NoRecord, E!Idle, E!SigningUp, E!Deleting
  <1> QED
    BY <1>1, <1>2

LEMMA RequestsStep == E!RequestsTyped /\ [E!IdentitiesNext]_(E!idvars) => E!RequestsTyped'
  <1> SUFFICES ASSUME E!RequestsTyped, [E!IdentitiesNext]_(E!idvars) PROVE E!RequestsTyped'
    OBVIOUS
  <1> USE DEF E!RequestsTyped, E!Records, E!Requests, E!SigningUp, E!Deleting, E!Idle, E!Step
  <1>1. ASSUME NEW c \in Others, E!SignUp(c) PROVE E!RequestsTyped'
    BY <1>1 DEF E!SignUp
  <1>2. ASSUME NEW c \in Others, E!ClaimOAuth(c) PROVE E!RequestsTyped'
    BY <1>2 DEF E!ClaimOAuth
  <1>3. ASSUME NEW c \in Others, E!ClaimMail(c) PROVE E!RequestsTyped'
    BY <1>3 DEF E!ClaimMail
  <1>4. ASSUME NEW c \in Others, E!Persist(c) PROVE E!RequestsTyped'
    BY <1>4 DEF E!Persist
  <1>5. ASSUME NEW c \in Others, E!PersistFails(c) PROVE E!RequestsTyped'
    BY <1>5 DEF E!PersistFails
  <1>6. ASSUME NEW c \in Others, E!CreateToken(c) PROVE E!RequestsTyped'
    BY <1>6 DEF E!CreateToken
  <1>7. ASSUME NEW c \in Others, E!LinkBilling(c) PROVE E!RequestsTyped'
    BY <1>7 DEF E!LinkBilling
  <1>8. ASSUME NEW c \in Others, E!UpdateBilling(c) PROVE E!RequestsTyped'
    BY <1>8 DEF E!UpdateBilling, E!Stands
  <1>9. ASSUME NEW c \in Others, E!StartDelete(c) PROVE E!RequestsTyped'
    BY <1>9 DEF E!StartDelete
  <1>10. ASSUME NEW c \in Others, E!UnMail(c) PROVE E!RequestsTyped'
    BY <1>10 DEF E!UnMail
  <1>11. ASSUME NEW c \in Others, E!UnLink(c) PROVE E!RequestsTyped'
    BY <1>11 DEF E!UnLink
  <1>12. ASSUME NEW c \in Others, E!RemoveFolder(c) PROVE E!RequestsTyped'
    <2>1. v1' \in [Some -> E!Records]
      BY <1>12 DEF E!RemoveFolder, E!NoRecord
    <2>2. v8' \in [Others -> E!Requests]
      BY <1>12 DEF E!RemoveFolder
    <2> QED
      BY <2>1, <2>2
  <1>13. ASSUME NEW c \in Others, E!RemoveFails(c) PROVE E!RequestsTyped'
    BY <1>13 DEF E!RemoveFails
  <1>14. ASSUME NEW c \in Others, E!DropTokenIndex(c) PROVE E!RequestsTyped'
    BY <1>14 DEF E!DropTokenIndex
  <1>15. ASSUME NEW c \in Others, NEW s \in Subjects, NEW v \in BOOLEAN, E!SignIn(c, s, v) PROVE E!RequestsTyped'
    BY <1>15 DEF E!SignIn
  <1>16. ASSUME NEW c \in Others, NEW a \in Some, E!AskToken(c, a) PROVE E!RequestsTyped'
    BY <1>16 DEF E!AskToken
  <1>17. ASSUME NEW c \in Others, NEW a \in Some, E!Webhook(c, a) PROVE E!RequestsTyped'
    BY <1>17 DEF E!Webhook
  <1>18. ASSUME NEW c \in Others, NEW a \in Some, E!AskDelete(c, a) PROVE E!RequestsTyped'
    BY <1>18 DEF E!AskDelete
  <1>19. ASSUME NEW a \in Some, NEW t \in Secrets, E!DeleteToken(a, t) PROVE E!RequestsTyped'
    BY <1>19 DEF E!DeleteToken
  <1>20. CASE E!Crash \/ UNCHANGED E!idvars
    BY <1>20 DEF E!Crash, E!idvars
  <1> QED
    BY <1>1, <1>2, <1>3, <1>4, <1>5, <1>6, <1>7, <1>8, <1>9, <1>10, <1>11, <1>12, <1>13, <1>14, <1>15, <1>16, <1>17, <1>18, <1>19, <1>20 DEF E!IdentitiesNext

\* What a request is about.
LEMMA RequestFields ==
    ASSUME E!RequestsTyped, NEW c \in Others
    PROVE  /\ v8[c].at # "idle" => v8[c].id \in Some
           /\ v8[c].at \in E!SigningUp => v8[c].claims \in BOOLEAN
           /\ v8[c].at \in {"idle", "mint", "link", "bill", "delete"} \cup E!SigningUp \cup E!Deleting
  BY DEF E!RequestsTyped, E!Requests, E!SigningUp, E!Deleting, E!Idle

\* A step of a request leaves what it is about and every other request alone.
LEMMA RequestMoves ==
    ASSUME E!RequestsTyped, NEW c \in Others, NEW at, v8[c].at # "idle", E!Step(c, at)
    PROVE  /\ v8'[c].at = at /\ v8'[c].id = v8[c].id
           /\ v8[c].at \in E!SigningUp => v8'[c].claims = v8[c].claims
           /\ \A d \in Others \ {c} : v8'[d] = v8[d]
  BY DEF E!RequestsTyped, E!Requests, E!SigningUp, E!Deleting, E!Idle, E!Step

\* A sign-up that is refused is gone as if it had never been.
LEMMA SignUpEnds ==
    ASSUME E!RequestsTyped, E!MailInv, NEW c \in Others, v8[c].at \in E!SigningUp,
           UNCHANGED <<v1, v3, v7, v9, v11>>, v8' = [v8 EXCEPT ![c] = E!Idle]
    PROVE  E!MailInv'
  <1>1. /\ v8'[c].at = "idle" /\ \A d \in Others \ {c} : v8'[d] = v8[d]
    BY DEF E!RequestsTyped, E!Idle
  <1>2. E!IdsKnown' /\ E!SignUpsAlone'
    BY <1>1 DEF E!MailInv, E!IdsKnown, E!SignUpsAlone, E!Stands, E!SigningUp
  <1>3. E!AddressClaimed' /\ E!DeletionsAlone'
    BY <1>1 DEF E!MailInv, E!AddressClaimed, E!DeletionsAlone, E!Deleting
  <1>4. E!MailIsExclusive'
    BY <1>1 DEF E!MailInv, E!MailIsExclusive, E!Leaving, E!Stands, E!SigningUp
  <1> QED
    BY <1>2, <1>3, <1>4 DEF E!MailInv

\* A sign-up goes on.
LEMMA SignUpMoves ==
    ASSUME E!RequestsTyped, E!MailInv, NEW c \in Others, v8[c].at \in E!SigningUp,
           UNCHANGED <<v1, v7, v9, v11>>, NEW at \in E!SigningUp, E!Step(c, at),
           v3' = v3 \/ (v3 = None /\ v3' = v8[c].id),
           at = "persist" /\ v8[c].claims => v3' = v8[c].id
    PROVE  E!MailInv'
  <1>1. /\ v8'[c].at = at /\ v8'[c].id = v8[c].id /\ v8'[c].claims = v8[c].claims
        /\ \A d \in Others \ {c} : v8'[d] = v8[d]
    BY RequestMoves DEF E!SigningUp
  <1>2. E!IdsKnown' /\ E!SignUpsAlone'
    BY <1>1 DEF E!MailInv, E!IdsKnown, E!SignUpsAlone, E!Stands, E!SigningUp
  <1>3. E!AddressClaimed'
    BY <1>1, IdentitiesConstants, RequestFields DEF E!MailInv, E!AddressClaimed, E!SigningUp
  <1>4. E!DeletionsAlone'
    BY <1>1 DEF E!MailInv, E!DeletionsAlone, E!Deleting, E!SigningUp
  <1>5. E!MailIsExclusive'
    BY <1>1, IdentitiesConstants DEF E!MailInv, E!MailIsExclusive, E!Leaving, E!Stands, E!SigningUp
  <1> QED
    BY <1>2, <1>3, <1>4, <1>5 DEF E!MailInv

LEMMA MailStep == E!RequestsTyped /\ E!MailInv /\ [E!IdentitiesNext]_(E!idvars) => E!MailInv'
  <1> SUFFICES ASSUME E!RequestsTyped, E!MailInv, [E!IdentitiesNext]_(E!idvars) PROVE E!MailInv'
    OBVIOUS
  <1>0. v8 \in [Others -> E!Requests] /\ v1 \in [Some -> E!Records]
    BY DEF E!RequestsTyped
  <1>1. ASSUME NEW c \in Others, E!SignUp(c) PROVE E!MailInv'
    <2> USE <1>0, <1>1, IdentitiesConstants, RequestFields, RequestMoves
           DEF E!SignUp, E!MailInv, E!IdsKnown, E!SignUpsAlone, E!AddressClaimed, E!DeletionsAlone, E!MailIsExclusive,
               E!Leaving, E!Stands, E!Idle, E!SigningUp, E!Deleting, E!index, E!Step
    <2>1. E!IdsKnown'
      OBVIOUS
    <2>2. E!SignUpsAlone'
      OBVIOUS
    <2>3. E!AddressClaimed'
      OBVIOUS
    <2>4. E!DeletionsAlone'
      OBVIOUS
    <2>5. E!MailIsExclusive'
      OBVIOUS
    <2> QED
      BY <2>1, <2>2, <2>3, <2>4, <2>5 DEF E!MailInv
  <1>2. ASSUME NEW c \in Others, E!ClaimOAuth(c) PROVE E!MailInv'
    <2>1. v8[c].at \in E!SigningUp /\ UNCHANGED <<v1, v3, v7, v9, v11>> /\ v8[c].at # "persist"
      BY <1>2 DEF E!ClaimOAuth, E!SigningUp
    <2>2. \/ v8' = [v8 EXCEPT ![c] = E!Idle]
          \/ E!Step(c, "mail")
          \/ E!Step(c, "persist") /\ ~v8[c].claims
      BY <1>2 DEF E!ClaimOAuth, E!Step
    <2>3. "mail" \in E!SigningUp /\ "persist" \in E!SigningUp
      BY DEF E!SigningUp
    <2>4. CASE v8' = [v8 EXCEPT ![c] = E!Idle]
      BY <2>1, <2>4, SignUpEnds
    <2>0. UNCHANGED <<v1, v7, v9, v11>> /\ v3' = v3
      BY <2>1
    <2>5. CASE E!Step(c, "mail")
      BY <2>0, <2>1, <2>3, <2>5, SignUpMoves
    <2>6. CASE E!Step(c, "persist") /\ ~v8[c].claims
      BY <2>0, <2>1, <2>3, <2>6, SignUpMoves
    <2> QED
      BY <2>2, <2>4, <2>5, <2>6
  <1>3. ASSUME NEW c \in Others, E!ClaimMail(c) PROVE E!MailInv'
    <2>1. v8[c].at \in E!SigningUp /\ UNCHANGED <<v1, v7, v9, v11>>
      BY <1>3 DEF E!ClaimMail, E!SigningUp
    <2>2. \/ v3' = v3 /\ v8' = [v8 EXCEPT ![c] = E!Idle]
          \/ v3 = None /\ v3' = v8[c].id /\ E!Step(c, "persist")
      BY <1>3 DEF E!ClaimMail
    <2> QED
      BY <2>1, <2>2, SignUpEnds, SignUpMoves DEF E!SigningUp
  <1>4. ASSUME NEW c \in Others, E!Persist(c) PROVE E!MailInv'
    <2> USE <1>0, <1>4, IdentitiesConstants, RequestFields, RequestMoves
           DEF E!Persist, E!MailInv, E!IdsKnown, E!SignUpsAlone, E!AddressClaimed, E!DeletionsAlone, E!MailIsExclusive,
               E!Leaving, E!Stands, E!Idle, E!SigningUp, E!Deleting, E!index, E!Step
    <2>1. E!IdsKnown'
      OBVIOUS
    <2>2. E!SignUpsAlone'
      OBVIOUS
    <2>3. E!AddressClaimed'
      OBVIOUS
    <2>4. E!DeletionsAlone'
      OBVIOUS
    <2>5. E!MailIsExclusive'
      OBVIOUS
    <2> QED
      BY <2>1, <2>2, <2>3, <2>4, <2>5 DEF E!MailInv
  <1>5. ASSUME NEW c \in Others, E!PersistFails(c) PROVE E!MailInv'
    <2> USE <1>0, <1>5, IdentitiesConstants, RequestFields, RequestMoves
           DEF E!PersistFails, E!MailInv, E!IdsKnown, E!SignUpsAlone, E!AddressClaimed, E!DeletionsAlone, E!MailIsExclusive,
               E!Leaving, E!Stands, E!Idle, E!SigningUp, E!Deleting, E!index, E!Step
    <2>1. E!IdsKnown'
      OBVIOUS
    <2>2. E!SignUpsAlone'
      OBVIOUS
    <2>3. E!AddressClaimed'
      OBVIOUS
    <2>4. E!DeletionsAlone'
      OBVIOUS
    <2>5. E!MailIsExclusive'
      OBVIOUS
    <2> QED
      BY <2>1, <2>2, <2>3, <2>4, <2>5 DEF E!MailInv
  <1>6. ASSUME NEW c \in Others, E!CreateToken(c) PROVE E!MailInv'
    <2> USE <1>0, <1>6, IdentitiesConstants, RequestFields, RequestMoves
           DEF E!CreateToken, E!MailInv, E!IdsKnown, E!SignUpsAlone, E!AddressClaimed, E!DeletionsAlone, E!MailIsExclusive,
               E!Leaving, E!Stands, E!Idle, E!SigningUp, E!Deleting, E!index, E!Step
    <2>1. E!IdsKnown'
      OBVIOUS
    <2>2. E!SignUpsAlone'
      OBVIOUS
    <2>3. E!AddressClaimed'
      OBVIOUS
    <2>4. E!DeletionsAlone'
      OBVIOUS
    <2>5. E!MailIsExclusive'
      OBVIOUS
    <2> QED
      BY <2>1, <2>2, <2>3, <2>4, <2>5 DEF E!MailInv
  <1>7. ASSUME NEW c \in Others, E!LinkBilling(c) PROVE E!MailInv'
    <2> USE <1>0, <1>7, IdentitiesConstants, RequestFields, RequestMoves
           DEF E!LinkBilling, E!MailInv, E!IdsKnown, E!SignUpsAlone, E!AddressClaimed, E!DeletionsAlone, E!MailIsExclusive,
               E!Leaving, E!Stands, E!Idle, E!SigningUp, E!Deleting, E!index, E!Step
    <2>1. E!IdsKnown'
      OBVIOUS
    <2>2. E!SignUpsAlone'
      OBVIOUS
    <2>3. E!AddressClaimed'
      OBVIOUS
    <2>4. E!DeletionsAlone'
      OBVIOUS
    <2>5. E!MailIsExclusive'
      OBVIOUS
    <2> QED
      BY <2>1, <2>2, <2>3, <2>4, <2>5 DEF E!MailInv
  <1>8. ASSUME NEW c \in Others, E!UpdateBilling(c) PROVE E!MailInv'
    <2> USE <1>0, <1>8, IdentitiesConstants, RequestFields, RequestMoves
           DEF E!UpdateBilling, E!MailInv, E!IdsKnown, E!SignUpsAlone, E!AddressClaimed, E!DeletionsAlone, E!MailIsExclusive,
               E!Leaving, E!Stands, E!Idle, E!SigningUp, E!Deleting, E!index, E!Step
    <2>1. E!IdsKnown'
      OBVIOUS
    <2>2. E!SignUpsAlone'
      OBVIOUS
    <2>3. E!AddressClaimed'
      OBVIOUS
    <2>4. E!DeletionsAlone'
      OBVIOUS
    <2>5. E!MailIsExclusive'
      OBVIOUS
    <2> QED
      BY <2>1, <2>2, <2>3, <2>4, <2>5 DEF E!MailInv
  <1>9. ASSUME NEW c \in Others, E!StartDelete(c) PROVE E!MailInv'
    <2> USE <1>0, <1>9, IdentitiesConstants, RequestFields, RequestMoves
           DEF E!StartDelete, E!MailInv, E!IdsKnown, E!SignUpsAlone, E!AddressClaimed, E!DeletionsAlone, E!MailIsExclusive,
               E!Leaving, E!Stands, E!Idle, E!SigningUp, E!Deleting, E!index, E!Step
    <2>1. E!IdsKnown'
      OBVIOUS
    <2>2. E!SignUpsAlone'
      OBVIOUS
    <2>3. E!AddressClaimed'
      OBVIOUS
    <2>4. E!DeletionsAlone'
      OBVIOUS
    <2>5. E!MailIsExclusive'
      OBVIOUS
    <2> QED
      BY <2>1, <2>2, <2>3, <2>4, <2>5 DEF E!MailInv
  <1>10. ASSUME NEW c \in Others, E!UnMail(c) PROVE E!MailInv'
    <2> USE <1>0, <1>10, IdentitiesConstants, RequestFields, RequestMoves
           DEF E!UnMail, E!MailInv, E!IdsKnown, E!SignUpsAlone, E!AddressClaimed, E!DeletionsAlone, E!MailIsExclusive,
               E!Leaving, E!Stands, E!Idle, E!SigningUp, E!Deleting, E!index, E!Step
    <2>1. E!IdsKnown'
      OBVIOUS
    <2>2. E!SignUpsAlone'
      OBVIOUS
    <2>3. E!AddressClaimed'
      OBVIOUS
    <2>4. E!DeletionsAlone'
      OBVIOUS
    <2>5. E!MailIsExclusive'
      OBVIOUS
    <2> QED
      BY <2>1, <2>2, <2>3, <2>4, <2>5 DEF E!MailInv
  <1>11. ASSUME NEW c \in Others, E!UnLink(c) PROVE E!MailInv'
    <2> USE <1>0, <1>11, IdentitiesConstants, RequestFields, RequestMoves
           DEF E!UnLink, E!MailInv, E!IdsKnown, E!SignUpsAlone, E!AddressClaimed, E!DeletionsAlone, E!MailIsExclusive,
               E!Leaving, E!Stands, E!Idle, E!SigningUp, E!Deleting, E!index, E!Step
    <2>1. E!IdsKnown'
      OBVIOUS
    <2>2. E!SignUpsAlone'
      OBVIOUS
    <2>3. E!AddressClaimed'
      OBVIOUS
    <2>4. E!DeletionsAlone'
      OBVIOUS
    <2>5. E!MailIsExclusive'
      OBVIOUS
    <2> QED
      BY <2>1, <2>2, <2>3, <2>4, <2>5 DEF E!MailInv
  <1>12. ASSUME NEW c \in Others, E!RemoveFolder(c) PROVE E!MailInv'
    <2> USE <1>0, <1>12, IdentitiesConstants, RequestFields, RequestMoves
           DEF E!RemoveFolder, E!MailInv, E!IdsKnown, E!SignUpsAlone, E!AddressClaimed, E!DeletionsAlone, E!MailIsExclusive,
               E!Leaving, E!Stands, E!Idle, E!SigningUp, E!Deleting, E!index, E!Step
    <2>1. E!IdsKnown'
      OBVIOUS
    <2>2. E!SignUpsAlone'
      OBVIOUS
    <2>3. E!AddressClaimed'
      OBVIOUS
    <2>4. E!DeletionsAlone'
      OBVIOUS
    <2>5. E!MailIsExclusive'
      <3>1. v8[c].id \in Some /\ v8'[c].at = "tokens" /\ \A d \in Others \ {c} : v8'[d] = v8[d]
        BY <1>12, RequestFields, RequestMoves DEF E!RemoveFolder
      <3>2. \A a \in Some : v1'[a] = IF a = v8[c].id THEN E!NoRecord ELSE v1[a]
        BY <1>0, <1>12 DEF E!RemoveFolder
      <3>3. \A a \in Some : a # v8[c].id /\ E!Leaving(a) => E!Leaving(a)'
        BY <3>1 DEF E!Leaving
      <3>4. UNCHANGED <<v3, v11>>
        BY <1>12 DEF E!RemoveFolder, E!index
      <3> QED
        BY <3>2, <3>3, <3>4 DEF E!MailInv, E!MailIsExclusive, E!Stands, E!NoRecord
    <2> QED
      BY <2>1, <2>2, <2>3, <2>4, <2>5 DEF E!MailInv
  <1>13. ASSUME NEW c \in Others, E!RemoveFails(c) PROVE E!MailInv'
    <2> USE <1>0, <1>13, IdentitiesConstants, RequestFields, RequestMoves
           DEF E!RemoveFails, E!MailInv, E!IdsKnown, E!SignUpsAlone, E!AddressClaimed, E!DeletionsAlone, E!MailIsExclusive,
               E!Leaving, E!Stands, E!Idle, E!SigningUp, E!Deleting, E!index, E!Step
    <2>1. E!IdsKnown'
      OBVIOUS
    <2>2. E!SignUpsAlone'
      OBVIOUS
    <2>3. E!AddressClaimed'
      OBVIOUS
    <2>4. E!DeletionsAlone'
      OBVIOUS
    <2>5. E!MailIsExclusive'
      OBVIOUS
    <2> QED
      BY <2>1, <2>2, <2>3, <2>4, <2>5 DEF E!MailInv
  <1>14. ASSUME NEW c \in Others, E!DropTokenIndex(c) PROVE E!MailInv'
    <2> USE <1>0, <1>14, IdentitiesConstants, RequestFields, RequestMoves
           DEF E!DropTokenIndex, E!MailInv, E!IdsKnown, E!SignUpsAlone, E!AddressClaimed, E!DeletionsAlone, E!MailIsExclusive,
               E!Leaving, E!Stands, E!Idle, E!SigningUp, E!Deleting, E!index, E!Step
    <2>1. E!IdsKnown'
      OBVIOUS
    <2>2. E!SignUpsAlone'
      OBVIOUS
    <2>3. E!AddressClaimed'
      OBVIOUS
    <2>4. E!DeletionsAlone'
      OBVIOUS
    <2>5. E!MailIsExclusive'
      OBVIOUS
    <2> QED
      BY <2>1, <2>2, <2>3, <2>4, <2>5 DEF E!MailInv
  <1>15. ASSUME NEW c \in Others, NEW s \in Subjects, NEW v \in BOOLEAN, E!SignIn(c, s, v) PROVE E!MailInv'
    <2> USE <1>0, <1>15, IdentitiesConstants, RequestFields, RequestMoves
           DEF E!SignIn, E!MailInv, E!IdsKnown, E!SignUpsAlone, E!AddressClaimed, E!DeletionsAlone, E!MailIsExclusive,
               E!Leaving, E!Stands, E!Idle, E!SigningUp, E!Deleting, E!index, E!Step
    <2>1. E!IdsKnown'
      OBVIOUS
    <2>2. E!SignUpsAlone'
      OBVIOUS
    <2>3. E!AddressClaimed'
      OBVIOUS
    <2>4. E!DeletionsAlone'
      OBVIOUS
    <2>5. E!MailIsExclusive'
      OBVIOUS
    <2> QED
      BY <2>1, <2>2, <2>3, <2>4, <2>5 DEF E!MailInv
  <1>16. ASSUME NEW c \in Others, NEW a \in Some, E!AskToken(c, a) PROVE E!MailInv'
    <2> USE <1>0, <1>16, IdentitiesConstants, RequestFields, RequestMoves
           DEF E!AskToken, E!MailInv, E!IdsKnown, E!SignUpsAlone, E!AddressClaimed, E!DeletionsAlone, E!MailIsExclusive,
               E!Leaving, E!Stands, E!Idle, E!SigningUp, E!Deleting, E!index, E!Step
    <2>1. E!IdsKnown'
      OBVIOUS
    <2>2. E!SignUpsAlone'
      OBVIOUS
    <2>3. E!AddressClaimed'
      OBVIOUS
    <2>4. E!DeletionsAlone'
      OBVIOUS
    <2>5. E!MailIsExclusive'
      OBVIOUS
    <2> QED
      BY <2>1, <2>2, <2>3, <2>4, <2>5 DEF E!MailInv
  <1>17. ASSUME NEW c \in Others, NEW a \in Some, E!Webhook(c, a) PROVE E!MailInv'
    <2> USE <1>0, <1>17, IdentitiesConstants, RequestFields, RequestMoves
           DEF E!Webhook, E!MailInv, E!IdsKnown, E!SignUpsAlone, E!AddressClaimed, E!DeletionsAlone, E!MailIsExclusive,
               E!Leaving, E!Stands, E!Idle, E!SigningUp, E!Deleting, E!index, E!Step
    <2>1. E!IdsKnown'
      OBVIOUS
    <2>2. E!SignUpsAlone'
      OBVIOUS
    <2>3. E!AddressClaimed'
      OBVIOUS
    <2>4. E!DeletionsAlone'
      OBVIOUS
    <2>5. E!MailIsExclusive'
      OBVIOUS
    <2> QED
      BY <2>1, <2>2, <2>3, <2>4, <2>5 DEF E!MailInv
  <1>18. ASSUME NEW c \in Others, NEW a \in Some, E!AskDelete(c, a) PROVE E!MailInv'
    <2> USE <1>0, <1>18, IdentitiesConstants, RequestFields, RequestMoves
           DEF E!AskDelete, E!MailInv, E!IdsKnown, E!SignUpsAlone, E!AddressClaimed, E!DeletionsAlone, E!MailIsExclusive,
               E!Leaving, E!Stands, E!Idle, E!SigningUp, E!Deleting, E!index, E!Step
    <2>1. E!IdsKnown'
      OBVIOUS
    <2>2. E!SignUpsAlone'
      OBVIOUS
    <2>3. E!AddressClaimed'
      OBVIOUS
    <2>4. E!DeletionsAlone'
      OBVIOUS
    <2>5. E!MailIsExclusive'
      OBVIOUS
    <2> QED
      BY <2>1, <2>2, <2>3, <2>4, <2>5 DEF E!MailInv
  <1>19. ASSUME NEW a \in Some, NEW t \in Secrets, E!DeleteToken(a, t) PROVE E!MailInv'
    <2> USE <1>0, <1>19, IdentitiesConstants, RequestFields, RequestMoves
           DEF E!DeleteToken, E!MailInv, E!IdsKnown, E!SignUpsAlone, E!AddressClaimed, E!DeletionsAlone, E!MailIsExclusive,
               E!Leaving, E!Stands, E!Idle, E!SigningUp, E!Deleting, E!index, E!Step
    <2>1. E!IdsKnown'
      OBVIOUS
    <2>2. E!SignUpsAlone'
      OBVIOUS
    <2>3. E!AddressClaimed'
      OBVIOUS
    <2>4. E!DeletionsAlone'
      OBVIOUS
    <2>5. E!MailIsExclusive'
      OBVIOUS
    <2> QED
      BY <2>1, <2>2, <2>3, <2>4, <2>5 DEF E!MailInv
  <1>20. CASE E!Crash
    <2> USE <1>0, <1>20, IdentitiesConstants, RequestFields, RequestMoves
           DEF E!Crash, E!MailInv, E!IdsKnown, E!SignUpsAlone, E!AddressClaimed, E!DeletionsAlone, E!MailIsExclusive,
               E!Leaving, E!Stands, E!Idle, E!SigningUp, E!Deleting, E!index, E!Step
    <2>1. E!IdsKnown'
      OBVIOUS
    <2>2. E!SignUpsAlone'
      OBVIOUS
    <2>3. E!AddressClaimed'
      OBVIOUS
    <2>4. E!DeletionsAlone'
      OBVIOUS
    <2>5. E!MailIsExclusive'
      OBVIOUS
    <2> QED
      BY <2>1, <2>2, <2>3, <2>4, <2>5 DEF E!MailInv
  <1>21. CASE UNCHANGED E!idvars
    <2> USE <1>0, <1>21, IdentitiesConstants, RequestFields, RequestMoves
           DEF E!idvars, E!MailInv, E!IdsKnown, E!SignUpsAlone, E!AddressClaimed, E!DeletionsAlone, E!MailIsExclusive,
               E!Leaving, E!Stands, E!Idle, E!SigningUp, E!Deleting, E!index, E!Step
    <2>1. E!IdsKnown'
      OBVIOUS
    <2>2. E!SignUpsAlone'
      OBVIOUS
    <2>3. E!AddressClaimed'
      OBVIOUS
    <2>4. E!DeletionsAlone'
      OBVIOUS
    <2>5. E!MailIsExclusive'
      OBVIOUS
    <2> QED
      BY <2>1, <2>2, <2>3, <2>4, <2>5 DEF E!MailInv
  <1> QED
    BY <1>1, <1>2, <1>3, <1>4, <1>5, <1>6, <1>7, <1>8, <1>9, <1>10, <1>11, <1>12, <1>13, <1>14, <1>15, <1>16, <1>17, <1>18, <1>19, <1>20, <1>21 DEF E!IdentitiesNext

LEMMA IdentitiesGoOn == IdentitiesGood /\ [Next]_slots => IdentitiesGood'
  <1> SUFFICES ASSUME IdentitiesGood, [Next]_slots, which' = "identities"
               PROVE  (E!RequestsTyped /\ E!MailInv)'
    BY DEF IdentitiesGood
  <1>1. which = "identities" /\ [E!IdentitiesNext]_(E!idvars)
    BY DEF Next, slots, E!idvars
  <1> QED
    BY <1>1, RequestsStep, MailStep DEF IdentitiesGood

\* Of any accounts, requests, subjects and secrets: one standing account has
\* an address.
THEOREM IdentitiesHold == Spec => []MailIsExclusive
  <1>1. IdentitiesGood => MailIsExclusive
    BY DEF IdentitiesGood, MailIsExclusive, E!MailInv
  <1> QED
    BY <1>1, IdentitiesBegin, IdentitiesGoOn, PTL DEF Spec

(***************************************************************************)
(* ProofLookup.                                                            *)
(***************************************************************************)

LookupGood == which = "lookup" => P!LookupTypeOK /\ P!LookupInv

LEMMA LookupConstants ==
    /\ NameDepth \in Nat /\ NameSkipped \in 0 .. NameDepth - 1
    /\ ServerHome \in [NameServers -> P!Zone] /\ MaxReferrals \in Nat /\ MaxHops \in Nat \ {0}
  BY PartsAssumption DEF P!LookupAssumption

\* Of some ancestors of the name one is the deepest.
LEMMA Deepest ==
    ASSUME NEW zs \in SUBSET (0 .. NameDepth), zs # {}
    PROVE  \E z \in zs : \A y \in zs : y <= z
  <1> DEFINE Up == {NameDepth - z : z \in zs}
  <1>1. NameDepth \in Nat
    BY LookupConstants
  <1>8. \A z \in zs : z \in 0 .. NameDepth /\ NameDepth - z \in Nat
    BY <1>1
  <1>2. Up \subseteq Nat /\ Up # {}
    <2>1. PICK z : z \in zs
      OBVIOUS
    <2>2. NameDepth - z \in Up
      BY <2>1
    <2> QED
      BY <1>8, <2>2
  <1> HIDE DEF Up
  <1> DEFINE Less == {ss \in Nat \X Nat : ss[1] < ss[2]}
  <1>6. IsWellFoundedOn(Less, Nat)
    BY NatLessThanWellFounded DEF OpToRel
  <1>7. PICK n \in Up : \A m \in Up : ~(<<m, n>> \in Less)
    <2> HIDE DEF Less
    <2> QED
      BY <1>2, <1>6, WFMin
  <1>9. n \in Nat /\ \A m \in Nat : m < n => <<m, n>> \in Less
    BY <1>2
  <1>3. \A m \in Up : n <= m
    <2> HIDE DEF Less
    <2> SUFFICES ASSUME NEW m \in Up PROVE n <= m
      OBVIOUS
    <2>1. m \in Nat
      BY <1>2
    <2>2. ~(m < n)
      BY <1>7, <1>9, <2>1
    <2> QED
      BY <1>9, <2>1, <2>2
  <1> USE DEF Up
  <1>4. PICK z \in zs : n = NameDepth - z
    BY <1>3
  <1>5. \A y \in zs : NameDepth - z <= NameDepth - y
    BY <1>3, <1>4
  <1>10. ASSUME NEW y \in zs PROVE y <= z
    <2>1. y \in Nat /\ z \in Nat /\ NameDepth - z <= NameDepth - y
      BY <1>5, <1>8
    <2> QED
      BY <1>1, <2>1
  <1> QED
    BY <1>10

\* A delegation leads below the zone it was asked of, on the way to the name.
LEMMA DelegationLeadsDown ==
    ASSUME v4 \in 0 .. NameDepth, NEW ns, P!Towards(ns) # {}
    PROVE  P!Child(ns) \in 0 .. NameDepth /\ P!Child(ns) > v4
  <1>1. P!Towards(ns) \in SUBSET (0 .. NameDepth)
    BY DEF P!Towards
  <1>2. \E z \in P!Towards(ns) : \A y \in P!Towards(ns) : y <= z
    BY <1>1, Deepest
  <1>3. P!Child(ns) \in P!Towards(ns)
    BY <1>2 DEF P!Child
  <1>4. P!Child(ns) \in 0 .. NameDepth /\ P!Child(ns) # v4 /\ P!InZone(P!Child(ns), v4)
    BY <1>3 DEF P!Towards
  <1> QED
    BY <1>4, LookupConstants DEF P!InZone

LEMMA AddressesAreTyped ==
    ASSUME NEW hosts \in SUBSET NameServers, NEW glue, NEW from \in P!Zone,
           NEW s \in P!Addresses(hosts, glue, from)
    PROVE  /\ s \in SUBSET P!Server
           /\ \A x \in s : x.via = Resolver \/ (x.via = from /\ x.host \in glue)
  BY DEF P!Addresses, P!Server

LEMMA LookupBegin == Init => LookupGood
  <1> SUFFICES ASSUME P!LookupInit PROVE P!LookupTypeOK /\ P!LookupInv
    BY DEF Init, LookupGood
  <1>1. NameDepth - NameSkipped \in 0 .. NameDepth /\ 0 \in 0 .. NameDepth
    BY LookupConstants
  <1>2. 0 \in 0 .. MaxReferrals /\ 0 \in 0 .. MaxHops
    BY LookupConstants
  <1> QED
    BY <1>1, <1>2
    DEF P!LookupInit, P!LookupTypeOK, P!LookupInv, P!ZoneIsAnAncestor,
        P!AnswerIsATarget, P!ResolverIsFirst, P!GlueIsVouchedFor, P!Zone

LEMMA LookupStep ==
    ASSUME P!LookupTypeOK, P!LookupInv, [P!LookupNext]_(P!luvars)
    PROVE  (P!LookupTypeOK /\ P!LookupInv)'
  <1> USE LookupConstants
          DEF P!LookupTypeOK, P!LookupInv, P!ZoneIsAnAncestor, P!AnswerIsATarget,
              P!ResolverIsFirst, P!GlueIsVouchedFor
  <1> SUFFICES ASSUME P!LookupNext PROVE (P!LookupTypeOK /\ P!LookupInv)'
    BY DEF P!luvars
  <1>1. CASE P!StepUp
    BY <1>1 DEF P!StepUp, P!NoAuthority, P!Finish
  <1>2. CASE P!FindServers
    <2>5. PICK hosts \in SUBSET NameServers : \E s \in P!Addresses(hosts, {}, None) :
            \/ P!NoAuthority
            \/ v2' = "ask" /\ v4' = v3 /\ v5' = s /\ UNCHANGED <<v3, v6, v7, v8>>
      BY <1>2 DEF P!FindServers
    <2>6. PICK s \in P!Addresses(hosts, {}, None) :
            \/ P!NoAuthority
            \/ v2' = "ask" /\ v4' = v3 /\ v5' = s /\ UNCHANGED <<v3, v6, v7, v8>>
      BY <2>5
    <2>1. s \in SUBSET P!Server /\ \A x \in s : x.via = Resolver
      <3>1. None \in P!Zone
        BY DEF P!Zone
      <3>2. /\ s \in SUBSET P!Server
            /\ \A x \in s : x.via = Resolver \/ (x.via = None /\ x.host \in {})
        BY <3>1, AddressesAreTyped
      <3> QED
        BY <3>2
    <2>2. UNCHANGED <<v1, v9>> /\ v2 = "walk"
      BY <1>2 DEF P!FindServers
    <2>3. CASE P!NoAuthority
      BY <2>2, <2>3 DEF P!NoAuthority, P!Finish
    <2>4. CASE v2' = "ask" /\ v4' = v3 /\ v5' = s /\ UNCHANGED <<v3, v6, v7, v8>>
      BY <2>1, <2>2, <2>4 DEF P!Zone
    <2> QED
      BY <2>3, <2>4, <2>6
  <1>3. CASE P!AskResolver
    BY <1>3 DEF P!AskResolver
  <1>4. ASSUME NEW srv \in v5, P!AskInVain(srv) PROVE (P!LookupTypeOK /\ P!LookupInv)'
    BY <1>4 DEF P!AskInVain, P!Unhelpful, P!NoAuthority, P!Finish
  <1>5. ASSUME NEW srv \in v5, P!AskWell(srv) PROVE (P!LookupTypeOK /\ P!LookupInv)'
    BY <1>5 DEF P!AskWell, P!Found, P!NotFound, P!Finish, P!Zone
  <1>6. ASSUME NEW srv \in v5, P!Refer(srv) PROVE (P!LookupTypeOK /\ P!LookupInv)'
    <2>0. UNCHANGED <<v1, v9>> /\ v2 = "ask"
      BY <1>6 DEF P!Refer
    <2>1. CASE P!Unhelpful(srv) \/ P!NoAuthority
      BY <2>0, <2>1 DEF P!Unhelpful, P!NoAuthority, P!Finish
    <2>2. ASSUME NEW ns \in [P!Zone -> SUBSET NameServers], NEW given, P!Towards(ns) # {}, v6 < MaxReferrals,
                 NEW s \in P!Addresses(ns[P!Child(ns)], P!Glue(given, ns[P!Child(ns)]), v4),
                 v5' = s, v4' = P!Child(ns), v6' = v6 + 1, UNCHANGED <<v2, v3, v7, v8>>
          PROVE  (P!LookupTypeOK /\ P!LookupInv)'
      <3>1. P!Child(ns) \in 0 .. NameDepth
        BY <2>2, DelegationLeadsDown
      <3>2. ns[P!Child(ns)] \in SUBSET NameServers /\ v4 \in P!Zone
        BY <2>2, <3>1 DEF P!Zone
      <3>3. /\ s \in SUBSET P!Server
            /\ \A x \in s : x.via = Resolver \/ (x.via = v4 /\ P!InZone(ServerHome[x.host], v4))
        BY <2>2, <3>2, AddressesAreTyped DEF P!Glue
      <3> QED
        BY <2>0, <2>2, <3>1, <3>3 DEF P!Zone
    <2> QED
      BY <1>6, <2>1, <2>2 DEF P!Refer
  <1> QED
    BY <1>1, <1>2, <1>3, <1>4, <1>5, <1>6 DEF P!LookupNext

LEMMA LookupGoesOn == LookupGood /\ [Next]_slots => LookupGood'
  <1> SUFFICES ASSUME LookupGood, [Next]_slots, which' = "lookup"
               PROVE  (P!LookupTypeOK /\ P!LookupInv)'
    BY DEF LookupGood
  <1>1. which = "lookup" /\ [P!LookupNext]_(P!luvars)
    BY DEF Next, slots, P!luvars
  <1> QED
    BY <1>1, LookupStep DEF LookupGood

\* Only a delegation is one more.
LEMMA LookupDescends ==
    ASSUME P!LookupTypeOK, P!LookupInv, [P!LookupNext]_(P!luvars)
    PROVE  P!DelegationDescends
  <1> SUFFICES ASSUME v6' > v6 PROVE v4' > v4 /\ v4' \in 0 .. NameDepth
    BY DEF P!DelegationDescends
  <1>0. v6 \in Nat
    BY LookupConstants DEF P!LookupTypeOK
  <1>1. PICK srv \in v5 : P!Refer(srv)
    BY <1>0 DEF P!LookupNext, P!luvars, P!StepUp, P!FindServers, P!AskResolver, P!AskInVain, P!AskWell,
                P!Unhelpful, P!Found, P!NotFound, P!NoAuthority, P!Finish
  <1>2. PICK ns : P!Towards(ns) # {} /\ v4' = P!Child(ns)
    BY <1>0, <1>1 DEF P!Refer, P!Unhelpful, P!NoAuthority, P!Finish
  <1> QED
    BY <1>2, DelegationLeadsDown DEF P!LookupInv, P!ZoneIsAnAncestor

\* Of lookups of any name among any servers: glue is vouched for, the resolver
\* is asked last, and a delegation leads down.
THEOREM LookupsHold == Spec => LookupsAreVouched
  <1>1. LookupGood => (which = "lookup" => P!GlueIsVouchedFor /\ P!ResolverIsLast)
    BY DEF LookupGood, P!LookupInv, P!LookupTypeOK, P!AnswerIsATarget, P!ResolverIsFirst, P!ResolverIsLast
  <1>2. LookupGood /\ [Next]_slots => [which = "lookup" => P!DelegationDescends]_slots
    BY LookupDescends DEF LookupGood, Next, slots, P!luvars
  <1> QED
    BY <1>1, <1>2, LookupBegin, LookupGoesOn, PTL DEF Spec, LookupsAreVouched

(***************************************************************************)
(* Domains.                                                                *)
(***************************************************************************)

DomainsGood == which = "domains" => D!DomainsTyped /\ D!DomainsInv

LEMMA DomainsConstants == DomainSweep \notin DomainAskers /\ None \notin Some /\ None \notin Others
  BY PartsAssumption DEF D!DomainsAssumption

\* Who is at work on something has a task.
LEMMA TaskFields ==
    ASSUME D!DomainsTyped, NEW p \in D!Actors, v7[p] # D!Free
    PROVE  /\ v7[p] \in D!Tasks /\ v7[p].step \in D!Steps
           /\ v7[p].site \in Some /\ v7[p].addr \in DomainAddresses
           /\ v7[p].owner \in Others /\ v7[p].as \in {"own", "host"}
  BY DEF D!DomainsTyped, D!Tasks

LEMMA StepsAreTasks ==
    ASSUME NEW p, v7[p].step \in D!Steps PROVE v7[p] # D!Free
  BY DEF D!Steps, D!Free

\* The next step of a task, of the same address and site.
Onward(p, r) ==
    /\ r \in D!Tasks /\ r.site = v7[p].site /\ r.addr = v7[p].addr
    /\ v7' = [v7 EXCEPT ![p] = r]

LEMMA NextIsOnward ==
    ASSUME D!DomainsTyped, NEW p \in D!Actors, v7[p] # D!Free, NEW step \in D!Steps, D!Next_(p, step)
    PROVE  \E r : Onward(p, r) /\ r.step = step /\ r.owner = v7[p].owner /\ r.as = v7[p].as
  <1> DEFINE r == [v7[p] EXCEPT !.step = step]
  <1>1. r \in D!Tasks /\ r.site = v7[p].site /\ r.addr = v7[p].addr /\ r.step = step
        /\ r.owner = v7[p].owner /\ r.as = v7[p].as
    BY TaskFields DEF D!Tasks
  <1>2. v7' = [v7 EXCEPT ![p] = r]
    BY DEF D!Next_
  <1> QED
    BY <1>1, <1>2 DEF Onward

LEMMA DomainsBegin == Init => DomainsGood
  <1> SUFFICES ASSUME D!DomainsInit PROVE D!DomainsTyped /\ D!DomainsInv
    BY DEF Init, DomainsGood
  <1> USE DomainsConstants DEF D!DomainsInit
  <1>0. \A p \in D!Actors : v7[p] = D!Free /\ v7[p].step = "idle"
    BY DEF D!Free
  <1>1. D!DomainsTyped
    BY DEF D!DomainsTyped, D!Claims
  <1>2. D!ListedIsVerified
    BY DEF D!ListedIsVerified, D!Verified
  <1>3. D!IndexInv
    BY <1>0 DEF D!IndexInv, D!WorkersAlone, D!AtWork, D!SweepAlone, D!PrunesTangled, D!GoneUnlisted,
                D!TasksFit, D!TodoFits, D!RestAgrees, D!Agrees
  <1>4. D!OwnersInv
    BY <1>0 DEF D!OwnersInv, D!OwnersKnown, D!AttachedOwn, D!AttachersOwn, D!Attaching,
                D!OneOwnerPerHost, D!Serves
  <1> QED
    BY <1>1, <1>2, <1>3, <1>4 DEF D!DomainsInv

\* Every act of a request or of the sweep on its own task either ends it or
\* takes it a step on; of tasks nothing else changes.
LEMMA OwnSteps ==
    ASSUME D!DomainsTyped, NEW p \in D!Actors,
           \/ p \in DomainAskers /\ D!RecordClaim(p)
           \/ D!Attach(p) \/ D!Stamp(p)
           \/ p = DomainSweep /\ (D!DropClaim \/ D!DetachLink \/ D!DetachMeta)
    PROVE  v7[p] # D!Free /\ (D!Done(p) \/ \E r : Onward(p, r))
  <1>1. v7[p] # D!Free
    <2>1. v7[p].step # "idle"
      BY DEF D!RecordClaim, D!Attach, D!StartAttach, D!ClearLink, D!MakeLink, D!WriteAttached, D!WriteFails,
             D!UndoLink, D!Stamp, D!DropClaim, D!DetachLink, D!DetachMeta, D!Does
    <2> QED
      BY <2>1 DEF D!Free
  <1>2. CASE p \in DomainAskers /\ D!RecordClaim(p)
    <2> DEFINE r(as) == [v7[p] EXCEPT !.step = "host", !.as = as, !.owner = v3[v7[p].site]]
    <2>1. \A as \in {"own", "host"} :
             r(as) \in D!Tasks /\ r(as).site = v7[p].site /\ r(as).addr = v7[p].addr
      BY <1>1, TaskFields DEF D!Tasks, D!Steps, D!DomainsTyped
    <2>2. D!Done(p) \/ \E as \in {"own", "host"} : v7' = [v7 EXCEPT ![p] = r(as)]
      <3>1. D!Done(p) \/ v7' = [v7 EXCEPT ![p] = r("own")] \/ v7' = [v7 EXCEPT ![p] = r("host")]
        BY <1>2 DEF D!RecordClaim, D!Verified
      <3> QED
        BY <3>1
    <2> QED
      BY <1>1, <2>1, <2>2 DEF Onward
  <1>3. CASE D!Attach(p) \/ D!Stamp(p) \/ (p = DomainSweep /\ (D!DropClaim \/ D!DetachLink \/ D!DetachMeta))
    <2>1. D!Done(p) \/ \E step \in {"make", "clear", "write", "drop", "undo", "demote"} : D!Next_(p, step)
      BY <1>3 DEF D!Attach, D!StartAttach, D!LookAtLink, D!Taken, D!ClearLink, D!MakeLink, D!WriteAttached,
                  D!WriteFails, D!UndoLink, D!Stamp, D!DropClaim, D!DetachLink, D!DetachMeta
    <2> QED
      BY <1>1, <2>1, NextIsOnward DEF D!Steps
  <1> QED
    BY <1>2, <1>3

LEMMA TasksStayTyped ==
    ASSUME D!DomainsTyped, NEW p \in D!Actors, D!Done(p) \/ \E r : Onward(p, r)
    PROVE  v7' \in [D!Actors -> {D!Free} \cup D!Tasks]
  BY DEF D!DomainsTyped, D!Done, Onward

LEMMA ClaimsStayTyped ==
    ASSUME D!DomainsTyped, NEW s, NEW a,
           v5' = v5 \/ \E c \in D!Claims : v5' = [v5 EXCEPT ![s][a] = c]
    PROVE  v5' \in [Some -> [DomainAddresses -> D!Claims]]
  <1>1. CASE v5' = v5
    BY <1>1 DEF D!DomainsTyped
  <1>2. ASSUME NEW c \in D!Claims, v5' = [v5 EXCEPT ![s][a] = c]
        PROVE  v5' \in [Some -> [DomainAddresses -> D!Claims]]
    <2>1. s \in Some => [v5[s] EXCEPT ![a] = c] \in [DomainAddresses -> D!Claims]
      BY DEF D!DomainsTyped
    <2> QED
      BY <1>2, <2>1 DEF D!DomainsTyped
  <1> QED
    BY <1>1, <1>2

LEMMA DomainsTypeStep ==
    ASSUME D!DomainsTyped, [D!DomainsNext]_(D!dvars)
    PROVE  D!DomainsTyped'
  <1> USE DomainsConstants DEF D!DomainsTyped, D!metaVars
  <1>1. CASE UNCHANGED D!dvars
    BY <1>1 DEF D!dvars
  <1>2. ASSUME NEW p \in DomainAskers, NEW s \in Some, NEW a \in DomainAddresses, D!AskDomain(p, s, a)
        PROVE  D!DomainsTyped'
    <2>1. \E step \in {"ok", "claim"} :
             v7' = [v7 EXCEPT ![p] = [step |-> step, site |-> s, addr |-> a, owner |-> v3[s], as |-> "own"]]
      BY <1>2 DEF D!AskDomain
    <2>2. PICK step \in {"ok", "claim"} :
             v7' = [v7 EXCEPT ![p] = [step |-> step, site |-> s, addr |-> a, owner |-> v3[s], as |-> "own"]]
      BY <2>1
    <2>3. [step |-> step, site |-> s, addr |-> a, owner |-> v3[s], as |-> "own"] \in D!Tasks
      BY DEF D!Tasks, D!Steps
    <2>4. v7' \in [D!Actors -> {D!Free} \cup D!Tasks]
      BY <2>2, <2>3
    <2> QED
      BY <1>2, <2>4 DEF D!AskDomain
  <1>3. ASSUME NEW p \in DomainAskers, D!RecordClaim(p) PROVE D!DomainsTyped'
    <2>0. p \in D!Actors
      BY DEF D!Actors
    <2>1. v7' \in [D!Actors -> {D!Free} \cup D!Tasks]
      BY <1>3, <2>0, OwnSteps, TasksStayTyped
    <2>2. v5' = v5 \/ \E c \in D!Claims : v5' = [v5 EXCEPT ![v7[p].site][v7[p].addr] = c]
      <3>1. v5' = v5 \/ v5' = [v5 EXCEPT ![v7[p].site][v7[p].addr] = "pending"]
                     \/ v5' = [v5 EXCEPT ![v7[p].site][v7[p].addr] = v5[v7[p].site][v7[p].addr]]
        BY <1>3 DEF D!RecordClaim
      <3>2. v7[p].site \in Some /\ v7[p].addr \in DomainAddresses
        BY <1>3, <2>0, OwnSteps, TaskFields
      <3>3. v5[v7[p].site][v7[p].addr] \in D!Claims /\ "pending" \in D!Claims
        BY <3>2 DEF D!Claims
      <3> QED
        BY <3>1, <3>3
    <2>3. v5' \in [Some -> [DomainAddresses -> D!Claims]]
      BY <2>2, ClaimsStayTyped
    <2> QED
      BY <1>3, <2>1, <2>3 DEF D!RecordClaim
  <1>4. ASSUME NEW p \in D!Actors, D!Attach(p) PROVE D!DomainsTyped'
    <2>1. v7[p] # D!Free /\ v7' \in [D!Actors -> {D!Free} \cup D!Tasks]
      BY <1>4, OwnSteps, TasksStayTyped
    <2>2. v7[p].site \in Some /\ v7[p].addr \in DomainAddresses /\ v7[p].as \in D!Claims
          /\ DomainHost[v7[p].addr] \in D!Hosts
      BY <2>1, TaskFields DEF D!Claims, D!Hosts
    <2>3. CASE D!StartAttach(p)
      BY <2>1, <2>2, <2>3 DEF D!StartAttach, D!NoteRace
    <2>4. CASE D!ClearLink(p) \/ D!MakeLink(p) \/ D!UndoLink(p) \/ D!WriteFails(p)
      BY <2>1, <2>2, <2>4 DEF D!ClearLink, D!MakeLink, D!UndoLink, D!WriteFails
    <2>5. CASE D!WriteAttached(p)
      BY <2>1, <2>2, <2>5 DEF D!WriteAttached, D!SetMeta
    <2> QED
      BY <1>4, <2>3, <2>4, <2>5 DEF D!Attach
  <1>5. ASSUME NEW p \in D!Actors, D!Stamp(p) PROVE D!DomainsTyped'
    <2>1. v7[p] # D!Free /\ v7' \in [D!Actors -> {D!Free} \cup D!Tasks]
      BY <1>5, OwnSteps, TasksStayTyped
    <2>2. v7[p].as \in D!Claims
      BY <2>1, TaskFields DEF D!Claims
    <2> QED
      BY <1>5, <2>1, <2>2 DEF D!Stamp
  <1>6. ASSUME NEW s \in Some, NEW a \in DomainAddresses, D!RemoveDomain(s, a) \/ D!SweepReads(s, a)
        PROVE  D!DomainsTyped'
    BY <1>6 DEF D!RemoveDomain, D!SweepReads, D!SetMeta, D!Unlinked, D!Tangle, D!Claims
  <1>7. ASSUME NEW s \in Some, D!DeleteSite(s) PROVE D!DomainsTyped'
    BY <1>7 DEF D!DeleteSite, D!Tangle, D!Claims
  <1>8. ASSUME NEW s \in Some, NEW o \in Others, D!Transfer(s, o) PROVE D!DomainsTyped'
    <2>1. v12' \subseteq D!Hosts
      <3>1. \A a \in DomainAddresses : DomainHost[a] \in D!Hosts
        BY DEF D!Hosts
      <3>2. \A p \in D!Actors : v7[p] # D!Free => DomainHost[v7[p].addr] \in D!Hosts
        BY <3>1, TaskFields
      <3> QED
        BY <1>8, <3>1, <3>2 DEF D!Transfer
    <2> QED
      BY <1>8, <2>1 DEF D!Transfer, D!Unlinked, D!Tangle, D!Bound, D!Claims
  <1>9. ASSUME NEW c \in v8, D!SweepPendingClaim(c) \/ D!SweepVerifiedClaim(c) PROVE D!DomainsTyped'
    <2>1. \/ D!SweepSkips(c)
          \/ \E step \in D!Steps, as \in {"own", "host"} : D!SweepGoes(c, step, as)
      BY <1>9 DEF D!SweepPendingClaim, D!SweepVerifiedClaim, D!Steps
    <2>2. CASE D!SweepSkips(c)
      BY <2>2 DEF D!SweepSkips
    <2>3. ASSUME NEW step \in D!Steps, NEW as \in {"own", "host"}, D!SweepGoes(c, step, as)
          PROVE  D!DomainsTyped'
      <3>1. v7' \in [D!Actors -> {D!Free} \cup D!Tasks]
        BY <2>3 DEF D!SweepGoes, D!Tasks
      <3> QED
        BY <2>3, <3>1 DEF D!SweepGoes
    <2> QED
      BY <2>1, <2>2, <2>3
  <1>10. CASE D!DropClaim \/ D!DetachLink \/ D!DetachMeta
    <2>0. DomainSweep \in D!Actors
      BY DEF D!Actors
    <2>1. v7' \in [D!Actors -> {D!Free} \cup D!Tasks]
      BY <1>10, <2>0, OwnSteps, TasksStayTyped
    <2>2. CASE D!DropClaim
      <3> DEFINE s == v7[DomainSweep].site  a == v7[DomainSweep].addr
      <3>1. v7[DomainSweep] # D!Free
        BY <1>10, <2>0, OwnSteps
      <3>2. v5[s][a] \in D!Claims /\ "none" \in D!Claims
        BY <2>0, <3>1, TaskFields DEF D!Claims
      <3>3. v5' = [v5 EXCEPT ![s][a] = "none"] \/ v5' = [v5 EXCEPT ![s][a] = v5[s][a]]
        BY <2>2 DEF D!DropClaim
      <3>4. v5' \in [Some -> [DomainAddresses -> D!Claims]]
        BY <3>2, <3>3, ClaimsStayTyped
      <3> QED
        BY <2>1, <2>2, <3>4 DEF D!DropClaim
    <2>3. CASE D!DetachLink
      BY <2>1, <2>3 DEF D!DetachLink
    <2>4. CASE D!DetachMeta
      <3> DEFINE s == v7[DomainSweep].site  a == v7[DomainSweep].addr
      <3>1. s \in Some /\ a \in DomainAddresses
        BY <1>10, <2>0, OwnSteps, TaskFields
      <3>2. \/ UNCHANGED <<v2, v3, v4, v5>>
            \/ /\ UNCHANGED <<v2, v3>> /\ v4' = [v4 EXCEPT ![s] = @ \ {a}]
               /\ \E c \in D!Claims : v5' = [v5 EXCEPT ![s][a] = c]
        BY <2>4 DEF D!DetachMeta, D!SetMeta, D!Claims
      <3>3. v5' \in [Some -> [DomainAddresses -> D!Claims]]
        BY <3>2, ClaimsStayTyped
      <3> QED
        BY <2>1, <2>4, <3>2, <3>3 DEF D!DetachMeta
    <2> QED
      BY <1>10, <2>2, <2>3, <2>4
  <1>11. CASE D!FindDangling \/ (\E a \in v9 : D!Prune(a))
    BY <1>11 DEF D!FindDangling, D!Prune
  <1>12. ASSUME NEW h \in D!Hosts, NEW o \in Others \cup {None}, D!ZoneChanges(h, o) PROVE D!DomainsTyped'
    BY <1>12 DEF D!ZoneChanges
  <1>13. CASE D!CrashAll
    <2>1. \A q \in D!Actors : v7[q].step \in {"write", "undo", "demote"} => v7[q].addr \in DomainAddresses
      BY StepsAreTasks, TaskFields DEF D!Steps
    <2> QED
      BY <1>13, <2>1 DEF D!CrashAll
  <1> QED
    BY <1>1, <1>2, <1>3, <1>4, <1>5, <1>6, <1>7, <1>8, <1>9, <1>10, <1>11, <1>12, <1>13 DEF D!DomainsNext

\* A site lists what it has a verified claim on, at every write of meta.json.
LEMMA ListedStep ==
    ASSUME D!DomainsTyped, D!ListedIsVerified, [D!DomainsNext]_(D!dvars)
    PROVE  D!ListedIsVerified'
  <1> USE DEF D!ListedIsVerified, D!DomainsTyped, D!metaVars
  <1>1. CASE UNCHANGED <<v2, v4, v5>>
    BY <1>1
  <1>2. ASSUME NEW p \in DomainAskers, D!RecordClaim(p) PROVE D!ListedIsVerified'
    <2>1. \/ v5' = v5
          \/ v5[v7[p].site][v7[p].addr] = "none" /\ v5' = [v5 EXCEPT ![v7[p].site][v7[p].addr] = "pending"]
          \/ v5' = [v5 EXCEPT ![v7[p].site][v7[p].addr] = v5[v7[p].site][v7[p].addr]]
      BY <1>2 DEF D!RecordClaim
    <2>2. \A s \in Some, a \in DomainAddresses : D!Verified(v5'[s][a]) <=> D!Verified(v5[s][a])
      BY <2>1 DEF D!Verified
    <2>3. UNCHANGED <<v2, v4>>
      BY <1>2 DEF D!RecordClaim
    <2> QED
      BY <2>2, <2>3
  <1>3. ASSUME NEW p \in D!Actors, D!WriteAttached(p) PROVE D!ListedIsVerified'
    <2>1. v7[p].as \in {"own", "host"} /\ v7[p].site \in Some /\ v7[p].addr \in DomainAddresses
      BY <1>3, StepsAreTasks, TaskFields DEF D!WriteAttached, D!Does, D!Steps
    <2> QED
      BY <1>3, <2>1 DEF D!WriteAttached, D!SetMeta, D!Verified
  <1>4. ASSUME NEW p \in D!Actors, D!Stamp(p) PROVE D!ListedIsVerified'
    <2>1. v7[p].as \in {"own", "host"} /\ v7[p].site \in Some /\ v7[p].addr \in DomainAddresses
      BY <1>4, StepsAreTasks, TaskFields DEF D!Stamp, D!Steps
    <2> QED
      BY <1>4, <2>1 DEF D!Stamp, D!Verified
  <1>5. ASSUME NEW s \in Some, NEW a \in DomainAddresses, D!RemoveDomain(s, a) PROVE D!ListedIsVerified'
    BY <1>5 DEF D!RemoveDomain, D!SetMeta, D!Verified
  <1>6. ASSUME NEW s \in Some, D!DeleteSite(s) PROVE D!ListedIsVerified'
    BY <1>6 DEF D!DeleteSite
  <1>7. ASSUME NEW s \in Some, NEW o \in Others, D!Transfer(s, o) PROVE D!ListedIsVerified'
    BY <1>7 DEF D!Transfer, D!Bound, D!Verified
  <1>8. CASE D!DropClaim
    BY <1>8 DEF D!DropClaim, D!Verified
  <1>9. CASE D!DetachMeta
    BY <1>9 DEF D!DetachMeta, D!SetMeta, D!Verified
  <1>10. ASSUME NEW p \in D!Actors, D!Attach(p), ~D!WriteAttached(p) PROVE UNCHANGED <<v2, v4, v5>>
    BY <1>10 DEF D!Attach, D!StartAttach, D!ClearLink, D!MakeLink, D!UndoLink, D!WriteFails
  <1>11. ASSUME NEW p, NEW s, NEW a, D!AskDomain(p, s, a) \/ D!SweepReads(s, a) \/ D!Prune(a)
         PROVE  UNCHANGED <<v2, v4, v5>>
    BY <1>11 DEF D!AskDomain, D!SweepReads, D!Prune
  <1>12. ASSUME NEW c, D!SweepPendingClaim(c) \/ D!SweepVerifiedClaim(c) PROVE UNCHANGED <<v2, v4, v5>>
    BY <1>12 DEF D!SweepPendingClaim, D!SweepVerifiedClaim, D!SweepGoes, D!SweepSkips
  <1>13. ASSUME D!DetachLink \/ D!FindDangling \/ D!CrashAll \/ (\E h, o : D!ZoneChanges(h, o))
         PROVE  UNCHANGED <<v2, v4, v5>>
    BY <1>13 DEF D!DetachLink, D!FindDangling, D!CrashAll, D!ZoneChanges
  <1> QED
    BY <1>1, <1>2, <1>3, <1>4, <1>5, <1>6, <1>7, <1>8, <1>9, <1>10, <1>11, <1>12, <1>13
       DEF D!DomainsNext, D!dvars

\* What is at work on an address, spelled out.
LEMMA AtWorkIs ==
    ASSUME NEW a, NEW p
    PROVE  p \in D!AtWork(a) <=>
              \/ p \in D!Actors /\ v7[p] # D!Free /\ v7[p].addr = a
              \/ p = DomainSweep /\ \E c \in v8 : c.addr = a
  BY DEF D!AtWork

LEMMA AtWorkIsNext ==
    ASSUME NEW a, NEW p
    PROVE  p \in D!AtWork(a)' <=>
              \/ p \in D!Actors /\ v7'[p] # D!Free /\ v7'[p].addr = a
              \/ p = DomainSweep /\ \E c \in v8' : c.addr = a
  BY DEF D!AtWork

\* What a task expects of its address, also when it is the next task of somebody.
LEMMA FitsNext ==
    ASSUME NEW t, NEW q, v7'[q] = t
    PROVE  D!Fits(v7[q])' <=> D!Fits(t)'
  BY DEF D!Fits, D!Agrees, D!Vacant, D!Unlisted

LEMMA FitsStays ==
    ASSUME NEW t, v1'[t.addr] = v1[t.addr], \A s \in Some : t.addr \in v4'[s] <=> t.addr \in v4[s],
           t.site \in Some, D!Fits(t)
    PROVE  D!Fits(t)'
  BY DEF D!Fits, D!Agrees, D!Vacant, D!Unlisted

\* Nobody but who is at work on an address does anything to it: what one step
\* of a task leaves behind is all there is to look at.
LEMMA OwnStepKeepsIndex ==
    ASSUME D!DomainsTyped, D!IndexInv, NEW p \in D!Actors, v7[p] # D!Free,
           NEW a, a = v7[p].addr,
           UNCHANGED <<v2, v8, v9, v11>>,
           \A b \in DomainAddresses \ {a} :
               v1'[b] = v1[b] /\ \A s \in Some : b \in v4'[s] <=> b \in v4[s],
           D!GoneUnlisted',
           a \notin v11 =>
               \/ D!Done(p) /\ D!Agrees(a)'
               \/ \E r : Onward(p, r) /\ D!Fits(r)',
           D!Done(p) \/ \E r : Onward(p, r)
    PROVE  D!IndexInv'
  <1>0. a \in DomainAddresses /\ v7[p] \in D!Tasks
    BY TaskFields
  <1>1. \A q \in D!Actors \ {p} : v7'[q] = v7[q]
    BY DEF D!Done, Onward, D!DomainsTyped
  <1>2. \A b, q : q \in D!AtWork(b)' => q \in D!AtWork(b)
    <2>1. v7'[p] # D!Free => v7'[p].addr = a
      BY DEF D!Done, Onward, D!DomainsTyped
    <2> QED
      BY <1>1, <2>1, AtWorkIs, AtWorkIsNext
  <1>3. D!WorkersAlone' /\ D!PrunesTangled'
    BY <1>2 DEF D!IndexInv, D!WorkersAlone, D!PrunesTangled
  <1>4. D!SweepAlone'
    <2>1. DomainSweep \in D!Actors
      BY DEF D!Actors
    <2> QED
      BY <1>1, <2>1 DEF D!IndexInv, D!SweepAlone
  <1>5. \A b \in DomainAddresses \ {a} : /\ D!Agrees(b) => D!Agrees(b)'
                                        /\ D!Unlisted(b) => D!Unlisted(b)'
    BY DEF D!Agrees, D!Unlisted
  <1>6. ASSUME a \notin v11, NEW q \in D!Actors \ {p}, v7[q] # D!Free PROVE v7[q].addr # a
    BY <1>0, <1>6, AtWorkIs DEF D!IndexInv, D!WorkersAlone
  <1>7. D!TasksFit'
    <2> SUFFICES ASSUME NEW q \in D!Actors, v7'[q] # D!Free, v7'[q].addr \notin v11
                 PROVE  D!Fits(v7[q])'
      BY DEF D!TasksFit
    <2>1. CASE q = p
      <3>1. PICK r : Onward(p, r) /\ D!Fits(r)'
        BY <2>1 DEF Onward, D!Done, D!DomainsTyped
      <3>2. v7'[q] = r
        BY <2>1, <3>1 DEF Onward, D!DomainsTyped
      <3> QED
        BY <3>1, <3>2, FitsNext
    <2>2. CASE q # p
      <3>1. v7'[q] = v7[q] /\ v7[q].addr # a
        BY <1>1, <1>6, <2>2
      <3>2. PICK t : t = v7[q]
        OBVIOUS
      <3>3. t.addr \in DomainAddresses \ {a} /\ t.site \in Some
        BY <3>1, <3>2, TaskFields
      <3>4. D!Fits(v7[q])
        BY <3>1 DEF D!IndexInv, D!TasksFit
      <3>5. D!Fits(t)
        BY <3>2, <3>4
      <3>6. D!Fits(t)'
        BY <3>3, <3>5, FitsStays
      <3> QED
        BY <3>1, <3>2, <3>6, FitsNext
    <2> QED
      BY <2>1, <2>2
  <1>8. D!TodoFits'
    <2> SUFFICES ASSUME NEW c \in v8, c.addr \notin v11
                 PROVE  D!Agrees(c.addr)' /\ (D!Verified(c.was) <=> c.addr \in v4'[c.site])
      BY DEF D!TodoFits
    <2>1. c.addr \in DomainAddresses /\ c.site \in Some
      BY DEF D!DomainsTyped
    <2>2. c.addr # a
      <3>1. v7[DomainSweep] = D!Free /\ DomainSweep \in D!AtWork(c.addr) /\ p \in D!AtWork(a)
        BY AtWorkIs DEF D!IndexInv, D!SweepAlone
      <3> QED
        BY <2>1, <3>1 DEF D!IndexInv, D!WorkersAlone
    <2>3. D!Agrees(c.addr) /\ (D!Verified(c.was) <=> c.addr \in v4[c.site])
      BY DEF D!IndexInv, D!TodoFits
    <2>4. D!Agrees(c.addr)'
      BY <2>1, <2>2, <2>3 DEF D!Agrees
    <2> QED
      BY <2>1, <2>2, <2>3, <2>4
  <1>9. D!RestAgrees'
    <2> SUFFICES ASSUME NEW b \in DomainAddresses \ v11, D!AtWork(b)' = {} PROVE D!Agrees(b)'
      BY DEF D!RestAgrees
    <2>1. CASE b = a
      <3>1. D!Agrees(a)' \/ \E r : Onward(p, r)
        BY <2>1
      <3>2. (\E r : Onward(p, r)) => p \in D!AtWork(a)'
        <4>1. ASSUME NEW r, Onward(p, r) PROVE v7'[p] # D!Free /\ v7'[p].addr = a
          BY <4>1 DEF Onward, D!Tasks, D!Steps, D!Free, D!DomainsTyped
        <4> QED
          BY <4>1, AtWorkIsNext
      <3>3. p \notin D!AtWork(a)'
        BY <2>1 DEF D!AtWork
      <3>4. D!Agrees(a)'
        BY <3>1, <3>2, <3>3
      <3> QED
        BY <2>1, <3>4 DEF D!Agrees
    <2>2. CASE b # a
      <3>1. D!AtWork(b) = {}
        <4> SUFFICES ASSUME NEW q \in D!AtWork(b) PROVE FALSE
          OBVIOUS
        <4>1. q # p \/ (q = DomainSweep /\ \E c \in v8 : c.addr = b)
          BY <2>2, AtWorkIs
        <4> QED
          BY <1>1, <4>1, AtWorkIs, AtWorkIsNext
      <3>2. D!Agrees(b)
        BY <3>1 DEF D!IndexInv, D!RestAgrees
      <3> QED
        BY <2>2, <3>2 DEF D!Agrees
    <2> QED
      BY <2>1, <2>2
  <1> QED
    BY <1>3, <1>4, <1>7, <1>8, <1>9 DEF D!IndexInv

\* The owner's and the operator's acts take none at work on what they touch
\* for granted: such an address counts as torn.
LEMMA OthersKeepIndex ==
    ASSUME D!DomainsTyped, D!IndexInv, UNCHANGED <<v7, v8>>, v9' \subseteq v9, v11 \subseteq v11',
           D!GoneUnlisted',
           \A a \in DomainAddresses \ v11' :
               \/ D!AtWork(a) = {} /\ D!Agrees(a)'
               \/ v1'[a] = v1[a] /\ \A s \in Some : a \in v4'[s] <=> a \in v4[s]
    PROVE  D!IndexInv'
  <1>1. \A b : D!AtWork(b)' = D!AtWork(b)
    BY DEF D!AtWork
  <1>2. D!WorkersAlone' /\ D!PrunesTangled' /\ D!SweepAlone'
    BY <1>1 DEF D!IndexInv, D!WorkersAlone, D!PrunesTangled, D!SweepAlone
  <1>3. \A a \in DomainAddresses \ v11' : D!AtWork(a) # {} =>
            /\ v1'[a] = v1[a] /\ \A s \in Some : a \in v4'[s] <=> a \in v4[s]
    OBVIOUS
  <1>4. D!TasksFit'
    <2> SUFFICES ASSUME NEW q \in D!Actors, v7[q] # D!Free, v7[q].addr \notin v11'
                 PROVE  D!Fits(v7[q])'
      BY DEF D!TasksFit
    <2>1. v7[q].addr \in DomainAddresses /\ v7[q].site \in Some /\ q \in D!AtWork(v7[q].addr)
      BY TaskFields, AtWorkIs
    <2>2. D!Fits(v7[q])
      BY DEF D!IndexInv, D!TasksFit
    <2> QED
      BY <1>3, <2>1, <2>2 DEF D!Fits, D!Agrees, D!Vacant, D!Unlisted
  <1>5. D!TodoFits'
    <2> SUFFICES ASSUME NEW c \in v8, c.addr \notin v11'
                 PROVE  D!Agrees(c.addr)' /\ (D!Verified(c.was) <=> c.addr \in v4'[c.site])
      BY DEF D!TodoFits
    <2>1. c.addr \in DomainAddresses /\ c.site \in Some /\ DomainSweep \in D!AtWork(c.addr)
      BY AtWorkIs DEF D!DomainsTyped
    <2> QED
      BY <1>3, <2>1 DEF D!IndexInv, D!TodoFits, D!Agrees
  <1>6. D!RestAgrees'
    BY <1>1 DEF D!IndexInv, D!RestAgrees, D!Agrees
  <1> QED
    BY <1>2, <1>4, <1>5, <1>6 DEF D!IndexInv

\* An address that this site does not hold, and no other live one serves, is
\* nobody's.
LEMMA VacantWhen ==
    ASSUME D!DomainsTyped, D!GoneUnlisted, NEW a \in DomainAddresses, NEW s \in Some,
           D!Agrees(a), D!Serves(a) \in {s, None}, a \notin v4[s]
    PROVE  D!Vacant(a)
  BY DomainsConstants DEF D!DomainsTyped, D!GoneUnlisted, D!Agrees, D!Serves, D!Vacant, D!Unlisted

LEMMA AskKeepsIndex ==
    ASSUME D!DomainsTyped, D!IndexInv,
           NEW p \in DomainAskers, NEW s \in Some, NEW a \in DomainAddresses, D!AskDomain(p, s, a)
    PROVE  D!IndexInv'
  <1> USE DEF D!metaVars
  <1>1. UNCHANGED <<v1, v2, v4, v8, v9>> /\ v7[p] = D!Free /\ p \in D!Actors /\ s \in v2
        /\ v11' = v11 \cup (IF D!AtWork(a) # {} THEN {a} ELSE {})
    BY DEF D!AskDomain, D!Actors
  <1>2. PICK step \in {"ok", "claim"} :
           /\ v7' = [v7 EXCEPT ![p] = [step |-> step, site |-> s, addr |-> a, owner |-> v3[s], as |-> "own"]]
           /\ step = "claim" => D!Serves(a) \in {s, None} /\ ~(a \in v4[s] /\ D!Serves(a) = s)
    BY DEF D!AskDomain
  <1> DEFINE t == [step |-> step, site |-> s, addr |-> a, owner |-> v3[s], as |-> "own"]
  <1>3. v7'[p] = t /\ t # D!Free /\ \A q \in D!Actors \ {p} : v7'[q] = v7[q]
    BY <1>1, <1>2 DEF D!DomainsTyped, D!Free
  <1>4. \A b, q : q \in D!AtWork(b)' <=> q \in D!AtWork(b) \/ (q = p /\ b = a)
    BY <1>1, <1>3, AtWorkIs, AtWorkIsNext
  <1>5. a \notin v11' => D!AtWork(a) = {} /\ D!Agrees(a)
    BY <1>1 DEF D!IndexInv, D!RestAgrees
  <1>6. D!WorkersAlone'
    BY <1>1, <1>4, <1>5 DEF D!IndexInv, D!WorkersAlone
  <1>7. D!SweepAlone' /\ D!PrunesTangled' /\ D!GoneUnlisted'
    BY <1>1, <1>3, DomainsConstants DEF D!IndexInv, D!SweepAlone, D!PrunesTangled, D!GoneUnlisted, D!Actors
  <1>8. a \notin v11' => D!Fits(t)'
    <2> SUFFICES ASSUME a \notin v11' PROVE D!Fits(t)'
      OBVIOUS
    <2>1. D!Agrees(a) /\ (step = "claim" => D!Vacant(a))
      <3>1. CASE a \notin v4[s]
        BY <1>2, <1>5, <3>1, VacantWhen DEF D!IndexInv
      <3>2. CASE a \in v4[s]
        BY <1>1, <1>2, <1>5, <3>2 DEF D!Agrees, D!Serves
      <3> QED
        BY <3>1, <3>2
    <2> QED
      BY <1>1, <2>1 DEF D!Fits, D!Agrees, D!Vacant, D!Unlisted
  <1>9. D!TasksFit'
    <2> SUFFICES ASSUME NEW q \in D!Actors, v7'[q] # D!Free, v7'[q].addr \notin v11' PROVE D!Fits(v7[q])'
      BY DEF D!TasksFit
    <2>1. CASE q = p
      <3>1. v7'[q] = t
        BY <1>3, <2>1
      <3>2. PICK r : r = v7'[q]
        OBVIOUS
      <3>3. D!Fits(r)'
        BY <1>8, <2>1, <3>1, <3>2 DEF D!Fits, D!Agrees, D!Vacant, D!Unlisted
      <3> QED
        BY <3>2, <3>3, FitsNext
    <2>2. CASE q # p
      <3>1. v7'[q] = v7[q] /\ D!Fits(v7[q])
        BY <1>1, <1>3, <2>2 DEF D!IndexInv, D!TasksFit
      <3> QED
        BY <1>1, <3>1 DEF D!Fits, D!Agrees, D!Vacant, D!Unlisted
    <2> QED
      BY <2>1, <2>2
  <1>10. D!TodoFits'
    BY <1>1 DEF D!IndexInv, D!TodoFits, D!Agrees
  <1>11. D!RestAgrees'
    BY <1>1, <1>4 DEF D!IndexInv, D!RestAgrees, D!Agrees
  <1> QED
    BY <1>6, <1>7, <1>9, <1>10, <1>11 DEF D!IndexInv

LEMMA SweepReadKeepsIndex ==
    ASSUME D!DomainsTyped, D!ListedIsVerified, D!IndexInv,
           NEW s \in Some, NEW a \in DomainAddresses, D!SweepReads(s, a)
    PROVE  D!IndexInv'
  <1> DEFINE c == [site |-> s, addr |-> a, owner |-> v3[s], was |-> v5[s][a]]
  <1>1. UNCHANGED <<v1, v2, v4, v7, v9>> /\ v8 = {} /\ v8' = {c} /\ v7[DomainSweep] = D!Free /\ s \in v2
        /\ v11' = (IF D!AtWork(a) # {} THEN v11 \cup {a} ELSE v11)
    BY DEF D!SweepReads, D!metaVars
  <1>2. \A b, q : q \in D!AtWork(b)' <=> q \in D!AtWork(b) \/ (q = DomainSweep /\ b = a)
    BY <1>1, AtWorkIs, AtWorkIsNext
  <1>3. a \notin v11' => D!AtWork(a) = {} /\ D!Agrees(a)
    BY <1>1 DEF D!IndexInv, D!RestAgrees
  <1>4. D!WorkersAlone'
    BY <1>1, <1>2, <1>3 DEF D!IndexInv, D!WorkersAlone
  <1>5. D!SweepAlone' /\ D!PrunesTangled' /\ D!GoneUnlisted'
    BY <1>1 DEF D!IndexInv, D!SweepAlone, D!PrunesTangled, D!GoneUnlisted
  <1>6. D!TasksFit'
    BY <1>1 DEF D!IndexInv, D!TasksFit, D!Fits, D!Agrees, D!Vacant, D!Unlisted
  <1>7. D!TodoFits'
    <2>1. D!Verified(v5[s][a]) <=> a \in v4[s]
      BY <1>1 DEF D!ListedIsVerified
    <2> QED
      BY <1>1, <1>3, <2>1 DEF D!TodoFits, D!Agrees
  <1>8. D!RestAgrees'
    BY <1>1, <1>2 DEF D!IndexInv, D!RestAgrees, D!Agrees
  <1> QED
    BY <1>4, <1>5, <1>6, <1>7, <1>8 DEF D!IndexInv

\* The sweep comes to a claim it read, or leaves it.
LEMMA SweepKeepsIndex ==
    ASSUME D!DomainsTyped, D!IndexInv, NEW c \in v8,
           D!SweepPendingClaim(c) \/ D!SweepVerifiedClaim(c)
    PROVE  D!IndexInv'
  <1> DEFINE a == c.addr
  <1>0. c.site \in Some /\ a \in DomainAddresses /\ DomainSweep \in D!Actors
    BY DEF D!DomainsTyped, D!Actors
  <1>1. UNCHANGED <<v1, v2, v4, v9, v11>> /\ v8' = v8 \ {c} /\ v7[DomainSweep] = D!Free
    BY DEF D!SweepPendingClaim, D!SweepVerifiedClaim, D!SweepGoes, D!SweepSkips, D!metaVars
  <1>2. v8 = {c} /\ v8' = {}
    BY <1>1 DEF D!IndexInv, D!SweepAlone
  <1>3. a \notin v11 => D!Agrees(a) /\ (D!Verified(c.was) <=> a \in v4[c.site])
    BY DEF D!IndexInv, D!TodoFits
  <1>4. \/ UNCHANGED v7
        \/ \E t \in D!Tasks : v7' = [v7 EXCEPT ![DomainSweep] = t] /\ t.addr = a /\ (a \notin v11 => D!Fits(t))
    <2>1. \/ UNCHANGED v7
          \/ \E step \in D!Steps, as \in {"own", "host"} :
                /\ v7' = [v7 EXCEPT ![DomainSweep] = [step |-> step, site |-> c.site, addr |-> a, owner |-> c.owner, as |-> as]]
                /\ \/ step \in {"drop", "ok", "viaHost"}
                   \/ step = "host" /\ c.was = "pending" /\ D!Serves(a) \in {c.site, None}
                   \/ step = "unlink" /\ D!Verified(c.was)
      BY DEF D!SweepPendingClaim, D!SweepVerifiedClaim, D!SweepGoes, D!SweepSkips, D!Steps
    <2>2. ASSUME NEW step \in D!Steps, NEW as \in {"own", "host"},
                 \/ step \in {"drop", "ok", "viaHost"}
                 \/ step = "host" /\ c.was = "pending" /\ D!Serves(a) \in {c.site, None}
                 \/ step = "unlink" /\ D!Verified(c.was)
          PROVE  LET t == [step |-> step, site |-> c.site, addr |-> a, owner |-> c.owner, as |-> as]
                 IN  t \in D!Tasks /\ t.addr = a /\ (a \notin v11 => D!Fits(t))
      <3> DEFINE t == [step |-> step, site |-> c.site, addr |-> a, owner |-> c.owner, as |-> as]
      <3>1. t \in D!Tasks
        BY <1>0 DEF D!Tasks, D!DomainsTyped
      <3>2. a \notin v11 /\ step = "host" => D!Vacant(a)
        BY <1>0, <1>3, <2>2, VacantWhen DEF D!IndexInv, D!Verified
      <3>3. a \notin v11 => D!Fits(t)
        BY <1>3, <2>2, <3>2 DEF D!Fits
      <3> QED
        BY <3>1, <3>3
    <2> QED
      BY <2>1, <2>2
  <1>5. \A b, q : q \in D!AtWork(b)' => q \in D!AtWork(b)
    BY <1>0, <1>1, <1>2, <1>4, AtWorkIs, AtWorkIsNext DEF D!DomainsTyped
  <1>6. D!WorkersAlone'
    BY <1>1, <1>5 DEF D!IndexInv, D!WorkersAlone
  <1>7. D!SweepAlone' /\ D!PrunesTangled' /\ D!GoneUnlisted' /\ D!TodoFits'
    BY <1>1, <1>2 DEF D!IndexInv, D!SweepAlone, D!PrunesTangled, D!GoneUnlisted, D!TodoFits
  <1>8. D!TasksFit'
    <2> SUFFICES ASSUME NEW q \in D!Actors, v7'[q] # D!Free, v7'[q].addr \notin v11 PROVE D!Fits(v7[q])'
      BY <1>1 DEF D!TasksFit
    <2>1. D!Fits(v7'[q])
      BY <1>0, <1>1, <1>4 DEF D!IndexInv, D!TasksFit, D!DomainsTyped
    <2> QED
      BY <1>1, <2>1 DEF D!Fits, D!Agrees, D!Vacant, D!Unlisted
  <1>9. D!RestAgrees'
    <2> SUFFICES ASSUME NEW b \in DomainAddresses \ v11, D!AtWork(b)' = {} PROVE D!Agrees(b)
      BY <1>1 DEF D!RestAgrees, D!Agrees
    <2>1. CASE b = a
      BY <1>3, <2>1
    <2>2. CASE b # a
      <3>1. D!AtWork(b) = {}
        <4> SUFFICES ASSUME NEW q \in D!AtWork(b) PROVE FALSE
          OBVIOUS
        <4>1. q \in D!Actors /\ v7[q] # D!Free /\ v7[q].addr = b /\ q # DomainSweep
          BY <1>1, <1>2, <2>2, AtWorkIs
        <4>2. v7'[q] = v7[q]
          BY <1>4, <4>1 DEF D!DomainsTyped
        <4> QED
          BY <4>1, <4>2, AtWorkIsNext
      <3> QED
        BY <3>1 DEF D!IndexInv, D!RestAgrees
    <2> QED
      BY <2>1, <2>2
  <1> QED
    BY <1>6, <1>7, <1>8, <1>9 DEF D!IndexInv

LEMMA FindKeepsIndex ==
    ASSUME D!DomainsTyped, D!IndexInv, D!FindDangling PROVE D!IndexInv'
  <1>1. UNCHANGED <<v1, v2, v4, v7, v8>> /\ v11 \subseteq v11'
        /\ v9' = {a \in DomainAddresses : D!Dangling(a)}
        /\ v11' = v11 \cup {a \in v9' : D!AtWork(a) # {}}
    BY DEF D!FindDangling, D!metaVars
  <1>2. \A b : D!AtWork(b)' = D!AtWork(b)
    BY <1>1 DEF D!AtWork
  \* At rest an address points at no site that is gone.
  <1>3. D!PrunesTangled'
    <2>1. ASSUME NEW a \in DomainAddresses, D!Dangling(a), a \notin v11 PROVE D!AtWork(a) # {}
      BY <2>1 DEF D!IndexInv, D!RestAgrees, D!Agrees, D!GoneUnlisted, D!Dangling, D!DomainsTyped
    <2> QED
      BY <1>1, <2>1 DEF D!PrunesTangled
  <1>4. D!WorkersAlone' /\ D!SweepAlone' /\ D!GoneUnlisted'
    BY <1>1, <1>2 DEF D!IndexInv, D!WorkersAlone, D!SweepAlone, D!GoneUnlisted
  <1>5. D!TasksFit' /\ D!TodoFits' /\ D!RestAgrees'
    BY <1>1, <1>2 DEF D!IndexInv, D!TasksFit, D!TodoFits, D!RestAgrees, D!Fits, D!Agrees, D!Vacant, D!Unlisted
  <1> QED
    BY <1>3, <1>4, <1>5 DEF D!IndexInv

\* A crash between the link and the listing tears an address; at any other
\* step of a task the two agree.
LEMMA CrashKeepsIndex ==
    ASSUME D!DomainsTyped, D!IndexInv, D!CrashAll PROVE D!IndexInv'
  <1>1. UNCHANGED <<v1, v2, v4>> /\ v8' = {} /\ v9' = {} /\ v7' = [p \in D!Actors |-> D!Free]
        /\ v11' = v11 \cup {v7[p].addr : p \in {q \in D!Actors : v7[q].step \in {"write", "undo", "demote"}}}
    BY DEF D!CrashAll, D!metaVars
  <1>2. \A b : D!AtWork(b)' = {}
    BY <1>1 DEF D!AtWork
  <1>3. D!WorkersAlone' /\ D!SweepAlone' /\ D!PrunesTangled' /\ D!GoneUnlisted' /\ D!TasksFit' /\ D!TodoFits'
    BY <1>1, <1>2 DEF D!IndexInv, D!WorkersAlone, D!SweepAlone, D!PrunesTangled, D!GoneUnlisted,
                      D!TasksFit, D!TodoFits
  <1>4. D!RestAgrees'
    <2> SUFFICES ASSUME NEW a \in DomainAddresses, a \notin v11' PROVE D!Agrees(a)
      BY <1>1 DEF D!RestAgrees, D!Agrees
    <2>1. CASE D!AtWork(a) = {}
      BY <1>1, <2>1 DEF D!IndexInv, D!RestAgrees
    <2>2. CASE \E c \in v8 : c.addr = a
      BY <1>1, <2>2 DEF D!IndexInv, D!TodoFits
    <2>3. ASSUME NEW q \in D!Actors, v7[q] # D!Free, v7[q].addr = a PROVE D!Agrees(a)
      <3>1. v7[q].step \notin {"write", "undo", "demote"} /\ a \notin v11
        BY <1>1, <2>3
      <3>2. D!Fits(v7[q]) /\ v7[q].step \in D!Steps
        BY <2>3, <3>1, TaskFields DEF D!IndexInv, D!TasksFit
      <3> QED
        BY <2>3, <3>1, <3>2, DomainsConstants DEF D!Fits, D!Agrees, D!Vacant, D!Unlisted
    <2> QED
      BY <2>1, <2>2, <2>3, AtWorkIs
  <1> QED
    BY <1>3, <1>4 DEF D!IndexInv

\* One step of a task leaves its address as the next one expects it, or as
\* the index and meta.json agree about it.
LEMMA OwnStepFits ==
    ASSUME D!DomainsTyped, D!IndexInv, NEW p \in D!Actors, NEW a, a = v7[p].addr, a \notin v11,
           \/ p \in DomainAskers /\ D!RecordClaim(p)
           \/ D!Attach(p) \/ D!Stamp(p)
           \/ p = DomainSweep /\ (D!DropClaim \/ D!DetachLink \/ D!DetachMeta)
    PROVE  \/ D!Done(p) /\ D!Agrees(a)'
           \/ \E r : Onward(p, r) /\ D!Fits(r)'
  <1> DEFINE s == v7[p].site
  <1>0. v7[p] # D!Free /\ (D!Done(p) \/ \E r : Onward(p, r))
    BY OwnSteps
  <1>1. D!Fits(v7[p]) /\ s \in Some /\ a \in DomainAddresses /\ v7[p].step \in D!Steps
    BY <1>0, TaskFields DEF D!IndexInv, D!TasksFit
  <1> USE DomainsConstants DEF D!metaVars
  <1>2. CASE p \in DomainAskers /\ D!RecordClaim(p)
    <2>1. D!Vacant(a) /\ UNCHANGED <<v1, v4>>
      BY ZenonT(30), <1>1, <1>2 DEF D!RecordClaim, D!Does, D!Fits
    <2>2. D!Done(p) \/ \E r : Onward(p, r) /\ r.step = "host"
      <3> DEFINE r(as) == [v7[p] EXCEPT !.step = "host", !.as = as, !.owner = v3[s]]
      <3>1. D!Done(p) \/ v7' = [v7 EXCEPT ![p] = r("own")] \/ v7' = [v7 EXCEPT ![p] = r("host")]
        BY <1>2 DEF D!RecordClaim, D!Verified
      <3>2. \A as \in {"own", "host"} :
               r(as) \in D!Tasks /\ r(as).site = s /\ r(as).addr = v7[p].addr /\ r(as).step = "host"
        BY <1>0, <1>1, TaskFields DEF D!Tasks, D!Steps, D!DomainsTyped
      <3> QED
        BY <3>1, <3>2 DEF Onward
    <2> QED
      BY <1>1, <2>1, <2>2 DEF D!Fits, D!Agrees, D!Vacant, D!Unlisted, Onward
  <1>3. CASE D!StartAttach(p)
    <2>1. D!Vacant(a) /\ UNCHANGED <<v1, v4>>
      BY <1>1, <1>3 DEF D!StartAttach, D!Does, D!Fits
    <2>2. D!Done(p) \/ D!Next_(p, "drop") \/ D!Next_(p, "make")
      BY <1>1, <1>3, <2>1 DEF D!StartAttach, D!Taken, D!LookAtLink, D!Vacant, D!Dangling
    <2>3. D!Done(p) \/ \E r : Onward(p, r) /\ r.step \in {"drop", "make"}
      BY <1>0, <2>2, NextIsOnward DEF D!Steps
    <2> QED
      BY <1>1, <2>1, <2>3 DEF D!Fits, D!Agrees, D!Vacant, D!Unlisted, Onward
  <1>4. CASE D!ClearLink(p)
    <2>1. D!Vacant(a) /\ UNCHANGED v4 /\ v1' = [v1 EXCEPT ![a] = None]
      BY <1>1, <1>4 DEF D!ClearLink, D!Does, D!Fits
    <2>2. \E r : Onward(p, r) /\ r.step = "make"
      BY <1>0, <1>4, NextIsOnward DEF D!ClearLink, D!Steps
    <2> QED
      BY <1>1, <2>1, <2>2 DEF D!Fits, D!Vacant, D!Unlisted, Onward, D!DomainsTyped
  <1>5. CASE D!MakeLink(p)
    <2>1. D!Vacant(a)
      BY <1>1, <1>5 DEF D!MakeLink, D!Does, D!Fits
    <2>2. UNCHANGED v4 /\ v1' = [v1 EXCEPT ![a] = s] /\ D!Next_(p, "write")
      BY <1>5, <2>1 DEF D!MakeLink, D!Vacant
    <2>3. \E r : Onward(p, r) /\ r.step = "write"
      BY <1>0, <2>2, NextIsOnward DEF D!Steps
    <2> QED
      BY <1>1, <2>1, <2>2, <2>3 DEF D!Fits, D!Vacant, D!Unlisted, Onward, D!DomainsTyped
  <1>6. CASE D!WriteAttached(p)
    <2>1. v1[a] = s /\ D!Unlisted(a) /\ UNCHANGED v1
      BY <1>1, <1>6 DEF D!WriteAttached, D!Does, D!Fits
    <2>2. D!Done(p) /\ v4' = [v4 EXCEPT ![s] = @ \cup {a}]
      BY <1>6 DEF D!WriteAttached, D!SetMeta
    <2> QED
      BY <1>1, <2>1, <2>2 DEF D!Agrees, D!Unlisted, D!DomainsTyped
  <1>7. CASE D!WriteFails(p)
    <2>1. v1[a] = s /\ D!Unlisted(a) /\ UNCHANGED <<v1, v4>>
      BY <1>1, <1>7 DEF D!WriteFails, D!Does, D!Fits
    <2>2. \E r : Onward(p, r) /\ r.step = "undo"
      BY <1>0, <1>7, NextIsOnward DEF D!WriteFails, D!Steps
    <2> QED
      BY <1>1, <2>1, <2>2 DEF D!Fits, D!Unlisted, Onward
  <1>8. CASE D!UndoLink(p)
    <2>1. D!Unlisted(a) /\ UNCHANGED v4 /\ v1' = [v1 EXCEPT ![a] = None] /\ D!Done(p)
      BY <1>1, <1>8 DEF D!UndoLink, D!Does, D!Fits
    <2> QED
      BY <1>1, <2>1 DEF D!Agrees, D!Unlisted, D!DomainsTyped
  <1>9. CASE D!Stamp(p)
    BY <1>1, <1>9 DEF D!Stamp, D!Fits, D!Agrees
  <1>10. CASE p = DomainSweep /\ D!DropClaim
    BY <1>1, <1>10 DEF D!DropClaim, D!Does, D!Fits, D!Agrees
  <1>11. CASE p = DomainSweep /\ D!DetachLink
    <2>1. D!Agrees(a) /\ a \in v4[s] /\ UNCHANGED v4 /\ v1' = [v1 EXCEPT ![a] = None]
      BY <1>1, <1>11 DEF D!DetachLink, D!Does, D!Fits
    <2>2. \E r : Onward(p, r) /\ r.step = "demote"
      BY <1>0, <1>11, NextIsOnward DEF D!DetachLink, D!Steps
    <2>3. v1'[a] = None /\ \A x \in Some : a \in v4'[x] <=> x = s
      BY <1>1, <2>1 DEF D!Agrees, D!DomainsTyped
    <2> QED
      BY <2>2, <2>3 DEF D!Fits, Onward
  <1>12. CASE p = DomainSweep /\ D!DetachMeta
    <2>1. /\ v1[a] = None /\ UNCHANGED v1 /\ D!Done(p)
          /\ \A x \in Some : a \in v4[x] <=> x = s
      BY <1>1, <1>12 DEF D!DetachMeta, D!Does, D!Fits
    <2>2. s \in v2
      BY <1>1, <2>1 DEF D!IndexInv, D!GoneUnlisted
    <2>3. v4' = [v4 EXCEPT ![s] = @ \ {a}]
      BY <1>12, <2>2 DEF D!DetachMeta, D!SetMeta
    <2> QED
      BY <1>1, <2>1, <2>3 DEF D!Agrees, D!DomainsTyped
  <1> QED
    BY <1>2, <1>3, <1>4, <1>5, <1>6, <1>7, <1>8, <1>9, <1>10, <1>11, <1>12 DEF D!Attach

LEMMA IndexStep ==
    ASSUME D!DomainsTyped, D!ListedIsVerified, D!IndexInv, [D!DomainsNext]_(D!dvars)
    PROVE  D!IndexInv'
  <1> USE DEF D!metaVars
  <1>1. CASE UNCHANGED D!dvars
    BY <1>1 DEF D!dvars, D!IndexInv, D!WorkersAlone, D!AtWork, D!SweepAlone, D!PrunesTangled, D!GoneUnlisted,
                D!TasksFit, D!TodoFits, D!RestAgrees, D!Fits, D!Agrees, D!Vacant, D!Unlisted
  <1>2. ASSUME NEW p \in D!Actors,
               \/ p \in DomainAskers /\ D!RecordClaim(p)
               \/ D!Attach(p) \/ D!Stamp(p)
               \/ p = DomainSweep /\ (D!DropClaim \/ D!DetachLink \/ D!DetachMeta)
        PROVE  D!IndexInv'
    <2>1. v7[p] # D!Free /\ (D!Done(p) \/ \E r : Onward(p, r))
      BY <1>2, OwnSteps
    <2>2. v7[p].site \in Some /\ v7[p].addr \in DomainAddresses
      BY SMTT(30), <2>1, TaskFields
    <2>3. UNCHANGED <<v2, v8, v9, v11>>
      BY ZenonT(30), <1>2 DEF D!RecordClaim, D!Attach, D!StartAttach, D!ClearLink, D!MakeLink, D!WriteAttached,
                  D!WriteFails, D!UndoLink, D!Stamp, D!DropClaim, D!DetachLink, D!DetachMeta, D!SetMeta
    <2>4. \/ UNCHANGED v1
          \/ v1' = [v1 EXCEPT ![v7[p].addr] = None]
          \/ v1' = [v1 EXCEPT ![v7[p].addr] = v7[p].site]
      BY ZenonT(30), <1>2 DEF D!RecordClaim, D!Attach, D!StartAttach, D!ClearLink, D!MakeLink, D!WriteAttached,
                  D!WriteFails, D!UndoLink, D!Stamp, D!DropClaim, D!DetachLink, D!DetachMeta, D!SetMeta
    <2>5. \/ UNCHANGED v4
          \/ v7[p].site \in v2 /\ v4' = [v4 EXCEPT ![v7[p].site] = @ \cup {v7[p].addr}]
          \/ v7[p].site \in v2 /\ v4' = [v4 EXCEPT ![v7[p].site] = @ \ {v7[p].addr}]
      BY <1>2 DEF D!RecordClaim, D!Attach, D!StartAttach, D!ClearLink, D!MakeLink, D!WriteAttached,
                  D!WriteFails, D!UndoLink, D!Stamp, D!DropClaim, D!DetachLink, D!DetachMeta, D!SetMeta
    <2>6. \A b \in DomainAddresses \ {v7[p].addr} :
             v1'[b] = v1[b] /\ \A s \in Some : b \in v4'[s] <=> b \in v4[s]
      BY <2>2, <2>4, <2>5 DEF D!DomainsTyped
    <2>7. D!GoneUnlisted'
      BY <2>2, <2>3, <2>5 DEF D!IndexInv, D!GoneUnlisted, D!DomainsTyped
    <2> QED
      <3>1. PICK a : a = v7[p].addr
        OBVIOUS
      <3>2. a \notin v11 =>
               \/ D!Done(p) /\ D!Agrees(a)'
               \/ \E r : Onward(p, r) /\ D!Fits(r)'
        BY <1>2, <3>1, OwnStepFits
      <3>3. \A b \in DomainAddresses \ {a} :
               v1'[b] = v1[b] /\ \A s \in Some : b \in v4'[s] <=> b \in v4[s]
        BY <2>6, <3>1
      <3> QED
        BY <2>1, <2>3, <2>7, <3>1, <3>2, <3>3, OwnStepKeepsIndex
  <1>3. ASSUME NEW s \in Some, NEW a \in DomainAddresses, D!RemoveDomain(s, a) PROVE D!IndexInv'
    <2>1. /\ UNCHANGED <<v2, v7, v8, v9>> /\ s \in v2
          /\ v1' = D!Unlinked(s, {a}) /\ v4' = [v4 EXCEPT ![s] = @ \ {a}]
          /\ v11' = v11 \cup {b \in {a} : D!AtWork(b) # {}}
      BY <1>3 DEF D!RemoveDomain, D!SetMeta, D!Tangle
    <2>2. D!GoneUnlisted'
      BY <2>1 DEF D!IndexInv, D!GoneUnlisted, D!DomainsTyped
    <2>3. ASSUME a \notin v11' PROVE D!AtWork(a) = {} /\ D!Agrees(a)'
      <3>1. D!AtWork(a) = {} /\ D!Agrees(a)
        BY <2>1, <2>3 DEF D!IndexInv, D!RestAgrees
      <3> QED
        <4>1. \A x \in Some : a \in v4'[x] <=> a \in v4[x] /\ x # s
          BY <2>1 DEF D!DomainsTyped
        <4>2. v1'[a] = (IF v1[a] \in v2 \ {s} THEN v1[a] ELSE None)
          BY <2>1, DomainsConstants DEF D!Unlinked, D!Serves, D!DomainsTyped
        <4>3. \A x \in Some : a \in v4[x] => x \in v2
          BY DEF D!IndexInv, D!GoneUnlisted
        <4> QED
          BY <3>1, <4>1, <4>2, <4>3, DomainsConstants DEF D!Agrees, D!DomainsTyped
    <2>4. \A b \in DomainAddresses \ {a} : v1'[b] = v1[b] /\ \A t \in Some : b \in v4'[t] <=> b \in v4[t]
      BY <2>1 DEF D!Unlinked, D!DomainsTyped
    <2> QED
      BY <2>1, <2>2, <2>3, <2>4, OthersKeepIndex
  <1>4. ASSUME NEW s \in Some, D!DeleteSite(s) PROVE D!IndexInv'
    <2>1. /\ UNCHANGED <<v7, v8, v9>> /\ v2' = v2 \ {s}
          /\ v1' = [a \in DomainAddresses |-> IF a \in v4[s] THEN None ELSE v1[a]]
          /\ v4' = [v4 EXCEPT ![s] = {}]
          /\ v11' = v11 \cup {b \in v4[s] : D!AtWork(b) # {}}
      BY <1>4 DEF D!DeleteSite, D!Tangle
    <2>2. D!GoneUnlisted'
      BY <2>1 DEF D!IndexInv, D!GoneUnlisted, D!DomainsTyped
    <2>3. ASSUME NEW a \in v4[s], a \notin v11' PROVE D!AtWork(a) = {} /\ D!Agrees(a)'
      <3>1. D!AtWork(a) = {} /\ D!Agrees(a)
        BY <2>1, <2>3 DEF D!IndexInv, D!RestAgrees, D!DomainsTyped
      <3> QED
        BY <2>1, <2>3, <3>1, DomainsConstants DEF D!Agrees, D!DomainsTyped
    <2>4. \A b \in DomainAddresses \ v4[s] : v1'[b] = v1[b] /\ \A t \in Some : b \in v4'[t] <=> b \in v4[t]
      BY <2>1 DEF D!DomainsTyped
    <2> QED
      BY <2>1, <2>2, <2>3, <2>4, OthersKeepIndex
  <1>5. ASSUME NEW s \in Some, NEW o \in Others, D!Transfer(s, o) PROVE D!IndexInv'
    <2>1. /\ UNCHANGED <<v2, v7, v8, v9>> /\ s \in v2
          /\ v1' = D!Unlinked(s, D!Bound(s)) /\ v4' = [v4 EXCEPT ![s] = v4[s] \ D!Bound(s)]
          /\ v11' = v11 \cup {b \in D!Bound(s) : D!AtWork(b) # {}}
      BY <1>5 DEF D!Transfer, D!Tangle
    <2>2. D!GoneUnlisted' /\ D!Bound(s) \subseteq v4[s]
      BY <2>1 DEF D!IndexInv, D!GoneUnlisted, D!DomainsTyped, D!Bound
    <2>3. ASSUME NEW a \in D!Bound(s), a \notin v11' PROVE D!AtWork(a) = {} /\ D!Agrees(a)'
      <3>1. D!AtWork(a) = {} /\ D!Agrees(a) /\ a \in v4[s] /\ a \in DomainAddresses
        BY <2>1, <2>2, <2>3 DEF D!IndexInv, D!RestAgrees, D!DomainsTyped
      <3>2. v1[a] = s /\ v1'[a] = None
        BY <2>1, <3>1 DEF D!Agrees, D!Unlinked, D!Serves
      <3> QED
        BY <2>1, <3>1, <3>2, DomainsConstants DEF D!Agrees, D!DomainsTyped
    <2>4. \A b \in DomainAddresses \ D!Bound(s) : v1'[b] = v1[b] /\ \A t \in Some : b \in v4'[t] <=> b \in v4[t]
      BY <2>1 DEF D!DomainsTyped, D!Unlinked
    <2> QED
      BY <2>1, <2>2, <2>3, <2>4, OthersKeepIndex
  <1>6. ASSUME NEW a \in v9, D!Prune(a) PROVE D!IndexInv'
    <2>1. /\ UNCHANGED <<v2, v4, v7, v8, v11>> /\ v9' \subseteq v9 /\ a \in v11
          /\ v1' = [v1 EXCEPT ![a] = None]
      BY <1>6 DEF D!Prune, D!IndexInv, D!PrunesTangled
    <2>2. D!GoneUnlisted' /\ \A b \in DomainAddresses \ v11' : v1'[b] = v1[b]
      BY <2>1 DEF D!IndexInv, D!GoneUnlisted, D!DomainsTyped
    <2> QED
      BY <2>1, <2>2, OthersKeepIndex
  <1>7. ASSUME NEW h, NEW o, D!ZoneChanges(h, o) PROVE D!IndexInv'
    <2>1. UNCHANGED <<v1, v2, v4, v7, v8, v9, v11>>
      BY <1>7 DEF D!ZoneChanges
    <2> QED
      BY <2>1, OthersKeepIndex DEF D!IndexInv, D!GoneUnlisted
  <1> QED
    BY <1>1, <1>2, <1>3, <1>4, <1>5, <1>6, <1>7, AskKeepsIndex, SweepReadKeepsIndex, SweepKeepsIndex,
       FindKeepsIndex, CrashKeepsIndex
       DEF D!DomainsNext, D!Actors

\* Where nobody is handed on, nothing is newly attached and nobody newly looks,
\* owners stay as they are known.
LEMMA OwnersStay ==
    ASSUME D!DomainsTyped, D!OwnersInv, UNCHANGED v3, v12 \subseteq v12', v2' \subseteq v2,
           \A a \in DomainAddresses : v1'[a] \in {v1[a], None},
           \A p \in D!Actors :
               \/ v7'[p] = v7[p]
               \/ v7'[p] = D!Free
               \/ v7'[p].step \notin {"clear", "make"} /\ D!KnowsOwner(v7[p])'
               \/ /\ v7'[p].step \in {"clear", "make"} /\ v7[p].step \in {"clear", "make"}
                  /\ v7'[p].addr = v7[p].addr /\ v7'[p].site = v7[p].site /\ v7'[p].owner = v7[p].owner,
           \A c \in v8' : c \in v8 \/ D!KnowsOwner(c)'
    PROVE  D!OwnersInv'
  <1>1. \A t : D!KnowsOwner(t) => D!KnowsOwner(t)'
    BY DEF D!KnowsOwner
  <1>2. \A p \in D!Attaching' : /\ p \in D!Attaching
                                /\ v7'[p].addr = v7[p].addr /\ v7'[p].site = v7[p].site
    BY DEF D!Attaching, D!Free
  <1>3. D!OwnersKnown'
    <2>1. ASSUME NEW p \in D!Actors, v7'[p] # D!Free PROVE D!KnowsOwner(v7[p])'
      <3>1. CASE v7'[p] = v7[p]
        BY <1>1, <2>1, <3>1 DEF D!OwnersInv, D!OwnersKnown
      <3>2. CASE /\ v7'[p].step \in {"clear", "make"} /\ v7[p].step \in {"clear", "make"}
                 /\ v7'[p].addr = v7[p].addr /\ v7'[p].site = v7[p].site /\ v7'[p].owner = v7[p].owner
        <4>1. v7[p] # D!Free
          BY <3>2, StepsAreTasks DEF D!Steps
        <4>2. D!KnowsOwner(v7[p])
          BY <4>1 DEF D!OwnersInv, D!OwnersKnown
        <4> QED
          BY <3>2, <4>2 DEF D!KnowsOwner
      <3> QED
        BY <2>1, <3>1, <3>2
    <2>2. ASSUME NEW c \in v8' PROVE D!KnowsOwner(c)'
      BY <1>1, <2>2 DEF D!OwnersInv, D!OwnersKnown
    <2> QED
      BY <2>1, <2>2 DEF D!OwnersKnown
  <1>4. \A a \in DomainAddresses : v1'[a] \in v2' => v1'[a] = v1[a] /\ v1[a] \in v2
    BY DomainsConstants DEF D!DomainsTyped
  <1>5. D!AttachedOwn'
    BY <1>2, <1>4 DEF D!OwnersInv, D!AttachedOwn
  <1>6. D!AttachersOwn'
    BY <1>2 DEF D!OwnersInv, D!AttachersOwn
  <1>7. D!OneOwnerPerHost'
    BY <1>4, DomainsConstants DEF D!OwnersInv, D!OneOwnerPerHost, D!Serves
  <1> QED
    BY <1>3, <1>5, <1>6, <1>7 DEF D!OwnersInv

\* Who begins to attach has looked at all that is attached, and is a race to
\* those who have looked before.
LEMMA StartKeepsOwners ==
    ASSUME D!DomainsTyped, D!OwnersInv, NEW p \in D!Actors, D!StartAttach(p)
    PROVE  D!OwnersInv'
  <1> DEFINE a == v7[p].addr
             s == v7[p].site
  <1>0. v7[p] # D!Free /\ a \in DomainAddresses /\ s \in Some /\ D!KnowsOwner(v7[p])
    BY StepsAreTasks, TaskFields DEF D!StartAttach, D!Does, D!Steps, D!OwnersInv, D!OwnersKnown
  <1>1. UNCHANGED <<v1, v2, v3, v8>> /\ v12 \subseteq v12'
    BY DEF D!StartAttach, D!NoteRace, D!metaVars
  <1>2. CASE D!Done(p) \/ \E step \in {"drop", "write"} : D!Next_(p, step)
    <2>1. D!Done(p) \/ \E r : Onward(p, r) /\ r.step \in {"drop", "write"} /\ r.owner = v7[p].owner
      BY <1>0, <1>2, NextIsOnward DEF D!Steps
    <2>2. \A q \in D!Actors :
             \/ v7'[q] = v7[q]
             \/ v7'[q] = D!Free
             \/ v7'[q].step \notin {"clear", "make"} /\ D!KnowsOwner(v7[q])'
      BY <1>0, <1>1, <2>1 DEF D!Done, Onward, D!KnowsOwner, D!DomainsTyped
    <2> QED
      BY <1>1, <2>2, OwnersStay
  <1>3. CASE \E step \in {"clear", "make"} : D!Next_(p, step)
    <2>1. PICK r : Onward(p, r) /\ r.step \in {"clear", "make"} /\ r.owner = v7[p].owner
      BY <1>0, <1>3, NextIsOnward DEF D!Steps
    <2>2. /\ v7'[p] = r /\ r.addr = a /\ r.site = s
          /\ \A q \in D!Actors \ {p} : v7'[q] = v7[q]
      BY <2>1 DEF Onward, D!DomainsTyped
    <2>3. /\ ~D!HostForeign(s, v7[p].owner, DomainHost[a])
          /\ D!Racing(p) # {} => DomainHost[a] \in v12'
      <3>1. ~(D!Taken(p))
        <4>1. v7'[p].step \in {"clear", "make"}
          BY <2>1, <2>2
        <4>2. D!Done(p) => v7'[p].step = "idle"
          BY DEF D!Done, D!Free, D!DomainsTyped
        <4>3. D!Next_(p, "drop") => \E x : Onward(p, x) /\ x.step = "drop"
          BY <1>0, NextIsOnward DEF D!Steps
        <4>4. D!Next_(p, "drop") => v7'[p].step = "drop"
          BY <4>3 DEF Onward, D!DomainsTyped
        <4> QED
          BY <4>1, <4>2, <4>4 DEF D!Taken
      <3> QED
        BY <3>1 DEF D!StartAttach, D!NoteRace
    <2>4. D!OwnersKnown'
      <3>1. \A t : D!KnowsOwner(t) => D!KnowsOwner(t)'
        BY <1>1 DEF D!KnowsOwner
      <3>2. D!KnowsOwner(r)'
        BY <1>0, <1>1, <2>1, <2>2 DEF D!KnowsOwner
      <3> QED
        BY <1>1, <2>2, <3>1, <3>2 DEF D!OwnersInv, D!OwnersKnown
    <2>5. \A q \in D!Attaching' \ {p} : q \in D!Attaching /\ v7'[q] = v7[q]
      BY <2>2 DEF D!Attaching
    <2>6. D!AttachedOwn'
      <3> SUFFICES ASSUME NEW q \in D!Attaching', NEW b \in DomainAddresses,
                          DomainHost[b] = DomainHost[v7'[q].addr], DomainHost[b] \notin v12', v1[b] \in v2
                   PROVE  v3[v1[b]] = v3[v7'[q].site]
        BY <1>1 DEF D!AttachedOwn
      <3>1. CASE q # p
        BY <1>1, <2>5, <3>1 DEF D!OwnersInv, D!AttachedOwn
      <3>2. CASE q = p
        <4>1. b \in D!OnHost(DomainHost[a])
          BY <2>2, <3>2, DomainsConstants DEF D!OnHost, D!Serves, D!DomainsTyped
        <4>2. v7[p].owner = v3[s]
          BY <1>0, <1>1, <2>2, <3>2 DEF D!KnowsOwner
        <4> QED
          BY <2>2, <2>3, <3>2, <4>1, <4>2 DEF D!HostForeign
      <3> QED
        BY <3>1, <3>2
    <2>7. D!AttachersOwn'
      <3>1. ASSUME NEW q \in D!Attaching', q # p,
                   DomainHost[v7'[q].addr] = DomainHost[a], DomainHost[a] \notin v12'
            PROVE  v3[v7'[q].site] = v3[s]
        <4>1. q \notin D!Racing(p) /\ q \in D!Actors
          BY <2>3, <3>1 DEF D!Attaching
        <4> QED
          BY <2>5, <3>1, <4>1 DEF D!Racing, D!Attaching
      <3>2. ASSUME NEW q \in D!Attaching' \ {p}, NEW x \in D!Attaching' \ {p},
                   DomainHost[v7'[q].addr] = DomainHost[v7'[x].addr], DomainHost[v7'[q].addr] \notin v12'
            PROVE  v3[v7'[q].site] = v3[v7'[x].site]
        BY <1>1, <2>5, <3>2 DEF D!OwnersInv, D!AttachersOwn
      <3> QED
        BY <1>1, <2>2, <3>1, <3>2 DEF D!AttachersOwn
    <2>8. D!OneOwnerPerHost'
      BY <1>1 DEF D!OwnersInv, D!OneOwnerPerHost, D!Serves
    <2> QED
      BY <2>4, <2>6, <2>7, <2>8 DEF D!OwnersInv
  <1> QED
    BY <1>2, <1>3 DEF D!StartAttach, D!LookAtLink, D!Taken

LEMMA MakeKeepsOwners ==
    ASSUME D!DomainsTyped, D!OwnersInv, NEW p \in D!Actors, D!MakeLink(p)
    PROVE  D!OwnersInv'
  <1> DEFINE a == v7[p].addr
             s == v7[p].site
  <1>0. v7[p] # D!Free /\ a \in DomainAddresses /\ s \in Some /\ D!KnowsOwner(v7[p]) /\ p \in D!Attaching
    BY StepsAreTasks, TaskFields DEF D!MakeLink, D!Does, D!Steps, D!OwnersInv, D!OwnersKnown, D!Attaching
  <1>1. UNCHANGED <<v2, v3, v8, v12>> /\ (UNCHANGED v1 \/ v1' = [v1 EXCEPT ![a] = s])
    BY DEF D!MakeLink, D!metaVars
  <1>2. D!Done(p) \/ \E r : Onward(p, r) /\ r.step = "write" /\ r.owner = v7[p].owner
    BY <1>0, NextIsOnward DEF D!MakeLink, D!Steps
  <1>3. \A q \in D!Actors :
           \/ v7'[q] = v7[q]
           \/ v7'[q] = D!Free
           \/ v7'[q].step \notin {"clear", "make"} /\ D!KnowsOwner(v7[q])'
    BY <1>0, <1>1, <1>2 DEF D!Done, Onward, D!KnowsOwner, D!DomainsTyped
  <1>4. CASE UNCHANGED v1
    BY <1>1, <1>3, <1>4, OwnersStay
  <1>5. CASE v1' = [v1 EXCEPT ![a] = s]
    <2>1. v1'[a] = s /\ \A b \in DomainAddresses \ {a} : v1'[b] = v1[b]
      BY <1>0, <1>5 DEF D!DomainsTyped
    <2>2. \A q \in D!Attaching' : q \in D!Attaching /\ v7'[q] = v7[q]
      BY <1>3 DEF D!Attaching, D!Free
    <2>3. D!OwnersKnown'
      BY <1>1, <1>3 DEF D!OwnersInv, D!OwnersKnown, D!KnowsOwner
    <2>4. D!AttachedOwn'
      <3> SUFFICES ASSUME NEW q \in D!Attaching', NEW b \in DomainAddresses,
                          DomainHost[b] = DomainHost[v7'[q].addr], DomainHost[b] \notin v12, v1'[b] \in v2
                   PROVE  v3[v1'[b]] = v3[v7'[q].site]
        BY <1>1 DEF D!AttachedOwn
      <3>1. CASE b = a
        BY <1>0, <2>1, <2>2, <3>1 DEF D!OwnersInv, D!AttachersOwn
      <3>2. CASE b # a
        BY <2>1, <2>2, <3>2 DEF D!OwnersInv, D!AttachedOwn
      <3> QED
        BY <3>1, <3>2
    <2>5. D!AttachersOwn'
      BY <1>1, <2>2 DEF D!OwnersInv, D!AttachersOwn
    <2>6. D!OneOwnerPerHost'
      <3>1. ASSUME NEW b \in DomainAddresses \ {a}, DomainHost[b] = DomainHost[a],
                   DomainHost[a] \notin v12, v1[b] \in v2
            PROVE  v3[v1[b]] = v3[s]
        BY <1>0, <3>1 DEF D!OwnersInv, D!AttachedOwn
      <3>2. ASSUME NEW b \in DomainAddresses \ {a}, NEW c \in DomainAddresses \ {a}, DomainHost[b] = DomainHost[c],
                   DomainHost[b] \notin v12, v1[b] \in v2, v1[c] \in v2
            PROVE  v3[v1[b]] = v3[v1[c]]
        BY <3>2, DomainsConstants DEF D!OwnersInv, D!OneOwnerPerHost, D!Serves, D!DomainsTyped
      <3> QED
        BY <1>1, <2>1, <3>1, <3>2 DEF D!OneOwnerPerHost, D!Serves
    <2> QED
      BY <2>3, <2>4, <2>5, <2>6 DEF D!OwnersInv
  <1> QED
    BY <1>1, <1>4, <1>5

\* A hand-over crosses every host on which somebody else could be met: those
\* shared with another site of the sender's, those being attached, those of
\* claims the sweep has read, and those torn.  What the index holds of the site
\* besides is what it lists.
LEMMA TransferKeepsOwners ==
    ASSUME D!DomainsTyped, D!IndexInv, D!OwnersInv, NEW s \in Some, NEW o \in Others, D!Transfer(s, o)
    PROVE  D!OwnersInv'
  <1> DEFINE moved == v4[s] \ D!Bound(s)
             Hs(as) == {DomainHost[a] : a \in as}
  <1>0. /\ s \in v2 /\ UNCHANGED <<v2, v7, v8>> /\ v3' = [v3 EXCEPT ![s] = o]
        /\ v1' = D!Unlinked(s, D!Bound(s)) /\ v12 \subseteq v12'
    BY DEF D!Transfer
  <1>1. /\ \A a \in moved : D!Shares(s) => DomainHost[a] \in v12'
        /\ \A p \in D!Actors : /\ v7[p] # D!Free
                              /\ (v7[p].site = s \/ DomainHost[v7[p].addr] \in Hs(moved))
              => DomainHost[v7[p].addr] \in v12'
        /\ \A c \in v8 : c.site = s => DomainHost[c.addr] \in v12'
        /\ \A a \in v11 : v1[a] = s => DomainHost[a] \in v12'
    BY DEF D!Transfer
  <1>2. \A x \in Some \ {s} : v3'[x] = v3[x]
    BY <1>0 DEF D!DomainsTyped
  <1>3. \A a \in DomainAddresses : v1'[a] \in {v1[a], None}
    BY <1>0 DEF D!Unlinked
  \* What still points at the site, on a host that is not crossed, it lists.
  <1>4. ASSUME NEW a \in DomainAddresses, v1'[a] = s, DomainHost[a] \notin v12' PROVE a \in moved
    <2>1. v1[a] = s /\ a \notin v11
      BY <1>1, <1>3, <1>4, DomainsConstants
    <2>2. a \notin D!Bound(s)
      BY <1>0, <1>4, <2>1, DomainsConstants DEF D!Unlinked, D!Serves
    <2>3. a \in v4[s]
      <3>1. CASE D!AtWork(a) = {}
        BY <2>1, <3>1 DEF D!IndexInv, D!RestAgrees, D!Agrees
      <3>2. CASE \E c \in v8 : c.addr = a
        BY <2>1, <3>2 DEF D!IndexInv, D!TodoFits, D!Agrees
      <3>3. ASSUME NEW q \in D!Actors, v7[q] # D!Free, v7[q].addr = a PROVE a \in v4[s]
        <4>1. D!Fits(v7[q]) /\ v7[q].step \in D!Steps
          BY <2>1, <3>3, TaskFields DEF D!IndexInv, D!TasksFit
        <4>2. v7[q].site # s
          BY <1>1, <1>4, <3>3
        <4> QED
          BY <2>1, <3>3, <4>1, <4>2, DomainsConstants DEF D!Fits, D!Agrees, D!Vacant
      <3> QED
        BY <3>1, <3>2, <3>3, AtWorkIs
    <2> QED
      BY <2>2, <2>3
  \* Nobody else is there.
  <1>5. ASSUME NEW a \in moved, v1[a] = s, DomainHost[a] \notin v12', NEW b \in DomainAddresses,
               DomainHost[b] = DomainHost[a], v1[b] \in v2
        PROVE  v1[b] = s
    <2>1. v3[v1[b]] = v3[s]
      BY <1>0, <1>5, DomainsConstants DEF D!OwnersInv, D!OneOwnerPerHost, D!Serves, D!DomainsTyped
    <2>2. b \in D!OnHost(DomainHost[a]) /\ a \in v4[s]
      BY <1>5, DomainsConstants DEF D!OnHost, D!Serves, D!DomainsTyped
    <2>3. ~D!Shares(s)
      BY <1>1, <1>5
    <2> QED
      BY <2>1, <2>2, <2>3 DEF D!Shares
  <1>6. D!OwnersKnown'
    <2>1. ASSUME NEW p \in D!Actors, v7[p] # D!Free PROVE D!KnowsOwner(v7[p])'
      <3>1. D!KnowsOwner(v7[p]) /\ v7[p].site \in Some
        BY <2>1, TaskFields DEF D!OwnersInv, D!OwnersKnown
      <3> QED
        BY <1>0, <1>1, <1>2, <2>1, <3>1 DEF D!KnowsOwner
    <2>2. ASSUME NEW c \in v8 PROVE D!KnowsOwner(c)'
      <3>1. D!KnowsOwner(c) /\ c.site \in Some
        BY DEF D!OwnersInv, D!OwnersKnown, D!DomainsTyped
      <3> QED
        BY <1>0, <1>1, <1>2, <3>1 DEF D!KnowsOwner
    <2> QED
      BY <1>0, <2>1, <2>2 DEF D!OwnersKnown
  <1>7. \A p \in D!Attaching' : p \in D!Attaching /\ v7[p] # D!Free /\ v7[p].site \in Some
    BY <1>0, StepsAreTasks, TaskFields DEF D!Attaching, D!Steps
  <1>8. D!AttachedOwn'
    <2> SUFFICES ASSUME NEW p \in D!Attaching', NEW b \in DomainAddresses,
                        DomainHost[b] = DomainHost[v7[p].addr], DomainHost[b] \notin v12', v1'[b] \in v2
                 PROVE  v3'[v1'[b]] = v3'[v7[p].site]
      BY <1>0 DEF D!AttachedOwn
    <2>1. v7[p].site # s /\ v1'[b] = v1[b] /\ v1[b] \in Some
      BY <1>1, <1>3, <1>7, DomainsConstants DEF D!Attaching, D!DomainsTyped
    <2>2. v1[b] # s
      <3> SUFFICES ASSUME v1[b] = s PROVE FALSE
        OBVIOUS
      <3>1. b \in moved
        BY <1>4, <2>1
      <3> QED
        BY <1>1, <1>7, <3>1 DEF D!Attaching
    <2> QED
      BY <1>0, <1>2, <1>7, <2>1, <2>2 DEF D!OwnersInv, D!AttachedOwn
  <1>9. D!AttachersOwn'
    <2> SUFFICES ASSUME NEW p \in D!Attaching', NEW q \in D!Attaching',
                        DomainHost[v7[p].addr] = DomainHost[v7[q].addr], DomainHost[v7[p].addr] \notin v12'
                 PROVE  v3'[v7[p].site] = v3'[v7[q].site]
      BY <1>0 DEF D!AttachersOwn
    <2>1. v7[p].site # s /\ v7[q].site # s
      BY <1>1, <1>7 DEF D!Attaching
    <2> QED
      BY <1>0, <1>2, <1>7, <2>1 DEF D!OwnersInv, D!AttachersOwn
  <1>10. D!OneOwnerPerHost'
    <2> SUFFICES ASSUME NEW a \in DomainAddresses, NEW b \in DomainAddresses,
                        DomainHost[a] = DomainHost[b], DomainHost[a] \notin v12', v1'[a] \in v2, v1'[b] \in v2
                 PROVE  v3'[v1'[a]] = v3'[v1'[b]]
      BY <1>0 DEF D!OneOwnerPerHost, D!Serves
    <2>1. v1'[a] = v1[a] /\ v1'[b] = v1[b] /\ v1[a] \in Some /\ v1[b] \in Some
      BY <1>3, DomainsConstants DEF D!DomainsTyped
    <2>2. v1[a] = s <=> v1[b] = s
      BY <1>4, <1>5, <2>1
    <2>3. v3[v1[a]] = v3[v1[b]]
      BY <1>0, <2>1, DomainsConstants DEF D!OwnersInv, D!OneOwnerPerHost, D!Serves
    <2> QED
      BY <1>2, <2>1, <2>2, <2>3
  <1> QED
    BY <1>6, <1>8, <1>9, <1>10 DEF D!OwnersInv

LEMMA OwnersStep ==
    ASSUME D!DomainsTyped, D!IndexInv, D!OwnersInv, [D!DomainsNext]_(D!dvars)
    PROVE  D!OwnersInv'
  <1> USE DEF D!metaVars
  <1>1. CASE UNCHANGED D!dvars
    BY <1>1, OwnersStay DEF D!dvars
  <1>2. ASSUME NEW p \in DomainAskers, NEW s \in Some, NEW a \in DomainAddresses, D!AskDomain(p, s, a)
        PROVE  D!OwnersInv'
    <2>1. UNCHANGED <<v1, v2, v3, v8, v12>>
      BY <1>2 DEF D!AskDomain
    <2>2. \E step \in {"ok", "claim"} :
             v7' = [v7 EXCEPT ![p] = [step |-> step, site |-> s, addr |-> a, owner |-> v3[s], as |-> "own"]]
      BY <1>2 DEF D!AskDomain
    <2>3. \A q \in D!Actors :
             v7'[q] = v7[q] \/ (v7'[q].step \notin {"clear", "make"} /\ D!KnowsOwner(v7[q])')
      BY <2>1, <2>2 DEF D!KnowsOwner, D!DomainsTyped
    <2> QED
      BY <2>1, <2>3, OwnersStay
  <1>3. ASSUME NEW p \in DomainAskers, D!RecordClaim(p) PROVE D!OwnersInv'
    <2>1. UNCHANGED <<v1, v2, v3, v8, v12>> /\ p \in D!Actors
      BY <1>3 DEF D!RecordClaim, D!Actors
    <2>2. v7[p] # D!Free
      BY <1>3, <2>1, OwnSteps
    <2>3. D!Done(p) \/ \E as \in {"own", "host"} :
             v7' = [v7 EXCEPT ![p] = [v7[p] EXCEPT !.step = "host", !.as = as, !.owner = v3[v7[p].site]]]
      <3> DEFINE r(as) == [v7[p] EXCEPT !.step = "host", !.as = as, !.owner = v3[v7[p].site]]
      <3>1. D!Done(p) \/ v7' = [v7 EXCEPT ![p] = r("own")] \/ v7' = [v7 EXCEPT ![p] = r("host")]
        BY <1>3 DEF D!RecordClaim, D!Verified
      <3> QED
        BY <3>1
    <2>4. v7[p] \in D!Tasks
      BY <2>1, <2>2, TaskFields
    <2>5. \A q \in D!Actors :
             \/ v7'[q] = v7[q]
             \/ v7'[q] = D!Free
             \/ v7'[q].step \notin {"clear", "make"} /\ D!KnowsOwner(v7[q])'
      <3>1. CASE D!Done(p)
        BY <3>1 DEF D!Done, D!DomainsTyped
      <3>2. ASSUME NEW as \in {"own", "host"},
                   v7' = [v7 EXCEPT ![p] = [v7[p] EXCEPT !.step = "host", !.as = as, !.owner = v3[v7[p].site]]]
            PROVE  /\ \A q \in D!Actors \ {p} : v7'[q] = v7[q]
                   /\ v7'[p].step = "host" /\ v7'[p].owner = v3[v7'[p].site]
        BY <2>1, <2>4, <3>2 DEF D!DomainsTyped, D!Tasks
      <3> QED
        BY <2>1, <2>3, <3>1, <3>2 DEF D!KnowsOwner
    <2> QED
      BY <2>1, <2>5, OwnersStay
  <1>4. ASSUME NEW p \in D!Actors,
               \/ D!ClearLink(p) \/ D!WriteAttached(p) \/ D!WriteFails(p) \/ D!UndoLink(p) \/ D!Stamp(p)
               \/ p = DomainSweep /\ (D!DropClaim \/ D!DetachLink \/ D!DetachMeta)
        PROVE  D!OwnersInv'
    <2>1. /\ UNCHANGED <<v2, v3, v8, v12>>
          /\ UNCHANGED v1 \/ v1' = [v1 EXCEPT ![v7[p].addr] = None]
      BY <1>4 DEF D!ClearLink, D!WriteAttached, D!WriteFails, D!UndoLink, D!Stamp, D!DropClaim,
                  D!DetachLink, D!DetachMeta, D!SetMeta
    <2>2. v7[p] # D!Free
      BY <1>4, OwnSteps DEF D!Attach
    <2>3. \/ D!Done(p)
          \/ D!Next_(p, "make") /\ v7[p].step = "clear"
          \/ \E step \in {"undo", "demote"} : D!Next_(p, step)
      BY <1>4 DEF D!ClearLink, D!WriteAttached, D!WriteFails, D!UndoLink, D!Stamp, D!DropClaim,
                  D!DetachLink, D!DetachMeta, D!Does
    <2>4. \/ D!Done(p)
          \/ \E r : /\ Onward(p, r) /\ r.owner = v7[p].owner
                    /\ (r.step = "make" /\ v7[p].step = "clear") \/ r.step \in {"undo", "demote"}
      BY <2>2, <2>3, NextIsOnward DEF D!Steps
    <2>5. D!KnowsOwner(v7[p])
      BY <2>2 DEF D!OwnersInv, D!OwnersKnown
    <2>6. \A q \in D!Actors :
             \/ v7'[q] = v7[q]
             \/ v7'[q] = D!Free
             \/ v7'[q].step \notin {"clear", "make"} /\ D!KnowsOwner(v7[q])'
             \/ /\ v7'[q].step \in {"clear", "make"} /\ v7[q].step \in {"clear", "make"}
                /\ v7'[q].addr = v7[q].addr /\ v7'[q].site = v7[q].site /\ v7'[q].owner = v7[q].owner
      BY <2>1, <2>4, <2>5 DEF D!Done, Onward, D!KnowsOwner, D!DomainsTyped
    <2>7. \A b \in DomainAddresses : v1'[b] \in {v1[b], None}
      BY <2>1 DEF D!DomainsTyped
    <2> QED
      BY <2>1, <2>6, <2>7, OwnersStay
  <1>5. ASSUME NEW s \in Some, NEW a \in DomainAddresses, D!RemoveDomain(s, a) PROVE D!OwnersInv'
    <2>1. UNCHANGED <<v2, v3, v7, v8, v12>> /\ \A b \in DomainAddresses : v1'[b] \in {v1[b], None}
      BY <1>5 DEF D!RemoveDomain, D!SetMeta, D!Unlinked
    <2> QED
      BY <2>1, OwnersStay
  <1>6. ASSUME NEW s \in Some, NEW a \in DomainAddresses, D!SweepReads(s, a) PROVE D!OwnersInv'
    <2>1. /\ UNCHANGED <<v1, v2, v3, v7, v12>>
          /\ v8' = {[site |-> s, addr |-> a, owner |-> v3[s], was |-> v5[s][a]]}
      BY <1>6 DEF D!SweepReads
    <2>2. \A c \in v8' : D!KnowsOwner(c)'
      BY <2>1 DEF D!KnowsOwner
    <2> QED
      BY <2>1, <2>2, OwnersStay
  <1>7. ASSUME NEW s \in Some, D!DeleteSite(s) PROVE D!OwnersInv'
    <2>1. /\ UNCHANGED <<v3, v7, v8, v12>> /\ v2' \subseteq v2
          /\ \A b \in DomainAddresses : v1'[b] \in {v1[b], None}
      BY <1>7 DEF D!DeleteSite
    <2> QED
      BY <2>1, OwnersStay
  <1>8. ASSUME NEW c \in v8, D!SweepPendingClaim(c) \/ D!SweepVerifiedClaim(c) PROVE D!OwnersInv'
    <2>1. UNCHANGED <<v1, v2, v3, v12>> /\ v8' \subseteq v8 /\ DomainSweep \in D!Actors
      BY <1>8 DEF D!SweepPendingClaim, D!SweepVerifiedClaim, D!SweepGoes, D!SweepSkips, D!Actors
    <2>2. \/ UNCHANGED v7
          \/ \E step \in {"drop", "host", "ok", "viaHost", "unlink"}, as \in {"own", "host"} :
                v7' = [v7 EXCEPT ![DomainSweep] =
                         [step |-> step, site |-> c.site, addr |-> c.addr, owner |-> c.owner, as |-> as]]
      BY <1>8 DEF D!SweepPendingClaim, D!SweepVerifiedClaim, D!SweepGoes, D!SweepSkips
    <2>3. D!KnowsOwner(c)
      BY DEF D!OwnersInv, D!OwnersKnown
    <2>4. \A q \in D!Actors :
             v7'[q] = v7[q] \/ (v7'[q].step \notin {"clear", "make"} /\ D!KnowsOwner(v7[q])')
      BY <2>1, <2>2, <2>3 DEF D!KnowsOwner, D!DomainsTyped
    <2> QED
      BY <2>1, <2>4, OwnersStay
  <1>9. CASE D!FindDangling \/ (\E h, o : D!ZoneChanges(h, o))
    <2>1. UNCHANGED <<v1, v2, v3, v7, v8, v12>>
      BY <1>9 DEF D!FindDangling, D!ZoneChanges
    <2> QED
      BY <2>1, OwnersStay
  <1>10. ASSUME NEW a \in v9, D!Prune(a) PROVE D!OwnersInv'
    <2>1. UNCHANGED <<v2, v3, v7, v8, v12>> /\ \A b \in DomainAddresses : v1'[b] \in {v1[b], None}
      BY <1>10 DEF D!Prune, D!DomainsTyped
    <2> QED
      BY <2>1, OwnersStay
  <1>11. CASE D!CrashAll
    <2>1. UNCHANGED <<v1, v2, v3, v12>> /\ v8' = {} /\ \A q \in D!Actors : v7'[q] = D!Free
      BY <1>11 DEF D!CrashAll
    <2> QED
      BY <2>1, OwnersStay
  <1>12. DomainSweep \in D!Actors
    BY DEF D!Actors
  <1> QED
    BY <1>1, <1>2, <1>3, <1>4, <1>5, <1>6, <1>7, <1>8, <1>9, <1>10, <1>11, <1>12,
       StartKeepsOwners, MakeKeepsOwners, TransferKeepsOwners
       DEF D!DomainsNext, D!Attach

LEMMA DomainsGoOn == DomainsGood /\ [Next]_slots => DomainsGood'
  <1> SUFFICES ASSUME DomainsGood, [Next]_slots, which' = "domains"
               PROVE  (D!DomainsTyped /\ D!DomainsInv)'
    BY DEF DomainsGood
  <1>1. which = "domains" /\ [D!DomainsNext]_(D!dvars)
    BY DEF Next, slots, D!dvars, D!metaVars
  <1> QED
    BY <1>1, DomainsTypeStep, ListedStep, IndexStep, OwnersStep DEF DomainsGood, D!DomainsInv

\* Of any sites, owners, addresses and hosts, however often owners, the sweep,
\* hand-overs and crashes come between: the addresses of a host belong to one
\* owner, a site lists what it has verified claims on, and is served at what it
\* lists.
THEOREM AddressesHold == Spec => []AddressesStand
  <1>1. D!DomainsTyped /\ D!IndexInv => D!ServedIsListed
    BY DEF D!DomainsTyped, D!IndexInv, D!RestAgrees, D!Agrees, D!GoneUnlisted, D!ServedIsListed
  <1>2. DomainsGood => AddressesStand
    BY <1>1, DomainsConstants DEF DomainsGood, AddressesStand, D!DomainsInv, D!OwnersInv, D!DomainsTyped, D!ServedIsListed,
       D!IndexInv, D!RestAgrees, D!Agrees
  <1> QED
    BY <1>2, DomainsBegin, DomainsGoOn, PTL DEF Spec

(***************************************************************************)
(* Access.                                                                 *)
(***************************************************************************)

AccessGood == which = "access" => C!AccessTyped /\ C!AccessInv

LEMMA AccessConstants ==
    /\ None \notin Some /\ TokenIdle \in Nat \ {0} /\ TokenAge \in Nat
    /\ LastHash \in Nat \ {0} /\ LastTick \in Nat
  BY PartsAssumption DEF C!AccessAssumption

\* A minted token is told from one that is not by what opened it, a request
\* that came from one that did not by its step.
LEMMA MintedIsNotBlank == C!Blank \notin C!Minted
  BY DEF C!Blank, C!Minted

LEMMA AskedIsNotRest == ASSUME NEW q \in C!Asked PROVE q # C!Rest
  BY DEF C!Asked, C!Steps, C!Rest

LEMMA CredFields ==
    ASSUME NEW c \in C!Creds
    PROVE  /\ c.kind \in {"password", "account", "upload"}
           /\ c.kind = "password" => c.pass \in C!Hashes
           /\ c.kind = "account" => c.who \in Some
           /\ c.kind = "upload" => c.token \in UploadTokens
  BY DEF C!Creds

LEMMA AskedFields ==
    ASSUME C!AccessTyped, NEW r \in Others, v4[r].step # "idle"
    PROVE  /\ v4[r] \in C!Asked /\ v4[r] # C!Rest
           /\ v4[r].cred \in C!Creds /\ v4[r].site \in C!Metas
  <1>1. v4[r] # C!Rest
    BY DEF C!Rest
  <1>2. v4[r] \in C!Asked
    BY <1>1 DEF C!AccessTyped
  <1> QED
    BY <1>1, <1>2 DEF C!Asked

\* The next of a request: the same caller at the same site.
AsksOn(r, q) ==
    /\ q \in C!Asked /\ q.how = v4[r].how /\ q.cred = v4[r].cred /\ q.site = v4[r].site
    /\ v4' = [v4 EXCEPT ![r] = q]

LEMMA GoIsOn ==
    ASSUME C!AccessTyped, NEW r \in Others, v4[r].step # "idle", NEW step \in C!Steps, C!Go(r, step)
    PROVE  \E q : AsksOn(r, q) /\ q.step = step /\ q.role = v4[r].role
  <1> DEFINE q == [v4[r] EXCEPT !.step = step]
  <1>1. q \in C!Asked /\ q.how = v4[r].how /\ q.cred = v4[r].cred /\ q.site = v4[r].site
        /\ q.step = step /\ q.role = v4[r].role
    BY AskedFields DEF C!Asked
  <1>2. v4' = [v4 EXCEPT ![r] = q]
    BY DEF C!Go
  <1> QED
    BY <1>1, <1>2 DEF AsksOn

LEMMA PasswordIsOn ==
    ASSUME C!AccessTyped, NEW r \in Others, v4[r].step # "idle",
           v4' = [v4 EXCEPT ![r].step = "let", ![r].role = "password"]
    PROVE  \E q : AsksOn(r, q) /\ q.step = "let" /\ q.role = "password"
  <1> DEFINE q == [v4[r] EXCEPT !.step = "let", !.role = "password"]
  <1>0. "let" \in C!Steps /\ "password" \in C!Roles
    BY DEF C!Steps, C!Roles
  <1>1. q \in C!Asked /\ q.how = v4[r].how /\ q.cred = v4[r].cred /\ q.site = v4[r].site
        /\ q.step = "let" /\ q.role = "password"
    BY <1>0, AskedFields DEF C!Asked
  <1>2. v4' = [v4 EXCEPT ![r] = q]
    BY DEF C!AccessTyped
  <1> QED
    BY <1>1, <1>2 DEF AsksOn

\* A token once minted keeps what opened it.
OpenersStay ==
    \A t \in UploadTokens : v3[t] # C!Blank => v3'[t] # C!Blank /\ v3'[t].by = v3[t].by

LEMMA FoundStays ==
    ASSUME OpenersStay, NEW q, q.cred \in C!Creds, C!Found(q)
    PROVE  C!Found(q)'
  <1>1. q.cred.kind = "upload" => q.cred.token \in UploadTokens
    BY CredFields
  <1> QED
    BY <1>1 DEF OpenersStay, C!Found, C!Let, C!Worth, C!Opens

LEMMA FoundNext ==
    ASSUME NEW q, NEW r, v4'[r] = q
    PROVE  C!Found(v4[r])' <=> C!Found(q)'
  BY DEF C!Found, C!Let, C!Worth, C!Opens

\* One request has gone on or stopped; the others are where they were.
LEMMA OneAsksOn ==
    ASSUME C!AccessTyped, C!RequestsFound, OpenersStay, NEW r \in Others, NEW q,
           v4' = [v4 EXCEPT ![r] = q], q = C!Rest \/ (q \in C!Asked /\ C!Found(q)')
    PROVE  v4' \in [Others -> {C!Rest} \cup C!Asked] /\ C!RequestsFound'
  <1>1. v4' \in [Others -> {C!Rest} \cup C!Asked]
    BY DEF C!AccessTyped
  <1>2. ASSUME NEW x \in Others, v4'[x] # C!Rest PROVE C!Found(v4[x])'
    <2>1. PICK y : y = v4'[x]
      OBVIOUS
    <2>2. CASE x = r
      <3>1. y = q
        BY <2>1, <2>2 DEF C!AccessTyped
      <3>2. C!Found(y)'
        BY <1>2, <2>1, <3>1 DEF C!Found, C!Let, C!Worth, C!Opens
      <3> QED
        BY <2>1, <3>2, FoundNext
    <2>3. CASE x # r
      <3>1. v4[x] = y /\ y # C!Rest
        BY <1>2, <2>1, <2>3 DEF C!AccessTyped
      <3>2. C!Found(v4[x]) /\ y \in C!Asked
        BY <3>1 DEF C!RequestsFound, C!AccessTyped
      <3>3. C!Found(y) /\ y.cred \in C!Creds
        BY <3>1, <3>2 DEF C!Asked
      <3>4. C!Found(y)'
        BY <3>3, FoundStays
      <3> QED
        BY <2>1, <3>4, FoundNext
    <2> QED
      BY <2>2, <2>3
  <1>3. C!RequestsFound'
    BY <1>2 DEF C!RequestsFound
  <1> QED
    BY <1>1, <1>3

\* What a change of the registry leaves of a token.
Remembers(u, w) == w \in C!Minted /\ w.by = u.by /\ w.role = u.role /\ w.hash = u.hash

LEMMA TokensKeep ==
    ASSUME C!AccessTyped, C!OpenerKept, NEW f \in [UploadTokens -> {C!Blank} \cup C!Minted], v3' = f,
           \A t \in UploadTokens :
               \/ f[t] = v3[t]
               \/ v3[t] # C!Blank /\ Remembers(v3[t], f[t])
               \/ /\ v3[t] = C!Blank /\ f[t] \in C!Minted
                  /\ \/ f[t].by.kind = "password" /\ f[t].role = "password" /\ f[t].by.pass = f[t].hash
                     \/ f[t].by.kind = "account" /\ f[t].role \in {"owner", "admin"}
    PROVE  OpenersStay /\ C!OpenerKept'
  <1>1. \A t \in UploadTokens : f[t] \in C!Minted => f[t] # C!Blank
    BY MintedIsNotBlank
  <1>2. OpenersStay
    BY <1>1 DEF OpenersStay, Remembers
  <1>3. ASSUME NEW t \in UploadTokens, f[t] # C!Blank
        PROVE  \/ f[t].by.kind = "password" /\ f[t].role = "password" /\ f[t].by.pass = f[t].hash
               \/ f[t].by.kind = "account" /\ f[t].role \in {"owner", "admin"}
    <2>1. CASE f[t] = v3[t]
      BY <1>3, <2>1 DEF C!OpenerKept
    <2>2. CASE v3[t] # C!Blank /\ Remembers(v3[t], f[t])
      BY <2>2 DEF C!OpenerKept, Remembers
    <2> QED
      BY <2>1, <2>2
  <1>4. C!OpenerKept'
    BY <1>3 DEF C!OpenerKept
  <1> QED
    BY <1>2, <1>4

LEMMA KnownIsMinted ==
    ASSUME C!AccessTyped, NEW t \in UploadTokens, v3[t] # C!Blank \/ v3[t].known
    PROVE  v3[t] \in C!Minted /\ v3[t] # C!Blank
  BY DEF C!AccessTyped, C!Blank

LEMMA ForgottenKeeps ==
    ASSUME C!AccessTyped, NEW ts \in SUBSET C!Known
    PROVE  /\ C!Forgotten(ts) \in [UploadTokens -> {C!Blank} \cup C!Minted]
           /\ \A t \in UploadTokens :
                 \/ C!Forgotten(ts)[t] = v3[t]
                 \/ v3[t] # C!Blank /\ Remembers(v3[t], C!Forgotten(ts)[t])
  <1>1. ASSUME NEW t \in ts
        PROVE  v3[t] # C!Blank /\ Remembers(v3[t], [v3[t] EXCEPT !.known = FALSE])
    <2>1. t \in UploadTokens /\ v3[t].known
      BY DEF C!Known
    <2>2. v3[t] \in C!Minted /\ v3[t] # C!Blank
      BY <2>1, KnownIsMinted
    <2> QED
      BY <2>2 DEF Remembers, C!Minted
  <1> QED
    BY <1>1 DEF C!Forgotten, Remembers, C!AccessTyped

LEMMA TouchedKeeps ==
    ASSUME C!AccessTyped, NEW t \in UploadTokens, v3[t] # C!Blank, NEW n \in Int,
           NEW f, f = [v3 EXCEPT ![t].running = n, ![t].seen = v5]
    PROVE  /\ f \in [UploadTokens -> {C!Blank} \cup C!Minted]
           /\ \A u \in UploadTokens : f[u] = v3[u] \/ (v3[u] # C!Blank /\ Remembers(v3[u], f[u]))
           /\ f[t].known = v3[t].known /\ f[t].issued = v3[t].issued /\ f[t].seen = v5
  <1>1. v3[t] \in C!Minted
    BY KnownIsMinted
  <1>2. [v3[t] EXCEPT !.running = n, !.seen = v5] \in C!Minted
    BY <1>1 DEF C!Minted, C!AccessTyped
  <1>3. f[t] = [v3[t] EXCEPT !.running = n, !.seen = v5] /\ \A u \in UploadTokens \ {t} : f[u] = v3[u]
    BY DEF C!AccessTyped
  <1>4. f \in [UploadTokens -> {C!Blank} \cup C!Minted]
    BY <1>2, <1>3 DEF C!AccessTyped
  <1> QED
    BY <1>1, <1>2, <1>3, <1>4 DEF Remembers, C!Minted

LEMMA AccessBegin == Init => AccessGood
  <1> SUFFICES ASSUME C!AccessInit PROVE C!AccessTyped /\ C!AccessInv
    BY DEF Init, AccessGood
  <1> USE AccessConstants DEF C!AccessInit
  <1>0. 1 \in C!Hashes /\ 0 \in 0 .. LastTick
    BY DEF C!Hashes
  <1>1. C!AccessTyped
    <2>1. v1 \in C!Metas
      BY <1>0 DEF C!Metas
    <2> QED
      BY <1>0, <2>1 DEF C!AccessTyped
  <1>2. C!AccessInv
    BY DEF C!AccessInv, C!CacheVerified, C!OpenerKept, C!RequestsFound
  <1> QED
    BY <1>1, <1>2

\* A request goes on or stops, whatever it has changed besides.
LEMMA CallKeeps ==
    ASSUME C!AccessTyped, C!AccessInv, NEW r \in Others, NEW q,
           v4' = [v4 EXCEPT ![r] = q], q = C!Rest \/ (q \in C!Asked /\ C!Found(q)'),
           v1' \in C!Metas, v2' \in SUBSET (C!Hashes \X C!Hashes), C!CacheVerified',
           v3' \in [UploadTokens -> {C!Blank} \cup C!Minted], OpenersStay, C!OpenerKept', UNCHANGED v5
    PROVE  (C!AccessTyped /\ C!AccessInv)'
  <1>1. v4' \in [Others -> {C!Rest} \cup C!Asked] /\ C!RequestsFound'
    BY OneAsksOn DEF C!AccessInv
  <1> QED
    BY <1>1 DEF C!AccessTyped, C!AccessInv

\* ... and when it has changed nothing.
LEMMA AskedKeeps ==
    ASSUME C!AccessTyped, C!AccessInv, NEW r \in Others, NEW q,
           v4' = [v4 EXCEPT ![r] = q], q = C!Rest \/ (q \in C!Asked /\ C!Found(q)),
           UNCHANGED <<v1, v2, v3, v5>>
    PROVE  (C!AccessTyped /\ C!AccessInv)'
  <1>1. C!CacheVerified' /\ C!OpenerKept' /\ OpenersStay
    BY DEF C!AccessInv, C!CacheVerified, C!OpenerKept, OpenersStay
  <1>2. C!Found(q) => C!Found(q)'
    BY DEF C!Found, C!Let, C!Worth, C!Opens
  <1> QED
    BY <1>1, <1>2, CallKeeps DEF C!AccessTyped

\* ... or only the registry.
LEMMA TokenKeeps ==
    ASSUME C!AccessTyped, C!AccessInv, NEW r \in Others, NEW q,
           v4' = [v4 EXCEPT ![r] = q], q = C!Rest \/ (q \in C!Asked /\ C!Found(q)'),
           UNCHANGED <<v1, v2, v5>>,
           NEW f \in [UploadTokens -> {C!Blank} \cup C!Minted], v3' = f,
           \A t \in UploadTokens :
               \/ f[t] = v3[t]
               \/ v3[t] # C!Blank /\ Remembers(v3[t], f[t])
               \/ /\ v3[t] = C!Blank /\ f[t] \in C!Minted
                  /\ \/ f[t].by.kind = "password" /\ f[t].role = "password" /\ f[t].by.pass = f[t].hash
                     \/ f[t].by.kind = "account" /\ f[t].role \in {"owner", "admin"}
    PROVE  (C!AccessTyped /\ C!AccessInv)'
  <1>1. OpenersStay /\ C!OpenerKept'
    BY TokensKeep DEF C!AccessInv
  <1>2. C!CacheVerified'
    BY DEF C!AccessInv, C!CacheVerified
  <1> QED
    BY <1>1, <1>2, CallKeeps DEF C!AccessTyped

LEMMA StopKeeps ==
    ASSUME C!AccessTyped, C!AccessInv, NEW r \in Others, C!Stop(r), UNCHANGED <<v1, v2, v3, v5>>
    PROVE  (C!AccessTyped /\ C!AccessInv)'
  <1>1. v4' = [v4 EXCEPT ![r] = C!Rest]
    BY DEF C!Stop
  <1> QED
    BY <1>1, AskedKeeps

LEMMA AtIsFound ==
    ASSUME C!AccessTyped, C!AccessInv, NEW r \in Others, v4[r].step # "idle"
    PROVE  C!Found(v4[r])
  BY AskedFields DEF C!AccessInv, C!RequestsFound

LEMMA ArriveKeeps ==
    ASSUME C!AccessTyped, C!AccessInv, NEW r \in Others, NEW c \in C!Creds,
           NEW how \in {"edit", "open", "files", "dav"}, C!Arrive(r, how, c)
    PROVE  (C!AccessTyped /\ C!AccessInv)'
  <1> DEFINE step == CASE c.kind = "password" -> "check"
                       [] c.kind = "account" -> "stand"
                       [] how = "dav" -> "who"
                       [] OTHER -> "begin"
             q == [step |-> step, how |-> how, cred |-> c, site |-> v1, role |-> "none", as |-> None]
  <1>0. c.kind \in {"password", "account", "upload"} /\ (how = "dav" => c.kind = "upload")
    BY CredFields DEF C!Arrive
  <1>1. /\ step \in {"check", "stand", "who", "begin"}
        /\ step = "check" => c.kind = "password"
        /\ step = "stand" => c.kind = "account"
        /\ step \in {"who", "begin"} => c.kind = "upload"
        /\ step = "who" => how = "dav"
    <2>1. CASE c.kind = "password"
      BY <1>0, <2>1
    <2>2. CASE c.kind = "account"
      BY <1>0, <2>2
    <2>3. CASE c.kind = "upload" /\ how = "dav"
      BY <2>3
    <2>4. CASE c.kind = "upload" /\ how # "dav"
      BY <2>4
    <2> QED
      BY <1>0, <2>1, <2>2, <2>3, <2>4
  <1>2. v4' = [v4 EXCEPT ![r] = q] /\ UNCHANGED <<v1, v2, v3, v5>>
    BY DEF C!Arrive
  <1> HIDE DEF step
  <1>3. q \in C!Asked
    BY <1>1 DEF C!Asked, C!Steps, C!AccessTyped
  <1>4. C!Found(q)
    BY <1>1 DEF C!Found
  <1> HIDE DEF q
  <1> QED
    BY <1>2, <1>3, <1>4, AskedKeeps

LEMMA AskKeeps ==
    ASSUME C!AccessTyped, C!AccessInv, NEW r \in Others,
           NEW how \in {"rotate", "transfer", "lock"}, C!Ask(r, how)
    PROVE  (C!AccessTyped /\ C!AccessInv)'
  <1> DEFINE c == [kind |-> "account", who |-> v1.owner]
             q == [step |-> "write", how |-> how, site |-> v1, role |-> "none", cred |-> c, as |-> None]
  <1>1. v4' = [v4 EXCEPT ![r] = q] /\ UNCHANGED <<v1, v2, v3, v5>> /\ v1.owner # None
    BY DEF C!Ask
  <1>2. c \in C!Creds
    BY <1>1 DEF C!AccessTyped, C!Metas, C!Creds
  <1>3. q \in C!Asked
    BY <1>2 DEF C!Asked, C!Steps, C!AccessTyped
  <1>4. C!Found(q)
    BY DEF C!Found
  <1> HIDE DEF q
  <1> QED
    BY <1>1, <1>3, <1>4, AskedKeeps

LEMMA StandKeeps ==
    ASSUME C!AccessTyped, C!AccessInv, NEW r \in Others, NEW b \in BOOLEAN, C!Stand(r, b)
    PROVE  (C!AccessTyped /\ C!AccessInv)'
  <1> DEFINE role == C!Standing(v4[r].site, v4[r].cred.who, b)
  <1>1. v4[r].step = "stand" /\ UNCHANGED <<v1, v2, v3, v5>>
    BY DEF C!Stand, C!At
  <1>2. v4[r].cred.kind = "account"
    BY <1>1, AtIsFound DEF C!Found
  <1>3. CASE C!Stop(r)
    BY <1>1, <1>3, StopKeeps
  <1>4. CASE role # "none" /\ v4' = [v4 EXCEPT ![r].step = "let", ![r].role = role]
    <2>1. role \in {"owner", "admin"} /\ C!Opens(v4[r].cred, role, v4[r].site)
      BY <1>2, <1>4 DEF C!Standing, C!Opens
    <2>2. ASSUME NEW x, x = role PROVE \E q : AsksOn(r, q) /\ q.step = "let" /\ q.role = x
      <3> DEFINE q == [v4[r] EXCEPT !.step = "let", !.role = x]
      <3>1. x \in C!Roles /\ v4[r] \in C!Asked
        BY <1>1, <2>1, <2>2, AskedFields DEF C!Roles
      <3>2. q \in C!Asked /\ q.how = v4[r].how /\ q.cred = v4[r].cred /\ q.site = v4[r].site
            /\ q.step = "let" /\ q.role = x
        BY <3>1 DEF C!Asked, C!Steps
      <3>3. v4' = [v4 EXCEPT ![r] = q]
        BY <1>4, <2>2 DEF C!AccessTyped
      <3> QED
        BY <3>2, <3>3 DEF AsksOn
    <2>3. PICK q : AsksOn(r, q) /\ q.step = "let" /\ q.role = role
      BY <2>1, <2>2
    <2>4. C!Found(q)
      BY <1>2, <2>1, <2>3 DEF AsksOn, C!Found
    <2> QED
      BY <1>1, <2>3, <2>4, AskedKeeps DEF AsksOn
  <1> QED
    BY <1>3, <1>4 DEF C!Stand

LEMMA CheckCacheKeeps ==
    ASSUME C!AccessTyped, C!AccessInv, NEW r \in Others, NEW b \in BOOLEAN, C!CheckCache(r, b)
    PROVE  (C!AccessTyped /\ C!AccessInv)'
  <1>1. v4[r].step = "check" /\ UNCHANGED <<v1, v2, v3, v5>>
    BY DEF C!CheckCache, C!At
  <1>2. v4[r].cred.kind = "password"
    BY <1>1, AtIsFound DEF C!Found
  <1>3. CASE C!Stop(r)
    BY <1>1, <1>3, StopKeeps
  <1>4. CASE C!Go(r, "verify")
    <2>1. PICK q : AsksOn(r, q) /\ q.step = "verify"
      BY <1>1, <1>4, GoIsOn DEF C!Steps
    <2>2. C!Found(q)
      BY <1>2, <2>1 DEF AsksOn, C!Found
    <2> QED
      BY <1>1, <2>1, <2>2, AskedKeeps DEF AsksOn
  <1>5. CASE C!Presented(r) \in v2 /\ v4' = [v4 EXCEPT ![r].step = "let", ![r].role = "password"]
    <2>1. C!Opens(v4[r].cred, "password", v4[r].site)
      BY SMTT(30), <1>2, <1>5 DEF C!Presented, C!CacheKey, C!AccessInv, C!CacheVerified, C!Opens
    <2>2. PICK q : AsksOn(r, q) /\ q.step = "let" /\ q.role = "password"
      BY <1>1, <1>5, PasswordIsOn
    <2>3. C!Found(q)
      BY <1>2, <2>1, <2>2 DEF AsksOn, C!Found
    <2> QED
      BY <1>1, <2>2, <2>3, AskedKeeps DEF AsksOn
  <1> QED
    BY <1>3, <1>4, <1>5 DEF C!CheckCache

LEMMA VerifyKeeps ==
    ASSUME C!AccessTyped, C!AccessInv, NEW r \in Others, C!Verify(r)
    PROVE  (C!AccessTyped /\ C!AccessInv)'
  <1>1. v4[r].step = "verify" /\ UNCHANGED <<v1, v2, v3, v5>>
    BY DEF C!Verify, C!At
  <1>2. v4[r].cred.kind = "password"
    BY <1>1, AtIsFound DEF C!Found
  <1>3. CASE C!Stop(r)
    BY <1>1, <1>3, StopKeeps
  <1>4. CASE v4[r].cred.pass = v4[r].site.hash /\ C!Go(r, "put")
    <2>1. PICK q : AsksOn(r, q) /\ q.step = "put"
      BY <1>1, <1>4, GoIsOn DEF C!Steps
    <2>2. C!Found(q)
      BY <1>2, <1>4, <2>1 DEF AsksOn, C!Found
    <2> QED
      BY <1>1, <2>1, <2>2, AskedKeeps DEF AsksOn
  <1> QED
    BY <1>3, <1>4 DEF C!Verify

\* What is put into the cache was verified.
LEMMA PutKeeps ==
    ASSUME C!AccessTyped, C!AccessInv, NEW r \in Others, C!Put(r)
    PROVE  (C!AccessTyped /\ C!AccessInv)'
  <1>1. /\ v4[r].step = "put" /\ UNCHANGED <<v1, v3, v5>> /\ v2' = v2 \cup {C!Presented(r)}
        /\ v4' = [v4 EXCEPT ![r].step = "let", ![r].role = "password"]
    BY DEF C!Put, C!At
  <1>2. v4[r].cred.kind = "password" /\ v4[r].cred.pass = v4[r].site.hash
    BY <1>1, AtIsFound DEF C!Found
  <1>3. v4[r].cred.pass \in C!Hashes /\ v4[r].site.hash \in C!Hashes
    BY <1>1, <1>2, AskedFields, CredFields
  <1>4. v2' \in SUBSET (C!Hashes \X C!Hashes) /\ C!CacheVerified'
    BY <1>1, <1>2, <1>3 DEF C!Presented, C!CacheKey, C!AccessTyped, C!AccessInv, C!CacheVerified
  <1>5. OpenersStay /\ C!OpenerKept'
    BY ZenonT(30), <1>1 DEF OpenersStay, C!AccessInv, C!OpenerKept
  <1>6. PICK q : AsksOn(r, q) /\ q.step = "let" /\ q.role = "password"
    BY <1>1, PasswordIsOn
  <1>7. C!Found(q)'
    BY <1>2, <1>6 DEF AsksOn, C!Found, C!Opens
  <1> QED
    BY <1>1, <1>4, <1>5, <1>6, <1>7, CallKeeps DEF AsksOn, C!AccessTyped

LEMMA LetInKeeps ==
    ASSUME C!AccessTyped, C!AccessInv, NEW r \in Others, C!LetIn(r)
    PROVE  (C!AccessTyped /\ C!AccessInv)'
  <1>1. v4[r].step = "let" /\ UNCHANGED <<v1, v2, v3, v5>>
    BY DEF C!LetIn, C!At
  <1>2. C!Opens(v4[r].cred, v4[r].role, v4[r].site)
    BY <1>1, AtIsFound DEF C!Found
  <1>3. CASE C!Stop(r)
    BY <1>1, <1>3, StopKeeps
  <1>4. ASSUME NEW step \in {"issue", "run"}, ~C!Refused(v4[r].site), C!Go(r, step)
        PROVE  (C!AccessTyped /\ C!AccessInv)'
    <2>1. PICK q : AsksOn(r, q) /\ q.step = step /\ q.role = v4[r].role
      BY <1>1, <1>4, GoIsOn DEF C!Steps
    <2>2. C!Opens(q.cred, q.role, q.site) /\ C!Let(q) /\ q.cred.kind # "upload"
      BY <1>2, <1>4, <2>1 DEF AsksOn, C!Opens, C!Let, C!Worth, C!Refused
    <2>3. C!Found(q)
      BY <2>1, <2>2 DEF C!Found, C!Let
    <2> QED
      BY <1>1, <2>1, <2>3, AskedKeeps DEF AsksOn
  <1> QED
    BY <1>3, <1>4 DEF C!LetIn

\* What a token is opened by is what its request was let in by.
LEMMA IssueKeeps ==
    ASSUME C!AccessTyped, C!AccessInv, NEW r \in Others, NEW t \in UploadTokens, NEW full \in BOOLEAN,
           C!Issue(r, t, full)
    PROVE  (C!AccessTyped /\ C!AccessInv)'
  <1> DEFINE u == [known |-> TRUE, by |-> v4[r].cred, role |-> v4[r].role, hash |-> v4[r].site.hash,
                   issued |-> v5, seen |-> v5, running |-> 0]
  <1>1. /\ v4[r].step = "issue" /\ v3[t] = C!Blank /\ UNCHANGED <<v1, v2, v5>>
        /\ v4' = [v4 EXCEPT ![r] = C!Rest]
    BY DEF C!Issue, C!At, C!Stop
  <1>2. PICK ts \in SUBSET C!Known :
            v3' = C!Forgotten(ts) \/ v3' = [C!Forgotten(ts) EXCEPT ![t] = u]
    <2>1. \A ks : C!Known \ ks \in SUBSET C!Known
      OBVIOUS
    <2> QED
      BY <2>1 DEF C!Issue
  <1>3. C!Opens(v4[r].cred, v4[r].role, v4[r].site)
    BY <1>1, AtIsFound DEF C!Found
  <1>4. v4[r] \in C!Asked /\ v4[r].cred \in C!Creds /\ v4[r].site \in C!Metas
    BY <1>1, AskedFields
  <1>5. /\ u \in C!Minted
        /\ \/ u.by.kind = "password" /\ u.role = "password" /\ u.by.pass = u.hash
           \/ u.by.kind = "account" /\ u.role \in {"owner", "admin"}
    <2>1. v4[r].role \in C!Roles /\ v4[r].site.hash \in C!Hashes
      BY <1>3, <1>4 DEF C!Opens, C!Roles, C!Metas
    <2> QED
      BY <1>3, <1>4, <2>1 DEF C!Opens, C!Minted, C!AccessTyped
  <1> HIDE DEF u
  <1>6. CASE v3' = C!Forgotten(ts)
    BY <1>1, <1>6, ForgottenKeeps, TokenKeeps
  <1>7. CASE v3' = [C!Forgotten(ts) EXCEPT ![t] = u]
    <2> DEFINE f == [C!Forgotten(ts) EXCEPT ![t] = u]
    <2>1. C!Forgotten(ts) \in [UploadTokens -> {C!Blank} \cup C!Minted]
      BY ForgottenKeeps
    <2>2. f[t] = u /\ \A x \in UploadTokens \ {t} : f[x] = C!Forgotten(ts)[x]
      BY <2>1
    <2>3. f \in [UploadTokens -> {C!Blank} \cup C!Minted]
      BY <1>5, <2>1
    <2>4. \A x \in UploadTokens :
               \/ f[x] = v3[x]
               \/ v3[x] # C!Blank /\ Remembers(v3[x], f[x])
               \/ /\ v3[x] = C!Blank /\ f[x] \in C!Minted
                  /\ \/ f[x].by.kind = "password" /\ f[x].role = "password" /\ f[x].by.pass = f[x].hash
                     \/ f[x].by.kind = "account" /\ f[x].role \in {"owner", "admin"}
      BY <1>1, <1>5, <2>2, ForgottenKeeps
    <2> HIDE DEF f
    <2> QED
      BY <1>1, <1>7, <2>3, <2>4, TokenKeeps DEF f
  <1> QED
    BY <1>2, <1>6, <1>7

\* The token of a request that has begun is in the registry.
LEMMA BegunHasToken ==
    ASSUME C!AccessTyped, C!AccessInv, NEW r \in Others,
           \/ v4[r].step = "stands"
           \/ v4[r].step = "run" /\ v4[r].cred.kind = "upload"
           \/ v4[r].step = "who" /\ v4[r].how # "dav"
    PROVE  /\ v4[r].cred.kind = "upload" /\ C!Token(r) \in UploadTokens
           /\ v3[C!Token(r)] # C!Blank /\ v3[C!Token(r)] \in C!Minted
  <1>1. v4[r].step # "idle"
    OBVIOUS
  <1>2. C!Found(v4[r])
    BY <1>1, AtIsFound
  <1>3. v4[r].cred.kind = "upload" /\ v3[v4[r].cred.token] # C!Blank
    BY <1>2 DEF C!Found
  <1>4. v4[r].cred.token \in UploadTokens
    BY <1>1, <1>3, AskedFields, CredFields
  <1> QED
    BY <1>3, <1>4, KnownIsMinted DEF C!Token

\* The end of a request's use of its token.
LEMMA EndedKeeps ==
    ASSUME C!AccessTyped, C!AccessInv, NEW r \in Others, NEW t \in UploadTokens, v3[t] # C!Blank,
           v4' = [v4 EXCEPT ![r] = C!Rest], v3' = C!Ended(t), UNCHANGED <<v1, v2, v5>>
    PROVE  /\ (C!AccessTyped /\ C!AccessInv)'
           /\ v3'[t].known = v3[t].known /\ v3'[t].issued = v3[t].issued /\ v3'[t].seen = v5
  <1>1. v3[t].running - 1 \in Int
    BY KnownIsMinted DEF C!Minted
  <1> DEFINE f == [v3 EXCEPT ![t].running = v3[t].running - 1, ![t].seen = v5]
  <1>2. v3' = f
    BY DEF C!Ended, C!AccessTyped
  <1>3. /\ f \in [UploadTokens -> {C!Blank} \cup C!Minted]
        /\ \A x \in UploadTokens : f[x] = v3[x] \/ (v3[x] # C!Blank /\ Remembers(v3[x], f[x]))
        /\ f[t].known = v3[t].known /\ f[t].issued = v3[t].issued /\ f[t].seen = v5
    BY <1>1, TouchedKeeps
  <1> HIDE DEF f
  <1> QED
    BY <1>2, <1>3, TokenKeeps

LEMMA BeginKeeps ==
    ASSUME C!AccessTyped, C!AccessInv, NEW r \in Others, C!Begin(r)
    PROVE  (C!AccessTyped /\ C!AccessInv)'
  <1> DEFINE t == C!Token(r)
  <1>1. v4[r].step = "begin" /\ UNCHANGED <<v1, v2, v5>>
    BY DEF C!Begin, C!At
  <1>2. v4[r].cred.kind = "upload" /\ v4[r].cred.token = t
    BY <1>1, AtIsFound DEF C!Found, C!Token
  <1>3. t \in UploadTokens
    BY <1>1, <1>2, AskedFields, CredFields
  <1> HIDE DEF t
  <1>4. CASE C!Stop(r) /\ UNCHANGED v3
    BY <1>1, <1>4, StopKeeps
  <1>5. CASE v3[t].known /\ C!Stop(r) /\ v3' = C!Forgotten({t})
    <2>1. {t} \in SUBSET C!Known
      BY <1>3, <1>5 DEF C!Known
    <2> QED
      BY <1>1, <1>5, <2>1, ForgottenKeeps, TokenKeeps DEF C!Stop
  <1>6. CASE /\ v3[t].known /\ C!Go(r, "stands")
             /\ v3' = [v3 EXCEPT ![t].running = @ + 1, ![t].seen = v5]
    <2>1. v3[t] # C!Blank /\ v3[t].running + 1 \in Int
      BY <1>3, <1>6, KnownIsMinted DEF C!Minted
    <2> DEFINE f == [v3 EXCEPT ![t].running = v3[t].running + 1, ![t].seen = v5]
    <2>2. v3' = f
      BY <1>3, <1>6 DEF C!AccessTyped
    <2>3. /\ f \in [UploadTokens -> {C!Blank} \cup C!Minted]
          /\ \A x \in UploadTokens : f[x] = v3[x] \/ (v3[x] # C!Blank /\ Remembers(v3[x], f[x]))
          /\ f[t] # C!Blank
      <3>1. /\ f \in [UploadTokens -> {C!Blank} \cup C!Minted]
            /\ \A x \in UploadTokens : f[x] = v3[x] \/ (v3[x] # C!Blank /\ Remembers(v3[x], f[x]))
        BY <1>3, <2>1, TouchedKeeps
      <3> HIDE DEF f
      <3> QED
        BY <1>3, <2>1, <3>1, MintedIsNotBlank DEF Remembers
    <2> HIDE DEF f
    <2>4. PICK q : AsksOn(r, q) /\ q.step = "stands"
      BY <1>1, <1>6, GoIsOn DEF C!Steps
    <2>5. C!Found(q)'
      BY <1>2, <2>2, <2>3, <2>4 DEF AsksOn, C!Found
    <2> QED
      BY <1>1, <2>2, <2>3, <2>4, <2>5, TokenKeeps DEF AsksOn
  <1> QED
    BY <1>4, <1>5, <1>6 DEF C!Begin, t

\* What opened the token still does.
LEMMA RecheckKeeps ==
    ASSUME C!AccessTyped, C!AccessInv, NEW r \in Others, NEW b \in BOOLEAN, C!Recheck(r, b)
    PROVE  (C!AccessTyped /\ C!AccessInv)'
  <1>1. v4[r].step = "stands" /\ UNCHANGED <<v1, v2, v5>>
    BY DEF C!Recheck, C!At
  <1>2. /\ v4[r].cred.kind = "upload" /\ C!Token(r) \in UploadTokens
        /\ v3[C!Token(r)] # C!Blank /\ v3[C!Token(r)] \in C!Minted
    BY <1>1, BegunHasToken
  <1>3. CASE C!Stop(r) /\ v3' = C!Ended(C!Token(r))
    BY <1>1, <1>2, <1>3, EndedKeeps DEF C!Stop
  <1>4. ASSUME NEW step \in {"run", "who"}, ~C!Refused(v4[r].site), UNCHANGED v3, C!Go(r, step),
               C!StillStands(v3[C!Token(r)], v4[r].site, b)
        PROVE  (C!AccessTyped /\ C!AccessInv)'
    <2>1. C!Let(v4[r])
      <3>1. CASE v3[C!Token(r)].role = "password"
        <4>1. v3[C!Token(r)].by.kind = "password" /\ v3[C!Token(r)].by.pass = v3[C!Token(r)].hash
          BY <1>2, <3>1 DEF C!AccessInv, C!OpenerKept
        <4>2. v3[C!Token(r)].hash = v4[r].site.hash
          BY <1>4, <3>1 DEF C!StillStands
        <4> QED
          BY <1>2, <1>4, <4>1, <4>2 DEF C!Let, C!Worth, C!Token, C!Refused
      <3>2. CASE v3[C!Token(r)].role # "password"
        <4>1. v3[C!Token(r)].by.kind = "account" /\ v3[C!Token(r)].role \in {"owner", "admin"}
          BY <1>2, <3>2 DEF C!AccessInv, C!OpenerKept
        <4>2. C!Standing(v4[r].site, v3[C!Token(r)].by.who, b) = v3[C!Token(r)].role
          BY <1>4, <3>2 DEF C!StillStands
        <4> QED
          BY <1>2, <1>4, <4>1, <4>2 DEF C!Let, C!Worth, C!Token, C!Refused, C!Standing
      <3> QED
        BY <3>1, <3>2
    <2>2. PICK q : AsksOn(r, q) /\ q.step = step
      BY <1>1, <1>4, GoIsOn DEF C!Steps
    <2>3. C!Let(q) /\ q.cred.kind = "upload" /\ v3[q.cred.token] # C!Blank
      BY <1>2, <2>1, <2>2 DEF AsksOn, C!Let, C!Token
    <2>4. C!Found(q)
      BY <2>2, <2>3 DEF C!Found
    <2> QED
      BY <1>1, <1>4, <2>2, <2>4, AskedKeeps DEF AsksOn
  <1> QED
    BY <1>3, <1>4 DEF C!Recheck

LEMMA WhoKeeps ==
    ASSUME C!AccessTyped, C!AccessInv, NEW r \in Others, C!Who(r)
    PROVE  (C!AccessTyped /\ C!AccessInv)'
  <1> DEFINE step == IF v4[r].how = "dav" THEN "begin" ELSE "run"
             u == v3[C!Token(r)]
             as == IF u.known /\ u.role # "password" THEN u.by.who ELSE None
             q == [v4[r] EXCEPT !.step = step, !.as = as]
  <1>1. v4[r].step = "who" /\ UNCHANGED <<v1, v2, v3, v5>>
        /\ v4' = [v4 EXCEPT ![r].step = step, ![r].as = as]
    BY DEF C!Who, C!At
  <1>2. v4[r] \in C!Asked /\ C!Found(v4[r]) /\ v4[r].cred.kind = "upload" /\ C!Token(r) \in UploadTokens
    BY <1>1, AskedFields, AtIsFound, CredFields DEF C!Found, C!Token
  <1>3. as \in Some \cup {None}
    <2>1. CASE u.known /\ u.role # "password"
      <3>1. u \in C!Minted /\ u # C!Blank
        BY <1>2, <2>1, KnownIsMinted
      <3>2. u.by.kind = "account" /\ u.by \in C!Creds
        BY <1>2, <2>1, <3>1 DEF C!AccessInv, C!OpenerKept, C!Minted
      <3> QED
        BY <2>1, <3>2, CredFields
    <2> QED
      BY <2>1
  <1>4. step \in {"begin", "run"} /\ (step = "run" => v4[r].how # "dav")
    OBVIOUS
  <1> HIDE DEF step, as
  <1>5. q \in C!Asked /\ q.how = v4[r].how /\ q.cred = v4[r].cred /\ q.site = v4[r].site /\ q.step = step
    BY <1>2, <1>3, <1>4 DEF C!Asked, C!Steps
  <1>6. v4' = [v4 EXCEPT ![r] = q]
    BY <1>1 DEF C!AccessTyped
  <1> HIDE DEF q
  <1>7. step = "run" => C!Let(q) /\ v3[q.cred.token] # C!Blank
    BY <1>1, <1>2, <1>4, <1>5 DEF C!Found, C!Let
  <1>8. C!Found(q)
    BY <1>2, <1>4, <1>5, <1>7 DEF C!Found
  <1> QED
    BY <1>1, <1>5, <1>6, <1>8, AskedKeeps

LEMMA FinishKeeps ==
    ASSUME C!AccessTyped, C!AccessInv, NEW r \in Others, C!Finish(r)
    PROVE  /\ (C!AccessTyped /\ C!AccessInv)'
           /\ v4[r].cred.kind = "upload" =>
                 LET t == C!Token(r) IN
                 /\ v3[t].known => v3[t] \in C!Minted
                 /\ v3'[t].known = v3[t].known /\ v3'[t].issued = v3[t].issued /\ v3'[t].seen = v5
                 /\ t \in UploadTokens
  <1>1. /\ v4[r].step = "run" /\ UNCHANGED <<v1, v2, v5>> /\ C!Stop(r)
        /\ v3' = IF v4[r].cred.kind = "upload" THEN C!Ended(C!Token(r)) ELSE v3
    BY DEF C!Finish, C!At
  <1>2. CASE v4[r].cred.kind = "upload"
    BY <1>1, <1>2, BegunHasToken, EndedKeeps DEF C!Stop
  <1>3. CASE v4[r].cred.kind # "upload"
    BY <1>1, <1>3, StopKeeps
  <1> QED
    BY <1>2, <1>3

\* meta.json is written.
LEMMA WriteKeeps ==
    ASSUME C!AccessTyped, C!AccessInv, NEW r \in Others,
           \/ \E to \in Some : C!Rehash(r, to)
           \/ \E on \in BOOLEAN : C!LockSite(r, on)
    PROVE  (C!AccessTyped /\ C!AccessInv)'
  <1>1. v4[r].step = "write" /\ UNCHANGED <<v2, v3, v5>> /\ (C!Stop(r) \/ C!Go(r, "drop"))
    BY DEF C!Rehash, C!LockSite, C!At
  <1>2. v1' \in C!Metas
    <2>1. v1 \in C!Metas
      BY DEF C!AccessTyped
    <2>2. ASSUME NEW to \in Some, C!Rehash(r, to) PROVE v1' \in C!Metas
      <3>1. CASE v1' = v1
        BY <2>1, <3>1
      <3>2. CASE v1.hash < LastHash /\ v1' = [v1 EXCEPT !.hash = @ + 1]
        BY <2>1, <3>2, AccessConstants DEF C!Metas, C!Hashes
      <3>3. CASE /\ v1.hash < LastHash
                 /\ v1' = [owner |-> to, admins |-> {}, hash |-> v1.hash + 1, locked |-> FALSE]
        BY <2>1, <3>3, AccessConstants DEF C!Metas, C!Hashes
      <3> QED
        BY <2>2, <3>1, <3>2, <3>3 DEF C!Rehash
    <2>3. ASSUME NEW on \in BOOLEAN, C!LockSite(r, on) PROVE v1' \in C!Metas
      BY <2>1, <2>3 DEF C!LockSite, C!Metas
    <2> QED
      BY <2>2, <2>3
  <1>3. C!CacheVerified' /\ C!OpenerKept' /\ OpenersStay
    BY <1>1 DEF C!AccessInv, C!CacheVerified, C!OpenerKept, OpenersStay
  <1>4. CASE C!Stop(r)
    BY <1>1, <1>2, <1>3, <1>4, CallKeeps DEF C!Stop, C!AccessTyped
  <1>5. CASE C!Go(r, "drop")
    <2>1. PICK q : AsksOn(r, q) /\ q.step = "drop"
      BY <1>1, <1>5, GoIsOn DEF C!Steps
    <2>2. C!Found(q)'
      BY <2>1 DEF C!Found
    <2> QED
      BY <1>1, <1>2, <1>3, <2>1, <2>2, CallKeeps DEF AsksOn, C!AccessTyped
  <1> QED
    BY <1>1, <1>4, <1>5

LEMMA DropKeeps ==
    ASSUME C!AccessTyped, C!AccessInv, NEW r \in Others, C!Drop(r)
    PROVE  (C!AccessTyped /\ C!AccessInv)'
  <1>1. v4[r].step = "drop" /\ UNCHANGED <<v1, v3, v5>> /\ v2' = {} /\ C!Go(r, "revoke")
    BY DEF C!Drop, C!At
  <1>2. C!CacheVerified' /\ C!OpenerKept' /\ OpenersStay
    BY <1>1 DEF C!AccessInv, C!CacheVerified, C!OpenerKept, OpenersStay
  <1>3. PICK q : AsksOn(r, q) /\ q.step = "revoke"
    BY <1>1, GoIsOn DEF C!Steps
  <1>4. C!Found(q)'
    BY <1>3 DEF C!Found
  <1> QED
    BY <1>1, <1>2, <1>3, <1>4, CallKeeps DEF AsksOn, C!AccessTyped

LEMMA RevokeKeeps ==
    ASSUME C!AccessTyped, C!AccessInv, NEW r \in Others, C!Revoke(r)
    PROVE  (C!AccessTyped /\ C!AccessInv)'
  <1>1. /\ UNCHANGED <<v1, v2, v5>> /\ v3' = C!Forgotten(C!Known)
        /\ v4' = [v4 EXCEPT ![r] = C!Rest]
    BY DEF C!Revoke, C!Stop
  <1>2. C!Known \in SUBSET C!Known
    OBVIOUS
  <1> QED
    BY <1>1, <1>2, ForgottenKeeps, TokenKeeps

\* What changes while no request of this process moves.
LEMMA AsideKeeps ==
    ASSUME C!AccessTyped, C!AccessInv, UNCHANGED <<v3, v4>>,
           v1' \in C!Metas, v2' \subseteq v2, v5' \in 0 .. LastTick
    PROVE  (C!AccessTyped /\ C!AccessInv)'
  <1>1. C!AccessTyped'
    BY DEF C!AccessTyped
  <1>2. C!CacheVerified' /\ C!OpenerKept' /\ OpenersStay
    BY DEF C!AccessInv, C!CacheVerified, C!OpenerKept, OpenersStay
  <1>3. C!RequestsFound'
    <2>1. ASSUME NEW r \in Others, v4'[r] # C!Rest PROVE C!Found(v4[r])'
      <3>1. PICK q : q = v4'[r]
        OBVIOUS
      <3>2. q.cred \in C!Creds /\ C!Found(q)
        BY <2>1, <3>1 DEF C!AccessTyped, C!Asked, C!AccessInv, C!RequestsFound
      <3> QED
        BY <1>2, <3>1, <3>2, FoundStays, FoundNext
    <2> QED
      BY <2>1 DEF C!RequestsFound
  <1> QED
    BY <1>1, <1>2, <1>3 DEF C!AccessInv

LEMMA AccessStep == C!AccessTyped /\ C!AccessInv /\ [C!AccessNext]_(C!avars) => (C!AccessTyped /\ C!AccessInv)'
  <1> SUFFICES ASSUME C!AccessTyped, C!AccessInv, [C!AccessNext]_(C!avars)
               PROVE  (C!AccessTyped /\ C!AccessInv)'
    OBVIOUS
  <1>1. v1 \in C!Metas /\ v5 \in 0 .. LastTick
    BY DEF C!AccessTyped
  <1>2. CASE UNCHANGED C!avars
    BY <1>1, <1>2, AsideKeeps DEF C!avars
  <1>3. CASE C!Forget
    BY <1>1, <1>3, AsideKeeps DEF C!Forget
  <1>4. CASE C!LockElsewhere
    <2>1. v1' \in C!Metas
      BY <1>1, <1>4 DEF C!LockElsewhere, C!Metas
    <2> QED
      BY <1>1, <1>4, <2>1, AsideKeeps DEF C!LockElsewhere
  <1>5. ASSUME NEW a \in Some, C!SetAdmin(a) PROVE (C!AccessTyped /\ C!AccessInv)'
    <2>1. v1' \in C!Metas
      BY <1>1, <1>5 DEF C!SetAdmin, C!Metas
    <2> QED
      BY <1>1, <1>5, <2>1, AsideKeeps DEF C!SetAdmin
  <1>6. CASE C!Tick
    BY <1>1, <1>6, AccessConstants, AsideKeeps DEF C!Tick
  <1>7. ASSUME NEW r \in Others,
               \/ \E how \in {"edit", "open", "files", "dav"}, c \in C!Creds : C!Arrive(r, how, c)
               \/ \E b \in BOOLEAN : C!Stand(r, b) \/ C!CheckCache(r, b) \/ C!Recheck(r, b) \/ C!LockSite(r, b)
               \/ C!Verify(r) \/ C!Put(r) \/ C!LetIn(r) \/ C!Begin(r) \/ C!Who(r) \/ C!Finish(r)
               \/ \E t \in UploadTokens, full \in BOOLEAN : C!Issue(r, t, full)
               \/ \E how \in {"rotate", "transfer", "lock"} : C!Ask(r, how)
               \/ \E a \in Some : C!Rehash(r, a)
               \/ C!Drop(r) \/ C!Revoke(r)
        PROVE  (C!AccessTyped /\ C!AccessInv)'
    BY <1>7, ArriveKeeps, StandKeeps, CheckCacheKeeps, RecheckKeeps, WriteKeeps, VerifyKeeps, PutKeeps,
       LetInKeeps, BeginKeeps, WhoKeeps, FinishKeeps, IssueKeeps, AskKeeps, DropKeeps, RevokeKeeps
  <1> QED
    BY <1>2, <1>3, <1>4, <1>5, <1>6, <1>7 DEF C!AccessNext

LEMMA AccessGoesOn == AccessGood /\ [Next]_slots => AccessGood'
  <1> SUFFICES ASSUME AccessGood, [Next]_slots, which' = "access"
               PROVE  (C!AccessTyped /\ C!AccessInv)'
    BY DEF AccessGood
  <1>1. which = "access" /\ [C!AccessNext]_(C!avars)
    BY DEF Next, slots, C!avars
  <1> QED
    BY <1>1, AccessStep DEF AccessGood

\* A handler's end is the only step out of it.
LEMMA OnlyFinish ==
    ASSUME C!AccessTyped, [C!AccessNext]_(C!avars), NEW r \in Others, v4[r].step = "run", v4'[r].step # "run"
    PROVE  C!Finish(r)
  <1>1. v4' # v4
    OBVIOUS
  <1>2. v4[r].step \notin {"idle", "stand", "check", "stands", "write", "verify", "put", "let", "begin", "who", "issue",
                          "drop", "revoke"}
    OBVIOUS
  <1>3. ASSUME NEW p \in Others, p # r, NEW q, v4' = [v4 EXCEPT ![p] = q] PROVE FALSE
    BY <1>3 DEF C!AccessTyped
  <1>4. ASSUME NEW p \in Others, p # r, NEW step, NEW role, v4' = [v4 EXCEPT ![p].step = step, ![p].role = role]
        PROVE  FALSE
    BY <1>4 DEF C!AccessTyped
  <1>5. ASSUME NEW p \in Others, C!Who(p) PROVE FALSE
    <2>1. p # r
      BY <1>2, <1>5 DEF C!Who, C!At
    <2> QED
      BY <1>5, <2>1 DEF C!Who, C!AccessTyped
  <1>6. ASSUME NEW p \in Others, C!Stop(p) \/ \E step : C!Go(p, step) PROVE p = r
    BY <1>3, <1>6 DEF C!Stop, C!Go
  <1>7. ASSUME NEW p \in Others,
               \/ \E how \in {"edit", "open", "files", "dav"}, c \in C!Creds : C!Arrive(p, how, c)
               \/ \E how \in {"rotate", "transfer", "lock"} : C!Ask(p, how)
        PROVE  FALSE
    <2>1. p # r
      BY <1>2, <1>7 DEF C!Arrive, C!Ask, C!At
    <2> QED
      BY <1>3, <1>7, <2>1 DEF C!Arrive, C!Ask
  <1>8. ASSUME NEW p \in Others,
               \/ \E b \in BOOLEAN : C!Stand(p, b) \/ C!CheckCache(p, b)
               \/ C!Put(p)
        PROVE  FALSE
    <2>1. p # r
      BY <1>2, <1>8 DEF C!Stand, C!CheckCache, C!Put, C!At
    <2> QED
      BY <1>4, <1>6, <1>8, <2>1 DEF C!Stand, C!CheckCache, C!Put
  <1>9. ASSUME NEW p \in Others,
               \/ \E b \in BOOLEAN : C!Recheck(p, b) \/ C!LockSite(p, b)
               \/ C!Verify(p) \/ C!LetIn(p) \/ C!Begin(p)
               \/ \E t \in UploadTokens, full \in BOOLEAN : C!Issue(p, t, full)
               \/ \E a \in Some : C!Rehash(p, a)
               \/ C!Drop(p) \/ C!Revoke(p)
        PROVE  FALSE
    <2>1. p # r
      BY <1>2, <1>9 DEF C!Recheck, C!LockSite, C!Verify, C!LetIn, C!Begin, C!Issue, C!Rehash, C!Drop, C!Revoke, C!At
    <2>2. C!Stop(p) \/ \E step : C!Go(p, step)
      BY <1>9 DEF C!Recheck, C!LockSite, C!Verify, C!LetIn, C!Begin, C!Issue, C!Rehash, C!Drop, C!Revoke
    <2> QED
      BY <1>6, <2>1, <2>2
  <1>10. ASSUME NEW p \in Others, C!Finish(p) PROVE p = r
    BY <1>6, <1>10 DEF C!Finish
  <1>11. ~(C!Forget \/ C!LockElsewhere \/ C!Tick \/ \E a \in Some : C!SetAdmin(a))
    BY <1>1 DEF C!Forget, C!LockElsewhere, C!Tick, C!SetAdmin
  <1> QED
    BY <1>1, <1>5, <1>7, <1>8, <1>9, <1>10, <1>11 DEF C!AccessNext, C!avars

LEMMA TokensOutliveUploads ==
    ASSUME C!AccessTyped, C!AccessInv, [C!AccessNext]_(C!avars)
    PROVE  C!TokenOutlivesUpload
  <1> SUFFICES ASSUME NEW r \in Others, C!At(r, "run"), ~C!At(r, "run")', v4[r].cred.kind = "upload",
                      v3[C!Token(r)].known, v5 < v3[C!Token(r)].issued + TokenAge
               PROVE  C!Live(v3'[C!Token(r)])
    BY DEF C!TokenOutlivesUpload
  <1>1. C!Finish(r)
    BY OnlyFinish DEF C!At
  <1>2. /\ C!Token(r) \in UploadTokens /\ v3[C!Token(r)] \in C!Minted
        /\ v3'[C!Token(r)].issued = v3[C!Token(r)].issued /\ v3'[C!Token(r)].seen = v5
    BY <1>1, FinishKeeps
  <1>3. v5 \in Int /\ v5 < v5 + TokenIdle
    BY AccessConstants DEF C!AccessTyped
  <1> QED
    BY <1>2, <1>3 DEF C!Live

\* Of any accounts, passwords, tokens and requests, however rotations, transfers,
\* locks and evictions come between: a handler runs only for a credential worth
\* something on the meta.json it was judged by, and a token outlives its uploads.
THEOREM AccessHold == Spec => AccessStands
  <1>1. AccessGood => (which = "access" => C!LetInStands)
    <2> SUFFICES ASSUME C!AccessTyped, C!AccessInv, NEW r \in Others, v4[r].step = "run"
                 PROVE  C!Worth(v4[r].cred, v4[r].site) /\ ~v4[r].site.locked
      BY DEF AccessGood, C!LetInStands, C!At
    <2> QED
      BY AtIsFound DEF C!Found, C!Let
  <1>2. AccessGood /\ [Next]_slots => [which = "access" => C!TokenOutlivesUpload]_slots
    BY TokensOutliveUploads DEF AccessGood, Next, slots, C!avars
  <1> QED
    BY <1>1, <1>2, AccessBegin, AccessGoesOn, PTL DEF Spec, AccessStands

(***************************************************************************)
(* Forms.                                                                  *)
(***************************************************************************)

FormsGood == which = "forms" => F!FormsTyped /\ F!FormsInv

LEMMA FormsConstants == None \notin Some /\ None \notin FormSolutions
  BY PartsAssumption DEF F!FormsAssumption

LEMMA FindIsIt ==
    ASSUME F!FormsTyped, NEW k, ~F!Gone(k)
    PROVE  F!Find(k) \in DOMAIN v1 /\ v1[F!Find(k)].key = k /\ v1[F!Find(k)] \in F!Entries
  BY DEF F!Gone, F!At, F!Find, F!FormsTyped

LEMMA FormsBegin == Init => FormsGood
  <1> SUFFICES ASSUME F!FormsInit PROVE F!FormsTyped /\ F!FormsInv
    BY DEF Init, FormsGood
  <1> USE FormsConstants DEF F!FormsInit
  <1>1. F!FormsTyped
    BY DEF F!FormsTyped
  <1>2. F!LinksInv
    BY DEF F!LinksInv, F!KeysAreOnce, F!LinksAged, F!ActiveAgreed
  <1>3. \A p \in Others : v7[p].at = "none"
    BY DEF F!NoPost
  <1>4. F!PostsAgreed /\ F!Solved /\ \A s \in FormSolutions : F!Spent(s)
    BY <1>3 DEF F!PostsAgreed, F!Solved, F!Spent, F!Sends
  <1> QED
    BY <1>1, <1>2, <1>4 DEF F!FormsInv, F!MailsInv

(***************************************************************************)
(* Links and forms.                                                        *)
(***************************************************************************)

\* No form changes, no link is new, none is void that was not.
LEMMA LinksStay ==
    ASSUME F!LinksInv, UNCHANGED <<v1, v10, v11>>, F!Minted' \subseteq F!Minted
    PROVE  F!LinksInv'
  <1>1. F!LinksAged'
    BY DEF F!LinksInv, F!LinksAged, F!Aged
  <1> QED
    BY <1>1 DEF F!LinksInv, F!KeysAreOnce, F!ActiveAgreed

\* One form changes under its key; of the links of others none is new.
LEMMA OneFormChanges ==
    ASSUME F!FormsTyped, F!LinksInv, NEW i \in DOMAIN v1, NEW f \in F!Entries, f.key = v1[i].key,
           v1' = [v1 EXCEPT ![i] = f],
           \A l \in (F!Minted \cup v11)' : l.key # f.key => l \in F!Minted \cup v11 /\ (l \in v11' => l \in v11),
           \A l \in (F!Minted \cup v11)' : l.key = f.key => F!Aged(f, l)',
           \A x \in v10 : x[1] # f.key => x \in v10',
           f.status = "active" => <<f.key, f.rcpt>> \in v10'
    PROVE  F!LinksInv'
  <1>1. DOMAIN v1' = DOMAIN v1 /\ v1'[i] = f /\ \A j \in DOMAIN v1 : j # i => v1'[j] = v1[j]
    BY DEF F!FormsTyped
  <1>2. \A j \in DOMAIN v1 : v1'[j].key = v1[j].key
    BY <1>1
  <1>3. \A j \in DOMAIN v1 : j # i => v1'[j].key # f.key
    BY <1>1 DEF F!LinksInv, F!KeysAreOnce
  <1>4. F!KeysAreOnce'
    BY <1>1, <1>2 DEF F!LinksInv, F!KeysAreOnce
  <1>5. ASSUME NEW j \in DOMAIN v1', NEW l \in (F!Minted \cup v11)', l.key = v1'[j].key
        PROVE  F!Aged(v1[j], l)'
    <2>1. CASE j = i
      BY <1>1, <1>5, <2>1 DEF F!Aged
    <2>2. CASE j # i
      <3>1. v1'[j] = v1[j] /\ l.key # f.key /\ j \in DOMAIN v1
        BY <1>1, <1>3, <1>5, <2>2
      <3>2. F!Aged(v1[j], l) /\ l \in F!Minted \cup v11 /\ (l \in v11' => l \in v11)
        BY <1>5, <3>1 DEF F!LinksInv, F!LinksAged
      <3> QED
        BY <3>1, <3>2 DEF F!Aged
    <2> QED
      BY <2>1, <2>2
  <1>6. F!LinksAged'
    BY <1>5 DEF F!LinksAged
  <1>7. F!ActiveAgreed'
    <2> SUFFICES ASSUME NEW j \in DOMAIN v1', v1'[j].status = "active"
                 PROVE  <<v1'[j].key, v1'[j].rcpt>> \in v10'
      BY DEF F!ActiveAgreed
    <2>1. CASE j = i
      BY <1>1, <2>1
    <2>2. CASE j # i
      BY <1>1, <1>3, <2>2 DEF F!LinksInv, F!ActiveAgreed
    <2> QED
      BY <2>1, <2>2
  <1> QED
    BY <1>4, <1>6, <1>7 DEF F!LinksInv

\* What the owner's requests mint: the link of their form.
LEMMA MintedNext ==
    ASSUME F!FormsTyped, NEW c \in FormCalls, F!Idle(c), NEW l, v4' = [v4 EXCEPT ![c] = l], UNCHANGED v5
    PROVE  F!Minted' \subseteq F!Minted \cup {l}
  BY DEF F!FormsTyped, F!Minted, F!Idle

LEMMA MintedAreLinks == F!FormsTyped => F!Minted \subseteq F!Links
  BY DEF F!FormsTyped, F!Minted

LEMMA AddKeepsLinks ==
    ASSUME F!FormsTyped, F!LinksInv, NEW c \in FormCalls, NEW k \in FormKeys, NEW r \in Some,
           NEW captcha \in BOOLEAN, F!AddForm(c, k, r, captcha)
    PROVE  F!LinksInv'
  <1>0. PICK f, m : /\ f = [key |-> k, rcpt |-> r, status |-> "pending", seq |-> 0, captcha |-> captcha]
                    /\ m = [key |-> k, rcpt |-> r, seq |-> 0]
    OBVIOUS
  <1>1. /\ F!Idle(c) /\ F!Gone(k) /\ v1' = Append(v1, f) /\ v4' = [v4 EXCEPT ![c] = m]
        /\ \A l \in F!Minted \cup v11 : l.key # k
        /\ UNCHANGED <<v5, v10, v11>>
    BY <1>0 DEF F!AddForm, F!LinkOf, F!historyVars
  <1>2. /\ DOMAIN v1' = DOMAIN v1 \cup {Len(v1) + 1} /\ Len(v1) + 1 \notin DOMAIN v1
        /\ v1'[Len(v1) + 1] = f /\ \A j \in DOMAIN v1 : v1'[j] = v1[j] /\ v1[j].key # k
    BY <1>1 DEF F!FormsTyped, F!Gone, F!At
  <1>3. f.key = k /\ f.rcpt = r /\ f.status = "pending" /\ f.seq = 0 /\ m.key = k /\ m.seq = 0
    BY <1>0
  <1>4. F!Minted' \subseteq F!Minted \cup {m}
    BY <1>1, MintedNext
  <1>5. F!KeysAreOnce'
    BY <1>2, <1>3 DEF F!LinksInv, F!KeysAreOnce
  <1>6. ASSUME NEW j \in DOMAIN v1', NEW l \in (F!Minted \cup v11)', l.key = v1'[j].key
        PROVE  F!Aged(v1[j], l)'
    <2>1. CASE j = Len(v1) + 1
      <3>1. l = m /\ l \notin v11
        BY <1>1, <1>2, <1>3, <1>4, <1>6, <2>1
      <3> QED
        BY <1>1, <1>2, <1>3, <2>1, <3>1 DEF F!Aged
    <2>2. CASE j \in DOMAIN v1
      <3>1. v1'[j] = v1[j] /\ l \in F!Minted \cup v11
        BY <1>1, <1>2, <1>3, <1>4, <1>6, <2>2
      <3>2. F!Aged(v1[j], l)
        BY <1>6, <2>2, <3>1 DEF F!LinksInv, F!LinksAged
      <3> QED
        BY <1>1, <3>1, <3>2 DEF F!Aged
    <2> QED
      BY <1>2, <2>1, <2>2
  <1>7. F!LinksAged'
    BY <1>6 DEF F!LinksAged
  <1>8. F!ActiveAgreed'
    BY <1>1, <1>2, <1>3 DEF F!LinksInv, F!ActiveAgreed
  <1> QED
    BY <1>5, <1>7, <1>8 DEF F!LinksInv

\* A form with another recipient or status, and a higher seq.
LEMMA EntryMoves ==
    ASSUME NEW e \in F!Entries, NEW r \in Some, NEW f,
           f = [e EXCEPT !.rcpt = r, !.status = "pending", !.seq = e.seq + 1]
    PROVE  /\ e.seq \in Nat /\ f \in F!Entries
           /\ f.key = e.key /\ f.rcpt = r /\ f.status = "pending" /\ f.seq = e.seq + 1
  <1>1. PICK n \in Nat : n = e.seq + 1 /\ e.seq \in Nat
    BY DEF F!Entries
  <1> QED
    BY <1>1 DEF F!Entries, F!Statuses

LEMMA EntryStops ==
    ASSUME NEW e \in F!Entries, NEW f, f = [e EXCEPT !.status = "stopped", !.seq = e.seq + 1]
    PROVE  /\ e.seq \in Nat /\ f \in F!Entries
           /\ f.key = e.key /\ f.rcpt = e.rcpt /\ f.status = "stopped" /\ f.seq = e.seq + 1
  <1>1. PICK n \in Nat : n = e.seq + 1 /\ e.seq \in Nat
    BY DEF F!Entries
  <1> QED
    BY <1>1 DEF F!Entries, F!Statuses

LEMMA OneEntry ==
    ASSUME NEW t \in Seq(F!Entries), NEW i \in DOMAIN t, NEW f \in F!Entries
    PROVE  [t EXCEPT ![i] = f] \in Seq(F!Entries)
  OBVIOUS

LEMMA ChangeKeepsLinks ==
    ASSUME F!FormsTyped, F!LinksInv, NEW c \in FormCalls, NEW k \in FormKeys, NEW r \in Some,
           F!ChangeRecipient(c, k, r)
    PROVE  F!LinksInv'
  <1>1. PICK i \in DOMAIN v1 : i = F!Find(k) /\ v1[i].key = k /\ v1[i] \in F!Entries
    BY FindIsIt DEF F!ChangeRecipient
  <1>0. PICK f, m : /\ f = [v1[i] EXCEPT !.rcpt = r, !.status = "pending", !.seq = v1[i].seq + 1]
                    /\ m = [key |-> k, rcpt |-> r, seq |-> v1[i].seq + 1]
    OBVIOUS
  <1>2. /\ f \in F!Entries /\ f.key = k /\ f.rcpt = r /\ f.status = "pending" /\ f.seq = v1[i].seq + 1
        /\ m.key = k /\ m.seq = f.seq
    <2>0. PICK e \in F!Entries : e = v1[i]
      BY <1>1
    <2>1. f \in F!Entries /\ f.key = e.key /\ f.rcpt = r /\ f.status = "pending" /\ f.seq = e.seq + 1
      <3>1. f = [e EXCEPT !.rcpt = r, !.status = "pending", !.seq = e.seq + 1]
        BY <1>0, <2>0
      <3>2. f \in F!Entries
        BY <3>1, EntryMoves
      <3>3. f.key = e.key /\ f.rcpt = r /\ f.status = "pending" /\ f.seq = e.seq + 1
        BY <3>1 DEF F!Entries
      <3> QED
        BY <3>2, <3>3
    <2>2. m.key = k /\ m.seq = v1[i].seq + 1
      BY <1>0
    <2> QED
      BY <1>1, <2>0, <2>1, <2>2
  <1>3. /\ F!Idle(c) /\ v1' = [v1 EXCEPT ![i] = f] /\ v4' = [v4 EXCEPT ![c] = m] /\ UNCHANGED v5
        /\ v11' = v11 \cup {l \in F!Minted : l.key = k} /\ v10' = {x \in v10 : x[1] # k}
    BY <1>0, <1>1 DEF F!ChangeRecipient, F!LinkOf, F!Entries
  <1>4. F!Minted' \subseteq F!Minted \cup {m}
    BY <1>3, MintedNext
  <1>5. v1[i].seq \in Nat /\ \A l \in F!Minted \cup v11 : l.seq \in Nat
    BY <1>1, MintedAreLinks DEF F!FormsTyped, F!Entries, F!Links
  <1>6. \A l \in F!Minted \cup v11 : l.key = k => l.seq < f.seq
    BY <1>1, <1>2, <1>5 DEF F!LinksInv, F!LinksAged, F!Aged
  <1>7. m \notin v11'
    BY <1>2, <1>3, <1>5, <1>6
  <1>8. \A l \in (F!Minted \cup v11)' : l.key = f.key => F!Aged(f, l)'
    <2> TAKE l \in (F!Minted \cup v11)'
    <2> HAVE l.key = f.key
    <2>1. CASE l = m
      BY <1>2, <1>5, <1>7, <2>1 DEF F!Aged
    <2>2. CASE l # m
      <3>1. l.seq < f.seq /\ l.seq \in Nat
        BY <1>2, <1>3, <1>4, <1>5, <1>6, <2>2
      <3> QED
        BY <1>2, <1>5, <3>1 DEF F!Aged
    <2> QED
      BY <2>1, <2>2
  <1>9. \A l \in (F!Minted \cup v11)' : l.key # f.key => l \in F!Minted \cup v11 /\ (l \in v11' => l \in v11)
    BY <1>2, <1>3, <1>4
  <1>10. (\A x \in v10 : x[1] # f.key => x \in v10') /\ f.status # "active"
    BY <1>2, <1>3
  <1> QED
    BY <1>1, <1>2, <1>3, <1>8, <1>9, <1>10, OneFormChanges

LEMMA ToggleKeepsLinks ==
    ASSUME F!FormsTyped, F!LinksInv, NEW k \in FormKeys, F!ToggleCaptcha(k)
    PROVE  F!LinksInv'
  <1>1. PICK i \in DOMAIN v1 : i = F!Find(k) /\ v1[i] \in F!Entries
    BY FindIsIt DEF F!ToggleCaptcha
  <1>0. PICK f : f = [v1[i] EXCEPT !.captcha = ~v1[i].captcha]
    OBVIOUS
  <1>2. /\ f \in F!Entries /\ f.key = v1[i].key /\ f.rcpt = v1[i].rcpt /\ f.status = v1[i].status
        /\ f.seq = v1[i].seq
    BY <1>0, <1>1 DEF F!Entries
  <1>3. v1' = [v1 EXCEPT ![i] = f] /\ UNCHANGED <<v4, v5, v10, v11>>
    BY <1>0, <1>1 DEF F!ToggleCaptcha, F!historyVars, F!FormsTyped
  <1>4. F!Minted' = F!Minted
    BY <1>3 DEF F!Minted
  <1>5. \A l \in (F!Minted \cup v11)' : l.key = f.key => F!Aged(f, l)'
    BY <1>2, <1>3, <1>4 DEF F!LinksInv, F!LinksAged, F!Aged
  <1>6. f.status = "active" => <<f.key, f.rcpt>> \in v10'
    BY <1>2, <1>3 DEF F!LinksInv, F!ActiveAgreed
  <1> QED
    BY <1>1, <1>2, <1>3, <1>4, <1>5, <1>6, OneFormChanges

\* The forms after a deleted one move up.
LEMMA FormsMoveUp ==
    ASSUME F!FormsTyped, NEW i \in DOMAIN v1
    PROVE  LET t == F!Without(v1, i)
               At(j) == IF j < i THEN j ELSE j + 1
           IN  /\ t \in Seq(F!Entries)
               /\ \A j \in DOMAIN t : At(j) \in DOMAIN v1 /\ t[j] = v1[At(j)]
               /\ \A j, n \in DOMAIN t : At(j) = At(n) => j = n
  <1>1. v1 \in Seq(F!Entries) /\ i \in 1 .. Len(v1)
    BY DEF F!FormsTyped
  <1>2. SubSeq(v1, 1, i - 1) \in Seq(F!Entries) /\ SubSeq(v1, i + 1, Len(v1)) \in Seq(F!Entries)
    BY <1>1
  <1>3. Len(SubSeq(v1, 1, i - 1)) = i - 1 /\ Len(SubSeq(v1, i + 1, Len(v1))) = Len(v1) - i
    BY <1>1
  <1>4. PICK p, s : /\ p = SubSeq(v1, 1, i - 1) /\ s = SubSeq(v1, i + 1, Len(v1))
                    /\ F!Without(v1, i) = p \o s
    BY DEF F!Without
  <1>5. /\ p \in Seq(F!Entries) /\ Len(p) = i - 1 /\ \A j \in 1 .. i - 1 : p[j] = v1[j]
        /\ s \in Seq(F!Entries) /\ Len(s) = Len(v1) - i /\ \A j \in 1 .. Len(v1) - i : s[j] = v1[j + i]
    <2>1. p \in Seq(F!Entries) /\ Len(p) = i - 1 /\ s \in Seq(F!Entries) /\ Len(s) = Len(v1) - i
      BY <1>2, <1>3, <1>4
    <2>2. ASSUME NEW j \in 1 .. i - 1 PROVE p[j] = v1[j]
      <3>1. SubSeq(v1, 1, i - 1)[j] = v1[1 + j - 1]
        BY SMTT(30), <1>1, <1>3
      <3>2. 1 + j - 1 = j
        OBVIOUS
      <3> QED
        BY <1>4, <3>1, <3>2
    <2>3. ASSUME NEW j \in 1 .. Len(v1) - i PROVE s[j] = v1[j + i]
      <3>1. SubSeq(v1, i + 1, Len(v1))[j] = v1[(i + 1) + j - 1]
        BY SMTT(30), <1>1, <1>3
      <3>2. (i + 1) + j - 1 = j + i
        BY <1>1
      <3> QED
        BY <1>4, <3>1, <3>2
    <2> QED
      BY <2>1, <2>2, <2>3
  <1>6. p \o s \in Seq(F!Entries) /\ Len(p \o s) = Len(v1) - 1
    BY <1>1, <1>5
  <1>7. ASSUME NEW j \in 1 .. Len(v1) - 1
        PROVE  (p \o s)[j] = v1[IF j < i THEN j ELSE j + 1]
    <2>1. CASE j < i
      BY <1>1, <1>5, <1>7, <2>1
    <2>2. CASE ~(j < i)
      <3>1. (p \o s)[j] = s[j - (i - 1)] /\ j - (i - 1) \in 1 .. Len(v1) - i
        BY <1>1, <1>5, <1>7, <2>2
      <3>2. s[j - (i - 1)] = v1[(j - (i - 1)) + i]
        BY <1>5, <3>1
      <3> QED
        BY <1>1, <1>7, <2>2, <3>1, <3>2
    <2> QED
      BY <2>1, <2>2
  <1>8. DOMAIN F!Without(v1, i) = 1 .. Len(v1) - 1
    BY <1>4, <1>6
  <1>9. \A j \in 1 .. Len(v1) - 1 : (IF j < i THEN j ELSE j + 1) \in DOMAIN v1
    BY <1>1
  <1>10. \A j, n \in 1 .. Len(v1) - 1 : (IF j < i THEN j ELSE j + 1) = (IF n < i THEN n ELSE n + 1) => j = n
    BY <1>1
  <1>11. \A j \in DOMAIN F!Without(v1, i) : F!Without(v1, i)[j] = v1[IF j < i THEN j ELSE j + 1]
    BY <1>4, <1>7, <1>8
  <1> QED
    BY <1>4, <1>6, <1>8, <1>9, <1>10, <1>11

LEMMA DeleteKeepsLinks ==
    ASSUME F!FormsTyped, F!LinksInv, NEW k \in FormKeys, F!DeleteForm(k)
    PROVE  F!LinksInv'
  <1>1. PICK i \in DOMAIN v1 : v1' = F!Without(v1, i)
    BY FindIsIt DEF F!DeleteForm
  <1>2. UNCHANGED <<v4, v5, v10, v11>>
    BY DEF F!DeleteForm, F!historyVars
  <1> DEFINE From(j) == IF j < i THEN j ELSE j + 1
  <1>3. /\ \A j \in DOMAIN v1' : From(j) \in DOMAIN v1 /\ v1'[j] = v1[From(j)]
        /\ \A j, n \in DOMAIN v1' : From(j) = From(n) => j = n
    BY <1>1, FormsMoveUp
  <1>4. F!Minted' = F!Minted
    BY <1>2 DEF F!Minted
  <1> HIDE DEF From
  <1>5. F!KeysAreOnce'
    BY <1>3 DEF F!LinksInv, F!KeysAreOnce
  <1>6. ASSUME NEW j \in DOMAIN v1', NEW l \in (F!Minted \cup v11)', l.key = v1'[j].key
        PROVE  F!Aged(v1[j], l)'
    <2>1. F!Aged(v1[From(j)], l)
      BY <1>2, <1>3, <1>4, <1>6 DEF F!LinksInv, F!LinksAged
    <2> QED
      BY <1>2, <1>3, <2>1 DEF F!Aged
  <1>7. F!LinksAged'
    BY <1>6 DEF F!LinksAged
  <1>8. F!ActiveAgreed'
    BY <1>2, <1>3 DEF F!LinksInv, F!ActiveAgreed
  <1> QED
    BY <1>5, <1>7, <1>8 DEF F!LinksInv

LEMMA ResendKeepsLinks ==
    ASSUME F!FormsTyped, F!LinksInv, NEW c \in FormCalls, NEW k \in FormKeys, F!Resend(c, k)
    PROVE  F!LinksInv'
  <1>1. PICK i \in DOMAIN v1 : i = F!Find(k) /\ v1[i].key = k /\ v1[i] \in F!Entries
    BY FindIsIt DEF F!Resend
  <1>0. PICK f, m : /\ f = [v1[i] EXCEPT !.status = "pending"]
                    /\ m = [key |-> k, rcpt |-> v1[i].rcpt, seq |-> v1[i].seq]
    OBVIOUS
  <1>2. /\ f \in F!Entries /\ f.key = k /\ f.rcpt = v1[i].rcpt /\ f.status = "pending" /\ f.seq = v1[i].seq
        /\ m.key = k /\ m.seq = f.seq /\ m.rcpt = f.rcpt /\ f.seq \in Nat
    BY <1>0, <1>1 DEF F!Entries, F!Statuses
  <1>3. /\ F!Idle(c) /\ v1' = [v1 EXCEPT ![i] = f] /\ v4' = [v4 EXCEPT ![c] = m] /\ UNCHANGED <<v5, v10, v11>>
    BY <1>0, <1>1 DEF F!Resend, F!LinkOf, F!Entries, F!historyVars
  <1>4. F!Minted' \subseteq F!Minted \cup {m}
    BY <1>3, MintedNext
  <1>5. \A l \in F!Minted \cup v11 : l.key = k => F!Aged(v1[i], l)
    BY <1>1 DEF F!LinksInv, F!LinksAged
  <1>6. m \notin v11
    BY <1>1, <1>2, <1>5 DEF F!Aged
  <1>7. \A l \in (F!Minted \cup v11)' : l.key = f.key => F!Aged(f, l)'
    BY <1>2, <1>3, <1>4, <1>5, <1>6 DEF F!Aged
  <1> QED
    BY <1>1, <1>2, <1>3, <1>4, <1>7, OneFormChanges

\* Only a link that is neither void nor older than its form opens it.
LEMMA ConfirmKeepsLinks ==
    ASSUME F!FormsTyped, F!LinksInv, NEW l \in v5, F!ConfirmForm(l)
    PROVE  F!LinksInv'
  <1>1. PICK i \in DOMAIN v1 : i = F!Find(l.key) /\ v1[i].key = l.key /\ v1[i] \in F!Entries
    BY FindIsIt DEF F!ConfirmForm
  <1>0. PICK f : f = [v1[i] EXCEPT !.status = "active"]
    OBVIOUS
  <1>2. /\ f \in F!Entries /\ f.key = l.key /\ f.rcpt = v1[i].rcpt /\ f.status = "active" /\ f.seq = v1[i].seq
    BY <1>0, <1>1 DEF F!Entries, F!Statuses
  <1>3. /\ v1' = [v1 EXCEPT ![i] = f] /\ UNCHANGED <<v4, v5, v11>>
        /\ v1[i].status = "pending" /\ v1[i].rcpt = l.rcpt /\ v1[i].seq = l.seq
        /\ v10' = IF l \in v11 THEN v10 ELSE v10 \cup {<<l.key, l.rcpt>>}
    BY <1>0, <1>1 DEF F!ConfirmForm, F!Stale
  <1>4. F!Minted' = F!Minted /\ l \in F!Minted
    BY <1>3 DEF F!Minted
  <1>5. \A x \in F!Minted \cup v11 : x.key = l.key => F!Aged(v1[i], x)
    BY <1>1 DEF F!LinksInv, F!LinksAged
  <1>6. l \notin v11
    BY <1>1, <1>3, <1>4, <1>5 DEF F!Aged, F!Entries
  <1>7. \A x \in (F!Minted \cup v11)' : x.key = f.key => F!Aged(f, x)'
    BY <1>2, <1>3, <1>4, <1>5 DEF F!Aged
  <1> QED
    BY <1>1, <1>2, <1>3, <1>4, <1>6, <1>7, OneFormChanges

\* A stop makes every link of its recipient void, also one that is not his
\* form's any more.
LEMMA StopKeepsLinks ==
    ASSUME F!FormsTyped, F!LinksInv, NEW k \in FormKeys, NEW r \in Some, F!StopForm(k, r)
    PROVE  F!LinksInv'
  <1>1. /\ UNCHANGED <<v4, v5>> /\ v10' = v10 \ {<<k, r>>}
        /\ v11' = v11 \cup {l \in F!Minted : l.key = k /\ l.rcpt = r}
    BY DEF F!StopForm
  <1>2. F!Minted' = F!Minted
    BY <1>1 DEF F!Minted
  <1>3. \A l \in F!Minted \cup v11 : l.seq \in Nat
    BY MintedAreLinks DEF F!FormsTyped, F!Links
  <1>4. CASE ~F!Gone(k) /\ v1[F!Find(k)].rcpt = r /\ v1[F!Find(k)].status # "stopped"
    <2>1. PICK i \in DOMAIN v1 : i = F!Find(k) /\ v1[i].key = k /\ v1[i] \in F!Entries
      BY <1>4, FindIsIt
    <2>0. PICK f : f = [v1[i] EXCEPT !.status = "stopped", !.seq = v1[i].seq + 1]
      OBVIOUS
    <2>2. /\ f \in F!Entries /\ f.key = k /\ f.status = "stopped" /\ f.seq = v1[i].seq + 1 /\ v1[i].seq \in Nat
      BY <2>0, <2>1, EntryStops
    <2>3. v1' = [v1 EXCEPT ![i] = f]
      BY <1>4, <2>0, <2>1 DEF F!StopForm
    <2>4. \A l \in F!Minted \cup v11 : l.key = k => l.seq < f.seq
      BY <1>3, <2>1, <2>2 DEF F!LinksInv, F!LinksAged, F!Aged
    <2>5. \A l \in (F!Minted \cup v11)' : l.key = f.key => F!Aged(f, l)'
      BY <1>1, <1>2, <1>3, <2>2, <2>4 DEF F!Aged
    <2>6. \A l \in (F!Minted \cup v11)' : l.key # f.key => l \in F!Minted \cup v11 /\ (l \in v11' => l \in v11)
      BY <1>1, <1>2, <2>2
    <2>7. (\A x \in v10 : x[1] # f.key => x \in v10') /\ f.status # "active"
      BY <1>1, <2>2
    <2> QED
      BY <2>1, <2>2, <2>3, <2>5, <2>6, <2>7, OneFormChanges
  <1>5. CASE ~(~F!Gone(k) /\ v1[F!Find(k)].rcpt = r /\ v1[F!Find(k)].status # "stopped")
    <2>1. UNCHANGED v1
      BY <1>5 DEF F!StopForm
    <2>2. \A i \in DOMAIN v1 : v1[i].key = k => v1[i].rcpt # r \/ v1[i].status = "stopped"
      <3> TAKE i \in DOMAIN v1
      <3> HAVE v1[i].key = k
      <3>1. ~F!Gone(k)
        BY DEF F!Gone, F!At
      <3>2. i = F!Find(k)
        BY <3>1, FindIsIt DEF F!LinksInv, F!KeysAreOnce
      <3> QED
        BY <1>5, <3>1, <3>2
    <2>3. ASSUME NEW i \in DOMAIN v1', NEW l \in (F!Minted \cup v11)', l.key = v1'[i].key
          PROVE  F!Aged(v1[i], l)'
      <3>1. F!Aged(v1[i], l)
        BY <1>1, <1>2, <2>1, <2>3 DEF F!LinksInv, F!LinksAged
      <3> QED
        BY <1>1, <2>1, <2>2, <2>3, <3>1 DEF F!Aged
    <2>4. F!LinksAged'
      BY <2>3 DEF F!LinksAged
    <2>5. F!ActiveAgreed'
      BY <1>1, <2>1, <2>2 DEF F!LinksInv, F!ActiveAgreed
    <2> QED
      BY <2>1, <2>4, <2>5 DEF F!LinksInv, F!KeysAreOnce
  <1> QED
    BY <1>4, <1>5

(***************************************************************************)
(* Posts and solutions.                                                    *)
(***************************************************************************)

\* Nothing is read, sent or spent.
LEMMA MailsStay ==
    ASSUME F!MailsInv, F!PostsAgreed, UNCHANGED <<v7, v9, v12, v13>>
    PROVE  F!MailsInv' /\ F!PostsAgreed'
  BY DEF F!MailsInv, F!PostsAgreed, F!Solved, F!Spent, F!Sends

\* A post ends: what it had spent may come back.
LEMMA PostEnds ==
    ASSUME F!FormsTyped, F!MailsInv, F!PostsAgreed, NEW p \in Others,
           v7' = [v7 EXCEPT ![p] = F!NoPost], v9' \subseteq v9,
           \A s \in FormSolutions : s \in v9 \ v9' => F!Sends(p, s) /\ v12'[s] <= v13'[s],
           \A s \in FormSolutions : \/ v12'[s] = v12[s] /\ v13'[s] = v13[s]
                                    \/ F!Sends(p, s) /\ v12'[s] <= 1 + v13'[s]
    PROVE  F!MailsInv' /\ F!PostsAgreed'
  <1>1. v7'[p].at = "none" /\ \A q \in Others : q # p => v7'[q] = v7[q]
    BY DEF F!FormsTyped, F!NoPost
  <1>2. F!PostsAgreed' /\ F!Solved'
    BY <1>1 DEF F!PostsAgreed, F!MailsInv, F!Solved
  <1>3. ASSUME NEW s \in FormSolutions PROVE F!Spent(s)'
    <2>1. F!Spent(s)
      BY DEF F!MailsInv
    <2>2. \A q \in Others : F!Sends(q, s)' => q # p /\ F!Sends(q, s)
      BY <1>1 DEF F!Sends
    <2>3. F!Sends(p, s) => \A q \in Others : ~F!Sends(q, s)'
      BY <2>1, <2>2 DEF F!Spent
    <2>4. CASE F!Sends(p, s)
      BY <2>1, <2>3, <2>4 DEF F!Spent
    <2>5. CASE ~F!Sends(p, s)
      BY <2>1, <2>2, <2>5 DEF F!Spent
    <2> QED
      BY <2>4, <2>5
  <1> QED
    BY <1>2, <1>3 DEF F!MailsInv

LEMMA SubmitKeepsMails ==
    ASSUME F!FormsTyped, F!LinksInv, F!MailsInv, F!PostsAgreed, NEW p \in Others, NEW k \in FormKeys,
           NEW s \in FormSolutions \cup {None}, F!Submit(p, k, s)
    PROVE  F!MailsInv' /\ F!PostsAgreed'
  <1>1. PICK i \in DOMAIN v1 : i = F!Find(k) /\ v1[i].key = k /\ v1[i].status = "active"
    BY FindIsIt DEF F!Submit, F!Open
  <1>2. PICK r : r = [at |-> "read", form |-> v1[i], sol |-> s, agreed |-> <<k, v1[i].rcpt>> \in v10]
    OBVIOUS
  <1>3. r.at = "read" /\ r.form = v1[i] /\ r.sol = s /\ r.agreed = (<<k, v1[i].rcpt>> \in v10)
    BY <1>2
  <1>4. /\ v7' = [v7 EXCEPT ![p] = r] /\ UNCHANGED <<v9, v12, v13>>
        /\ ~v1[i].captcha => s = None
    BY <1>1, <1>2 DEF F!Submit, F!captchaVars
  <1>5. v7'[p] = r /\ \A q \in Others : q # p => v7'[q] = v7[q]
    BY <1>4 DEF F!FormsTyped
  <1>6. r.agreed
    BY <1>1, <1>3 DEF F!LinksInv, F!ActiveAgreed
  <1>7. F!PostsAgreed' /\ F!Solved'
    BY <1>3, <1>4, <1>5, <1>6 DEF F!PostsAgreed, F!MailsInv, F!Solved
  <1>8. ASSUME NEW x \in FormSolutions PROVE F!Spent(x)'
    <2>1. \A q \in Others : F!Sends(q, x)' => F!Sends(q, x)
      BY <1>3, <1>5 DEF F!Sends
    <2> QED
      BY <1>4, <2>1 DEF F!MailsInv, F!Spent
  <1> QED
    BY <1>7, <1>8 DEF F!MailsInv

\* A solution is spent by the one post that is to be mailed for it.
LEMMA VerifyKeepsMails ==
    ASSUME F!FormsTyped, F!MailsInv, F!PostsAgreed, NEW p \in Others, F!Verify(p)
    PROVE  F!MailsInv' /\ F!PostsAgreed'
  <1>1. v7[p].at = "read" /\ UNCHANGED <<v12, v13>>
    BY DEF F!Verify
  <1>2. CASE v7' = [v7 EXCEPT ![p] = F!NoPost] /\ v9' = v9
    BY <1>1, <1>2, PostEnds
  <1>3. CASE ~(v7' = [v7 EXCEPT ![p] = F!NoPost] /\ v9' = v9)
    <2>1. PICK s : s = v7[p].sol
      OBVIOUS
    <2>2. PICK r : r = [v7[p] EXCEPT !.at = "send"]
      OBVIOUS
    <2>3. v7[p] \in F!Read
      BY <1>1 DEF F!FormsTyped, F!NoPost
    <2>4. r.at = "send" /\ r.form = v7[p].form /\ r.sol = s /\ r.agreed = v7[p].agreed /\ s \in FormSolutions \cup {None}
      BY <2>1, <2>2, <2>3 DEF F!Read
    <2>5. /\ v7' = [v7 EXCEPT ![p] = r] /\ v9' = IF s # None THEN v9 \cup {s} ELSE v9
          /\ ~v7[p].form.captcha \/ s \notin v9
      BY <1>3, <2>1, <2>2 DEF F!Verify
    <2>6. v7'[p] = r /\ \A q \in Others : q # p => v7'[q] = v7[q]
      BY <2>5 DEF F!FormsTyped
    <2>7. F!PostsAgreed' /\ F!Solved'
      BY <1>1, <2>1, <2>4, <2>6 DEF F!PostsAgreed, F!MailsInv, F!Solved
    <2>8. ASSUME NEW x \in FormSolutions PROVE F!Spent(x)'
      <3>1. F!Spent(x) /\ x # None
        BY FormsConstants DEF F!MailsInv
      <3>2. CASE x = s
        <4>1. v7[p].form.captcha /\ s \notin v9
          BY <1>1, <2>1, <2>5, <3>1, <3>2 DEF F!MailsInv, F!Solved
        <4>2. \A q \in Others : ~F!Sends(q, x)
          BY <3>1, <3>2, <4>1 DEF F!Spent
        <4>3. \A q \in Others : F!Sends(q, x)' => q = p
          BY <2>6, <4>2 DEF F!Sends
        <4>4. x \in v9' /\ v12[x] <= v13[x]
          BY <2>5, <3>1, <3>2, <4>1 DEF F!Spent
        <4> QED
          BY <1>1, <3>1, <4>3, <4>4 DEF F!Spent
      <3>3. CASE x # s
        <4>1. \A q \in Others : F!Sends(q, x)' => F!Sends(q, x)
          BY <2>4, <2>6, <3>3 DEF F!Sends
        <4>2. x \in v9' <=> x \in v9
          BY <2>5, <3>3
        <4> QED
          BY <1>1, <3>1, <4>1, <4>2 DEF F!Spent
      <3> QED
        BY <3>2, <3>3
    <2> QED
      BY <2>7, <2>8 DEF F!MailsInv
  <1> QED
    BY <1>2, <1>3

LEMMA CountsOne ==
    ASSUME NEW f \in [FormSolutions -> Nat], NEW s \in FormSolutions \cup {None}
    PROVE  /\ F!Count(s, f) \in [FormSolutions -> Nat]
           /\ \A x \in FormSolutions : F!Count(s, f)[x] = IF x = s THEN f[x] + 1 ELSE f[x]
  BY FormsConstants DEF F!Count

LEMMA ReleaseKeepsMails ==
    ASSUME F!FormsTyped, F!MailsInv, F!PostsAgreed, NEW p \in Others, F!Release(p)
    PROVE  F!MailsInv' /\ F!PostsAgreed'
  <1>1. /\ v7[p].at = "send" /\ v7' = [v7 EXCEPT ![p] = F!NoPost] /\ v9' = v9 \ {v7[p].sol}
        /\ UNCHANGED <<v12, v13>>
    BY DEF F!Release
  <1>2. \A s \in FormSolutions : s \in v9 \ v9' => F!Sends(p, s) /\ v12'[s] <= v13'[s]
    BY <1>1 DEF F!Sends, F!MailsInv, F!Spent
  <1> QED
    BY <1>1, <1>2, PostEnds

\* A lost answer excuses the message that a second use of the solution mails.
LEMMA SendKeepsMails ==
    ASSUME F!FormsTyped, F!MailsInv, F!PostsAgreed, NEW p \in Others, F!Send(p)
    PROVE  F!MailsInv' /\ F!PostsAgreed'
  <1>1. PICK s : s = v7[p].sol
    OBVIOUS
  <1>2. PICK delivered, told \in BOOLEAN :
           /\ v9' = IF delivered /\ told THEN v9 ELSE v9 \ {s}
           /\ v12' = IF delivered THEN F!Count(s, v12) ELSE v12
           /\ v13' = IF delivered /\ ~told THEN F!Count(s, v13) ELSE v13
    BY <1>1 DEF F!Send
  <1>3. v7[p].at = "send" /\ v7' = [v7 EXCEPT ![p] = F!NoPost] /\ s \in FormSolutions \cup {None}
    BY <1>1 DEF F!Send, F!FormsTyped, F!NoPost, F!Read
  <1>4. v12 \in [FormSolutions -> Nat] /\ v13 \in [FormSolutions -> Nat]
    BY DEF F!FormsTyped
  <1>5. \A x \in FormSolutions : F!Sends(p, x) <=> x = s
    BY <1>1, <1>3 DEF F!Sends
  <1>6. ASSUME NEW x \in FormSolutions, x # s PROVE v12'[x] = v12[x] /\ v13'[x] = v13[x]
    BY <1>2, <1>3, <1>4, <1>6, CountsOne
  <1>7. ASSUME s \in FormSolutions
        PROVE  v12'[s] <= 1 + v13'[s] /\ (s \notin v9' => v12'[s] <= v13'[s])
    <2>1. v12[s] <= v13[s] /\ s \in v9 /\ v12[s] \in Nat /\ v13[s] \in Nat
      BY <1>4, <1>5, <1>7 DEF F!MailsInv, F!Spent
    <2>2. F!Count(s, v12)[s] = v12[s] + 1 /\ F!Count(s, v13)[s] = v13[s] + 1
      BY <1>4, <1>7, CountsOne
    <2> QED
      BY <1>2, <2>1, <2>2
  <1>8. \A x \in FormSolutions : x \in v9 \ v9' => F!Sends(p, x) /\ v12'[x] <= v13'[x]
    BY <1>2, <1>5, <1>7
  <1>9. \A x \in FormSolutions : \/ v12'[x] = v12[x] /\ v13'[x] = v13[x]
                                 \/ F!Sends(p, x) /\ v12'[x] <= 1 + v13'[x]
    BY <1>5, <1>6, <1>7
  <1>10. v9' \subseteq v9
    BY <1>2
  <1> QED
    BY <1>3, <1>8, <1>9, <1>10, PostEnds

LEMMA RestartKeepsMails ==
    ASSUME F!FormsTyped, F!MailsInv, F!PostsAgreed, F!Restart
    PROVE  F!MailsInv' /\ F!PostsAgreed'
  <1>1. /\ \A p \in Others : v7'[p].at = "none"
        /\ v9' = {} /\ UNCHANGED v12
        /\ \A s \in FormSolutions : v13'[s] = v13[s] + (IF s \in v9 THEN 1 ELSE 0)
    BY DEF F!Restart, F!NoPost
  <1>2. ASSUME NEW s \in FormSolutions PROVE F!Spent(s)'
    <2>1. v12[s] \in Nat /\ v13[s] \in Nat /\ F!Spent(s)
      BY DEF F!FormsTyped, F!MailsInv
    <2>2. v12[s] <= v13'[s] /\ v13'[s] \in Nat
      BY <1>1, <2>1 DEF F!Spent
    <2> QED
      BY <1>1, <2>1, <2>2 DEF F!Spent, F!Sends
  <1> QED
    BY <1>1, <1>2 DEF F!MailsInv, F!PostsAgreed, F!Solved

(***************************************************************************)
(* Types, and the steps.                                                   *)
(***************************************************************************)

\* A form is another form, or a request's link a new one.
LEMMA FormsTypedOwner ==
    ASSUME F!FormsTyped,
           \/ \E c \in FormCalls, k \in FormKeys, r \in Some :
                 F!ChangeRecipient(c, k, r) \/ \E captcha \in BOOLEAN : F!AddForm(c, k, r, captcha)
           \/ \E c \in FormCalls, k \in FormKeys : F!Resend(c, k)
           \/ \E k \in FormKeys : F!ToggleCaptcha(k) \/ F!DeleteForm(k)
           \/ \E c \in FormCalls : F!SendConfirmation(c)
    PROVE  F!FormsTyped'
  <1>0. /\ v1 \in Seq(F!Entries) /\ v4 \in [FormCalls -> F!Links \cup {F!NoLink}]
        /\ v5 \subseteq F!Links /\ v11 \subseteq F!Links /\ F!Minted \subseteq F!Links
    BY MintedAreLinks DEF F!FormsTyped
  <1>1. ASSUME NEW c \in FormCalls, NEW k \in FormKeys, NEW r \in Some, F!ChangeRecipient(c, k, r)
        PROVE  F!FormsTyped'
    <2>1. PICK i \in DOMAIN v1 : i = F!Find(k) /\ v1[i].key = k /\ v1[i] \in F!Entries
      BY <1>1, FindIsIt DEF F!ChangeRecipient
    <2>2. PICK f : f = [v1[i] EXCEPT !.rcpt = r, !.status = "pending", !.seq = v1[i].seq + 1]
      OBVIOUS
    <2>3. f \in F!Entries /\ F!LinkOf(f) \in F!Links
      <3>1. PICK e \in F!Entries : e = v1[i]
        BY <2>1
      <3>2. f = [e EXCEPT !.rcpt = r, !.status = "pending", !.seq = e.seq + 1]
        BY <2>2, <3>1
      <3>3. f \in F!Entries
        BY <3>2, EntryMoves
      <3> QED
        BY <3>3 DEF F!LinkOf, F!Links, F!Entries
    <2>4. /\ v1' = [v1 EXCEPT ![i] = f] /\ v4' = [v4 EXCEPT ![c] = F!LinkOf(f)]
          /\ v11' = v11 \cup {l \in F!Minted : l.key = k} /\ v10' = {x \in v10 : x[1] # k}
      BY <1>1, <2>1, <2>2 DEF F!ChangeRecipient
    <2>5. v1' \in Seq(F!Entries)
      BY <1>0, <2>3, <2>4, OneEntry
    <2>6. v4' \in [FormCalls -> F!Links \cup {F!NoLink}] /\ v10' \subseteq v10 /\ v11' \subseteq F!Links
      BY <1>0, <2>3, <2>4
    <2> QED
      BY <1>1, <2>5, <2>6 DEF F!FormsTyped, F!ChangeRecipient, F!captchaVars
  <1>2. ASSUME NEW c \in FormCalls, NEW k \in FormKeys, NEW r \in Some, NEW captcha \in BOOLEAN,
               F!AddForm(c, k, r, captcha)
        PROVE  F!FormsTyped'
    <2>1. PICK f : f = [key |-> k, rcpt |-> r, status |-> "pending", seq |-> 0, captcha |-> captcha]
      OBVIOUS
    <2>2. f \in F!Entries /\ F!LinkOf(f) \in F!Links
      BY <2>1 DEF F!LinkOf, F!Links, F!Entries, F!Statuses
    <2>3. v1' \in Seq(F!Entries) /\ v4' \in [FormCalls -> F!Links \cup {F!NoLink}]
      BY <1>0, <1>2, <2>1, <2>2 DEF F!AddForm
    <2> QED
      BY <1>2, <2>3 DEF F!FormsTyped, F!AddForm, F!captchaVars, F!historyVars
  <1>3. ASSUME NEW c \in FormCalls, NEW k \in FormKeys, F!Resend(c, k)
        PROVE  F!FormsTyped'
    <2>1. PICK i \in DOMAIN v1 : i = F!Find(k) /\ v1[i].key = k /\ v1[i] \in F!Entries
      BY <1>3, FindIsIt DEF F!Resend
    <2>2. PICK f : f = [v1[i] EXCEPT !.status = "pending"]
      OBVIOUS
    <2>3. f \in F!Entries /\ F!LinkOf(f) \in F!Links
      BY <2>1, <2>2 DEF F!LinkOf, F!Links, F!Entries, F!Statuses
    <2>4. v1' \in Seq(F!Entries) /\ v4' \in [FormCalls -> F!Links \cup {F!NoLink}]
      BY <1>0, <1>3, <2>1, <2>2, <2>3 DEF F!Resend
    <2> QED
      BY <1>3, <2>4 DEF F!FormsTyped, F!Resend, F!captchaVars, F!historyVars
  <1>4. ASSUME NEW k \in FormKeys, F!ToggleCaptcha(k)
        PROVE  F!FormsTyped'
    <2>1. PICK i \in DOMAIN v1 : i = F!Find(k) /\ v1[i] \in F!Entries
      BY <1>4, FindIsIt DEF F!ToggleCaptcha
    <2>2. PICK f : f = [v1[i] EXCEPT !.captcha = ~v1[i].captcha]
      OBVIOUS
    <2>3. f \in F!Entries
      BY <2>1, <2>2 DEF F!Entries
    <2>4. v1' = [v1 EXCEPT ![i] = f]
      BY <1>0, <1>4, <2>1, <2>2 DEF F!ToggleCaptcha
    <2>5. v1' \in Seq(F!Entries)
      BY <1>0, <2>1, <2>3, <2>4
    <2> QED
      BY <1>4, <2>5 DEF F!FormsTyped, F!ToggleCaptcha, F!captchaVars, F!historyVars
  <1>5. ASSUME NEW k \in FormKeys, F!DeleteForm(k)
        PROVE  F!FormsTyped'
    <2>1. v1' \in Seq(F!Entries)
      BY <1>5, FindIsIt, FormsMoveUp DEF F!DeleteForm
    <2> QED
      BY <1>5, <2>1 DEF F!FormsTyped, F!DeleteForm, F!captchaVars, F!historyVars
  <1>6. ASSUME NEW c \in FormCalls, F!SendConfirmation(c)
        PROVE  F!FormsTyped'
    <2>1. v4[c] \in F!Links /\ (v5' = v5 \/ v5' = v5 \cup {v4[c]}) /\ v4' = [v4 EXCEPT ![c] = F!NoLink]
      BY <1>0, <1>6 DEF F!SendConfirmation, F!Idle
    <2>2. v5' \subseteq F!Links /\ v4' \in [FormCalls -> F!Links \cup {F!NoLink}]
      BY <1>0, <2>1
    <2> QED
      BY <1>6, <2>2 DEF F!FormsTyped, F!SendConfirmation, F!captchaVars, F!historyVars
  <1> QED
    BY <1>1, <1>2, <1>3, <1>4, <1>5, <1>6

LEMMA FormsTypedOthers ==
    ASSUME F!FormsTyped,
           \/ \E l \in v5 : F!ConfirmForm(l)
           \/ \E k \in FormKeys, r \in Some : F!StopForm(k, r)
           \/ \E k \in FormKeys, s \in FormSolutions : F!Challenge(k, s)
           \/ \E p \in Others, k \in FormKeys, s \in FormSolutions \cup {None} : F!Submit(p, k, s)
           \/ \E p \in Others : F!Refuse(p) \/ F!Verify(p) \/ F!Release(p) \/ F!Send(p)
           \/ F!PlanOrTrust \/ F!LockOrExpiry \/ F!Restart
    PROVE  F!FormsTyped'
  <1>0. /\ v1 \in Seq(F!Entries) /\ v7 \in [Others -> F!Read \cup {F!NoPost}]
        /\ v5 \subseteq F!Links /\ v11 \subseteq F!Links /\ F!Minted \subseteq F!Links
        /\ v12 \in [FormSolutions -> Nat] /\ v13 \in [FormSolutions -> Nat]
    BY MintedAreLinks DEF F!FormsTyped
  <1>1. ASSUME NEW l \in v5, F!ConfirmForm(l)
        PROVE  F!FormsTyped'
    <2>1. PICK i \in DOMAIN v1 : i = F!Find(l.key) /\ v1[i] \in F!Entries
      BY <1>1, FindIsIt DEF F!ConfirmForm
    <2>2. PICK f : f = [v1[i] EXCEPT !.status = "active"]
      OBVIOUS
    <2>3. f \in F!Entries
      BY <2>1, <2>2 DEF F!Entries, F!Statuses
    <2>4. v1' = [v1 EXCEPT ![i] = f]
      BY <1>0, <1>1, <2>1, <2>2 DEF F!ConfirmForm
    <2>5. v1' \in Seq(F!Entries) /\ <<l.key, l.rcpt>> \in FormKeys \X Some
      BY <1>0, <2>1, <2>3, <2>4 DEF F!Links
    <2> QED
      BY <1>1, <2>5 DEF F!FormsTyped, F!ConfirmForm, F!captchaVars
  <1>2. ASSUME NEW k \in FormKeys, NEW r \in Some, F!StopForm(k, r)
        PROVE  F!FormsTyped'
    <2>1. v1' \in Seq(F!Entries)
      <3>1. CASE ~F!Gone(k)
        <4>1. PICK i \in DOMAIN v1 : i = F!Find(k) /\ v1[i] \in F!Entries
          BY <3>1, FindIsIt
        <4>2. PICK f : f = [v1[i] EXCEPT !.status = "stopped", !.seq = v1[i].seq + 1]
          OBVIOUS
        <4>3. f \in F!Entries
          BY <4>1, <4>2, EntryStops
        <4>4. v1' = v1 \/ v1' = [v1 EXCEPT ![i] = f]
          BY <1>2, <4>1, <4>2 DEF F!StopForm
        <4> QED
          BY <1>0, <4>3, <4>4, OneEntry
      <3>2. CASE F!Gone(k)
        BY <1>0, <1>2, <3>2 DEF F!StopForm
      <3> QED
        BY <3>1, <3>2
    <2>2. v10' \subseteq v10 /\ v11' \subseteq F!Links
      BY <1>0, <1>2 DEF F!StopForm
    <2> QED
      BY <1>2, <2>1, <2>2 DEF F!FormsTyped, F!StopForm, F!captchaVars
  <1>3. ASSUME NEW k \in FormKeys, NEW s \in FormSolutions, F!Challenge(k, s)
        PROVE  F!FormsTyped'
    BY <1>3 DEF F!FormsTyped, F!Challenge, F!historyVars
  <1>4. ASSUME NEW p \in Others, NEW k \in FormKeys, NEW s \in FormSolutions \cup {None}, F!Submit(p, k, s)
        PROVE  F!FormsTyped'
    <2>1. v1[F!Find(k)] \in F!Entries
      BY <1>4, FindIsIt DEF F!Submit
    <2>2. [at |-> "read", form |-> v1[F!Find(k)], sol |-> s, agreed |-> <<k, v1[F!Find(k)].rcpt>> \in v10] \in F!Read
      BY <2>1 DEF F!Read
    <2>3. v7' \in [Others -> F!Read \cup {F!NoPost}]
      BY <1>0, <1>4, <2>2 DEF F!Submit
    <2> QED
      BY <1>4, <2>3 DEF F!FormsTyped, F!Submit, F!captchaVars, F!historyVars
  <1>5. ASSUME NEW p \in Others, F!Refuse(p)
        PROVE  F!FormsTyped'
    BY <1>0, <1>5 DEF F!FormsTyped, F!Refuse, F!captchaVars, F!historyVars
  <1>6. ASSUME NEW p \in Others, F!Verify(p)
        PROVE  F!FormsTyped'
    <2>1. v7[p] \in F!Read
      BY <1>0, <1>6 DEF F!Verify, F!NoPost
    <2>2. [v7[p] EXCEPT !.at = "send"] \in F!Read /\ v7[p].sol \in FormSolutions \cup {None}
      BY <2>1 DEF F!Read
    <2>3. v7' \in [Others -> F!Read \cup {F!NoPost}] /\ v9' \subseteq v9 \cup FormSolutions
      BY <1>0, <1>6, <2>2 DEF F!Verify
    <2> QED
      BY <1>6, <2>3 DEF F!FormsTyped, F!Verify, F!historyVars
  <1>7. ASSUME NEW p \in Others, F!Release(p)
        PROVE  F!FormsTyped'
    BY <1>0, <1>7 DEF F!FormsTyped, F!Release, F!historyVars
  <1>8. ASSUME NEW p \in Others, F!Send(p)
        PROVE  F!FormsTyped'
    <2>1. v7[p] \in F!Read
      BY <1>0, <1>8 DEF F!Send, F!NoPost
    <2>2. v7[p].sol \in FormSolutions \cup {None} /\ <<v7[p].form.key, v7[p].form.rcpt>> \in FormKeys \X Some
      BY <2>1 DEF F!Read, F!Entries
    <2>3. F!Count(v7[p].sol, v12) \in [FormSolutions -> Nat] /\ F!Count(v7[p].sol, v13) \in [FormSolutions -> Nat]
      BY <1>0, <2>2, CountsOne
    <2>4. v7' \in [Others -> F!Read \cup {F!NoPost}]
      BY <1>0, <1>8 DEF F!Send
    <2>5. v9' \subseteq v9 /\ v12' \in [FormSolutions -> Nat] /\ v13' \in [FormSolutions -> Nat]
          /\ v6' \subseteq v6 \cup {<<v7[p].form.key, v7[p].form.rcpt>>}
      BY <1>0, <1>8, <2>3 DEF F!Send
    <2> QED
      BY <1>8, <2>2, <2>4, <2>5 DEF F!FormsTyped, F!Send, F!historyVars
  <1>9. CASE F!PlanOrTrust \/ F!LockOrExpiry
    BY <1>9 DEF F!FormsTyped, F!PlanOrTrust, F!LockOrExpiry, F!historyVars, F!captchaVars
  <1>10. CASE F!Restart
    <2>1. v13' \in [FormSolutions -> Nat]
      BY <1>0, <1>10 DEF F!Restart
    <2> QED
      BY <1>0, <1>10, <2>1 DEF F!FormsTyped, F!Restart, F!historyVars
  <1> QED
    BY <1>1, <1>2, <1>3, <1>4, <1>5, <1>6, <1>7, <1>8, <1>9, <1>10

LEMMA FormsStep ==
    ASSUME F!FormsTyped, F!FormsInv, F!FormsNext
    PROVE  F!FormsTyped' /\ F!FormsInv'
  <1>0. F!LinksInv /\ F!MailsInv /\ F!PostsAgreed
    BY DEF F!FormsInv
  <1>1. ASSUME NEW c \in FormCalls, NEW k \in FormKeys, NEW r \in Some, F!ChangeRecipient(c, k, r)
        PROVE  F!FormsTyped' /\ F!FormsInv'
    <2>1. UNCHANGED <<v7, v9, v12, v13>>
      BY <1>1 DEF F!ChangeRecipient, F!captchaVars
    <2> QED
      BY <1>0, <1>1, <2>1, FormsTypedOwner, ChangeKeepsLinks, MailsStay DEF F!FormsInv
  <1>2. ASSUME NEW c \in FormCalls, NEW k \in FormKeys, NEW r \in Some, NEW captcha \in BOOLEAN,
               F!AddForm(c, k, r, captcha)
        PROVE  F!FormsTyped' /\ F!FormsInv'
    <2>1. UNCHANGED <<v7, v9, v12, v13>>
      BY <1>2 DEF F!AddForm, F!captchaVars
    <2> QED
      BY <1>0, <1>2, <2>1, FormsTypedOwner, AddKeepsLinks, MailsStay DEF F!FormsInv
  <1>3. ASSUME NEW c \in FormCalls, NEW k \in FormKeys, F!Resend(c, k)
        PROVE  F!FormsTyped' /\ F!FormsInv'
    <2>1. UNCHANGED <<v7, v9, v12, v13>>
      BY <1>3 DEF F!Resend, F!captchaVars
    <2> QED
      BY <1>0, <1>3, <2>1, FormsTypedOwner, ResendKeepsLinks, MailsStay DEF F!FormsInv
  <1>4. ASSUME NEW k \in FormKeys, F!ToggleCaptcha(k)
        PROVE  F!FormsTyped' /\ F!FormsInv'
    <2>1. UNCHANGED <<v7, v9, v12, v13>>
      BY <1>4 DEF F!ToggleCaptcha, F!captchaVars
    <2> QED
      BY <1>0, <1>4, <2>1, FormsTypedOwner, ToggleKeepsLinks, MailsStay DEF F!FormsInv
  <1>5. ASSUME NEW k \in FormKeys, F!DeleteForm(k)
        PROVE  F!FormsTyped' /\ F!FormsInv'
    <2>1. UNCHANGED <<v7, v9, v12, v13>>
      BY <1>5 DEF F!DeleteForm, F!captchaVars
    <2> QED
      BY <1>0, <1>5, <2>1, FormsTypedOwner, DeleteKeepsLinks, MailsStay DEF F!FormsInv
  <1>6. ASSUME NEW k \in FormKeys, NEW r \in Some, F!StopForm(k, r)
        PROVE  F!FormsTyped' /\ F!FormsInv'
    <2>1. UNCHANGED <<v7, v9, v12, v13>>
      BY <1>6 DEF F!StopForm, F!captchaVars
    <2> QED
      BY <1>0, <1>6, <2>1, FormsTypedOthers, StopKeepsLinks, MailsStay DEF F!FormsInv
  <1>7. ASSUME NEW k \in FormKeys, NEW s \in FormSolutions, F!Challenge(k, s)
        PROVE  F!FormsTyped' /\ F!FormsInv'
    <2>1. UNCHANGED <<v1, v4, v5, v7, v9, v10, v11, v12, v13>>
      BY <1>7 DEF F!Challenge, F!historyVars
    <2>2. F!Minted' = F!Minted
      BY <2>1 DEF F!Minted
    <2> QED
      BY <1>0, <1>7, <2>1, <2>2, FormsTypedOthers, LinksStay, MailsStay DEF F!FormsInv
  <1>8. ASSUME NEW p \in Others, NEW k \in FormKeys, NEW s \in FormSolutions \cup {None}, F!Submit(p, k, s)
        PROVE  F!FormsTyped' /\ F!FormsInv'
    <2>1. UNCHANGED <<v1, v4, v5, v10, v11>>
      BY <1>8 DEF F!Submit, F!historyVars
    <2>2. F!Minted' = F!Minted
      BY <2>1 DEF F!Minted
    <2> QED
      BY <1>0, <1>8, <2>1, <2>2, FormsTypedOthers, LinksStay, SubmitKeepsMails DEF F!FormsInv
  <1>9. ASSUME NEW c \in FormCalls, F!SendConfirmation(c)
        PROVE  F!FormsTyped' /\ F!FormsInv'
    <2>1. UNCHANGED <<v1, v7, v9, v10, v11, v12, v13>>
      BY <1>9 DEF F!SendConfirmation, F!historyVars, F!captchaVars
    <2>2. F!Minted' \subseteq F!Minted
      BY <1>9 DEF F!Minted, F!SendConfirmation, F!Idle, F!FormsTyped
    <2> QED
      BY <1>0, <1>9, <2>1, <2>2, FormsTypedOwner, LinksStay, MailsStay DEF F!FormsInv
  <1>10. ASSUME NEW l \in v5, F!ConfirmForm(l)
        PROVE  F!FormsTyped' /\ F!FormsInv'
    <2>1. UNCHANGED <<v7, v9, v12, v13>>
      BY <1>10 DEF F!ConfirmForm, F!captchaVars
    <2> QED
      BY <1>0, <1>10, <2>1, FormsTypedOthers, ConfirmKeepsLinks, MailsStay DEF F!FormsInv
  <1>11. ASSUME NEW p \in Others, F!Refuse(p) \/ F!Verify(p) \/ F!Release(p) \/ F!Send(p)
        PROVE  F!FormsTyped' /\ F!FormsInv'
    <2>1. UNCHANGED <<v1, v4, v5, v10, v11>>
      BY <1>11 DEF F!Refuse, F!Verify, F!Release, F!Send, F!historyVars
    <2>2. F!Minted' = F!Minted
      BY <2>1 DEF F!Minted
    <2>3. F!MailsInv' /\ F!PostsAgreed'
      <3>1. CASE F!Refuse(p)
        <4>1. v7' = [v7 EXCEPT ![p] = F!NoPost] /\ UNCHANGED <<v9, v12, v13>>
          BY <3>1 DEF F!Refuse, F!captchaVars
        <4> QED
          BY <1>0, <4>1, PostEnds
      <3> QED
        BY <1>0, <1>11, <3>1, VerifyKeepsMails, ReleaseKeepsMails, SendKeepsMails
    <2> QED
      BY <1>0, <1>11, <2>1, <2>2, <2>3, FormsTypedOthers, LinksStay DEF F!FormsInv
  <1>12. CASE F!PlanOrTrust \/ F!LockOrExpiry
    <2>1. UNCHANGED <<v1, v4, v5, v7, v9, v10, v11, v12, v13>>
      BY <1>12 DEF F!PlanOrTrust, F!LockOrExpiry, F!historyVars, F!captchaVars
    <2>2. F!Minted' = F!Minted
      BY <2>1 DEF F!Minted
    <2> QED
      BY <1>0, <1>12, <2>1, <2>2, FormsTypedOthers, LinksStay, MailsStay DEF F!FormsInv
  <1>13. CASE F!Restart
    <2>1. UNCHANGED <<v1, v10, v11>>
      BY <1>13 DEF F!Restart, F!historyVars
    <2>2. F!Minted' \subseteq F!Minted
      BY <1>13 DEF F!Minted, F!Restart
    <2> QED
      BY <1>0, <1>13, <2>1, <2>2, FormsTypedOthers, LinksStay, RestartKeepsMails DEF F!FormsInv
  <1> QED
    BY <1>1, <1>2, <1>3, <1>4, <1>5, <1>6, <1>7, <1>8, <1>9, <1>10, <1>11, <1>12, <1>13 DEF F!FormsNext

LEMMA FormsGoOn == FormsGood /\ [Next]_slots => FormsGood'
  <1> SUFFICES ASSUME FormsGood, [Next]_slots, which = "forms" PROVE F!FormsTyped' /\ F!FormsInv'
    BY DEF FormsGood, Next, slots
  <1>1. F!FormsTyped /\ F!FormsInv
    BY DEF FormsGood
  <1>2. CASE F!FormsNext
    BY <1>1, <1>2, FormsStep
  <1>3. CASE UNCHANGED F!fvars
    BY <1>1, <1>3 DEF F!fvars, F!FormsTyped, F!FormsInv, F!LinksInv, F!KeysAreOnce, F!LinksAged, F!Aged, F!Minted,
                      F!ActiveAgreed, F!PostsAgreed, F!MailsInv, F!Solved, F!Spent, F!Sends
  <1> QED
    BY <1>2, <1>3 DEF Next, slots, F!fvars

\* Of any forms, addresses, requests, posts and solutions, however links are
\* followed late, recipients change, stops cross confirmations, answers of the
\* mail server are lost and the program restarts: a form that mails, and a post
\* that is to be mailed, has its recipient's last word, which is yes; and a
\* solution mails one message for each time it was given back and might have been.
THEOREM ConsentHolds == Spec => []ConsentStands
  <1>1. FormsGood => ConsentStands
    BY DEF FormsGood, ConsentStands, F!FormsInv, F!LinksInv, F!ActiveAgreed, F!PostsAgreed, F!MailsInv, F!Spent,
           F!ConsentStands, F!OneMailPerSolution
  <1> QED
    BY <1>1, FormsBegin, FormsGoOn, PTL DEF Spec
=============================================================================
