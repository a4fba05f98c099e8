------------------------- MODULE TransferOffer_proofs -------------------------
(***************************************************************************)
(* Proofs about TransferOffer, for any number of accounts, sites, offers   *)
(* and requests and any number of crashes and errors.  Each section adds   *)
(* one layer of the inductive invariant and shows it with the layers       *)
(* before it.                                                              *)
(***************************************************************************)
EXTENDS TransferOffer, TLAPS

(***************************************************************************)
(* Type correctness.                                                       *)
(***************************************************************************)

\* A write of the store keeps its records well-typed.
LEMMA UpdateType ==
    ASSUME TypeOK, NEW o, NEW new, UpdateOffer(o, new), o \in Offers => new \in Records
    PROVE  offers' \in [Offers -> Records]
  <1>1. CASE o \in Offers
    BY <1>1 DEF TypeOK, UpdateOffer
  <1>2. CASE o \notin Offers
    BY <1>2 DEF TypeOK, UpdateOffer
  <1> QED
    BY <1>1, <1>2

\* So does a change of an offer's state.
LEMMA StateType ==
    ASSUME TypeOK, NEW o, NEW s \in States, SetState(o, s)
    PROVE  offers' \in [Offers -> Records]
  <1>1. o \in Offers => [offers[o] EXCEPT !.state = s] \in Records
    BY DEF TypeOK, Records
  <1> QED
    BY <1>1, UpdateType DEF SetState

LEMMA InitType == Init => TypeOK
  BY ConstantsAssumption
     DEF Init, TypeOK, NoOffer, Records, States, Held, Finals, Windows, IdleRun, RunRecords,
         RunSteps, Claiming, Moving, IdleAsk, AskRecords, AskSteps, IdleRec, RecRecords,
         RecSteps, Pairs

LEMMA IdleTypes ==
    /\ IdleRun \in RunRecords
    /\ IdleRec \in RecRecords
    /\ IdleAsk \in AskRecords
  <1>1. IdleRun \in RunRecords
    BY DEF IdleRun, RunRecords, RunSteps
  <1>2. IdleRec \in RecRecords
    BY DEF IdleRec, RecRecords, RecSteps
  <1>3. IdleAsk \in AskRecords
    BY DEF IdleAsk, AskRecords, AskSteps
  <1> QED
    BY <1>1, <1>2, <1>3

\* A run that stops or goes on.
LEMMA RunType ==
    ASSUME TypeOK, NEW r \in Runs, NEW st \in RunSteps, Stop(r) \/ GoTo(r, st)
    PROVE  run' \in [Runs -> RunRecords]
  <1>1. CASE Stop(r)
    BY <1>1, IdleTypes DEF TypeOK, Stop
  <1>2. CASE GoTo(r, st)
    <2>1. [run[r] EXCEPT !.step = st] \in RunRecords
      BY ZenonT(30) DEF TypeOK, RunRecords
    <2>2. run' = [run EXCEPT ![r] = [run[r] EXCEPT !.step = st]]
      BY <1>2 DEF GoTo, TypeOK
    <2> QED
      BY <2>1, <2>2 DEF TypeOK
  <1> QED
    BY <1>1, <1>2

\* A request that ends or goes on to put offers back.
LEMMA AskType ==
    ASSUME TypeOK, NEW c \in Asks, NEW undo \in [Offers -> {"none", "open", "paused"}],
           PutBack(c, undo)
    PROVE  ask' \in [Asks -> AskRecords]
  <1>1. [ask[c] EXCEPT !.step = "restore", !.replace = {}, !.undo = undo] \in AskRecords
    BY ZenonT(30) DEF TypeOK, AskRecords, AskSteps
  <1> QED
    BY <1>1, IdleTypes DEF TypeOK, PutBack

\* What typing needs beyond types: an offer that was made has its parties, and
\* whoever works on an offer, a site or a marker names one.
OfferShape == \A o \in Offers :
    offers[o].state # "none" => offers[o].from \in Accounts /\ offers[o].to \in Accounts
AskShape == \A c \in Asks :
    ask[c].step = "replace" => ask[c].from \in Accounts /\ ask[c].to \in Accounts
RunShape == \A r \in Runs :
    /\ run[r].step # "idle" => run[r].offer \in Offers /\ offers[run[r].offer].state # "none"
    /\ run[r].step \in {"transfer", "unlink", "mark"} => run[r].site \in Sites
RecShape == rec.step # "idle" => rec.account \in Accounts /\ rec.site \in Sites
UndoShape == \A c \in Asks, o \in Offers :
    ask[c].undo[o] # "none" => offers[o].state # "none"

Shape == OfferShape /\ AskShape /\ RunShape /\ RecShape /\ UndoShape

LEMMA InitShape == Init => Shape
  BY DEF Init, Shape, OfferShape, AskShape, RunShape, RecShape, UndoShape, NoOffer, IdleAsk,
         IdleRun, IdleRec

LEMMA NextType == TypeOK /\ Shape /\ [Next]_vars => TypeOK'
  <1> SUFFICES ASSUME TypeOK, Shape, [Next]_vars PROVE TypeOK'
    OBVIOUS
  <1> USE ConstantsAssumption DEF storeVars, indexVars
  <1>1. ASSUME NEW c \in Asks, PlanOffer(c) \/ PlanEdit(c) \/ AskStep(c) PROVE TypeOK'
    <2>1. CASE PlanOffer(c)
      <3>1. PICK from \in Accounts, to \in Accounts, S \in SUBSET Sites :
               ask' = [ask EXCEPT ![c] =
                         [IdleAsk EXCEPT !.step = "replace", !.from = from, !.to = to,
                             !.sites = S, !.replace = OffersOf(S)]]
        BY ZenonT(30), <2>1 DEF PlanOffer
      <3>2. \A old \in SUBSET Offers :
               [IdleAsk EXCEPT !.step = "replace", !.from = from, !.to = to, !.sites = S,
                               !.replace = old] \in AskRecords
        BY IdleTypes DEF AskRecords, AskSteps
      <3> QED
        BY <2>1, <3>1, <3>2 DEF PlanOffer, TypeOK, OffersOf
    <2>2. CASE PlanEdit(c)
      <3>1. PICK o \in Offers : \E drop \in SUBSET offers[o].sites,
                                   add \in SUBSET (Sites \ offers[o].sites) :
               ask' = [ask EXCEPT ![c] = [IdleAsk EXCEPT !.step = "edit", !.offer = o,
                                            !.from = offers[o].from, !.sites = add,
                                            !.drop = drop]]
        BY <2>2 DEF PlanEdit
      <3>2. offers[o].from \in Accounts \cup {NoOne} /\ offers[o].sites \in SUBSET Sites
        BY DEF TypeOK, Records
      <3>3. ASSUME NEW drop \in SUBSET Sites, NEW add \in SUBSET Sites
            PROVE  [IdleAsk EXCEPT !.step = "edit", !.offer = o, !.from = offers[o].from,
                                   !.sites = add, !.drop = drop] \in AskRecords
        BY <3>2, IdleTypes DEF AskRecords, AskSteps
      <3>4. ask' \in [Asks -> AskRecords]
        <4>1. PICK drop \in SUBSET Sites, add \in SUBSET Sites :
                 ask' = [ask EXCEPT ![c] = [IdleAsk EXCEPT !.step = "edit", !.offer = o,
                                              !.from = offers[o].from, !.sites = add,
                                              !.drop = drop]]
          BY <3>1, <3>2
        <4> QED
          BY <4>1, <3>3 DEF TypeOK
      <3> QED
        BY <2>2, <3>4 DEF PlanEdit, TypeOK
    <2>3. CASE CancelReplaced(c)
      <3>1. PICK o \in ask[c].replace :
               \/ /\ Editable(o)
                  /\ SetState(o, "cancelled")
                  /\ ask' = [ask EXCEPT ![c].replace = @ \ {o},
                                        ![c].undo = [@ EXCEPT ![o] = offers[o].state]]
               \/ /\ ~Editable(o)
                  /\ PutBack(c, ask[c].undo)
                  /\ UNCHANGED offers
        BY <2>3 DEF CancelReplaced
      <3>2. o \in Offers /\ ask[c].undo \in [Offers -> {"none", "open", "paused"}]
        BY DEF TypeOK, AskRecords
      <3>3. CASE Editable(o)
        <4>1. offers' \in [Offers -> Records]
          BY <3>1, <3>2, <3>3, StateType DEF States, Finals
        <4>2. [ask[c].undo EXCEPT ![o] = offers[o].state] \in [Offers -> {"none", "open", "paused"}]
          BY <3>2, <3>3 DEF Editable
        <4> DEFINE new == [ask[c] EXCEPT !.replace = @ \ {o},
                                         !.undo = [@ EXCEPT ![o] = offers[o].state]]
        <4>0. ask[c] \in AskRecords /\ ask[c].replace \ {o} \in SUBSET Offers
          BY DEF TypeOK, AskRecords
        <4>3. new \in AskRecords
          BY <4>0, <4>2 DEF AskRecords
        <4>4. ask' = [ask EXCEPT ![c] = new]
          BY <3>1, <3>3 DEF TypeOK
        <4>5. ask' \in [Asks -> AskRecords]
          BY <4>3, <4>4 DEF TypeOK
        <4> QED
          BY <2>3, <4>1, <4>5 DEF CancelReplaced, TypeOK
      <3>4. CASE ~Editable(o)
        BY <2>3, <3>1, <3>2, <3>4, AskType DEF CancelReplaced, TypeOK
      <3> QED
        BY <3>3, <3>4
    <2>4. CASE CreateOffer(c)
      <3>1. offers' \in [Offers -> Records]
        <4>1. PICK o \in Offers, w \in {"early", "in"} :
                 UpdateOffer(o, [state |-> "open", sites |-> ask[c].sites, from |-> ask[c].from,
                                 to |-> ask[c].to, done |-> {}, window |-> w])
          BY <2>4 DEF CreateOffer
        <4>2. [state |-> "open", sites |-> ask[c].sites, from |-> ask[c].from,
               to |-> ask[c].to, done |-> {}, window |-> w] \in Records
          BY DEF TypeOK, AskRecords, Records, States, Held, Windows
        <4> QED
          BY <4>1, <4>2, UpdateType
      <3> QED
        BY <2>4, <3>1 DEF CreateOffer, TypeOK, AskRecords, AskSteps, IdleAsk
    <2>5. CASE CreateRefused(c)
      BY <2>5, AskType DEF CreateRefused, TypeOK, AskRecords
    <2>6. CASE Restore(c)
      <3>1. PICK o \in Offers :
               /\ ask[c].undo[o] # "none"
               /\ IF SitesFree(o, offers[o].sites) THEN SetState(o, ask[c].undo[o])
                                                   ELSE UNCHANGED offers
               /\ PutBack(c, [ask[c].undo EXCEPT ![o] = "none"])
        BY <2>6 DEF Restore
      <3>2. ask[c].undo \in [Offers -> {"none", "open", "paused"}]
        BY DEF TypeOK, AskRecords
      <3>3. [ask[c].undo EXCEPT ![o] = "none"] \in [Offers -> {"none", "open", "paused"}]
        BY <3>2
      <3>4. ask' \in [Asks -> AskRecords]
        BY <3>1, <3>3, AskType
      <3>5. offers' \in [Offers -> Records]
        BY <3>1, <3>2, StateType DEF States, Held, TypeOK
      <3> QED
        BY <2>6, <3>4, <3>5 DEF Restore, TypeOK
    <2>7. CASE EditSites(c)
      <3>1. offers' \in [Offers -> Records]
        <4> DEFINE o == ask[c].offer
                   bundle == (offers[o].sites \ ask[c].drop) \cup ask[c].sites
        <4>1. CASE Editable(o) /\ UpdateOffer(o, [offers[o] EXCEPT !.sites = bundle])
          <5>1. o \in Offers => bundle \in SUBSET Sites /\ offers[o] \in Records
            BY DEF TypeOK, Records, AskRecords
          <5>2. o \in Offers => [offers[o] EXCEPT !.sites = bundle] \in Records
            BY <5>1 DEF Records
          <5> QED
            BY <4>1, <5>2, UpdateType
        <4>2. CASE UNCHANGED offers
          BY <4>2 DEF TypeOK
        <4> QED
          BY <2>7, <4>1, <4>2 DEF EditSites
      <3> QED
        BY <2>7, <3>1 DEF EditSites, TypeOK, AskRecords, AskSteps, IdleAsk
    <2> QED
      BY <1>1, <2>1, <2>2, <2>3, <2>4, <2>5, <2>6, <2>7 DEF AskStep
  <1>2. ASSUME NEW r \in Runs, LookAtOffer(r) PROVE TypeOK'
    <2>1. PICK o \in Offers :
             run' = [run EXCEPT ![r] = [IdleRun EXCEPT !.step = "looked", !.offer = o,
                                                       !.saw = offers[o].sites]]
      BY <1>2 DEF LookAtOffer
    <2>2. offers[o].sites \in SUBSET Sites
      BY DEF TypeOK, Records
    <2>3. [IdleRun EXCEPT !.step = "looked", !.offer = o, !.saw = offers[o].sites] \in RunRecords
      BY <2>2, IdleTypes DEF RunRecords, RunSteps
    <2> QED
      BY <1>2, <2>1, <2>3 DEF LookAtOffer, TypeOK
  <1>3. ASSUME NEW o \in Offers, OfferStep(o) PROVE TypeOK'
    <2>1. ASSUME NEW s \in States, SetState(o, s), UNCHANGED <<owner, moved, indexVars, run, ask, rec, faults>>
          PROVE TypeOK'
      BY <2>1, StateType DEF TypeOK
    <2>2. {"cancelled", "declined", "expired", "open"} \subseteq States
      BY DEF States, Held, Finals
    <2>3. CASE EditDates(o)
      <3>1. ASSUME NEW w \in {"early", "in"} PROVE [offers[o] EXCEPT !.window = w] \in Records
        BY DEF TypeOK, Records, Windows
      <3> QED
        BY <2>3, <3>1, UpdateType DEF EditDates, TypeOK
    <2>4. CASE Later(o)
      BY <2>4 DEF Later, TypeOK, Records, Windows
    <2> QED
      BY <1>3, <2>1, <2>2, <2>3, <2>4 DEF OfferStep, Cancel, Decline, Expire, RecipientLeaves, Reopen
  <1>4. ASSUME NEW o \in Offers, PickAccepting(o) PROVE TypeOK'
    <2>1. NotDone(o) \in SUBSET Sites
      BY DEF TypeOK, Records, NotDone
    <2>2. [IdleRun EXCEPT !.step = "record", !.offer = o, !.left = NotDone(o)] \in RunRecords
      BY <2>1, IdleTypes DEF RunRecords, RunSteps, Claiming, Moving
    <2> QED
      BY <1>4, <2>2 DEF PickAccepting, TypeOK
  <1>5. ASSUME NEW r \in Runs, RunStep(r) \/ RunFails(r) PROVE TypeOK'
    <2>0. /\ run[r] \in RunRecords
          /\ \A a \in Accounts, x \in Sites : <<a, x>> \in Pairs
      BY DEF TypeOK, Pairs
    <2>1. CASE Claim(r)
      BY <2>1, RunType DEF Claim, RunSteps, Claiming, TypeOK
    <2>2. CASE CheckAccept(r)
      BY <2>2, RunType DEF CheckAccept, RunSteps, Claiming, TypeOK
    <2>3. CASE RunFails(r)
      BY <2>3, RunType DEF RunFails, RunSteps, TypeOK
    <2>4. CASE PauseOffer(r)
      BY <2>4, RunType, StateType
         DEF PauseOffer, RunSteps, TypeOK, RunRecords, States, Held
    <2>5. CASE StartAccepting(r)
      <3> DEFINE o == run[r].offer
      <3>1. CASE Startable(o, run[r].saw)
        <4>1. offers' \in [Offers -> Records]
          BY <2>5, <3>1, StateType DEF StartAccepting, States, Held
        <4>2. run[r].saw = offers[o].sites
          BY <3>1 DEF Startable
        <4>3. NotDone(o) \in SUBSET Sites
          BY <2>0, <4>2 DEF NotDone, RunRecords
        <4>4. [run[r] EXCEPT !.step = "record", !.left = NotDone(o)] \in RunRecords
          BY <2>0, <4>3 DEF RunRecords, RunSteps, Claiming, Moving
        <4>5. run' = [run EXCEPT ![r] = [run[r] EXCEPT !.step = "record", !.left = NotDone(o)]]
          BY <2>5, <3>1 DEF StartAccepting, TypeOK
        <4>6. run' \in [Runs -> RunRecords]
          BY <4>4, <4>5 DEF TypeOK
        <4> QED
          BY <2>5, <4>1, <4>6 DEF StartAccepting, TypeOK
      <3>2. CASE ~Startable(o, run[r].saw)
        BY <2>5, <3>2, RunType DEF StartAccepting, RunSteps, TypeOK
      <3> QED
        BY <3>1, <3>2
    <2>6. CASE GiveUp(r)
      BY <2>6, RunType, StateType
         DEF GiveUp, RunSteps, TypeOK, RunRecords, States, Finals
    <2>7. CASE Finish(r)
      BY <2>7, RunType, StateType
         DEF Finish, RunSteps, TypeOK, RunRecords, States, Finals
    <2>8. ASSUME run[r].step # "idle"
          PROVE  /\ run[r].offer \in Offers
                 /\ offers[run[r].offer].from \in Accounts
                 /\ offers[run[r].offer].to \in Accounts
      BY <2>8 DEF Shape, RunShape, OfferShape
    <2>9. ASSUME NEW a \in Accounts, NEW x \in Sites, Link(a, x) \/ Unlink(a, x) \/ IndexFails
          PROVE  markers' \subseteq Pairs /\ young' \subseteq Pairs /\ faults' \in Nat
      BY <2>0, <2>9 DEF Link, Unlink, IndexFails, TypeOK
    <2>10. CASE RecordMoved(r)
      <3> DEFINE o == run[r].offer
      <3>1. run' \in [Runs -> RunRecords]
        <4>1. ASSUME NEW x \in run[r].left
              PROVE  /\ [run[r] EXCEPT !.step = "unlink", !.site = x, !.left = @ \ {x}] \in RunRecords
                     /\ [run[r] EXCEPT !.left = @ \ {x}, !.todo = @ \cup {x}] \in RunRecords
          BY <2>0 DEF RunRecords, RunSteps, Claiming, Moving
        <4>2. CASE GoTo(r, "decide")
          BY <4>2, RunType DEF RunSteps, Claiming, Moving
        <4>3. ASSUME NEW x \in run[r].left,
                     \/ run' = [run EXCEPT ![r].step = "unlink", ![r].site = x, ![r].left = @ \ {x}]
                     \/ run' = [run EXCEPT ![r].left = @ \ {x}, ![r].todo = @ \cup {x}]
              PROVE  run' \in [Runs -> RunRecords]
          BY <4>1, <4>3 DEF TypeOK
        <4> QED
          BY <2>10, <4>2, <4>3 DEF RecordMoved
      <3>2. markers' \subseteq Pairs /\ young' \subseteq Pairs /\ faults' \in Nat
        <4>1. \A x \in run[r].left : x \in Sites
          BY <2>0 DEF RunRecords
        <4> QED
          BY <2>8, <2>9, <2>10, <4>1 DEF RecordMoved, TypeOK
      <3> QED
        BY <2>10, <3>1, <3>2 DEF RecordMoved, TypeOK
    <2>11. CASE Decide(r)
      <3> DEFINE o == run[r].offer
      <3>1. NotDone(o) \in SUBSET Sites
        BY <2>8, <2>11 DEF Decide, NotDone, TypeOK, Records
      <3>2. [run[r] EXCEPT !.step = "record", !.pass = 1, !.left = NotDone(o), !.todo = {}]
              \in RunRecords
        BY <2>0, <3>1 DEF RunRecords, RunSteps, Claiming, Moving
      <3>3. run' \in [Runs -> RunRecords]
        <4>1. CASE run' = [run EXCEPT ![r].step = "record", ![r].pass = 1,
                                      ![r].left = NotDone(o), ![r].todo = {}]
          BY <3>2, <4>1 DEF TypeOK
        <4>2. CASE GoTo(r, "finish") \/ GoTo(r, "link") \/ GoTo(r, "give up")
          BY <4>2, RunType DEF RunSteps, Claiming, Moving
        <4> QED
          BY <2>11, <4>1, <4>2 DEF Decide
      <3> QED
        BY <2>11, <3>3 DEF Decide, TypeOK
    <2>12. CASE LinkRecipient(r)
      <3>1. ASSUME NEW x \in run[r].todo
            PROVE  x \in Sites /\ [run[r] EXCEPT !.step = "transfer", !.site = x] \in RunRecords
        BY <2>0 DEF RunRecords, RunSteps, Claiming, Moving
      <3>2. run' \in [Runs -> RunRecords]
        <4>1. ASSUME NEW x \in run[r].todo,
                     run' = [run EXCEPT ![r].step = "transfer", ![r].site = x]
              PROVE  run' \in [Runs -> RunRecords]
          BY <3>1, <4>1 DEF TypeOK
        <4>2. CASE GoTo(r, "finish")
          BY <4>2, RunType DEF RunSteps, Claiming, Moving
        <4> QED
          BY <2>12, <4>1, <4>2 DEF LinkRecipient
      <3>3. markers' \subseteq Pairs /\ young' \subseteq Pairs /\ faults' \in Nat
        BY <2>8, <2>9, <2>12, <3>1 DEF LinkRecipient, TypeOK
      <3> QED
        BY <2>12, <3>2, <3>3 DEF LinkRecipient, TypeOK
    <2>13. CASE TransferSite(r)
      <3>1. run' \in [Runs -> RunRecords]
        BY <2>13, RunType DEF TransferSite, RunSteps, Claiming, Moving
      <3>2. run[r].site \in Sites
        BY <2>13 DEF TransferSite, Shape, RunShape
      <3>3. /\ owner' \in [Sites -> Accounts \cup {NoOne}]
            /\ moved' \in [Offers -> SUBSET Sites]
        BY <2>8, <2>13, <3>2 DEF TransferSite, TypeOK
      <3> QED
        BY <2>13, <3>1, <3>3 DEF TransferSite, TypeOK
    <2>14. CASE UnlinkSender(r)
      <3>1. run' \in [Runs -> RunRecords]
        BY <2>14, RunType DEF UnlinkSender, RunSteps, Claiming, Moving
      <3>2. run[r].site \in Sites
        BY <2>14 DEF UnlinkSender, Shape, RunShape
      <3> QED
        BY <2>8, <2>9, <2>14, <3>1, <3>2 DEF UnlinkSender, TypeOK
    <2>15. CASE MarkDone(r)
      <3> DEFINE o == run[r].offer
                 x == run[r].site
                 st == IF x \in run[r].todo THEN "link" ELSE "record"
      <3>1. o \in Offers /\ x \in Sites /\ offers[o] \in Records
        BY <2>8, <2>15 DEF MarkDone, Shape, RunShape, TypeOK
      <3>2. [offers[o] EXCEPT !.done = @ \cup {x}] \in Records
        BY <3>1 DEF Records
      <3>3. offers' \in [Offers -> Records]
        BY <2>15, <3>2, UpdateType DEF MarkDone
      <3>4. [run[r] EXCEPT !.step = st, !.todo = @ \ {x}, !.site = NoOne] \in RunRecords
        BY <2>0 DEF RunRecords, RunSteps, Claiming, Moving
      <3>5. run' = [run EXCEPT ![r] = [run[r] EXCEPT !.step = st, !.todo = @ \ {x}, !.site = NoOne]]
        BY <2>15 DEF MarkDone, TypeOK
      <3>6. run' \in [Runs -> RunRecords]
        BY <3>4, <3>5 DEF TypeOK
      <3> QED
        BY <2>15, <3>3, <3>6 DEF MarkDone, TypeOK
    <2> QED
      BY <1>5, <2>1, <2>2, <2>3, <2>4, <2>5, <2>6, <2>7, <2>10, <2>11, <2>12, <2>13, <2>14, <2>15
         DEF RunStep, Completing
  <1>6. ASSUME NEW x \in Sites, DeleteSite(x) \/ FindMissing(x) PROVE TypeOK'
    <2>1. CASE DeleteSite(x)
      BY <2>1 DEF DeleteSite, TypeOK
    <2>2. CASE FindMissing(x)
      BY <2>2 DEF FindMissing, TypeOK, RecRecords, RecSteps
    <2> QED
      BY <1>6, <2>1, <2>2
  <1>7. CASE FindStray
    BY <1>7 DEF FindStray, TypeOK, RecRecords, RecSteps, Pairs
  <1>8. CASE Reconcile
    <2>1. rec.step # "idle" => \A m \in {<<rec.account, rec.site>>} : m \in Pairs
      BY DEF Shape, RecShape, Pairs
    <2>2. CASE AskAcceptances
      BY <2>2, IdleTypes DEF AskAcceptances, TypeOK, RecRecords, RecSteps
    <2>3. CASE UnlinkStray
      BY <2>3, IdleTypes DEF UnlinkStray, Unlink, TypeOK
    <2>4. CASE LinkMissing
      BY <2>1, <2>4, IdleTypes DEF LinkMissing, Link, TypeOK
    <2> QED
      BY <1>8, <2>2, <2>3, <2>4 DEF Reconcile
  <1>9. CASE Age
    BY <1>9 DEF Age, TypeOK
  <1>10. CASE Crash
    BY <1>10, IdleTypes DEF Crash, TypeOK
  <1>11. CASE UNCHANGED vars
    BY <1>11 DEF vars, TypeOK
  <1> QED
    BY <1>1, <1>2, <1>3, <1>4, <1>5, <1>6, <1>7, <1>8, <1>9, <1>10, <1>11 DEF Next, Runs

(***************************************************************************)
(* How an offer can change.  Every invariant over the offers is proved     *)
(* from these eight kinds of write instead of from the actions.            *)
(***************************************************************************)

KeepsParties(o) == offers'[o].from = offers[o].from /\ offers'[o].to = offers[o].to
KeepsBundle(o)  == offers'[o].sites = offers[o].sites /\ offers'[o].done = offers[o].done

Created(o) ==
    /\ offers[o].state = "none"
    /\ offers'[o].state = "open" /\ offers'[o].done = {}
    /\ offers'[o].from \in Accounts /\ offers'[o].to \in Accounts

Edited(o) ==
    /\ Editable(o) /\ offers'[o].state \in {"open", "paused"}
    /\ KeepsParties(o) /\ offers'[o].done = offers[o].done

Closed(o) ==
    /\ Editable(o) /\ offers'[o].state \in {"cancelled", "declined", "expired"}
    /\ KeepsParties(o) /\ KeepsBundle(o)

Restored(o) ==
    /\ \E c \in Asks :
        /\ ask[c].undo[o] # "none" /\ ask'[c].undo[o] = "none"
        /\ offers'[o].state = ask[c].undo[o]
    /\ KeepsParties(o) /\ KeepsBundle(o)

Started(o) ==
    /\ offers[o].state = "open" /\ offers'[o].state = "accepting"
    /\ KeepsParties(o) /\ KeepsBundle(o)

Recorded(o) ==
    \E r \in Runs :
        /\ run[r].step = "mark" /\ run[r].offer = o /\ run'[r].step # "mark"
        /\ offers[o].state = "accepting" /\ offers'[o].state = "accepting"
        /\ offers'[o].done = offers[o].done \cup {run[r].site}
        /\ KeepsParties(o) /\ offers'[o].sites = offers[o].sites

Ended(o) ==
    \E r \in Runs :
        /\ run[r].step \in {"finish", "give up"} /\ run[r].offer = o /\ run'[r].step = "idle"
        /\ run[r].step = "finish" => NotDone(o) = {}
        /\ offers[o].state = "accepting" /\ offers'[o].state \in {"accepted", "ended"}
        /\ KeepsParties(o) /\ KeepsBundle(o)

Aged(o) ==
    /\ Holds(o) /\ offers'[o].state = offers[o].state
    /\ KeepsParties(o) /\ KeepsBundle(o)

Change(o) ==
    /\ \/ Created(o) \/ Edited(o) \/ Closed(o) \/ Restored(o)
       \/ Started(o) \/ Recorded(o) \/ Ended(o) \/ Aged(o)
    /\ offers'[o].state \in Held =>
          SitesFree(o, offers'[o].sites) \/ (Holds(o) /\ offers'[o].sites = offers[o].sites)
    /\ \A p \in Offers \ {o} : offers'[p] = offers[p]

\* What a write of the store does to the records.
LEMMA Updated ==
    ASSUME TypeOK, NEW o \in Offers, NEW new, UpdateOffer(o, new)
    PROVE  /\ offers'[o] = new
           /\ offers'[o].state \in Held => SitesFree(o, offers'[o].sites)
           /\ \A p \in Offers \ {o} : offers'[p] = offers[p]
  BY DEF UpdateOffer, TypeOK

LEMMA StateUpdated ==
    ASSUME TypeOK, NEW o \in Offers, NEW s, SetState(o, s)
    PROVE  /\ offers'[o].state = s /\ KeepsParties(o) /\ KeepsBundle(o)
           /\ offers'[o].state \in Held => SitesFree(o, offers'[o].sites)
           /\ \A p \in Offers \ {o} : offers'[p] = offers[p]
  <1>1. /\ offers'[o] = [offers[o] EXCEPT !.state = s]
        /\ offers'[o].state \in Held => SitesFree(o, offers'[o].sites)
        /\ \A p \in Offers \ {o} : offers'[p] = offers[p]
    BY Updated DEF SetState
  <1>2. offers[o] \in Records
    BY DEF TypeOK
  <1> QED
    BY <1>1, <1>2 DEF Records, KeepsParties, KeepsBundle

LEMMA AskChanges ==
    ASSUME TypeOK, Shape, NEW c \in Asks, AskStep(c)
    PROVE  UNCHANGED offers \/ \E o \in Offers : Change(o)
  <1>0. /\ ask[c] \in AskRecords
        /\ \A o \in Offers : offers[o] \in Records
    BY DEF TypeOK
  <1>1. CASE CancelReplaced(c)
    <2>1. PICK o \in ask[c].replace :
             \/ Editable(o) /\ SetState(o, "cancelled")
             \/ UNCHANGED offers
      BY <1>1 DEF CancelReplaced
    <2>2. o \in Offers
      BY <1>0 DEF AskRecords
    <2>3. CASE Editable(o) /\ SetState(o, "cancelled")
      <3>1. Closed(o)
        BY <2>2, <2>3, StateUpdated DEF Closed
      <3> QED
        BY <2>2, <2>3, <3>1, StateUpdated DEF Change, Held
    <2> QED
      BY <2>1, <2>3
  <1>2. CASE CreateOffer(c)
    <2>1. PICK o \in Offers, w \in {"early", "in"} :
             /\ offers[o].state = "none"
             /\ UpdateOffer(o, [state |-> "open", sites |-> ask[c].sites, from |-> ask[c].from,
                                to |-> ask[c].to, done |-> {}, window |-> w])
      BY <1>2 DEF CreateOffer
    <2>2. Created(o)
      BY <1>2, <2>1, Updated DEF CreateOffer, Created, Shape, AskShape
    <2> QED
      BY <2>1, <2>2, Updated DEF Change
  <1>3. CASE Restore(c)
    <2>1. PICK o \in Offers :
             /\ ask[c].undo[o] # "none"
             /\ IF SitesFree(o, offers[o].sites) THEN SetState(o, ask[c].undo[o])
                                                 ELSE UNCHANGED offers
             /\ PutBack(c, [ask[c].undo EXCEPT ![o] = "none"])
      BY <1>3 DEF Restore
    <2>2. ask'[c].undo[o] = "none"
      <3> DEFINE undo == [ask[c].undo EXCEPT ![o] = "none"]
      <3>1. ask[c].undo \in [Offers -> {"none", "open", "paused"}]
        BY <1>0 DEF AskRecords
      <3>2. undo[o] = "none"
        BY <3>1
      <3>3. PutBack(c, undo)
        BY <2>1
      <3> HIDE DEF undo
      <3>4. ask'[c] = IdleAsk \/ ask'[c].undo = undo
        BY <1>0, <3>3 DEF PutBack, TypeOK, AskRecords
      <3>5. IdleAsk.undo[o] = "none"
        BY DEF IdleAsk
      <3> QED
        BY <3>2, <3>4, <3>5
    <2>3. CASE SitesFree(o, offers[o].sites)
      <3>1. Restored(o)
        BY <2>1, <2>2, <2>3, StateUpdated DEF Restored
      <3> QED
        BY <2>1, <2>3, <3>1, StateUpdated DEF Change
    <2> QED
      BY <2>1, <2>3
  <1>4. CASE EditSites(c)
    <2> DEFINE o == ask[c].offer
               bundle == (offers[o].sites \ ask[c].drop) \cup ask[c].sites
    <2>1. CASE Editable(o) /\ UpdateOffer(o, [offers[o] EXCEPT !.sites = bundle])
      <3>1. CASE o \in Offers
        <4>1. offers'[o] = [offers[o] EXCEPT !.sites = bundle]
          BY <2>1, <3>1, Updated
        <4>3. Edited(o)
          BY <1>0, <2>1, <3>1, <4>1 DEF Edited, Editable, KeepsParties, Records
        <4> QED
          BY <2>1, <3>1, <4>3, Updated DEF Change
      <3>2. CASE o \notin Offers
        BY <2>1, <3>2 DEF UpdateOffer, TypeOK
      <3> QED
        BY <3>1, <3>2
    <2> QED
      BY <1>4, <2>1 DEF EditSites
  <1> QED
    BY <1>1, <1>2, <1>3, <1>4 DEF AskStep, CreateRefused, storeVars

LEMMA OfferChanges ==
    ASSUME TypeOK, NEW o \in Offers, OfferStep(o)
    PROVE  Change(o)
  <1>0. offers[o] \in Records
    BY DEF TypeOK
  <1>1. CASE Cancel(o) \/ Decline(o) \/ Expire(o) \/ RecipientLeaves(o)
    <2>1. PICK s \in {"cancelled", "declined", "expired"} : Editable(o) /\ SetState(o, s)
      BY <1>1 DEF Cancel, Decline, Expire, RecipientLeaves
    <2>2. Closed(o)
      BY <2>1, StateUpdated DEF Closed
    <2> QED
      BY <2>1, <2>2, StateUpdated DEF Change, Held
  <1>2. CASE EditDates(o)
    <2>1. PICK w \in {"early", "in"} : UpdateOffer(o, [offers[o] EXCEPT !.window = w])
      BY <1>2 DEF EditDates
    <2>2. offers'[o] = [offers[o] EXCEPT !.window = w]
      BY <2>1, Updated
    <2>3. Edited(o)
      BY <1>0, <1>2, <2>2 DEF Edited, EditDates, Editable, KeepsParties, Records
    <2> QED
      BY <2>1, <2>3, Updated DEF Change
  <1>3. CASE Reopen(o)
    <2>2. Edited(o)
      BY <1>3, StateUpdated DEF Reopen, Edited, Editable, KeepsBundle
    <2> QED
      BY <1>3, <2>2, StateUpdated DEF Change, Reopen
  <1>4. CASE Later(o)
    <2>1. PICK w \in {"in", "late"} : offers'[o] = [offers[o] EXCEPT !.window = w]
      BY <1>0, <1>4 DEF Later, TypeOK, Records
    <2>2. Aged(o)
      BY <1>0, <1>4, <2>1 DEF Aged, Later, Records, KeepsParties, KeepsBundle
    <2> QED
      BY <1>0, <1>4, <2>1, <2>2 DEF Change, Later, TypeOK, Records
  <1> QED
    BY <1>1, <1>2, <1>3, <1>4 DEF OfferStep

LEMMA RunChanges ==
    ASSUME TypeOK, Shape, NEW r \in Runs, RunStep(r)
    PROVE  UNCHANGED offers \/ \E o \in Offers : Change(o)
  <1> DEFINE o == run[r].offer
  <1>0. /\ run[r].step # "idle" => o \in Offers /\ offers[o] \in Records
        /\ run \in [Runs -> RunRecords] /\ run[r] \in RunRecords
    BY DEF TypeOK, Shape, RunShape
  <1>1. CASE PauseOffer(r)
    <2>1. CASE offers[o].state = "open"
      <3>1. o \in Offers /\ SetState(o, "paused")
        BY <1>0, <1>1, <2>1 DEF PauseOffer
      <3>2. Edited(o)
        BY <2>1, <3>1, StateUpdated DEF Edited, Editable, KeepsBundle
      <3> QED
        BY <3>1, <3>2, StateUpdated DEF Change
    <2> QED
      BY <1>1, <2>1 DEF PauseOffer
  <1>2. CASE StartAccepting(r)
    <2>1. CASE Startable(o, run[r].saw)
      <3>1. o \in Offers /\ SetState(o, "accepting") /\ offers[o].state = "open"
        BY <1>0, <1>2, <2>1 DEF StartAccepting, Startable
      <3>2. Started(o)
        BY <3>1, StateUpdated DEF Started
      <3> QED
        BY <3>1, <3>2, StateUpdated DEF Change
    <2> QED
      BY <1>2, <2>1 DEF StartAccepting
  <1>3. CASE MarkDone(r)
    <2> DEFINE st == IF run[r].site \in run[r].todo THEN "link" ELSE "record"
    <2>1. /\ o \in Offers /\ offers[o].state = "accepting" /\ run[r].step = "mark"
          /\ UpdateOffer(o, [offers[o] EXCEPT !.done = @ \cup {run[r].site}])
      BY <1>0, <1>3 DEF MarkDone
    <2>2. run'[r] = [run[r] EXCEPT !.step = st, !.todo = @ \ {run[r].site}, !.site = NoOne]
      BY <1>0, <1>3 DEF MarkDone
    <2>3. run'[r].step # "mark"
      BY <1>0, <2>2 DEF RunRecords
    <2>4. offers'[o] = [offers[o] EXCEPT !.done = @ \cup {run[r].site}]
      BY <2>1, Updated
    <2>5. Recorded(o) /\ offers'[o].sites = offers[o].sites
      BY <1>0, <2>1, <2>3, <2>4 DEF Recorded, Records, KeepsParties
    <2> QED
      BY <2>1, <2>5, Updated DEF Change, Holds, Held
  <1>4. CASE Finish(r) \/ GiveUp(r)
    <2>1. PICK s \in {"accepted", "ended"} :
             /\ o \in Offers /\ offers[o].state = "accepting" /\ SetState(o, s)
             /\ run[r].step \in {"finish", "give up"}
             /\ run[r].step = "finish" => NotDone(o) = {}
             /\ Stop(r)
      BY <1>0, <1>4 DEF Finish, GiveUp
    <2>2. run'[r].step = "idle"
      BY <1>0, <2>1 DEF Stop, IdleRun
    <2>3. Ended(o)
      BY <2>1, <2>2, StateUpdated DEF Ended
    <2> QED
      BY <2>1, <2>3, StateUpdated DEF Change, Held
  <1> QED
    BY <1>1, <1>2, <1>3, <1>4
       DEF RunStep, Completing, Claim, CheckAccept, RecordMoved, Decide, LinkRecipient,
           TransferSite, UnlinkSender, storeVars

LEMMA Changes ==
    ASSUME TypeOK, Shape, [Next]_vars
    PROVE  UNCHANGED offers \/ \E o \in Offers : Change(o)
  <1> USE DEF storeVars
  <1>1. ASSUME NEW c \in Asks, PlanOffer(c) \/ PlanEdit(c) PROVE UNCHANGED offers
    BY <1>1 DEF PlanOffer, PlanEdit
  <1>2. ASSUME NEW r \in Runs, LookAtOffer(r) \/ RunFails(r) PROVE UNCHANGED offers
    BY <1>2 DEF LookAtOffer, RunFails
  <1>3. ASSUME NEW o \in Offers, PickAccepting(o) PROVE UNCHANGED offers
    BY <1>3 DEF PickAccepting
  <1>4. ASSUME NEW x \in Sites, DeleteSite(x) \/ FindMissing(x) PROVE UNCHANGED offers
    BY <1>4 DEF DeleteSite, FindMissing
  <1>5. CASE FindStray \/ Reconcile \/ Age \/ Crash
    BY <1>5 DEF FindStray, Reconcile, AskAcceptances, UnlinkStray, LinkMissing, Age, Crash
  <1>6. CASE UNCHANGED vars
    BY <1>6 DEF vars
  <1> QED
    BY <1>1, <1>2, <1>3, <1>4, <1>5, <1>6, AskChanges, OfferChanges, RunChanges DEF Next, Runs

(***************************************************************************)
(* The shape is kept, and so types are.                                    *)
(***************************************************************************)

\* A run's step changes no other run, and goes on with its offer or ends.
LEMMA OnlyRun ==
    ASSUME TypeOK, NEW q \in Runs, RunStep(q) \/ RunFails(q)
    PROVE  /\ run[q].step # "idle"
           /\ \A r \in Runs \ {q} : run'[r] = run[r]
           /\ run'[q] = IdleRun \/ run'[q].offer = run[q].offer
  <1>0. run \in [Runs -> RunRecords] /\ run[q] \in RunRecords
    BY DEF TypeOK
  <1>1. ASSUME NEW st, Stop(q) \/ GoTo(q, st)
        PROVE  /\ \A r \in Runs \ {q} : run'[r] = run[r]
               /\ run'[q] = IdleRun \/ run'[q].offer = run[q].offer
    BY <1>0, <1>1 DEF Stop, GoTo, RunRecords
  <1>2. CASE Claim(q)
    BY <1>1, <1>2 DEF Claim
  <1>3. CASE CheckAccept(q)
    BY <1>1, <1>3 DEF CheckAccept
  <1>4. CASE PauseOffer(q) \/ Finish(q) \/ GiveUp(q)
    BY <1>1, <1>4 DEF PauseOffer, Finish, GiveUp
  <1>5. CASE StartAccepting(q)
    <2>1. CASE run' = [run EXCEPT ![q].step = "record", ![q].left = NotDone(run[q].offer)]
      BY <1>0, <1>5, <2>1 DEF StartAccepting, RunRecords
    <2> QED
      BY <1>1, <1>5, <2>1 DEF StartAccepting
  <1>6. CASE RecordMoved(q)
    <2>1. ASSUME NEW x \in run[q].left,
                 run' = [run EXCEPT ![q].step = "unlink", ![q].site = x, ![q].left = @ \ {x}]
          PROVE  (\A r \in Runs \ {q} : run'[r] = run[r]) /\ run'[q].offer = run[q].offer
      BY <1>0, <2>1 DEF RunRecords
    <2>2. ASSUME NEW x \in run[q].left,
                 run' = [run EXCEPT ![q].left = @ \ {x}, ![q].todo = @ \cup {x}]
          PROVE  (\A r \in Runs \ {q} : run'[r] = run[r]) /\ run'[q].offer = run[q].offer
      BY <1>0, <2>2 DEF RunRecords
    <2>3. run[q].step = "record"
      BY <1>6 DEF RecordMoved
    <2> QED
      BY <1>1, <1>6, <2>1, <2>2, <2>3 DEF RecordMoved
  <1>7. CASE Decide(q)
    <2>1. CASE run' = [run EXCEPT ![q].step = "record", ![q].pass = 1,
                                  ![q].left = NotDone(run[q].offer), ![q].todo = {}]
      BY <1>0, <1>7, <2>1 DEF Decide, RunRecords
    <2> QED
      BY <1>1, <1>7, <2>1 DEF Decide
  <1>8. CASE LinkRecipient(q)
    <2>1. CASE \E x \in run[q].todo : run' = [run EXCEPT ![q].step = "transfer", ![q].site = x]
      BY ZenonT(30), <1>0, <1>8, <2>1 DEF LinkRecipient, RunRecords
    <2> QED
      BY <1>1, <1>8, <2>1 DEF LinkRecipient
  <1>9. CASE TransferSite(q)
    BY <1>1, <1>9 DEF TransferSite
  <1>10. CASE UnlinkSender(q)
    BY <1>1, <1>10 DEF UnlinkSender
  <1>11. CASE MarkDone(q)
    BY <1>0, <1>11 DEF MarkDone, RunRecords
  <1>12. CASE RunFails(q)
    BY <1>1, <1>12 DEF RunFails, Claiming, Moving
  <1> QED
    BY <1>2, <1>3, <1>4, <1>5, <1>6, <1>7, <1>8, <1>9, <1>10, <1>11, <1>12
       DEF RunStep, Completing

\* Whoever starts to work on an offer or a site names one.
LEMMA NextRunShape ==
    ASSUME TypeOK, Shape, [Next]_vars,
           \A o \in Offers : offers[o].state # "none" => offers'[o].state # "none"
    PROVE  RunShape'
  <1> SUFFICES ASSUME NEW r \in Runs
               PROVE  /\ run'[r].step # "idle" =>
                            run'[r].offer \in Offers /\ offers'[run'[r].offer].state # "none"
                      /\ run'[r].step \in {"transfer", "unlink", "mark"} => run'[r].site \in Sites
    BY DEF RunShape
  <1> DEFINE Ok == /\ run'[r].step # "idle" => run'[r].offer \in Offers /\ offers[run'[r].offer].state # "none"
                   /\ run'[r].step \in {"transfer", "unlink", "mark"} => run'[r].site \in Sites
  <1>0. run \in [Runs -> RunRecords] /\ run[r] \in RunRecords
    BY DEF TypeOK
  <1>a. CASE run'[r] = run[r] \/ run'[r] = IdleRun
    BY <1>a DEF Shape, RunShape, IdleRun
  <1> SUFFICES ASSUME run'[r] # run[r], run'[r] # IdleRun PROVE Ok
    BY <1>a
  <1>1. ASSUME NEW q \in Accepts, LookAtOffer(q) PROVE Ok
    <2>1. PICK o \in Offers :
             /\ offers[o].state = "open"
             /\ run' = [run EXCEPT ![q] = [IdleRun EXCEPT !.step = "looked", !.offer = o,
                                                          !.saw = offers[o].sites]]
      BY <1>1 DEF LookAtOffer
    <2>2. q \in Runs /\ run'[r] = [IdleRun EXCEPT !.step = "looked", !.offer = o, !.saw = offers[o].sites]
      BY <1>0, <2>1 DEF Runs
    <2> QED
      BY <2>1, <2>2 DEF IdleRun
  <1>2. ASSUME NEW o \in Offers, PickAccepting(o) PROVE Ok
    <2>1. run'[r] = [IdleRun EXCEPT !.step = "record", !.offer = o, !.left = NotDone(o)]
      BY <1>0, <1>2 DEF PickAccepting
    <2> QED
      BY <1>2, <2>1 DEF PickAccepting, IdleRun
  <1>3. ASSUME NEW q \in Runs, RunStep(q) \/ RunFails(q) PROVE Ok
    <2>0. run[q] \in RunRecords /\ (run[q].step # "idle" => run[q].offer \in Offers)
      BY DEF TypeOK, Shape, RunShape
    <2>1. q = r /\ run[r].step # "idle" /\ run'[r].offer = run[r].offer
      BY <1>3, OnlyRun
    <2>2. run'[r].step \in {"transfer", "unlink", "mark"} => run'[r].site \in Sites
      <3>1. CASE RecordMoved(r)
        <4>1. ASSUME NEW x \in run[r].left,
                     run' = [run EXCEPT ![r].step = "unlink", ![r].site = x, ![r].left = @ \ {x}]
              PROVE  run'[r].site \in Sites
          BY <1>0, <4>1 DEF RunRecords
        <4>2. ASSUME NEW x \in run[r].left,
                     run' = [run EXCEPT ![r].left = @ \ {x}, ![r].todo = @ \cup {x}]
              PROVE  run'[r].step = "record"
          BY <1>0, <3>1, <4>2 DEF RecordMoved, RunRecords
        <4>3. ASSUME GoTo(r, "decide") PROVE run'[r].step = "decide"
          BY <1>0, <4>3 DEF GoTo, RunRecords
        <4> QED
          BY <3>1, <4>1, <4>2, <4>3 DEF RecordMoved
      <3>2. CASE LinkRecipient(r)
        <4>1. ASSUME NEW x \in run[r].todo, run' = [run EXCEPT ![r].step = "transfer", ![r].site = x]
              PROVE  run'[r].site \in Sites
          BY <1>0, <4>1 DEF RunRecords
        <4>2. ASSUME GoTo(r, "finish") PROVE run'[r].step = "finish"
          BY <1>0, <4>2 DEF GoTo, RunRecords
        <4> QED
          BY <3>2, <4>1, <4>2 DEF LinkRecipient
      <3>3. CASE TransferSite(r) \/ UnlinkSender(r)
        BY <1>0, <3>3 DEF TransferSite, UnlinkSender, RunRecords, GoTo, Stop, Shape, RunShape
      <3>4. CASE MarkDone(r)
        BY <1>0, <3>4 DEF MarkDone, RunRecords
      <3>5. ASSUME NEW st, GoTo(r, st) PROVE run'[r].step = st
        BY <1>0, <3>5 DEF GoTo, RunRecords
      <3>6. ASSUME Stop(r) PROVE FALSE
        BY <1>0, <3>6 DEF Stop
      <3>7. CASE Claim(r) \/ CheckAccept(r) \/ PauseOffer(r) \/ Finish(r) \/ GiveUp(r) \/ RunFails(r)
        BY <3>5, <3>6, <3>7 DEF Claim, CheckAccept, PauseOffer, Finish, GiveUp, RunFails
      <3>8. CASE StartAccepting(r)
        <4>1. run' = [run EXCEPT ![r].step = "record", ![r].left = NotDone(run[r].offer)]
          BY <3>6, <3>8 DEF StartAccepting
        <4> QED
          BY <1>0, <4>1 DEF RunRecords
      <3>9. CASE Decide(r)
        <4>1. CASE run' = [run EXCEPT ![r].step = "record", ![r].pass = 1,
                                      ![r].left = NotDone(run[r].offer), ![r].todo = {}]
          BY <1>0, <4>1 DEF RunRecords
        <4> QED
          BY <3>5, <3>9, <4>1 DEF Decide
      <3> QED
        BY <1>3, <2>1, <3>1, <3>2, <3>3, <3>4, <3>7, <3>8, <3>9 DEF RunStep, Completing
    <2> QED
      BY <2>1, <2>2 DEF Shape, RunShape
  <1>4. CASE Crash
    BY <1>4 DEF Crash
  <1>5. CASE run' = run
    BY <1>5
  <1> QED
    BY <1>1, <1>2, <1>3, <1>4, <1>5
       DEF Next, PlanOffer, PlanEdit, AskStep, CancelReplaced, CreateOffer, CreateRefused, Restore,
           EditSites, OfferStep, Cancel, EditDates, Decline, Expire, RecipientLeaves, Reopen, Later,
           DeleteSite, FindMissing, FindStray, Reconcile, AskAcceptances, UnlinkStray, LinkMissing,
           Age, vars

LEMMA NextShape == TypeOK /\ Shape /\ [Next]_vars => Shape'
  <1> SUFFICES ASSUME TypeOK, Shape, [Next]_vars PROVE Shape'
    OBVIOUS
  <1>1. \A o \in Offers :
           /\ offers[o].state # "none" => offers'[o].state # "none"
           /\ offers'[o].state # "none" => offers'[o].from \in Accounts /\ offers'[o].to \in Accounts
    <2> SUFFICES ASSUME NEW p \in Offers
                 PROVE  /\ offers[p].state # "none" => offers'[p].state # "none"
                        /\ offers'[p].state # "none" =>
                              offers'[p].from \in Accounts /\ offers'[p].to \in Accounts
      OBVIOUS
    <2>0. OfferShape /\ UndoShape
      BY DEF Shape
    <2>1. CASE offers'[p] = offers[p]
      BY <2>0, <2>1 DEF OfferShape
    <2>2. CASE Change(p)
      BY ZenonT(30), <2>0, <2>2 DEF Change, Created, Edited, Closed, Restored, Started, Recorded, Ended, Aged,
                        KeepsParties, OfferShape, UndoShape, Editable, Holds, Held
    <2> QED
      BY <2>1, <2>2, Changes DEF Change
  <1>2. OfferShape'
    BY <1>1 DEF OfferShape
  <1>3. RunShape'
    BY <1>1, NextRunShape
  <1>4. RecShape'
    <2>1. CASE FindStray
      BY <2>1 DEF FindStray, RecShape, TypeOK, Pairs
    <2>2. ASSUME NEW x \in Sites, FindMissing(x) PROVE RecShape'
      BY <2>2 DEF FindMissing, RecShape, TypeOK
    <2>3. CASE AskAcceptances
      BY <2>3 DEF AskAcceptances, RecShape, Shape, IdleRec, TypeOK, RecRecords
    <2>4. CASE rec' = IdleRec
      BY <2>4 DEF RecShape, IdleRec
    <2>5. CASE rec' = rec
      BY <2>5 DEF RecShape, Shape
    <2> QED
      BY ZenonT(30), <2>1, <2>2, <2>3, <2>4, <2>5
         DEF Next, PlanOffer, PlanEdit, AskStep, CancelReplaced, CreateOffer, CreateRefused, Restore,
             EditSites, LookAtOffer, RunStep, RunFails, Completing, Claim, CheckAccept, PauseOffer,
             StartAccepting, RecordMoved, Decide, LinkRecipient, TransferSite, UnlinkSender, MarkDone,
             Finish, GiveUp, OfferStep, Cancel, EditDates, Decline, Expire, RecipientLeaves, Reopen,
             Later, PickAccepting, DeleteSite, Reconcile, UnlinkStray, LinkMissing, Age, Crash, vars
  <1>5. AskShape' /\ UndoShape'
    <2> SUFFICES ASSUME NEW c \in Asks
                 PROVE  /\ ask'[c].step = "replace" => ask'[c].from \in Accounts /\ ask'[c].to \in Accounts
                        /\ \A o \in Offers : ask'[c].undo[o] # "none" =>
                              ask[c].undo[o] # "none" \/ offers[o].state # "none"
      BY <1>1 DEF AskShape, UndoShape, Shape
    <2>0. ask \in [Asks -> AskRecords] /\ ask[c] \in AskRecords
      BY DEF TypeOK
    <2>1. CASE ask'[c] = ask[c] \/ ask'[c] = IdleAsk
      BY <2>1 DEF Shape, AskShape, IdleAsk
    <2> SUFFICES ASSUME ask'[c] # ask[c], ask'[c] # IdleAsk
                 PROVE  /\ ask'[c].step = "replace" => ask'[c].from \in Accounts /\ ask'[c].to \in Accounts
                        /\ \A o \in Offers : ask'[c].undo[o] # "none" =>
                              ask[c].undo[o] # "none" \/ offers[o].state # "none"
      BY <2>1
    <2>2. PICK d \in Asks : PlanOffer(d) \/ PlanEdit(d) \/ AskStep(d)
      BY ZenonT(30) DEF Next, LookAtOffer, RunStep, RunFails, Completing, Claim, CheckAccept, PauseOffer,
             StartAccepting, RecordMoved, Decide, LinkRecipient, TransferSite, UnlinkSender, MarkDone,
             Finish, GiveUp, OfferStep, Cancel, EditDates, Decline, Expire, RecipientLeaves, Reopen,
             Later, PickAccepting, DeleteSite, FindMissing, FindStray, Reconcile, AskAcceptances,
             UnlinkStray, LinkMissing, Age, Crash, vars
    <2>3. CASE PlanOffer(d)
      <3> DEFINE Ok == /\ ask'[c].step = "replace" => ask'[c].from \in Accounts /\ ask'[c].to \in Accounts
                       /\ ask'[c].undo = [o \in Offers |-> "none"]
      <3>1. ASSUME NEW from \in Accounts, NEW to \in Accounts, NEW S \in (SUBSET Sites) \ {{}},
                   ask' = [ask EXCEPT ![d] =
                         [IdleAsk EXCEPT !.step = "replace", !.from = from, !.to = to,
                             !.sites = S, !.replace = OffersOf(S)]]
            PROVE  Ok
        <4>1. ask'[c] = [IdleAsk EXCEPT !.step = "replace", !.from = from, !.to = to,
                             !.sites = S, !.replace = OffersOf(S)]
          BY <2>0, <3>1
        <4> QED
          BY <4>1 DEF IdleAsk
      <3> HIDE DEF Ok
      <3>2. Ok
        BY <2>3, <3>1 DEF PlanOffer
      <3> QED
        BY <3>2 DEF Ok
    <2>4. CASE PlanEdit(d)
      BY <2>0, <2>4 DEF PlanEdit, IdleAsk
    <2>5. CASE CancelReplaced(d)
      <3>1. PICK o \in ask[d].replace :
               \/ /\ Editable(o)
                  /\ ask' = [ask EXCEPT ![d].replace = @ \ {o},
                                        ![d].undo = [@ EXCEPT ![o] = offers[o].state]]
               \/ PutBack(d, ask[d].undo)
        BY <2>5 DEF CancelReplaced
      <3>2. CASE PutBack(d, ask[d].undo)
        BY <2>0, <3>2 DEF PutBack, AskRecords
      <3>3. CASE Editable(o) /\ ask' = [ask EXCEPT ![d].replace = @ \ {o},
                                            ![d].undo = [@ EXCEPT ![o] = offers[o].state]]
        <4>1. /\ ask'[c].step = ask[c].step /\ ask'[c].from = ask[c].from /\ ask'[c].to = ask[c].to
              /\ ask'[c].undo \in {ask[c].undo, [ask[c].undo EXCEPT ![o] = offers[o].state]}
          BY <2>0, <3>3 DEF AskRecords
        <4>2. ask[c].undo \in [Offers -> {"none", "open", "paused"}]
          BY <2>0 DEF AskRecords
        <4>3. offers[o].state # "none"
          BY <3>3 DEF Editable
        <4> QED
          BY <4>1, <4>2, <4>3 DEF Shape, AskShape
      <3> QED
        BY <3>1, <3>2, <3>3
    <2>6. CASE CreateRefused(d)
      BY <2>0, <2>6 DEF CreateRefused, PutBack, AskRecords
    <2>7. CASE Restore(d)
      <3>1. PICK o \in Offers : PutBack(d, [ask[d].undo EXCEPT ![o] = "none"])
        BY <2>7 DEF Restore
      <3> DEFINE undo == [ask[d].undo EXCEPT ![o] = "none"]
      <3>2. ask[d].undo \in [Offers -> {"none", "open", "paused"}]
        BY <2>0 DEF TypeOK, AskRecords
      <3>3. \A p \in Offers : undo[p] # "none" => ask[d].undo[p] # "none"
        BY <3>2
      <3>4. PutBack(d, undo)
        BY <3>1
      <3> HIDE DEF undo
      <3>5. c = d /\ ask'[c].step = "restore" /\ ask'[c].undo = undo
        BY <2>0, <3>4 DEF PutBack, AskRecords
      <3> QED
        BY <3>3, <3>5
    <2>8. CASE CreateOffer(d) \/ EditSites(d)
      BY <2>0, <2>8 DEF CreateOffer, EditSites
    <2> QED
      BY <2>2, <2>3, <2>4, <2>5, <2>6, <2>7, <2>8 DEF AskStep
  <1> QED
    BY <1>2, <1>3, <1>4, <1>5 DEF Shape

\* Offers, runs, requests and markers keep their types: no run moves a site of
\* an offer that was never made, no marker is put into an index of nobody.
THEOREM TypeCorrect == Spec => []TypeOK
  <1>1. Spec => [](TypeOK /\ Shape)
    BY InitType, InitShape, NextType, NextShape, PTL DEF Spec
  <1> QED
    BY <1>1, PTL

(***************************************************************************)
(* The one-open-offer rule.                                                *)
(***************************************************************************)

LEMMA NextOneOffer ==
    ASSUME TypeOK, Shape, OneOfferPerSite, [Next]_vars
    PROVE  OneOfferPerSite'
  <1>1. CASE UNCHANGED offers
    BY <1>1 DEF OneOfferPerSite, Holds
  <1>2. ASSUME NEW o \in Offers, Change(o) PROVE OneOfferPerSite'
    <2> SUFFICES ASSUME NEW p \in Offers, NEW q \in Offers, p # q,
                        offers'[p].state \in Held, offers'[q].state \in Held
                 PROVE  offers'[p].sites \cap offers'[q].sites = {}
      BY DEF OneOfferPerSite, Holds
    <2>1. \A t \in Offers \ {o} : offers'[t] = offers[t]
      BY <1>2 DEF Change
    <2>2. offers'[o].state \in Held =>
             SitesFree(o, offers'[o].sites) \/ (Holds(o) /\ offers'[o].sites = offers[o].sites)
      BY <1>2 DEF Change
    <2>3. ASSUME NEW t \in Offers \ {o}, offers'[o].state \in Held, offers'[t].state \in Held
          PROVE  offers'[o].sites \cap offers'[t].sites = {}
      BY <2>1, <2>2, <2>3 DEF OneOfferPerSite, SitesFree, Holds
    <2>4. CASE p = o
      BY <2>3, <2>4
    <2>5. CASE q = o
      BY <2>3, <2>5
    <2>6. CASE p # o /\ q # o
      BY <2>1, <2>6 DEF OneOfferPerSite, Holds
    <2> QED
      BY <2>4, <2>5, <2>6
  <1> QED
    BY <1>1, <1>2, Changes

\* Over every creation, edit, pause lifted, replacement put back and acceptance,
\* by any number of requests at a time, a site is in one open offer at most.
THEOREM OneOfferHolds == Spec => []OneOfferPerSite
  <1>1. Init => OneOfferPerSite
    BY DEF Init, OneOfferPerSite, Holds, Held, NoOffer
  <1>2. TypeOK /\ Shape /\ OneOfferPerSite /\ [Next]_vars => (TypeOK /\ Shape /\ OneOfferPerSite)'
    BY NextType, NextShape, NextOneOffer
  <1>3. Spec => [](TypeOK /\ Shape /\ OneOfferPerSite)
    BY <1>1, <1>2, InitType, InitShape, PTL DEF Spec
  <1> QED
    BY <1>3, PTL

(***************************************************************************)
(* What a cancelled offer's return rests on: the request that will put it  *)
(* back is the one that cancelled it, and nothing else touches it.         *)
(***************************************************************************)

UndoInv == \A c \in Asks, o \in Offers :
    ask[c].undo[o] # "none" =>
        /\ offers[o].state = "cancelled"
        /\ \A d \in Asks \ {c} : ask[d].undo[o] = "none"

\* A request takes on an offer to put back only by cancelling it.
LEMMA UndoMoves ==
    ASSUME TypeOK, Shape, [Next]_vars, NEW c \in Asks, NEW o \in Offers,
           ask'[c].undo[o] # "none", ask[c].undo[o] = "none"
    PROVE  /\ Editable(o) /\ offers'[o].state = "cancelled"
           /\ \A d \in Asks \ {c} : ask'[d] = ask[d]
  <1>0. /\ ask \in [Asks -> AskRecords]
        /\ \A d \in Asks : ask[d] \in AskRecords
        /\ \A d \in Asks : ask[d].undo \in [Offers -> {"none", "open", "paused"}]
        /\ IdleAsk.undo[o] = "none"
    BY DEF TypeOK, AskRecords, IdleAsk
  <1>1. ask'[c] # ask[c] /\ ask'[c] # IdleAsk
    BY SMTT(30), <1>0
  <1>2. PICK d \in Asks : PlanOffer(d) \/ PlanEdit(d) \/ AskStep(d)
    BY ZenonT(30), <1>1
       DEF Next, LookAtOffer, RunStep, RunFails, Completing, Claim, CheckAccept, PauseOffer,
           StartAccepting, RecordMoved, Decide, LinkRecipient, TransferSite, UnlinkSender, MarkDone,
           Finish, GiveUp, OfferStep, Cancel, EditDates, Decline, Expire, RecipientLeaves, Reopen,
           Later, PickAccepting, DeleteSite, FindMissing, FindStray, Reconcile, AskAcceptances,
           UnlinkStray, LinkMissing, Age, Crash, vars
  <1>3. ASSUME PlanOffer(d) PROVE FALSE
    <2>1. ASSUME NEW from \in Accounts, NEW to \in Accounts, NEW S \in (SUBSET Sites) \ {{}},
                 ask' = [ask EXCEPT ![d] =
                       [IdleAsk EXCEPT !.step = "replace", !.from = from, !.to = to,
                           !.sites = S, !.replace = OffersOf(S)]]
          PROVE  FALSE
      <3>1. ask'[c] = [IdleAsk EXCEPT !.step = "replace", !.from = from, !.to = to,
                           !.sites = S, !.replace = OffersOf(S)]
        BY <1>0, <1>1, <2>1
      <3>2. ask'[c].undo[o] = "none"
        BY <3>1 DEF IdleAsk
      <3> QED
        BY <3>2
    <2> QED
      BY <1>3, <2>1 DEF PlanOffer
  <1>4. ASSUME PlanEdit(d) PROVE FALSE
    <2>1. ASSUME NEW p \in Offers, NEW drop, NEW add,
                 ask' = [ask EXCEPT ![d] = [IdleAsk EXCEPT !.step = "edit", !.offer = p,
                                              !.from = offers[p].from, !.sites = add,
                                              !.drop = drop]]
          PROVE  FALSE
      <3>1. ask'[c] = [IdleAsk EXCEPT !.step = "edit", !.offer = p,
                                      !.from = offers[p].from, !.sites = add, !.drop = drop]
        BY <1>0, <1>1, <2>1
      <3>2. ask'[c].undo[o] = "none"
        BY <3>1 DEF IdleAsk
      <3> QED
        BY <3>2
    <2> QED
      BY <1>4, <2>1 DEF PlanEdit
  <1>5. ASSUME NEW undo, PutBack(d, undo), undo[o] = "none" \/ undo[o] = ask[d].undo[o]
        PROVE  FALSE
    <2>1. c = d
      BY <1>0, <1>1, <1>5 DEF PutBack
    <2>2. ask'[c].undo = undo
      BY <1>0, <1>1, <1>5, <2>1 DEF PutBack, AskRecords
    <2> QED
      BY <1>5, <2>1, <2>2
  <1>6. CASE CancelReplaced(d)
    <2>1. ~PutBack(d, ask[d].undo)
      BY <1>5
    <2>2. PICK p \in ask[d].replace :
             /\ Editable(p)
             /\ SetState(p, "cancelled")
             /\ ask' = [ask EXCEPT ![d].replace = @ \ {p},
                                   ![d].undo = [@ EXCEPT ![p] = offers[p].state]]
      BY <1>6, <2>1 DEF CancelReplaced
    <2> DEFINE undo == [ask[d].undo EXCEPT ![p] = offers[p].state]
    <2>3. /\ p \in Offers /\ c = d
          /\ ask'[d].undo = undo
          /\ \A e \in Asks \ {d} : ask'[e] = ask[e]
      BY <1>0, <1>1, <2>2 DEF AskRecords
    <2>4. p # o => undo[o] = ask[d].undo[o]
      BY <1>0
    <2>5. p = o
      BY <2>3, <2>4
    <2> QED
      BY <2>2, <2>3, <2>5, StateUpdated
  <1>7. ASSUME CreateRefused(d) PROVE FALSE
    BY <1>5, <1>7 DEF CreateRefused
  <1>8. ASSUME Restore(d) PROVE FALSE
    <2>1. PICK p \in Offers : PutBack(d, [ask[d].undo EXCEPT ![p] = "none"])
      BY <1>8 DEF Restore
    <2> DEFINE undo == [ask[d].undo EXCEPT ![p] = "none"]
    <2>2. undo[o] = "none" \/ undo[o] = ask[d].undo[o]
      BY <1>0
    <2>3. PutBack(d, undo)
      BY <2>1
    <2> HIDE DEF undo
    <2> QED
      BY <1>5, <2>2, <2>3
  <1>9. ASSUME CreateOffer(d) \/ EditSites(d) PROVE FALSE
    BY <1>0, <1>1, <1>9 DEF CreateOffer, EditSites
  <1> QED
    BY <1>2, <1>3, <1>4, <1>6, <1>7, <1>8, <1>9 DEF AskStep

LEMMA NextUndo ==
    ASSUME TypeOK, Shape, UndoInv, [Next]_vars
    PROVE  UndoInv'
  <1> SUFFICES ASSUME NEW c \in Asks, NEW o \in Offers, ask'[c].undo[o] # "none"
               PROVE  /\ offers'[o].state = "cancelled"
                      /\ \A d \in Asks \ {c} : ask'[d].undo[o] = "none"
    BY DEF UndoInv
  <1>1. CASE ask[c].undo[o] = "none"
    <2>1. /\ Editable(o) /\ offers'[o].state = "cancelled"
          /\ \A d \in Asks \ {c} : ask'[d] = ask[d]
      BY <1>1, UndoMoves
    <2>2. \A d \in Asks : ask[d].undo[o] = "none"
      BY <2>1 DEF UndoInv, Editable
    <2> QED
      BY <2>1, <2>2
  <1>2. CASE ask[c].undo[o] # "none"
    <2>1. /\ offers[o].state = "cancelled"
          /\ \A d \in Asks \ {c} : ask[d].undo[o] = "none"
      BY <1>2 DEF UndoInv
    <2>2. \A d \in Asks \ {c} : ask'[d].undo[o] = "none"
      BY <2>1, UndoMoves DEF Editable
    <2>3. offers'[o].state = "cancelled"
      <3>1. CASE offers'[o] = offers[o]
        BY <2>1, <3>1
      <3>2. CASE Change(o)
        <4>1. ~Restored(o)
          BY <2>1 DEF Restored
        <4> QED
          BY <2>1, <3>2, <4>1
             DEF Change, Created, Edited, Closed, Started, Recorded, Ended, Aged, Editable
      <3> QED
        BY <3>1, <3>2, Changes DEF Change
    <2> QED
      BY <2>2, <2>3
  <1> QED
    BY <1>1, <1>2

\* No lapse, pause lifted, decline or acceptance that was decided on an older
\* reading brings back an offer that is over: only its own replacement does.
THEOREM FinalHolds == Spec => FinalIsFinal
  <1> DEFINE J == TypeOK /\ Shape /\ UndoInv
  <1>1. Init => UndoInv
    BY DEF Init, UndoInv, IdleAsk
  <1>2. J /\ [Next]_vars => J'
    BY NextType, NextShape, NextUndo
  <1>3. J /\ [Next]_vars =>
          \A o \in Offers :
            offers[o].state \in Finals /\ offers'[o].state # offers[o].state =>
              /\ offers[o].state = "cancelled"
              /\ \E c \in Asks : ask[c].undo[o] = offers'[o].state
    <2> SUFFICES ASSUME J, [Next]_vars, NEW o \in Offers, offers[o].state \in Finals,
                        offers'[o].state # offers[o].state
                 PROVE  /\ offers[o].state = "cancelled"
                        /\ \E c \in Asks : ask[c].undo[o] = offers'[o].state
      OBVIOUS
    <2>1. Change(o)
      BY Changes DEF Change
    <2>2. Restored(o)
      BY <2>1 DEF Change, Created, Edited, Closed, Started, Recorded, Ended, Aged, Editable, Finals
    <2> QED
      BY <2>2 DEF Restored, UndoInv
  <1>4. Init => J
    BY <1>1, InitType, InitShape
  <1> HIDE DEF J
  <1> QED
    BY <1>2, <1>3, <1>4, PTL DEF Spec, FinalIsFinal

(***************************************************************************)
(* Runs: one per offer, and each knows what it has left to do.             *)
(***************************************************************************)

ClaimInv == \A r, q \in Runs :
    r # q /\ run[r].step \in Claiming /\ run[q].step \in Claiming
        => run[r].offer # run[q].offer

\* Between its steps a run has not looked at the sites in left, has found the
\* ones in todo with the sender, and has the bookkeeping of one site to do.
RunOk(r) ==
    /\ run[r].step \notin Moving => run[r].todo = {}
    /\ run[r].step \in Moving =>
        /\ offers[run[r].offer].state = "accepting"
        /\ run[r].left \subseteq NotDone(run[r].offer)
        /\ run[r].todo \subseteq NotDone(run[r].offer)
        /\ run[r].left \cap run[r].todo = {}
    /\ run[r].step \in {"decide", "link", "transfer", "finish", "give up"} => run[r].left = {}
    /\ run[r].step = "transfer" => run[r].site \in run[r].todo
    /\ run[r].step \in {"unlink", "mark"} =>
        /\ run[r].site \notin run[r].left
        /\ run[r].site \in run[r].todo => run[r].left = {}

RunInv == \A r \in Runs : RunOk(r)

\* Who changes a run.
LEMMA RunMoves ==
    ASSUME TypeOK, [Next]_vars, NEW r \in Runs, run'[r] # run[r], run'[r] # IdleRun
    PROVE  /\ \A q \in Runs \ {r} : run'[q] = run[q]
           /\ \/ RunStep(r)
              \/ LookAtOffer(r)
              \/ r = Loop /\ \E o \in Offers : PickAccepting(o)
  <1>0. run \in [Runs -> RunRecords]
    BY DEF TypeOK
  <1>1. ASSUME NEW q \in Runs, RunStep(q) \/ RunFails(q)
        PROVE  r = q /\ RunStep(q) /\ \A p \in Runs \ {q} : run'[p] = run[p]
    <2>1. r = q /\ \A p \in Runs \ {q} : run'[p] = run[p]
      BY <1>1, OnlyRun
    <2>2. ~RunFails(q)
      BY <1>0, <2>1 DEF RunFails, Stop
    <2> QED
      BY <1>1, <2>1, <2>2
  <1>2. ASSUME NEW q \in Accepts, LookAtOffer(q)
        PROVE  r = q /\ \A p \in Runs \ {q} : run'[p] = run[p]
    BY <1>0, <1>2 DEF LookAtOffer, Runs
  <1>3. ASSUME NEW o \in Offers, PickAccepting(o)
        PROVE  r = Loop /\ \A p \in Runs \ {Loop} : run'[p] = run[p]
    <2> DEFINE new == [IdleRun EXCEPT !.step = "record", !.offer = o, !.left = NotDone(o)]
    <2>1. run' = [run EXCEPT ![Loop] = new]
      BY <1>3 DEF PickAccepting
    <2> HIDE DEF new
    <2> QED
      BY <1>0, <2>1
  <1>4. ~Crash /\ run' # run
    BY SMTT(30) DEF Crash
  <1>5. \/ \E q \in Runs : RunStep(q) \/ RunFails(q)
        \/ \E q \in Accepts : LookAtOffer(q)
        \/ \E o \in Offers : PickAccepting(o)
    BY <1>4
       DEF Next, PlanOffer, PlanEdit, AskStep, CancelReplaced, CreateOffer, CreateRefused, Restore,
           EditSites, OfferStep, Cancel, EditDates, Decline, Expire, RecipientLeaves, Reopen, Later,
           DeleteSite, FindMissing, FindStray, Reconcile, AskAcceptances, UnlinkStray, LinkMissing,
           Age, vars
  <1>6. CASE \E q \in Runs : RunStep(q) \/ RunFails(q)
    BY <1>1, <1>6
  <1>7. CASE \E q \in Accepts : LookAtOffer(q)
    BY <1>2, <1>7
  <1>8. CASE \E o \in Offers : PickAccepting(o)
    BY <1>3, <1>8
  <1> QED
    BY <1>5, <1>6, <1>7, <1>8

\* A run that claims an offer already did, or found it free.
LEMMA ClaimMoves ==
    ASSUME TypeOK, [Next]_vars, NEW r \in Runs, run'[r].step \in Claiming
    PROVE  \/ run[r].step \in Claiming /\ run'[r].offer = run[r].offer
           \/ ~Claimed(run'[r].offer) /\ \A q \in Runs \ {r} : run'[q] = run[q]
  <1>0. run \in [Runs -> RunRecords] /\ run[r] \in RunRecords
    BY DEF TypeOK
  <1>1. CASE run'[r] = run[r]
    BY <1>1
  <1>2. run'[r] # IdleRun
    <2>1. IdleRun.step \notin Claiming
      BY DEF IdleRun, Claiming, Moving
    <2> QED
      BY <2>1
  <1>3. CASE RunStep(r) /\ run'[r] # run[r]
    <2>1. run'[r].offer = run[r].offer /\ \A q \in Runs \ {r} : run'[q] = run[q]
      BY <1>2, <1>3, OnlyRun
    <2>2. CASE Claim(r)
      BY <1>0, <1>2, <2>1, <2>2 DEF Claim, Stop
    <2>3. CASE ~Claim(r)
      <3>1. run[r].step \in Claiming
        BY <1>3, <2>3
           DEF RunStep, Completing, CheckAccept, PauseOffer, StartAccepting, RecordMoved, Decide,
               LinkRecipient, TransferSite, UnlinkSender, MarkDone, Finish, GiveUp, Claiming, Moving
      <3> QED
        BY SMTT(30), <2>1, <3>1
    <2> QED
      BY <2>2, <2>3
  <1>4. ASSUME LookAtOffer(r) PROVE FALSE
    <2>1. PICK o \in Offers :
             run' = [run EXCEPT ![r] = [IdleRun EXCEPT !.step = "looked", !.offer = o,
                                                       !.saw = offers[o].sites]]
      BY <1>4 DEF LookAtOffer
    <2>2. run'[r].step = "looked"
      BY <1>0, <2>1 DEF IdleRun
    <2> QED
      BY <2>2 DEF Claiming, Moving
  <1>5. ASSUME NEW o \in Offers, PickAccepting(o), r = Loop
        PROVE  ~Claimed(run'[r].offer) /\ \A q \in Runs \ {r} : run'[q] = run[q]
    <2>1. run'[r].offer = o
      BY <1>0, <1>5 DEF PickAccepting, IdleRun
    <2> QED
      BY <1>0, <1>5, <2>1 DEF PickAccepting
  <1> QED
    BY <1>1, <1>2, <1>3, <1>4, <1>5, RunMoves

LEMMA NextClaim ==
    ASSUME TypeOK, ClaimInv, [Next]_vars
    PROVE  ClaimInv'
  <1> SUFFICES ASSUME NEW r \in Runs, NEW q \in Runs, r # q,
                      run'[r].step \in Claiming, run'[q].step \in Claiming
               PROVE  run'[r].offer # run'[q].offer
    BY DEF ClaimInv
  <1>1. CASE /\ run[r].step \in Claiming /\ run'[r].offer = run[r].offer
             /\ run[q].step \in Claiming /\ run'[q].offer = run[q].offer
    BY <1>1 DEF ClaimInv
  <1>2. CASE ~Claimed(run'[r].offer) /\ run'[q] = run[q]
    BY <1>2 DEF Claimed
  <1>3. CASE ~Claimed(run'[q].offer) /\ run'[r] = run[r]
    BY <1>3 DEF Claimed
  <1> QED
    BY <1>1, <1>2, <1>3, ClaimMoves

\* While a run moves an offer's sites, nobody else changes more than its dates.
LEMMA OthersKeep ==
    ASSUME TypeOK, Shape, UndoInv, ClaimInv, RunInv, [Next]_vars,
           NEW r \in Runs, run[r].step \in Moving, run'[r] = run[r]
    PROVE  /\ offers'[run[r].offer].state = "accepting"
           /\ KeepsParties(run[r].offer) /\ KeepsBundle(run[r].offer)
  <1> DEFINE o == run[r].offer
  <1>1. o \in Offers /\ offers[o].state = "accepting"
    BY DEF Shape, RunShape, RunInv, RunOk, Moving
  <1>2. CASE offers'[o] = offers[o]
    BY <1>1, <1>2 DEF KeepsParties, KeepsBundle
  <1>3. CASE Change(o)
    <2>1. ~Recorded(o) /\ ~Ended(o)
      <3>1. \A q \in Runs : run[q].offer = o /\ run[q].step \in Claiming => q = r
        BY DEF ClaimInv, Claiming
      <3> QED
        BY <3>1 DEF Recorded, Ended, Claiming, Moving
    <2>2. Aged(o)
      BY <1>1, <1>3, <2>1
         DEF Change, Created, Edited, Closed, Restored, Started, Editable, UndoInv
    <2> QED
      BY <1>1, <2>2 DEF Aged
  <1> QED
    BY <1>1, <1>2, <1>3, Changes DEF Change

\* RunOk after a step that leaves the offer and takes the run to another point.
LEMMA RunGoes ==
    ASSUME TypeOK, Shape, UndoInv, ClaimInv, RunInv, [Next]_vars,
           NEW r \in Runs, RunStep(r), run'[r] # run[r], run'[r] # IdleRun
    PROVE  RunOk(r)'
  <1> DEFINE o == run[r].offer
  <1>0. /\ run \in [Runs -> RunRecords] /\ run[r] \in RunRecords
        /\ RunOk(r) /\ run[r].step # "idle" /\ o \in Offers
        /\ run'[r].offer = o
        /\ ~Stop(r)
    <2>1. run'[r].offer = o /\ run[r].step # "idle"
      BY OnlyRun
    <2>2. run \in [Runs -> RunRecords] /\ run[r] \in RunRecords
      BY DEF TypeOK
    <2>3. ~Stop(r)
      BY <2>2 DEF Stop
    <2> QED
      BY <2>1, <2>2, <2>3 DEF RunInv, Shape, RunShape
  <1>1. ASSUME NEW st, GoTo(r, st)
        PROVE  /\ run'[r].step = st /\ run'[r].todo = run[r].todo /\ run'[r].left = run[r].left
               /\ run'[r].site = run[r].site
    BY <1>0, <1>1 DEF GoTo, RunRecords
  <1>3. CASE Claim(r)
    <2>1. GoTo(r, "check") /\ run[r].step = "looked"
      BY <1>0, <1>3 DEF Claim
    <2>2. run'[r].step = "check" /\ run'[r].todo = run[r].todo
      BY <1>1, <2>1
    <2> QED
      BY <1>0, <2>1, <2>2 DEF RunOk, Moving
  <1>4. CASE CheckAccept(r)
    <2>1. (GoTo(r, "pause") \/ GoTo(r, "start")) /\ run[r].step = "check"
      BY <1>0, <1>4 DEF CheckAccept
    <2>2. run'[r].step \in {"pause", "start"} /\ run'[r].todo = {}
      BY <1>0, <1>1, <2>1 DEF RunOk, Moving
    <2> QED
      BY <2>2 DEF RunOk, Moving
  <1>5. CASE StartAccepting(r)
    <2>1. /\ run[r].step = "start" /\ SetState(o, "accepting")
          /\ run' = [run EXCEPT ![r].step = "record", ![r].left = NotDone(o)]
      BY <1>0, <1>5 DEF StartAccepting
    <2>2. /\ run'[r].step = "record" /\ run'[r].left = NotDone(o) /\ run'[r].todo = run[r].todo
      BY <1>0, <2>1 DEF RunRecords
    <2>3. run[r].todo = {}
      BY <1>0, <2>1 DEF RunOk, Moving
    <2>4. offers'[o].state = "accepting" /\ NotDone(o)' = NotDone(o)
      BY <1>0, <2>1, StateUpdated DEF NotDone, KeepsBundle
    <2> QED
      BY <1>0, <2>2, <2>3, <2>4 DEF RunOk, NotDone
  <1>6. CASE RecordMoved(r)
    <2>0. run[r].step = "record" /\ offers' = offers
      BY <1>6 DEF RecordMoved, storeVars
    <2>1. ASSUME NEW x \in run[r].left,
                 run' = [run EXCEPT ![r].step = "unlink", ![r].site = x, ![r].left = @ \ {x}]
          PROVE  RunOk(r)'
      <3>1. /\ run'[r].step = "unlink" /\ run'[r].site = x
            /\ run'[r].left = run[r].left \ {x} /\ run'[r].todo = run[r].todo
        BY <1>0, <2>1 DEF RunRecords
      <3> QED
        BY <1>0, <2>0, <3>1 DEF RunOk, Moving, NotDone
    <2>2. ASSUME NEW x \in run[r].left,
                 run' = [run EXCEPT ![r].left = @ \ {x}, ![r].todo = @ \cup {x}]
          PROVE  RunOk(r)'
      <3>1. /\ run'[r].step = "record"
            /\ run'[r].left = run[r].left \ {x} /\ run'[r].todo = run[r].todo \cup {x}
        BY <1>0, <2>0, <2>2 DEF RunRecords
      <3> QED
        BY <1>0, <2>0, <3>1 DEF RunOk, Moving, NotDone
    <2>3. CASE GoTo(r, "decide") /\ run[r].left = {}
      <3>1. /\ run'[r].step = "decide" /\ run'[r].todo = run[r].todo
            /\ run'[r].left = {}
        BY <1>1, <2>3
      <3> QED
        BY <1>0, <2>0, <3>1 DEF RunOk, Moving, NotDone
    <2> QED
      BY <1>6, <2>1, <2>2, <2>3 DEF RecordMoved
  <1>7. CASE Decide(r)
    <2>0. run[r].step = "decide" /\ offers' = offers
      BY <1>7 DEF Decide, storeVars
    <2>1. CASE run' = [run EXCEPT ![r].step = "record", ![r].pass = 1,
                                  ![r].left = NotDone(o), ![r].todo = {}]
      <3>1. run'[r].step = "record" /\ run'[r].left = NotDone(o) /\ run'[r].todo = {}
        BY <1>0, <2>1 DEF RunRecords
      <3> QED
        BY <1>0, <2>0, <3>1 DEF RunOk, Moving, NotDone
    <2>2. CASE GoTo(r, "finish") \/ GoTo(r, "link") \/ GoTo(r, "give up")
      <3>1. /\ run'[r].step \in {"finish", "link", "give up"}
            /\ run'[r].todo = run[r].todo /\ run'[r].left = run[r].left
        BY <1>1, <2>2
      <3> QED
        BY <1>0, <2>0, <3>1 DEF RunOk, Moving, NotDone
    <2> QED
      BY <1>7, <2>1, <2>2 DEF Decide
  <1>8. CASE LinkRecipient(r)
    <2>0. run[r].step = "link" /\ offers' = offers
      BY <1>8 DEF LinkRecipient, storeVars
    <2>1. ASSUME NEW x \in run[r].todo,
                 run' = [run EXCEPT ![r].step = "transfer", ![r].site = x]
          PROVE  RunOk(r)'
      <3>1. /\ run'[r].step = "transfer" /\ run'[r].site = x
            /\ run'[r].left = run[r].left /\ run'[r].todo = run[r].todo
        BY <1>0, <2>1 DEF RunRecords
      <3> QED
        BY <1>0, <2>0, <3>1 DEF RunOk, Moving, NotDone
    <2>2. CASE GoTo(r, "finish")
      <3>1. /\ run'[r].step = "finish" /\ run'[r].todo = run[r].todo
            /\ run'[r].left = run[r].left
        BY <1>1, <2>2
      <3> QED
        BY <1>0, <2>0, <3>1 DEF RunOk, Moving, NotDone
    <2> QED
      BY <1>8, <2>1, <2>2 DEF LinkRecipient
  <1>9. CASE TransferSite(r)
    <2>0. run[r].step = "transfer" /\ offers' = offers /\ GoTo(r, "unlink")
      BY <1>0, <1>9 DEF TransferSite
    <2>1. /\ run'[r].step = "unlink" /\ run'[r].todo = run[r].todo
          /\ run'[r].left = run[r].left /\ run'[r].site = run[r].site
      BY <1>1, <2>0
    <2> QED
      BY <1>0, <2>0, <2>1 DEF RunOk, Moving, NotDone
  <1>10. CASE UnlinkSender(r)
    <2>0. run[r].step = "unlink" /\ offers' = offers /\ GoTo(r, "mark")
      BY <1>10 DEF UnlinkSender, storeVars
    <2>1. /\ run'[r].step = "mark" /\ run'[r].todo = run[r].todo
          /\ run'[r].left = run[r].left /\ run'[r].site = run[r].site
      BY <1>1, <2>0
    <2> QED
      BY <1>0, <2>0, <2>1 DEF RunOk, Moving, NotDone
  <1>11. CASE MarkDone(r)
    <2> DEFINE x == run[r].site
               st == IF x \in run[r].todo THEN "link" ELSE "record"
    <2>1. /\ run[r].step = "mark" /\ offers[o].state = "accepting"
          /\ UpdateOffer(o, [offers[o] EXCEPT !.done = @ \cup {x}])
          /\ run' = [run EXCEPT ![r].step = st, ![r].todo = @ \ {x}, ![r].site = NoOne]
      BY <1>11 DEF MarkDone
    <2>2. /\ run'[r].step = st /\ run'[r].todo = run[r].todo \ {x}
          /\ run'[r].left = run[r].left
      BY <1>0, <2>1 DEF RunRecords
    <2>3. offers'[o] = [offers[o] EXCEPT !.done = @ \cup {x}]
      BY <1>0, <2>1, Updated
    <2>4. offers'[o].state = "accepting" /\ NotDone(o)' = NotDone(o) \ {x}
      BY <1>0, <2>1, <2>3 DEF NotDone, TypeOK, Records
    <2> HIDE DEF st
    <2>5. run'[r].left \subseteq NotDone(o) \ {x} /\ run'[r].todo \subseteq NotDone(o) \ {x}
      BY <1>0, <2>1, <2>2 DEF RunOk, Moving
    <2>6. run'[r].step \in {"link", "record"} /\ (run'[r].step = "link" => run'[r].left = {})
      BY <1>0, <2>1, <2>2 DEF RunOk, Moving, st
    <2>7. run'[r].left \cap run'[r].todo = {}
      BY <1>0, <2>1, <2>2 DEF RunOk, Moving
    <2> QED
      BY <1>0, <2>4, <2>5, <2>6, <2>7 DEF RunOk, Moving, NotDone
  <1> QED
    BY <1>0, <1>3, <1>4, <1>5, <1>6, <1>7, <1>8, <1>9, <1>10, <1>11
       DEF RunStep, Completing, PauseOffer, Finish, GiveUp

LEMMA NextRun ==
    ASSUME TypeOK, Shape, UndoInv, ClaimInv, RunInv, [Next]_vars
    PROVE  RunInv'
  <1> SUFFICES ASSUME NEW r \in Runs PROVE RunOk(r)'
    BY DEF RunInv
  <1>0. run \in [Runs -> RunRecords] /\ RunOk(r)
    BY DEF TypeOK, RunInv
  <1>1. CASE run'[r] = run[r]
    <2>1. CASE run[r].step \in Moving
      BY <1>0, <1>1, <2>1, OthersKeep DEF RunOk, NotDone, KeepsBundle
    <2>2. CASE run[r].step \notin Moving
      BY <1>0, <1>1, <2>2 DEF RunOk, Moving
    <2> QED
      BY <2>1, <2>2
  <1>2. CASE run'[r] = IdleRun
    BY <1>2 DEF RunOk, IdleRun, Moving
  <1>3. CASE LookAtOffer(r)
    <2>1. PICK o \in Offers :
             run' = [run EXCEPT ![r] = [IdleRun EXCEPT !.step = "looked", !.offer = o,
                                                       !.saw = offers[o].sites]]
      BY <1>3 DEF LookAtOffer
    <2>2. run'[r].step = "looked" /\ run'[r].todo = {}
      BY <1>0, <2>1 DEF IdleRun
    <2> QED
      BY <2>2 DEF RunOk, Moving
  <1>4. ASSUME NEW o \in Offers, PickAccepting(o), r = Loop PROVE RunOk(r)'
    <2>1. run'[r].offer = o /\ run'[r].step = "record" /\ run'[r].todo = {} /\ run'[r].left = NotDone(o)
      BY <1>0, <1>4 DEF PickAccepting, IdleRun
    <2>2. offers' = offers /\ offers[o].state = "accepting"
      BY <1>4 DEF PickAccepting, storeVars
    <2> QED
      BY <2>1, <2>2 DEF RunOk, NotDone
  <1> QED
    BY <1>1, <1>2, <1>3, <1>4, RunMoves, RunGoes

(***************************************************************************)
(* Sites move only while their offer is being accepted, and an acceptance  *)
(* that began goes forward.                                                *)
(***************************************************************************)

Forward == AcceptanceGoesForward

IInv == TypeOK /\ Shape /\ OneOfferPerSite /\ UndoInv /\ ClaimInv /\ RunInv /\ Forward

\* A site's owner changes when a run moves it, or the site is deleted.
LEMMA OwnerMoves ==
    ASSUME IInv, [Next]_vars
    PROVE  \/ \E r \in Runs : /\ TransferSite(r) /\ run'[r].step = "unlink"
                            /\ run'[r].site = run[r].site /\ run'[r].offer = run[r].offer
                            /\ MovesUnder(run[r].offer, run[r].site)
                            /\ run[r].site \in Sites /\ run[r].offer \in Offers
                            /\ owner' = [owner EXCEPT ![run[r].site] = offers[run[r].offer].to]
                            /\ moved' = [moved EXCEPT ![run[r].offer] = @ \cup {run[r].site}]
           \/ moved' = moved /\ \A x \in Sites : owner'[x] \in {owner[x], NoOne}
  <1> USE DEF IInv
  <1>1. ASSUME NEW r \in Runs, TransferSite(r), run[r].site \in Sites,
               owner[run[r].site] = offers[run[r].offer].from
        PROVE  /\ run'[r].step = "unlink" /\ run'[r].site = run[r].site /\ run'[r].offer = run[r].offer
               /\ MovesUnder(run[r].offer, run[r].site) /\ run[r].offer \in Offers
               /\ owner' = [owner EXCEPT ![run[r].site] = offers[run[r].offer].to]
               /\ moved' = [moved EXCEPT ![run[r].offer] = @ \cup {run[r].site}]
    <2>1. /\ run[r].step = "transfer" /\ GoTo(r, "unlink")
          /\ owner' = [owner EXCEPT ![run[r].site] = offers[run[r].offer].to]
          /\ moved' = [moved EXCEPT ![run[r].offer] = @ \cup {run[r].site}]
      BY <1>1 DEF TransferSite
    <2>2. /\ run[r].offer \in Offers /\ offers[run[r].offer].state = "accepting"
          /\ run[r].site \in NotDone(run[r].offer)
      BY <2>1 DEF RunInv, RunOk, Moving, Shape, RunShape
    <2>3. owner'[run[r].site] = offers[run[r].offer].to
      BY <1>1, <2>1 DEF TypeOK
    <2>4. run'[r].step = "unlink" /\ run'[r].site = run[r].site /\ run'[r].offer = run[r].offer
      BY <2>1 DEF GoTo, TypeOK, RunRecords
    <2> QED
      BY <1>1, <2>1, <2>2, <2>3, <2>4 DEF MovesUnder
  <1>2. ASSUME NEW r \in Runs, TransferSite(r) PROVE run[r].site \in Sites
    BY <1>2 DEF TransferSite, Shape, RunShape
  <1>3. ASSUME NEW r \in Runs, TransferSite(r), owner[run[r].site] # offers[run[r].offer].from
        PROVE  moved' = moved /\ \A x \in Sites : owner'[x] \in {owner[x], NoOne}
    BY <1>3 DEF TransferSite
  <1>4. ASSUME NEW x \in Sites, DeleteSite(x)
        PROVE  moved' = moved /\ \A y \in Sites : owner'[y] \in {owner[y], NoOne}
    BY <1>4 DEF DeleteSite, TypeOK
  <1>5. CASE owner' = owner /\ moved' = moved
    BY SMTT(30), <1>5
  <1>6. \/ owner' = owner /\ moved' = moved
        \/ \E r \in Runs : TransferSite(r)
        \/ \E x \in Sites : DeleteSite(x)
    BY ZenonT(30) DEF Next, PlanOffer, PlanEdit, AskStep, CancelReplaced, CreateOffer, CreateRefused, Restore,
           EditSites, LookAtOffer, RunStep, RunFails, Completing, Claim, CheckAccept, PauseOffer,
           StartAccepting, RecordMoved, Decide, LinkRecipient, UnlinkSender, MarkDone,
           Finish, GiveUp, OfferStep, Cancel, EditDates, Decline, Expire, RecipientLeaves, Reopen,
           Later, PickAccepting, FindMissing, FindStray, Reconcile, AskAcceptances,
           UnlinkStray, LinkMissing, Age, Crash, vars, storeVars, Runs
  <1>7. CASE \E r \in Runs : TransferSite(r)
    BY <1>1, <1>2, <1>3, <1>7
  <1>8. CASE \E x \in Sites : DeleteSite(x)
    BY <1>4, <1>8
  <1> QED
    BY <1>5, <1>6, <1>7, <1>8

LEMMA NextForward ==
    ASSUME IInv, [Next]_vars
    PROVE  Forward'
  <1> USE DEF IInv
  <1> SUFFICES ASSUME NEW o \in Offers, moved'[o] # {}
               PROVE  offers'[o].state \in {"accepting", "accepted", "ended"}
    BY DEF Forward, AcceptanceGoesForward
  <1>1. offers[o].state \in {"accepting", "accepted", "ended"}
    <2>1. CASE moved[o] # {}
      BY <2>1 DEF Forward, AcceptanceGoesForward
    <2>2. CASE moved[o] = {}
      <3>1. PICK r \in Runs : /\ MovesUnder(run[r].offer, run[r].site) /\ run[r].offer \in Offers
                              /\ moved' = [moved EXCEPT ![run[r].offer] = @ \cup {run[r].site}]
        BY <2>2, OwnerMoves
      <3>2. run[r].offer = o
        BY <2>2, <3>1 DEF TypeOK
      <3> QED
        BY <3>1, <3>2 DEF MovesUnder
    <2> QED
      BY <2>1, <2>2
  <1>2. CASE offers'[o] = offers[o]
    BY <1>1, <1>2
  <1>3. CASE Change(o)
    BY <1>1, <1>3
       DEF Change, Created, Edited, Closed, Restored, Started, Recorded, Ended, Aged, Editable, UndoInv
  <1> QED
    BY <1>2, <1>3, Changes DEF Change

LEMMA InitIInv == Init => IInv
  <1> SUFFICES ASSUME Init PROVE IInv
    OBVIOUS
  <1>1. TypeOK /\ Shape
    BY InitType, InitShape
  <1>2. OneOfferPerSite
    BY DEF Init, OneOfferPerSite, Holds, Held, NoOffer
  <1>3. UndoInv
    BY DEF Init, UndoInv, IdleAsk
  <1>4. ClaimInv /\ RunInv
    BY DEF Init, ClaimInv, RunInv, RunOk, IdleRun, Claiming, Moving
  <1>5. Forward
    BY DEF Init, Forward, AcceptanceGoesForward
  <1> QED
    BY <1>1, <1>2, <1>3, <1>4, <1>5 DEF IInv

LEMMA NextIInv == IInv /\ [Next]_vars => IInv'
  <1> SUFFICES ASSUME IInv, [Next]_vars PROVE IInv'
    OBVIOUS
  <1>1. TypeOK' /\ Shape' /\ OneOfferPerSite' /\ UndoInv' /\ ClaimInv' /\ RunInv'
    BY NextType, NextShape, NextOneOffer, NextUndo, NextClaim, NextRun DEF IInv
  <1>2. Forward'
    BY NextForward
  <1> QED
    BY <1>1, <1>2 DEF IInv

\* A site changes hands only for an acceptance in flight, from the sender to the
\* recipient, and never a second time for the same offer once it is recorded.
THEOREM MovesHold == Spec => MovesOnlyAccepted
  <1>1. IInv /\ [Next]_vars =>
          (\A x \in Sites :
             owner'[x] \notin {owner[x], NoOne} => \E o \in Offers : MovesUnder(o, x))
    <2> SUFFICES ASSUME IInv, [Next]_vars, NEW x \in Sites, owner'[x] \notin {owner[x], NoOne}
                 PROVE  \E o \in Offers : MovesUnder(o, x)
      OBVIOUS
    <2>1. PICK r \in Runs : /\ MovesUnder(run[r].offer, run[r].site)
                            /\ run[r].offer \in Offers /\ run[r].site \in Sites
                            /\ owner' = [owner EXCEPT ![run[r].site] = offers[run[r].offer].to]
      BY OwnerMoves
    <2>2. run[r].site = x
      BY <2>1 DEF IInv, TypeOK
    <2> QED
      BY <2>1, <2>2
  <1> QED
    BY <1>1, InitIInv, NextIInv, PTL DEF Spec, MovesOnlyAccepted

\* No offer of which a site moved is ever open, paused, declined, expired or
\* cancelled again, whatever crashes, errors and races happen.
THEOREM ForwardHolds == Spec => []AcceptanceGoesForward
  <1>1. IInv => AcceptanceGoesForward
    BY DEF IInv, Forward
  <1> QED
    BY <1>1, InitIInv, NextIInv, PTL DEF Spec

(***************************************************************************)
(* What a final record says is what happened.                              *)
(***************************************************************************)

\* A moved site that is not recorded yet is still the recipient's or deleted...
Untold(o) == moved[o] \ offers[o].done

TellInv == \A o \in Offers :
    /\ moved[o] \subseteq offers[o].sites
    /\ offers[o].state = "accepting" => \A x \in Untold(o) : owner[x] \in {offers[o].to, NoOne}
    /\ offers[o].state \in Finals => \A x \in Untold(o) : owner[x] = NoOne

\* ... and the run that is at work will still look at it, or is recording it.
SeenInv == \A r \in Runs :
    run[r].step \in Moving =>
        \A x \in Untold(run[r].offer) :
            \/ x \in run[r].left
            \/ run[r].step \in {"unlink", "mark"} /\ x = run[r].site
            \/ owner[x] = NoOne

TruthInv == IInv /\ TellInv /\ SeenInv

\* A deleted site stays deleted.
LEMMA GoneForGood ==
    ASSUME IInv, [Next]_vars, NEW x \in Sites, owner[x] = NoOne
    PROVE  owner'[x] = NoOne
  <1>1. ASSUME NEW r \in Runs, MovesUnder(run[r].offer, run[r].site), run[r].offer \in Offers,
               run[r].site \in Sites,
               owner' = [owner EXCEPT ![run[r].site] = offers[run[r].offer].to]
        PROVE  owner'[x] = NoOne
    <2>1. offers[run[r].offer].from \in Accounts
      BY <1>1 DEF MovesUnder, IInv, Shape, OfferShape
    <2>2. run[r].site # x
      BY <1>1, <2>1, ConstantsAssumption DEF MovesUnder
    <2> QED
      BY <1>1, <2>2 DEF IInv, TypeOK
  <1> QED
    BY <1>1, OwnerMoves

\* A site that moved for an accepting offer moves for no other.
LEMMA NewUntold ==
    ASSUME TruthInv, [Next]_vars, NEW o \in Offers, offers'[o].done = offers[o].done,
           offers[o].state = "accepting"
    PROVE  \A x \in moved'[o] \ offers'[o].done : owner'[x] \in {offers[o].to, NoOne}
  <1> USE DEF TruthInv
  <1> SUFFICES ASSUME NEW x \in moved'[o] \ offers'[o].done
               PROVE  owner'[x] \in {offers[o].to, NoOne}
    OBVIOUS
  <1>0. /\ moved[o] \subseteq Sites /\ \A y \in moved[o] \ offers[o].done : owner[y] \in {offers[o].to, NoOne}
        /\ moved[o] \subseteq offers[o].sites
    BY DEF TellInv, Untold, IInv, TypeOK
  <1>1. CASE moved' = moved /\ \A y \in Sites : owner'[y] \in {owner[y], NoOne}
    BY <1>0, <1>1
  <1>2. ASSUME NEW r \in Runs, MovesUnder(run[r].offer, run[r].site),
               run[r].site \in Sites, run[r].offer \in Offers,
               owner' = [owner EXCEPT ![run[r].site] = offers[run[r].offer].to],
               moved' = [moved EXCEPT ![run[r].offer] = @ \cup {run[r].site}]
        PROVE  owner'[x] \in {offers[o].to, NoOne}
    <2>1. CASE run[r].offer = o
      <3>1. moved'[o] = moved[o] \cup {run[r].site}
        BY <1>2, <2>1 DEF IInv, TypeOK
      <3>2. CASE x = run[r].site
        BY <1>2, <2>1, <3>2 DEF IInv, TypeOK
      <3>3. CASE x # run[r].site
        BY <1>0, <1>2, <3>1, <3>3 DEF IInv, TypeOK
      <3> QED
        BY <3>2, <3>3
    <2>2. CASE run[r].offer # o
      <3>1. moved'[o] = moved[o]
        BY <1>2, <2>2 DEF IInv, TypeOK
      <3>2. run[r].site \in offers[run[r].offer].sites /\ offers[run[r].offer].state = "accepting"
        BY <1>2 DEF MovesUnder, NotDone
      <3>3. run[r].site \notin offers[o].sites
        BY <1>2, <2>2, <3>2 DEF IInv, OneOfferPerSite, Holds, Held
      <3>4. x # run[r].site
        BY <1>0, <3>1, <3>3
      <3> QED
        BY <1>0, <1>2, <3>1, <3>4 DEF IInv, TypeOK
    <2> QED
      BY <2>1, <2>2
  <1> QED
    BY <1>1, <1>2, OwnerMoves DEF IInv

LEMMA NextTell ==
    ASSUME TruthInv, [Next]_vars
    PROVE  TellInv'
  <1> USE DEF TruthInv
  <1> SUFFICES ASSUME NEW o \in Offers
               PROVE  /\ moved'[o] \subseteq offers'[o].sites
                      /\ offers'[o].state = "accepting" =>
                            \A x \in moved'[o] \ offers'[o].done : owner'[x] \in {offers'[o].to, NoOne}
                      /\ offers'[o].state \in Finals =>
                            \A x \in moved'[o] \ offers'[o].done : owner'[x] = NoOne
    BY DEF TellInv, Untold
  <1>0. /\ TypeOK /\ Shape /\ RunInv /\ Forward /\ UndoInv
        /\ moved[o] \subseteq offers[o].sites /\ moved[o] \subseteq Sites
        /\ moved[o] # {} => offers[o].state \in {"accepting", "accepted", "ended"}
    BY DEF TellInv, IInv, Forward, AcceptanceGoesForward, TypeOK
  <1>1. CASE moved'[o] = {}
    BY <1>1
  <1>2. CASE moved'[o] # {} /\ moved'[o] # moved[o]
    <2>1. PICK r \in Runs : /\ TransferSite(r) /\ MovesUnder(run[r].offer, run[r].site)
                            /\ run[r].site \in Sites /\ run[r].offer \in Offers
                            /\ moved' = [moved EXCEPT ![run[r].offer] = @ \cup {run[r].site}]
      BY <1>2, OwnerMoves
    <2>2. run[r].offer = o /\ moved'[o] = moved[o] \cup {run[r].site} /\ offers' = offers
      BY <1>0, <1>2, <2>1 DEF TypeOK, TransferSite
    <2>3. offers[o].state = "accepting" /\ run[r].site \in offers[o].sites
      BY <2>1, <2>2 DEF MovesUnder, NotDone
    <2>4. \A x \in moved'[o] \ offers'[o].done : owner'[x] \in {offers[o].to, NoOne}
      BY <2>2, <2>3, NewUntold
    <2> QED
      BY <1>0, <2>2, <2>3, <2>4 DEF Finals
  <1>3. CASE moved'[o] # {} /\ moved'[o] = moved[o]
    <2>0. /\ offers[o].state \in {"accepting", "accepted", "ended"}
          /\ \A x \in Sites : owner[x] = NoOne => owner'[x] = NoOne
      BY <1>0, <1>3, GoneForGood
    <2>1. CASE offers'[o] = offers[o]
      <3>1. CASE offers[o].state = "accepting"
        BY <1>0, <1>3, <2>1, <3>1, NewUntold DEF Finals
      <3>2. CASE offers[o].state # "accepting"
        BY <1>0, <1>3, <2>0, <2>1, <3>2 DEF TellInv, Untold, Finals
      <3> QED
        BY <3>1, <3>2
    <2>2. CASE Recorded(o)
      <3>1. /\ offers[o].state = "accepting" /\ offers'[o].state = "accepting"
            /\ offers[o].done \subseteq offers'[o].done
            /\ offers'[o].to = offers[o].to /\ offers'[o].sites = offers[o].sites
        BY <2>2 DEF Recorded, KeepsParties
      <3>2. PICK r \in Runs : run[r].step = "mark" /\ run'[r].step # "mark"
        BY <2>2 DEF Recorded
      <3>3. \A x \in Sites : owner'[x] \in {owner[x], NoOne}
        <4>1. ~TransferSite(r)
          BY <3>2 DEF TransferSite
        <4>2. ASSUME NEW q \in Runs, TransferSite(q) PROVE FALSE
          <5>1. q # r
            BY <4>1, <4>2
          <5>2. run[q].step = "transfer" /\ run' # run /\ run'[r] = run[r]
            BY <1>0, <3>2, <4>2, <5>1, OnlyRun DEF TransferSite, RunStep, Completing
          <5> QED
            BY <3>2, <5>2
        <4> QED
          BY <4>2, OwnerMoves
      <3> QED
        BY <1>0, <1>3, <3>1, <3>3 DEF TellInv, Untold, Finals
    <2>3. CASE Ended(o)
      <3>1. PICK r \in Runs :
               /\ run[r].step \in {"finish", "give up"} /\ run[r].offer = o
               /\ run[r].step = "finish" => NotDone(o) = {}
               /\ KeepsParties(o) /\ KeepsBundle(o) /\ offers'[o].state \in {"accepted", "ended"}
        BY <2>3 DEF Ended
      <3>2. \A x \in moved[o] \ offers[o].done : owner[x] = NoOne
        BY <3>1 DEF SeenInv, Moving, Untold, IInv, RunInv, RunOk
      <3> QED
        BY <1>0, <1>3, <2>0, <3>1, <3>2 DEF KeepsBundle
    <2>4. CASE Aged(o)
      <3>1. /\ offers[o].state = "accepting" /\ offers'[o].state = "accepting"
            /\ KeepsParties(o) /\ KeepsBundle(o)
        BY <2>0, <2>4 DEF Aged, Holds, Held
      <3> QED
        BY <1>0, <1>3, <3>1, NewUntold DEF KeepsParties, KeepsBundle, Finals
    <2>5. CASE Change(o) /\ ~Recorded(o) /\ ~Ended(o) /\ ~Aged(o)
      BY <1>0, <2>0, <2>5 DEF Change, Created, Edited, Closed, Restored, Started, Editable, UndoInv
    <2> QED
      BY <1>0, <2>1, <2>2, <2>3, <2>4, <2>5, Changes DEF Change
  <1> QED
    BY <1>1, <1>2, <1>3

\* SeenInv over a step of the run itself.
LEMMA OwnSeen ==
    ASSUME TruthInv, [Next]_vars, NEW r \in Runs, RunStep(r), run'[r] # run[r], run'[r] # IdleRun,
           run'[r].step \in Moving,
           NEW x \in moved'[run[r].offer] \ offers'[run[r].offer].done
    PROVE  \/ x \in run'[r].left
           \/ run'[r].step \in {"unlink", "mark"} /\ x = run'[r].site
           \/ owner'[x] = NoOne
  <1> USE DEF TruthInv
  <1> DEFINE o == run[r].offer
             Ok == \/ x \in run'[r].left
                   \/ run'[r].step \in {"unlink", "mark"} /\ x = run'[r].site
                   \/ owner'[x] = NoOne
  <1>0. /\ TypeOK /\ Shape /\ RunOk(r) /\ run \in [Runs -> RunRecords] /\ run[r] \in RunRecords
        /\ o \in Offers /\ ~Stop(r)
        /\ moved[o] \subseteq offers[o].sites /\ moved[o] \subseteq Sites
        /\ moved[o] # {} => offers[o].state \in {"accepting", "accepted", "ended"}
    <2>1. run[r].step # "idle"
      BY OnlyRun DEF IInv
    <2> QED
      BY <2>1 DEF IInv, TypeOK, Shape, RunShape, Stop, TellInv, Forward, AcceptanceGoesForward, RunInv
  <1>1. ASSUME NEW st, GoTo(r, st)
        PROVE  /\ run'[r].step = st /\ run'[r].todo = run[r].todo /\ run'[r].left = run[r].left
               /\ run'[r].site = run[r].site
    BY <1>0, <1>1 DEF GoTo, RunRecords
  <1>2. ASSUME run[r].step \in Moving, x \in moved[o] \ offers[o].done
        PROVE  \/ x \in run[r].left
               \/ run[r].step \in {"unlink", "mark"} /\ x = run[r].site
               \/ owner[x] = NoOne
    BY <1>2 DEF SeenInv, Untold
  <1>3. ASSUME owner[x] = NoOne, x \in Sites PROVE Ok
    BY <1>3, GoneForGood
  <1>4. CASE Claim(r) \/ CheckAccept(r)
    <2>1. GoTo(r, "check") \/ GoTo(r, "pause") \/ GoTo(r, "start")
      BY <1>0, <1>4 DEF Claim, CheckAccept
    <2>2. run'[r].step \in {"check", "pause", "start"}
      BY <1>1, <2>1
    <2> QED
      BY <2>2 DEF Moving
  <1>5. CASE StartAccepting(r)
    <2>1. offers[o].state = "open" /\ moved' = moved
      BY <1>0, <1>5 DEF StartAccepting, Startable
    <2> QED
      BY <1>0, <2>1
  <1>6. CASE RecordMoved(r)
    <2>1. /\ run[r].step = "record" /\ offers' = offers /\ moved' = moved /\ owner' = owner
      BY <1>6 DEF RecordMoved, storeVars
    <2>2. offers[o].state = "accepting" /\ owner[x] \in {offers[o].to, NoOne}
      BY <1>0, <2>1 DEF RunOk, Moving, TellInv, Untold
    <2>3. x \in run[r].left \/ owner[x] = NoOne
      BY <1>2, <2>1 DEF Moving
    <2>4. ASSUME NEW y \in run[r].left,
                 run' = [run EXCEPT ![r].step = "unlink", ![r].site = y, ![r].left = @ \ {y}]
          PROVE  Ok
      <3>1. run'[r].step = "unlink" /\ run'[r].site = y /\ run'[r].left = run[r].left \ {y}
        BY <1>0, <2>4 DEF RunRecords
      <3> QED
        BY <2>1, <2>3, <3>1
    <2>5. ASSUME NEW y \in run[r].left, ~Arrived(o, y),
                 run' = [run EXCEPT ![r].left = @ \ {y}, ![r].todo = @ \cup {y}]
          PROVE  Ok
      <3>1. run'[r].left = run[r].left \ {y}
        BY <1>0, <2>5 DEF RunRecords
      <3> QED
        BY <2>1, <2>2, <2>3, <2>5, <3>1 DEF Arrived
    <2>6. CASE GoTo(r, "decide") /\ run[r].left = {}
      BY <2>1, <2>3, <2>6
    <2>7. CASE \E y \in run[r].left :
                 run' = [run EXCEPT ![r].step = "unlink", ![r].site = y, ![r].left = @ \ {y}]
      BY <2>4, <2>7
    <2>8. CASE \E y \in run[r].left :
                 /\ ~Arrived(o, y)
                 /\ run' = [run EXCEPT ![r].left = @ \ {y}, ![r].todo = @ \cup {y}]
      BY <2>5, <2>8
    <2> QED
      BY <1>6, <2>6, <2>7, <2>8 DEF RecordMoved
  <1>7. CASE Decide(r) \/ LinkRecipient(r)
    <2>1. /\ run[r].step \in {"decide", "link"} /\ offers' = offers /\ moved' = moved /\ owner' = owner
      BY <1>7 DEF Decide, LinkRecipient, storeVars
    <2>2. owner[x] = NoOne
      BY <1>0, <1>2, <2>1 DEF Moving, RunOk
    <2> QED
      BY <2>1, <2>2
  <1>8. CASE TransferSite(r)
    <2>1. run[r].step = "transfer" /\ GoTo(r, "unlink") /\ offers' = offers
      BY <1>0, <1>8 DEF TransferSite
    <2>2. run'[r].step = "unlink" /\ run'[r].site = run[r].site
      BY <1>1, <2>1
    <2>3. CASE x \in moved[o]
      <3>1. owner[x] = NoOne
        BY <1>0, <1>2, <2>1, <2>3 DEF Moving, RunOk
      <3> QED
        BY <1>0, <1>3, <2>3, <3>1
    <2>4. CASE x \notin moved[o]
      <3>1. moved' = moved \/ moved' = [moved EXCEPT ![o] = @ \cup {run[r].site}]
        BY <1>8 DEF TransferSite
      <3>2. x = run[r].site
        BY <1>0, <2>4, <3>1 DEF TypeOK
      <3> QED
        BY <2>2, <3>2
    <2> QED
      BY <2>3, <2>4
  <1>9. CASE UnlinkSender(r)
    <2>1. /\ run[r].step = "unlink" /\ GoTo(r, "mark") /\ offers' = offers /\ moved' = moved
          /\ owner' = owner
      BY <1>9 DEF UnlinkSender, storeVars
    <2>2. run'[r].step = "mark" /\ run'[r].site = run[r].site /\ run'[r].left = run[r].left
      BY <1>1, <2>1
    <2> QED
      BY <1>2, <2>1, <2>2 DEF Moving
  <1>10. CASE MarkDone(r)
    <2>1. /\ run[r].step = "mark" /\ moved' = moved /\ owner' = owner
          /\ UpdateOffer(o, [offers[o] EXCEPT !.done = @ \cup {run[r].site}])
      BY <1>10 DEF MarkDone
    <2>2. offers'[o].done = offers[o].done \cup {run[r].site}
      BY <1>0, <2>1, Updated DEF TypeOK, Records
    <2>3. run'[r].left = run[r].left
      BY <1>0, <1>10 DEF MarkDone, RunRecords
    <2> QED
      BY <1>2, <2>1, <2>2, <2>3 DEF Moving
  <1> QED
    BY <1>0, <1>4, <1>5, <1>6, <1>7, <1>8, <1>9, <1>10
       DEF RunStep, Completing, PauseOffer, Finish, GiveUp

LEMMA NextSeen ==
    ASSUME TruthInv, [Next]_vars
    PROVE  SeenInv'
  <1> USE DEF TruthInv
  <1> SUFFICES ASSUME NEW r \in Runs, run'[r].step \in Moving,
                      NEW x \in moved'[run'[r].offer] \ offers'[run'[r].offer].done
               PROVE  \/ x \in run'[r].left
                      \/ run'[r].step \in {"unlink", "mark"} /\ x = run'[r].site
                      \/ owner'[x] = NoOne
    BY DEF SeenInv, Untold
  <1>0. TypeOK /\ Shape /\ UndoInv /\ ClaimInv /\ RunInv /\ run \in [Runs -> RunRecords]
    BY DEF IInv, TypeOK
  <1>1. CASE run'[r] = run[r]
    <2> DEFINE o == run[r].offer
    <2>1. KeepsBundle(o) /\ o \in Offers
      BY <1>0, <1>1, OthersKeep DEF Shape, RunShape, Moving
    <2>2. moved'[o] = moved[o]
      <3>1. ASSUME NEW q \in Runs, TransferSite(q), run'[q].step = "unlink", run[q].offer \in Offers,
                   moved' = [moved EXCEPT ![run[q].offer] = @ \cup {run[q].site}]
            PROVE  moved'[o] = moved[o]
        <4>1. run[q].step = "transfer" /\ q # r
          BY <1>1, <3>1 DEF TransferSite
        <4>2. run[q].offer # o
          BY <1>0, <1>1, <4>1 DEF ClaimInv, Claiming, Moving
        <4> QED
          BY <1>0, <2>1, <3>1, <4>2 DEF TypeOK
      <3> QED
        BY <3>1, OwnerMoves
    <2>3. \/ x \in run[r].left
          \/ run[r].step \in {"unlink", "mark"} /\ x = run[r].site
          \/ owner[x] = NoOne
      BY <1>1, <2>1, <2>2 DEF SeenInv, Untold, KeepsBundle
    <2>4. x \in Sites
      BY <1>0, <1>1, <2>1, <2>2 DEF TypeOK
    <2> QED
      BY <1>1, <2>3, <2>4, GoneForGood
  <1>2. run'[r] # IdleRun
    <2>1. IdleRun.step \notin Moving
      BY DEF IdleRun, Moving
    <2> QED
      BY <2>1
  <1>3. CASE RunStep(r) /\ run'[r] # run[r]
    <2>1. run'[r].offer = run[r].offer
      BY <1>0, <1>2, <1>3, OnlyRun
    <2> QED
      BY <1>2, <1>3, <2>1, OwnSeen
  <1>4. ASSUME LookAtOffer(r) PROVE FALSE
    <2>1. PICK o \in Offers :
             run' = [run EXCEPT ![r] = [IdleRun EXCEPT !.step = "looked", !.offer = o,
                                                       !.saw = offers[o].sites]]
      BY <1>4 DEF LookAtOffer
    <2>2. run'[r].step = "looked"
      BY <1>0, <2>1 DEF IdleRun
    <2> QED
      BY <2>2 DEF Moving
  <1>5. ASSUME NEW o \in Offers, PickAccepting(o), r = Loop PROVE x \in run'[r].left
    <2>1. run'[r].offer = o /\ run'[r].left = NotDone(o)
      BY <1>0, <1>5 DEF PickAccepting, IdleRun
    <2>2. moved' = moved /\ offers' = offers
      BY <1>5 DEF PickAccepting, storeVars
    <2> QED
      BY <1>5, <2>1, <2>2 DEF NotDone, TellInv
  <1> QED
    BY <1>0, <1>1, <1>2, <1>3, <1>4, <1>5, RunMoves

\* Once an offer is over, its record names every site that changed hands for it,
\* unless the site was deleted before the move could be recorded: over crashes,
\* failed writes and any number of runs one after the other.
THEOREM TruthHolds == Spec => []FinalIsTheTruth
  <1>1. Init => TruthInv
    <2> SUFFICES ASSUME Init PROVE TellInv /\ SeenInv
      BY InitIInv DEF TruthInv
    <2> QED
      BY DEF Init, TellInv, SeenInv, Untold, IdleRun, Moving
  <1>2. TruthInv /\ [Next]_vars => TruthInv'
    BY NextIInv, NextTell, NextSeen DEF TruthInv
  <1>3. TruthInv => FinalIsTheTruth
    BY DEF TruthInv, TellInv, FinalIsTheTruth, Untold
  <1> QED
    BY <1>1, <1>2, <1>3, PTL DEF Spec

=============================================================================
