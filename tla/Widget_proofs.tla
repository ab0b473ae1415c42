---------------------------- MODULE Widget_proofs ----------------------------
(***************************************************************************)
(* Theorems about Widget, for any number of scans and requests and plans   *)
(* of any size.  That what is shown is what is pending is inductive only   *)
(* together with the types, and these with it: a row's box is a box of the *)
(* pending plan.  That a plan does not return rests on where plans come    *)
(* from: a scan makes its plan once.                                       *)
(***************************************************************************)
EXTENDS Widget, TLAPS

\* The scan has made its plan, which it does once.
Made(s) == scan[s] \in {"shown", "over"}

\* Every plan that is pending, sent or carried out was made by its scan.
PlansMade ==
    /\ pending # NoPlan => Made(pending)
    /\ \A i \in Slots : request[i] # Free => Made(request[i].plan)
    /\ \A s \in carried : Made(s)

WidgetInv == TypeOK /\ ShownIsPending /\ PlansMade /\ NotOfferedAgain

-----------------------------------------------------------------------------
(* Lemmas *)

Cards   == [plan : Scans, on : BOOLEAN]
Drawers == [plan : Scans, ticked : SUBSET AllOps, on : BOOLEAN]
Views   == Others \cup {"closed", "approval", "drawer"}
Stages  == {"none", "intent", "asking", "rescan", "scanning",
            "planning", "classifying", "shown", "over"}
Requests ==
    [from : {"approval", "drawer"}, ops : (SUBSET AllOps) \ {{}}, plan : Scans,
     stage : {"sent", "unheard", "done", "failed", "closing"}]

LEMMA PlanOpsTyped ==
    /\ PlanOps(NoPlan) = {}
    /\ \A s \in Scans : s # NoPlan /\ PlanOps(s) \subseteq AllOps
BY WidgetAssumption DEF PlanOps, AllOps, Scans

\* A scan that has made its plan makes no other.
LEMMA MadeStays ==
    ASSUME TypeOK, [Next]_vars, NEW s \in Scans, Made(s)
    PROVE  Made(s)'
<1> USE DEF TypeOK, Made, SetScan
<1>1. CASE User
  BY <1>1 DEF User, Drop, Submit, Choose, Unstarted, Close, ShowContextMenu, OpenInputBar,
     ShowPending, OpenPlanDrawer, OpenSettings, Toggle, ToggleAll, Select, Dismiss,
     Approve, DrawerExecute, Request, Reload
<1>2. CASE ShowSettings
  BY <1>2 DEF ShowSettings
<1>3. ASSUME NEW r \in Scans, Flow(r)
      PROVE  Made(s)'
  BY <1>3 DEF Flow, FolderFound, NoFolder, Scanned, PlanFails, PlanReady, Ready
<1>4. ASSUME NEW i \in Slots, Carry(i)
      PROVE  Made(s)'
  BY <1>4 DEF Carry, Execute, Done, Settle, Report
<1>5. CASE UNCHANGED vars
  BY <1>5 DEF vars
<1> QED
  BY <1>1, <1>2, <1>3, <1>4, <1>5 DEF Next


\* What is made stays made.
MadeKept == \A s \in Scans : Made(s) => Made(s)'

\* The steps that leave the plan, the requests and the history alone, up to
\* what is on screen: no flyout, or one that shows the plan.
LEMMA FlyoutsKept ==
    ASSUME WidgetInv, MadeKept,
           UNCHANGED <<pending, request, carried, journal>>,
           selected' \subseteq PlanOps(pending),
           view' \in Views, others' \subseteq Others, opening' \in BOOLEAN,
           app' \in {"idle", "thinking", "scanning", "classifying", "executing", "error"},
           scan' \in [Scans -> Stages],
           card' \in Cards \cup {Hidden}, drawer' \in Drawers \cup {Hidden},
           card' # Hidden => pending # NoPlan /\ card'.plan = pending,
           drawer' # Hidden => /\ pending # NoPlan /\ drawer'.plan = pending
                               /\ drawer'.ticked = selected'
    PROVE  WidgetInv'
<1>1. TypeOK'
  BY DEF WidgetInv, TypeOK, Cards, Drawers, Views, Stages, Free
<1>2. PlansMade'
  BY DEF WidgetInv, TypeOK, PlansMade, MadeKept, Made, Free
<1> QED
  BY <1>1, <1>2 DEF WidgetInv, ShownIsPending, NotOfferedAgain


-----------------------------------------------------------------------------
(* One lemma for each part of the script *)

\* A scan moves to a stage that its flow knows.
LEMMA ScanTyped ==
    ASSUME TypeOK, NEW s \in Scans, NEW stage \in Stages, SetScan(s, stage)
    PROVE  scan' \in [Scans -> Stages]
BY DEF TypeOK, SetScan, Stages

LEMMA ScansKept ==
    ASSUME WidgetInv, MadeKept, NEW s \in Scans,
           Drop(s) \/ Submit(s) \/ Choose(s) \/ FolderFound(s) \/ NoFolder(s)
           \/ Scanned(s) \/ PlanFails(s) \/ Ready(s)
    PROVE  WidgetInv'
<1>1. scan' \in [Scans -> Stages]
  BY DEF WidgetInv, TypeOK, Drop, Submit, Choose, FolderFound, NoFolder, Scanned, PlanFails,
         Ready, SetScan, Stages
<1>2. /\ UNCHANGED <<planVars, opening, request, carried, journal>>
      /\ \/ UNCHANGED flyoutVars
         \/ CloseAllFlyouts
  BY DEF Drop, Submit, Choose, FolderFound, NoFolder, Scanned, PlanFails, Ready
<1>3. app' \in {"idle", "thinking", "scanning", "classifying", "executing", "error"}
  BY DEF WidgetInv, TypeOK, Drop, Submit, Choose, FolderFound, NoFolder, Scanned, PlanFails,
         Ready, EmptyStatus
<1>4. /\ view' \in Views /\ others' \subseteq Others
      /\ card' \in Cards \cup {Hidden} /\ drawer' \in Drawers \cup {Hidden}
      /\ card' \in {card, Hidden} /\ drawer' \in {drawer, Hidden}
  BY <1>2 DEF WidgetInv, TypeOK, flyoutVars, CloseAllFlyouts, Cards, Drawers, Views
<1> QED
  BY <1>1, <1>2, <1>3, <1>4, FlyoutsKept DEF WidgetInv, TypeOK, ShownIsPending, planVars

LEMMA FlyoutStepsKept ==
    ASSUME WidgetInv, MadeKept,
           Close \/ ShowContextMenu \/ OpenInputBar \/ OpenSettings \/ ShowSettings
    PROVE  WidgetInv'
<1>1. /\ UNCHANGED <<planVars, app, scan, request, carried, journal>>
      /\ card' \in {card, Hidden} /\ drawer' \in {drawer, Hidden}
  BY DEF Close, ShowContextMenu, OpenInputBar, OpenSettings, ShowSettings, Open, CloseAllFlyouts
<1>2. view' \in Views /\ others' \subseteq Others /\ opening' \in BOOLEAN
  BY DEF WidgetInv, TypeOK, Close, ShowContextMenu, OpenInputBar, OpenSettings, ShowSettings,
         Open, CloseAllFlyouts, Others, Views
<1> QED
  BY <1>1, <1>2, FlyoutsKept
  DEF WidgetInv, TypeOK, ShownIsPending, planVars, Cards, Drawers, Stages

LEMMA PendingShown ==
    ASSUME WidgetInv, MadeKept, ShowPending \/ OpenPlanDrawer
    PROVE  WidgetInv'
<1>1. pending \in Scans /\ pending' = pending
  BY DEF WidgetInv, TypeOK, ShowPending, OpenPlanDrawer, ShowApprovalCard, SavePendingPlan, planVars
<1>2. CASE ShowPending
  <2>1. /\ UNCHANGED <<opening, app, scan, request, carried, journal>>
        /\ selected' = PlanOps(pending) /\ view' = "approval" /\ others' = {}
        /\ drawer' = Hidden /\ card' = [plan |-> pending, on |-> TRUE]
    BY <1>2 DEF ShowPending, ShowApprovalCard, SavePendingPlan
  <2>2. card' \in Cards /\ card'.plan = pending
    BY <1>1, <2>1 DEF Cards
  <2> QED
    BY <1>1, <2>1, <2>2, FlyoutsKept, PlanOpsTyped DEF WidgetInv, TypeOK, Views, Stages
<1>3. CASE OpenPlanDrawer
  <2>1. /\ UNCHANGED <<selected, opening, app, scan, request, carried, journal>>
        /\ view' = "drawer" /\ others' = {} /\ card' = Hidden
        /\ drawer' = [plan |-> pending, ticked |-> selected, on |-> selected # {}]
    BY <1>3 DEF OpenPlanDrawer, planVars
  <2>2. selected \subseteq AllOps /\ selected \subseteq PlanOps(pending)
    BY <1>1, PlanOpsTyped DEF WidgetInv, TypeOK
  <2>3. drawer' \in Drawers /\ drawer'.plan = pending /\ drawer'.ticked = selected
    BY <1>1, <2>1, <2>2 DEF Drawers
  <2> QED
    BY <1>1, <2>1, <2>2, <2>3, FlyoutsKept, PlanOpsTyped DEF WidgetInv, TypeOK, Views, Stages
<1> QED
  BY <1>2, <1>3

\* A click on a box: the rows ticked are the selection, before and after.
LEMMA BoxesKept ==
    ASSUME WidgetInv, MadeKept, ToggleAll \/ \E o \in AllOps : Toggle(o)
    PROVE  WidgetInv'
<1>1. /\ pending \in Scans /\ pending # NoPlan
      /\ drawer # Hidden => drawer.plan = pending /\ drawer.ticked = selected
      /\ selected \subseteq PlanOps(pending)
  BY PlanOpsTyped DEF WidgetInv, TypeOK, ShownIsPending, ToggleAll, Toggle, Select
<1>2. PICK chosen \in SUBSET PlanOps(pending) : Select(pending, chosen, chosen)
  <2>1. CASE ToggleAll
    BY <2>1 DEF ToggleAll
  <2>2. ASSUME NEW o \in AllOps, Toggle(o)
        PROVE  \E chosen \in SUBSET PlanOps(pending) : Select(pending, chosen, chosen)
    <3>1. o \in PlanOps(pending) /\ drawer.plan = pending /\ drawer.ticked = selected
      BY <1>1, <2>2 DEF Toggle
    <3>2. selected \ {o} \subseteq PlanOps(pending) /\ selected \cup {o} \subseteq PlanOps(pending)
      BY <1>1, <3>1
    <3>3. \/ Select(pending, selected \ {o}, selected \ {o})
          \/ Select(pending, selected \cup {o}, selected \cup {o})
      BY <2>2, <3>1 DEF Toggle
    <3> QED
      BY <3>2, <3>3
  <2> QED
    BY <2>1, <2>2
<1>3. /\ UNCHANGED <<pending, view, card, others, opening, app, scan, request, journal, carried>>
      /\ selected' = chosen
      /\ drawer' = [plan |-> pending, ticked |-> chosen, on |-> chosen # {}]
  BY <1>2 DEF Select
<1>4. chosen \subseteq AllOps
  BY <1>1, PlanOpsTyped
<1>5. drawer' \in Drawers /\ drawer'.plan = pending /\ drawer'.ticked = selected'
  BY <1>1, <1>3, <1>4 DEF Drawers
<1> QED
  BY <1>1, <1>3, <1>5, FlyoutsKept DEF WidgetInv, TypeOK, ShownIsPending, Views, Cards, Stages

\* The plan goes, and the flyouts with it.
LEMMA DismissKept ==
    ASSUME WidgetInv, MadeKept, Dismiss
    PROVE  WidgetInv'
<1>1. /\ pending' = NoPlan /\ selected' = {} /\ view' = "closed" /\ others' = {}
      /\ card' = Hidden /\ drawer' = Hidden
      /\ UNCHANGED <<opening, app, scan, request, journal, carried>>
  BY PlanOpsTyped DEF Dismiss, SavePendingPlan, CloseAllFlyouts
<1>2. TypeOK'
  BY <1>1, PlanOpsTyped DEF WidgetInv, TypeOK, Free
<1>3. NoPlan \notin carried
  BY PlanOpsTyped DEF WidgetInv, TypeOK
<1> QED
  BY <1>1, <1>2, <1>3 DEF WidgetInv, ShownIsPending, NotOfferedAgain, PlansMade, Made

\* The plan of a scan replaces whatever plan there was.
LEMMA PlanReadyKept ==
    ASSUME WidgetInv, MadeKept, NEW s \in Scans, PlanReady(s)
    PROVE  WidgetInv'
<1>1. /\ pending' = s /\ selected' = PlanOps(s) /\ view' = "approval" /\ others' = {}
      /\ card' = [plan |-> s, on |-> TRUE] /\ drawer' = Hidden
      /\ UNCHANGED <<opening, app, request, journal, carried>>
      /\ scan' = [scan EXCEPT ![s] = "shown"]
  BY DEF PlanReady, ShowApprovalCard, SavePendingPlan, SetScan
<1>2. TypeOK'
  BY <1>1, PlanOpsTyped DEF WidgetInv, TypeOK, Free
<1>3. s \notin carried
  BY DEF PlanReady, WidgetInv, PlansMade, Made
<1>4. Made(s)'
  BY <1>1 DEF WidgetInv, TypeOK, Made
<1>5. PlansMade'
  BY <1>1, <1>4 DEF WidgetInv, TypeOK, PlansMade, MadeKept
<1> QED
  BY <1>1, <1>2, <1>3, <1>5, PlanOpsTyped DEF WidgetInv, ShownIsPending, NotOfferedAgain


\* A button sends operations of the pending plan, and is disabled.
LEMMA RequestKept ==
    ASSUME WidgetInv, MadeKept, Approve \/ DrawerExecute
    PROVE  WidgetInv'
<1>1. PICK flyout \in {"approval", "drawer"}, ops \in SUBSET PlanOps(pending) : Request(flyout, ops)
  BY DEF Approve, DrawerExecute, WidgetInv, TypeOK
<1>2. /\ ops # {} /\ app' = "executing"
      /\ UNCHANGED <<pending, selected, view, others, opening, scan, journal, carried>>
  BY <1>1 DEF Request, planVars
<1>3. pending \in Scans /\ pending # NoPlan /\ ops \in (SUBSET AllOps) \ {{}}
  <2>1. pending \in Scans /\ pending # NoPlan
    BY <1>1, <1>2, PlanOpsTyped DEF WidgetInv, TypeOK
  <2> QED
    BY <1>1, <1>2, <2>1, PlanOpsTyped
<1>4. PICK i \in Slots : request' = [request EXCEPT ![i] =
         [from |-> flyout, plan |-> pending, ops |-> ops, stage |-> "sent"]]
  BY <1>1 DEF Request
<1>5. [from |-> flyout, plan |-> pending, ops |-> ops, stage |-> "sent"] \in Requests
  BY <1>3 DEF Requests
<1>6. request' \in [Slots -> {Free} \cup Requests]
  BY <1>4, <1>5 DEF WidgetInv, TypeOK, Requests
<1>7. \A j \in Slots : request'[j] # Free =>
         request'[j].plan = pending \/ (request[j] # Free /\ request'[j].plan = request[j].plan)
  BY <1>4 DEF WidgetInv, TypeOK
<1>8. /\ card' \in Cards \cup {Hidden} /\ drawer' \in Drawers \cup {Hidden}
      /\ card' # Hidden => card # Hidden /\ card'.plan = card.plan
      /\ drawer' # Hidden => /\ drawer # Hidden /\ drawer'.plan = drawer.plan
                             /\ drawer'.ticked = drawer.ticked
  BY DEF Approve, DrawerExecute, WidgetInv, TypeOK, Cards, Drawers
<1>9. TypeOK'
  BY <1>2, <1>6, <1>8 DEF WidgetInv, TypeOK, Cards, Drawers, Requests
<1>10. PlansMade'
  BY <1>2, <1>3, <1>7 DEF WidgetInv, TypeOK, PlansMade, MadeKept, Requests
<1> QED
  BY <1>2, <1>8, <1>9, <1>10 DEF WidgetInv, ShownIsPending, NotOfferedAgain

\* A request moves on or is released; nothing else of the plans changes.
LEMMA RequestMovesKept ==
    ASSUME WidgetInv, MadeKept, NEW i \in Slots, Execute(i) \/ Settle(i) \/ Report(i)
    PROVE  WidgetInv'
<1>1. UNCHANGED <<pending, selected, view, others, opening, scan, carried>>
  BY DEF Execute, Settle, Report, planVars, flyoutVars
<1>2. request[i] \in Requests
  BY DEF Execute, Settle, Report, WidgetInv, TypeOK, Requests, Free
<1>3. \/ request' = [request EXCEPT ![i] = Free]
      \/ \E stage \in {"done", "failed"} : request' = [request EXCEPT ![i].stage = stage]
  BY DEF Execute, Settle, Report, SetRequest, Release
<1>4. request' \in [Slots -> {Free} \cup Requests]
  BY <1>2, <1>3 DEF WidgetInv, TypeOK, Requests
<1>5. \A j \in Slots : request'[j] # Free => request[j] # Free /\ request'[j].plan = request[j].plan
  BY <1>2, <1>3 DEF WidgetInv, TypeOK, Requests, Free
<1>6. app' \in {"idle", "thinking", "scanning", "classifying", "executing", "error"}
  BY DEF Execute, Settle, Report, WidgetInv, TypeOK
<1>7. journal' \subseteq AllOps
  BY <1>2 DEF Execute, Settle, Report, WidgetInv, TypeOK, Requests
<1>8. /\ card' \in Cards \cup {Hidden} /\ drawer' \in Drawers \cup {Hidden}
      /\ card' # Hidden => card # Hidden /\ card'.plan = card.plan
      /\ drawer' # Hidden => /\ drawer # Hidden /\ drawer'.plan = drawer.plan
                             /\ drawer'.ticked = drawer.ticked
  BY DEF Execute, Settle, Report, RestoreButton, flyoutVars, WidgetInv, TypeOK, Cards, Drawers
<1>9. TypeOK'
  BY <1>1, <1>4, <1>6, <1>7, <1>8 DEF WidgetInv, TypeOK, Cards, Drawers, Requests
<1>10. PlansMade'
  BY <1>1, <1>2, <1>5 DEF WidgetInv, TypeOK, PlansMade, MadeKept, Requests
<1> QED
  BY <1>1, <1>8, <1>9, <1>10 DEF WidgetInv, ShownIsPending, NotOfferedAgain

\* The plan that was carried out is recalled, and none is pending.
LEMMA DoneKept ==
    ASSUME WidgetInv, MadeKept, NEW i \in Slots, Done(i)
    PROVE  WidgetInv'
<1>1. /\ pending' = NoPlan /\ selected' = {} /\ view' = "closed" /\ others' = {}
      /\ card' = Hidden /\ drawer' = Hidden
      /\ UNCHANGED <<opening, app, scan, journal>>
      /\ request' = [request EXCEPT ![i].stage = "closing"]
      /\ carried' = carried \cup {request[i].plan}
  BY PlanOpsTyped DEF Done, DonePlan, SavePendingPlan, CloseAllFlyouts, SetRequest
<1>2. request[i] \in Requests /\ request[i] # Free
  BY DEF Done, WidgetInv, TypeOK, Requests, Free
<1>3. request' \in [Slots -> {Free} \cup Requests]
  BY <1>1, <1>2 DEF WidgetInv, TypeOK, Requests
<1>4. \A j \in Slots : request'[j] # Free => request[j] # Free /\ request'[j].plan = request[j].plan
  BY <1>1, <1>2 DEF WidgetInv, TypeOK, Requests
<1>5. request[i].plan \in Scans
  BY <1>2 DEF Requests
<1>6. TypeOK'
  BY <1>1, <1>3, <1>5, PlanOpsTyped DEF WidgetInv, TypeOK, Requests
<1>7. \A s \in carried' : Made(s)'
  BY <1>1, <1>2, <1>5 DEF WidgetInv, TypeOK, PlansMade, MadeKept
<1>8. PlansMade'
  BY <1>1, <1>4, <1>7 DEF WidgetInv, TypeOK, PlansMade, MadeKept, Requests, Made
<1>9. NoPlan \notin carried'
  BY <1>1, <1>5, PlanOpsTyped DEF WidgetInv, TypeOK
<1> QED
  BY <1>1, <1>6, <1>8, <1>9 DEF WidgetInv, ShownIsPending, NotOfferedAgain

\* The plan comes back from the storage; what was sent is not heard.
LEMMA ReloadKept ==
    ASSUME WidgetInv, MadeKept, Reload
    PROVE  WidgetInv'
<1>1. /\ pending' = pending /\ selected' = PlanOps(pending) /\ view' = "closed" /\ others' = {}
      /\ card' = Hidden /\ drawer' = Hidden /\ opening' = FALSE /\ app' = "idle"
      /\ UNCHANGED <<journal, carried>>
      /\ scan' = [s \in Scans |-> IF scan[s] = "none" THEN "none" ELSE "over"]
  BY DEF Reload, SavePendingPlan, CloseAllFlyouts
<1>2. \A j \in Slots :
         \/ request'[j] = Free
         \/ /\ request[j] \in Requests /\ request[j] # Free
            /\ request'[j] = [request[j] EXCEPT !.stage = "unheard"]
  BY DEF Reload, WidgetInv, TypeOK, Requests, Free
<1>3. \A j \in Slots : request[j] \in Requests =>
         /\ [request[j] EXCEPT !.stage = "unheard"] \in Requests
         /\ [request[j] EXCEPT !.stage = "unheard"].plan = request[j].plan
  BY DEF Requests
<1>4. request' \in [Slots -> {Free} \cup Requests]
  <2>1. request' = [j \in Slots |-> request'[j]]
    BY DEF Reload
  <2> QED
    BY <1>2, <1>3, <2>1
<1>5. TypeOK'
  BY <1>1, <1>4 DEF WidgetInv, TypeOK, Requests
<1>6. \A j \in Slots : request'[j] # Free => request[j] # Free /\ request'[j].plan = request[j].plan
  BY <1>2, <1>3
<1>7. \A j \in Slots : request[j] # Free => request[j].plan \in Scans
  BY DEF WidgetInv, TypeOK, Requests
<1>8. PlansMade'
  BY <1>1, <1>6, <1>7 DEF WidgetInv, TypeOK, PlansMade, MadeKept
<1> QED
  BY <1>1, <1>5, <1>8 DEF WidgetInv, ShownIsPending, NotOfferedAgain

-----------------------------------------------------------------------------
(* The theorems *)

LEMMA WidgetHolds == Spec => []WidgetInv
<1>1. Init => WidgetInv
  <2> SUFFICES ASSUME Init
               PROVE  WidgetInv
    OBVIOUS
  <2>1. TypeOK
    BY PlanOpsTyped DEF Init, TypeOK
  <2> QED
    BY <2>1 DEF Init, WidgetInv, ShownIsPending, NotOfferedAgain, PlansMade
<1>2. WidgetInv /\ [Next]_vars => WidgetInv'
  <2> SUFFICES ASSUME WidgetInv, [Next]_vars
               PROVE  WidgetInv'
    OBVIOUS
  <2>1. MadeKept
    BY MadeStays DEF WidgetInv, MadeKept
  <2>2. CASE User
    <3>1. CASE Close \/ ShowContextMenu \/ OpenInputBar \/ OpenSettings
      BY <2>1, <3>1, FlyoutStepsKept
    <3>2. CASE ToggleAll \/ \E o \in AllOps : Toggle(o)
      BY <2>1, <3>2, BoxesKept
    <3> QED
      BY <2>1, <2>2, <3>1, <3>2, ScansKept, PendingShown, DismissKept, RequestKept, ReloadKept
      DEF User
  <2>3. CASE ShowSettings
    BY <2>1, <2>3, FlyoutStepsKept
  <2>4. ASSUME NEW s \in Scans, Flow(s)
        PROVE  WidgetInv'
    BY <2>1, <2>4, ScansKept, PlanReadyKept DEF Flow
  <2>5. ASSUME NEW i \in Slots, Carry(i)
        PROVE  WidgetInv'
    BY <2>1, <2>5, RequestMovesKept, DoneKept DEF Carry
  <2>6. CASE UNCHANGED vars
    BY <2>6 DEF vars, WidgetInv, TypeOK, ShownIsPending, PlansMade, Made, NotOfferedAgain
  <2> QED
    BY <2>2, <2>3, <2>4, <2>5, <2>6 DEF Next
<1> QED
  BY <1>1, <1>2, PTL DEF Spec

(* The script's variables keep their types: what is selected, ticked or    *)
(* sent are operations of a plan (widget.js:479-498).                      *)
THEOREM WidgetTypeCorrect == Spec => []TypeOK
BY WidgetHolds, PTL DEF WidgetInv

(* The card and the drawer on screen show what a button would send,        *)
(* however scans, answers, dismissals and reloads have overlapped          *)
(* (widget.js:614-669, 1243-1300).                                         *)
THEOREM ShownPlanIsPending == Spec => []ShownIsPending
BY WidgetHolds, PTL DEF WidgetInv

(* A plan that was carried out is not offered again (widget.js:1253).      *)
THEOREM CarriedOutIsGone == Spec => []NotOfferedAgain
BY WidgetHolds, PTL DEF WidgetInv

=============================================================================
