------------------------------- MODULE Widget -------------------------------
(***************************************************************************)
(* The approval workflow of the desktop widget (src/widget.js): scans that *)
(* end in a plan, the flyouts that show it, and the requests to carry it   *)
(* out, which the shell answers (execute_plan of main.rs).                 *)
(*                                                                         *)
(* The script runs one event handler at a time, up to its next `await`:    *)
(* an action is what runs between two awaits.  Between them the user may   *)
(* press any button that is visible and enabled, other answers may arrive, *)
(* and the page may be reloaded.  Window sizes, toasts and texts are left  *)
(* out.  A plan is named after the scan that made it, since its operations *)
(* get fresh ids (main.rs:962-1013).                                       *)
(***************************************************************************)
EXTENDS Naturals

CONSTANTS
    MaxScans,       \* bound on the scan-and-plan flows the user starts
    PlanSize,       \* number of operations of a plan
    MaxRequests,    \* bound on the execute_plan_cmd calls under way at a time
    NoPlan,         \* pendingApproval = null
    Hidden          \* a flyout that is not on screen

ASSUME WidgetAssumption ==
    /\ MaxScans \in Nat /\ MaxRequests \in Nat /\ PlanSize \in Nat \ {0}
    /\ NoPlan \notin 1..MaxScans

Scans == 1..MaxScans
Slots == 1..MaxRequests

Free == [stage |-> "free"]

PlanOps(s) == IF s = NoPlan THEN {} ELSE {s} \X (1..PlanSize)
AllOps == Scans \X (1..PlanSize)

VARIABLES
    pending,    \* pendingApproval, also kept in the session's storage
    selected,   \* selectedIndices, as the operations they stand for
    view,       \* activeFlyoutMode
    card,       \* the approval card: its plan, and whether its button is on
    drawer,     \* the drawer: its plan, the rows ticked, and its button
    others,     \* which of the other flyouts are on screen
    opening,    \* openSettingsFlyout awaits its answers
    app,        \* appState, what the mascot shows
    scan,       \* how far each scan flow is
    request,    \* the execute_plan_cmd call in each slot
    journal,    \* operations the shell has journaled
    carried     \* history: plans whose execution was answered with success

planVars   == <<pending, selected>>
flyoutVars == <<view, card, drawer, others>>
vars == <<pending, selected, view, card, drawer, others,
          opening, app, scan, request, journal, carried>>

Others == {"input", "context-menu", "settings"}

TypeOK ==
    /\ pending \in Scans \cup {NoPlan}
    /\ selected \in SUBSET PlanOps(pending)
    /\ view \in Others \cup {"closed", "approval", "drawer"}
    /\ card \in [plan : Scans, on : BOOLEAN] \cup {Hidden}
    /\ drawer \in [plan : Scans, ticked : SUBSET AllOps, on : BOOLEAN] \cup {Hidden}
    /\ others \in SUBSET Others
    /\ opening \in BOOLEAN
    /\ app \in {"idle", "thinking", "scanning", "classifying", "executing", "error"}
    /\ scan \in [Scans -> {"none", "intent", "asking", "rescan", "scanning",
                           "planning", "classifying", "shown", "over"}]
    /\ request \in [Slots -> {Free} \cup
          [from : {"approval", "drawer"}, ops : (SUBSET AllOps) \ {{}}, plan : Scans,
           stage : {"sent", "unheard", "done", "failed", "closing"}]]
    /\ journal \in SUBSET AllOps
    /\ carried \in SUBSET Scans

Init ==
    /\ pending = NoPlan /\ selected = {}
    /\ view = "closed" /\ card = Hidden /\ drawer = Hidden /\ others = {}
    /\ opening = FALSE
    /\ app = "idle"
    /\ scan = [s \in Scans |-> "none"]
    /\ request = [i \in Slots |-> Free]
    /\ journal = {} /\ carried = {}

-----------------------------------------------------------------------------
(* Shared helpers of the script *)

(* Faulty: savePendingPlan forgets the selection.                          *)
SavePendingPlanOnly(s) ==
    pending' = s /\ selected' = IF s = NoPlan THEN selected ELSE PlanOps(s)

SavePendingPlan(s) == pending' = s /\ selected' = PlanOps(s)

(* A flyout is drawn anew whenever it is shown, so one that is hidden      *)
(* holds nothing.  The opener of a flyout hides the others.                *)
CloseAllFlyouts ==
    view' = "closed" /\ card' = Hidden /\ drawer' = Hidden /\ others' = {}

Open(flyout) ==
    view' = flyout /\ card' = Hidden /\ drawer' = Hidden /\ others' = {flyout}

(* Faulty: the drawer stays open behind the card.                          *)
ShowApprovalCardOverDrawer(s) ==
    /\ SavePendingPlan(s)
    /\ view' = "approval" /\ drawer' = drawer /\ others' = {}
    /\ card' = [plan |-> s, on |-> TRUE]

ShowApprovalCard(s) ==
    /\ SavePendingPlan(s)
    /\ view' = "approval" /\ drawer' = Hidden /\ others' = {}
    /\ card' = [plan |-> s, on |-> TRUE]

SetScan(s, stage) == scan' = [scan EXCEPT ![s] = stage]

SetRequest(i, stage) == request' = [request EXCEPT ![i].stage = stage]

Release(i) == request' = [request EXCEPT ![i] = Free]

-----------------------------------------------------------------------------
(* Scanning and planning: scanAndPlanFolder and what calls it *)

(* Scans are numbered as they start. *)
Unstarted(s) == scan[s] = "none" /\ \A r \in 1..(s - 1) : scan[r] # "none"

(* The mascot, or a folder, is dropped: the folder is known. *)
Drop(s) ==
    /\ Unstarted(s)
    /\ SetScan(s, "scanning")
    /\ app' = "scanning"
    /\ UNCHANGED <<planVars, flyoutVars, opening, request, journal, carried>>

(* A request typed into the input bar: parse_intent_cmd first. *)
Submit(s) ==
    /\ Unstarted(s) /\ "input" \in others
    /\ SetScan(s, "intent")
    /\ app' = "thinking"
    /\ UNCHANGED <<planVars, flyoutVars, opening, request, journal, carried>>

(* A folder entry of the menu: it is looked up, or asked for in a dialog.  *)
(* Rescan in the drawer knows its folder.  Both close their flyout first.  *)
Choose(s) ==
    /\ Unstarted(s)
    /\ \/ "context-menu" \in others /\ SetScan(s, "asking")
       \/ drawer # Hidden /\ pending # NoPlan /\ SetScan(s, "rescan")
    /\ CloseAllFlyouts
    /\ UNCHANGED <<planVars, opening, app, request, journal, carried>>

FolderFound(s) ==
    /\ scan[s] \in {"intent", "asking", "rescan"}
    /\ SetScan(s, "scanning")
    /\ app' = "scanning"
    /\ UNCHANGED <<planVars, flyoutVars, opening, request, journal, carried>>

(* "Please specify a folder path", or an error; the menu says nothing. *)
NoFolder(s) ==
    /\ scan[s] \in {"intent", "asking"}
    /\ SetScan(s, "over")
    /\ app' \in IF scan[s] = "intent" THEN {"idle", "error"} ELSE {app}
    /\ UNCHANGED <<planVars, flyoutVars, opening, request, journal, carried>>

(* Faulty: an empty folder leaves the status alone. *)
EmptyStatusKept == app

EmptyStatus == "idle"

(* The answer of scan_directory_cmd: files, none, or an error. *)
Scanned(s) ==
    /\ scan[s] = "scanning"
    /\ \/ SetScan(s, "planning") /\ app' = "classifying"
       \/ SetScan(s, "over") /\ app' = EmptyStatus
       \/ SetScan(s, "over") /\ app' = "error"
    /\ UNCHANGED <<planVars, flyoutVars, opening, request, journal, carried>>

(* plan_organize_cmd fails or returns nothing: classify_cmd, file by file. *)
PlanFails(s) ==
    /\ scan[s] = "planning"
    /\ SetScan(s, "classifying")
    /\ UNCHANGED <<planVars, flyoutVars, opening, app, request, journal, carried>>

(* A plan has come, one way or the other. *)
PlanReady(s) ==
    /\ scan[s] \in {"planning", "classifying"}
    /\ SetScan(s, "shown")
    /\ ShowApprovalCard(s)
    /\ UNCHANGED <<opening, app, request, journal, carried>>

(* The card is up and the window has its size. *)
Ready(s) ==
    /\ scan[s] = "shown"
    /\ SetScan(s, "over")
    /\ app' = "idle"
    /\ UNCHANGED <<planVars, flyoutVars, opening, request, journal, carried>>

-----------------------------------------------------------------------------
(* The flyouts *)

(* Escape, a click outside, a close button, the mascot pressed while a     *)
(* flyout is open, and the menu's entries that only close it.              *)
Close ==
    /\ CloseAllFlyouts
    /\ UNCHANGED <<planVars, opening, app, scan, request, journal, carried>>

ShowContextMenu ==
    /\ Open("context-menu")
    /\ UNCHANGED <<planVars, opening, app, scan, request, journal, carried>>

(* A click on the mascot opens the input bar when there is no plan; the    *)
(* card's keyboard button opens it in any case.                            *)
OpenInputBar ==
    /\ (view = "closed" /\ pending = NoPlan) \/ card # Hidden
    /\ Open("input")
    /\ UNCHANGED <<planVars, opening, app, scan, request, journal, carried>>

(* With a plan the click shows its card again, as the input bar's pill     *)
(* does: everything is selected anew.                                      *)
ShowPending ==
    /\ view = "closed" \/ "input" \in others
    /\ pending # NoPlan
    /\ ShowApprovalCard(pending)
    /\ UNCHANGED <<opening, app, scan, request, journal, carried>>

(* From the card or the menu. *)
OpenPlanDrawer ==
    /\ card # Hidden \/ "context-menu" \in others
    /\ pending # NoPlan
    /\ view' = "drawer" /\ card' = Hidden /\ others' = {}
    /\ drawer' = [plan |-> pending, ticked |-> selected, on |-> selected # {}]
    /\ UNCHANGED <<planVars, opening, app, scan, request, journal, carried>>

(* From the menu or the flyout's Refresh: the others are hidden now...     *)
OpenSettings ==
    /\ ~opening
    /\ others \cap {"context-menu", "settings"} # {}
    /\ opening' = TRUE
    /\ view' = "settings" /\ card' = Hidden /\ drawer' = Hidden
    /\ others' = others \cap {"settings"}
    /\ UNCHANGED <<planVars, app, scan, request, journal, carried>>

(* ... and this one is shown when three commands have answered.            *)
ShowSettings ==
    /\ opening
    /\ opening' = FALSE
    /\ others' = others \cup {"settings"}
    /\ UNCHANGED <<planVars, view, card, drawer, app, scan, request, journal, carried>>

Select(plan, chosen, ticked) ==
    /\ pending # NoPlan
    /\ selected' = chosen
    /\ drawer' = [plan |-> plan, ticked |-> ticked, on |-> chosen # {}]
    /\ UNCHANGED <<pending, view, card, others, opening, app, scan, request, journal, carried>>

(* A row's box. *)
Toggle(o) ==
    /\ drawer # Hidden /\ o \in PlanOps(drawer.plan)
    /\ IF o \in drawer.ticked
          THEN Select(drawer.plan, selected \ {o}, drawer.ticked \ {o})
          ELSE Select(drawer.plan, selected \cup {o}, drawer.ticked \cup {o})

(* The box above them all; the rows are drawn anew. *)
ToggleAll ==
    /\ drawer # Hidden
    /\ \E chosen \in {{}, PlanOps(pending)} : Select(pending, chosen, chosen)

(* The dismiss buttons, and shaking the mascot while a plan is pending.    *)
Dismiss ==
    /\ pending # NoPlan
    /\ SavePendingPlan(NoPlan)
    /\ CloseAllFlyouts
    /\ UNCHANGED <<opening, app, scan, request, journal, carried>>

-----------------------------------------------------------------------------
(* Carrying a plan out *)

Request(flyout, ops) ==
    /\ ops # {}
    /\ \E i \in Slots :
          /\ request[i] = Free /\ \A j \in 1..(i - 1) : request[j] # Free
          /\ request' = [request EXCEPT ![i] =
                [from |-> flyout, plan |-> pending, ops |-> ops, stage |-> "sent"]]
    /\ app' = "executing"
    /\ UNCHANGED <<planVars, view, others, opening, scan, journal, carried>>

(* The card's button sends every operation of the plan, ... *)
Approve ==
    /\ card # Hidden /\ card.on
    /\ Request("approval", PlanOps(pending))
    /\ card' = [card EXCEPT !.on = FALSE] /\ UNCHANGED drawer

(* ... the drawer's those that are selected. *)
DrawerExecute ==
    /\ drawer # Hidden /\ drawer.on
    /\ Request("drawer", selected)
    /\ drawer' = [drawer EXCEPT !.on = FALSE] /\ UNCHANGED card

(* The shell's execute_plan: an operation it has journaled before ends the *)
(* batch with an error, and so does any failure; earlier ones stay done.   *)
Execute(i) ==
    LET ops == request[i].ops
        Answer(stage) == IF request[i].stage = "sent" THEN SetRequest(i, stage) ELSE Release(i)
    IN
    /\ request[i].stage \in {"sent", "unheard"}
    /\ \/ /\ ops \cap journal = {}
          /\ journal' = journal \cup ops
          /\ Answer("done")
       \/ /\ \E part \in SUBSET (ops \ journal) : journal' = journal \cup part
          /\ Answer("failed")
    /\ UNCHANGED <<planVars, flyoutVars, opening, app, scan, carried>>

(* Faulty: the plan that was carried out stays pending. *)
DonePlanKept == UNCHANGED planVars

DonePlan == SavePendingPlan(NoPlan)

(* The success branch drops whatever plan is pending by now. *)
Done(i) ==
    /\ request[i].stage = "done"
    /\ SetRequest(i, "closing")
    /\ carried' = carried \cup {request[i].plan}
    /\ DonePlan
    /\ CloseAllFlyouts
    /\ UNCHANGED <<opening, app, scan, journal>>

Settle(i) ==
    /\ request[i].stage = "closing"
    /\ Release(i)
    /\ app' = "idle"
    /\ UNCHANGED <<planVars, flyoutVars, opening, scan, journal, carried>>

(* Faulty: the error branch forgets the button. *)
RestoreButtonNot(flyout) == UNCHANGED <<card, drawer>>

RestoreButton(flyout) ==
    /\ card' = IF flyout = "approval" /\ card # Hidden THEN [card EXCEPT !.on = TRUE] ELSE card
    /\ drawer' = IF flyout = "drawer" /\ drawer # Hidden THEN [drawer EXCEPT !.on = TRUE] ELSE drawer

(* The error branch keeps the plan and enables the button again. *)
Report(i) ==
    /\ request[i].stage = "failed"
    /\ Release(i)
    /\ app' = "error"
    /\ RestoreButton(request[i].from)
    /\ UNCHANGED <<planVars, view, others, opening, scan, journal, carried>>

(* The page is loaded anew: handlers are gone, the shell is still at work, *)
(* and the pending plan comes back from the session's storage.             *)
Reload ==
    /\ SavePendingPlan(pending)
    /\ CloseAllFlyouts
    /\ opening' = FALSE
    /\ app' = "idle"
    /\ scan' = [s \in Scans |-> IF scan[s] = "none" THEN "none" ELSE "over"]
    /\ request' = [i \in Slots |-> IF request[i].stage \in {"sent", "unheard"}
          THEN [request[i] EXCEPT !.stage = "unheard"] ELSE Free]
    /\ UNCHANGED <<journal, carried>>

-----------------------------------------------------------------------------
User ==
    \/ \E s \in Scans : Drop(s) \/ Submit(s) \/ Choose(s)
    \/ Close \/ ShowContextMenu \/ OpenInputBar \/ ShowPending
    \/ OpenPlanDrawer \/ OpenSettings
    \/ \E o \in AllOps : Toggle(o)
    \/ ToggleAll \/ Dismiss
    \/ Approve \/ DrawerExecute
    \/ Reload

Flow(s) == FolderFound(s) \/ NoFolder(s) \/ Scanned(s)
           \/ PlanFails(s) \/ PlanReady(s) \/ Ready(s)

Carry(i) == Execute(i) \/ Done(i) \/ Settle(i) \/ Report(i)

Next ==
    \/ User
    \/ ShowSettings
    \/ \E s \in Scans : Flow(s)
    \/ \E i \in Slots : Carry(i)

(* The commands that only touch this computer answer, and a handler whose  *)
(* await is over goes on.  Not assumed: that the user does anything or     *)
(* answers a dialog ("asking"), and that a plan ever comes: the HTTP       *)
(* clients of the online tiers have no timeout (ai.rs:984, online.rs:21).  *)
Fairness ==
    /\ \A s \in Scans :
          /\ WF_vars(scan[s] = "intent" /\ (FolderFound(s) \/ NoFolder(s)))
          /\ WF_vars(Scanned(s))
          /\ WF_vars(Ready(s))
    /\ \A i \in Slots : WF_vars(Carry(i))

Spec == Init /\ [][Next]_vars /\ Fairness

-----------------------------------------------------------------------------
(* Properties *)

(* What the user reads is what a button would send: the card and the       *)
(* drawer on screen show the pending plan, and the drawer's boxes are the  *)
(* selection, whatever scans, answers and dismissals have come since they  *)
(* were drawn (widget.js:479-498, 614-669, 1243-1300).                     *)
ShownIsPending ==
    /\ card # Hidden => pending # NoPlan /\ card.plan = pending
    /\ drawer # Hidden => pending # NoPlan /\ drawer.plan = pending /\ drawer.ticked = selected

(* A plan whose execution was answered with success is never offered       *)
(* again, by any later scan, answer or reload (widget.js:1253, 1291).      *)
NotOfferedAgain == pending \notin carried

(* A button that a request has disabled does not stay dead: it is enabled  *)
(* again or its flyout goes away (widget.js:1245-1259, 1283-1297).         *)
ButtonsRecover ==
    /\ (card # Hidden /\ ~card.on) ~> (card = Hidden \/ card.on)
    /\ (drawer # Hidden /\ ~drawer.on /\ selected # {})
          ~> (drawer = Hidden \/ drawer.on \/ selected = {})

AwaitsPlan == \E s \in Scans : scan[s] \in {"planning", "classifying"}

(* The status leaves every busy mode again: each flow that sets one ends   *)
(* in "idle" or "error", however flows and reloads overlap; only           *)
(* "classifying" may last, while a plan is awaited (widget.js:435-447).    *)
StatusSettles ==
    /\ \A busy \in {"thinking", "scanning", "executing"} : app = busy ~> app # busy
    /\ (app = "classifying" /\ ~AwaitsPlan) ~> (app # "classifying" \/ AwaitsPlan)

(* activeFlyoutMode is the "Active view" (widget.js:144): the flyout on    *)
(* screen, and the one the click-outside handler closes.  A settings       *)
(* flyout that was closed while it loaded comes up under another view.     *)
ViewIsShown ==
    LET shown == others \cup (IF card = Hidden THEN {} ELSE {"approval"})
                        \cup (IF drawer = Hidden THEN {} ELSE {"drawer"})
    IN  \/ shown = {view} \ {"closed"}
        \/ opening /\ view = "settings" /\ shown = {}

=============================================================================
