-------------------------------- MODULE Drag --------------------------------
(***************************************************************************)
(* Dragging the mascot onto a folder: the gestures of the widget's script  *)
(* (src/widget.js), the window that marks the folder a drop would clean,   *)
(* and the commands of the shell that find that folder (main.rs).          *)
(*                                                                         *)
(* The script runs one handler at a time, up to its next `await`.  While   *)
(* the mascot is dragged a timer starts a tick every 16 ms, whether or not *)
(* earlier ones have their answers, and on Windows an answer may take as   *)
(* long as PowerShell does.  Commands that show and hide windows are done  *)
(* in the order they are sent, and at once.  The pointer may be anywhere,  *)
(* and its button up or down, whenever a tick asks.  The scan a drop ends  *)
(* in is Widget!Drop; a shake is Widget!Dismiss or Operation!UndoLast.     *)
(***************************************************************************)
EXTENDS Naturals, Sequences, SequencesExt

CONSTANTS
    Systems,        \* the operating systems to consider
    Spots,          \* what may lie under the pointer
    MaxTicks,       \* bound on the ticks that await an answer
    MaxTimers,      \* bound on the confirmed drops of the last 350 ms
    NoWindow,       \* null
    NoFolder,       \* Option::None
    Unread          \* a window whose folder the script cannot read

\* Found without a look into the window: the desktop, the folder of the user
\* that has the window's title, and the title itself.
UserFolders == {"desktop", "profile", "title"}

\* What a drop may have for its target.
Targets ==
    [hwnd   : {s.root : s \in Spots},
     folder : UserFolders \cup UNION {{w.folder : w \in Range(s.listed)} : s \in Spots}]

ASSUME DragAssumption ==
    /\ Systems \subseteq {"windows", "macos", "linux"}
    /\ MaxTicks \in Nat /\ MaxTimers \in Nat
    /\ \A s \in Spots : s.listed \in Seq(Range(s.listed))
    /\ NoWindow \notin Targets

VARIABLES
    system,         \* the operating system
    widget,         \* the widget is on screen
    pressed,        \* dragStartedAt: never, in the last 120 ms, or before
    dragging,       \* isDraggingMascot
    tracker,        \* activeDragInterval runs
    ticks,          \* the ticks that await an answer
    target,         \* activeTargetWindow
    marked,         \* lastOverlayHwnd
    overlay,        \* the window the overlay on screen marks
    timers,         \* confirmed drops whose overlay is yet to be hidden
    slips           \* history: why overlay and target may differ

gestureVars == <<pressed, dragging, tracker>>
markVars    == <<target, marked, overlay, timers, slips>>
dragVars    == <<system, widget, gestureVars, ticks, markVars>>

NoTick == [stage |-> "none"]
Slots  == 1 .. MaxTicks

-----------------------------------------------------------------------------
(* What the shell finds under the pointer *)

(* The PowerShell script: the desktop, the folder of the window under the  *)
(* pointer, or else that of a folder window that lies there, covered as it *)
(* may be; the first of them that can be read.                             *)
PathAtPoint(s) ==
    LET own  == SelectInSeq(s.listed, LAMBDA w : w.hwnd = s.root /\ w.folder # Unread)
        here == SelectInSeq(s.listed, LAMBDA w : w.covers /\ w.folder # Unread)
    IN  IF s.class = "desktop" THEN "desktop"
        ELSE IF own # 0 THEN s.listed[own].folder
        ELSE IF here # 0 THEN s.listed[here].folder
        ELSE NoFolder

(* get_explorer_path_at_point_cmd: the script may fail; elsewhere it is    *)
(* the window in front, wherever the pointer is.                           *)
PathsAtPoint(s) ==
    {NoFolder, IF system = "windows" THEN PathAtPoint(s) ELSE "front"}

(* track_target_window_cmd: a folder window titled like one of the user's  *)
(* folders is taken for it, one whose folder cannot be found out is taken  *)
(* for the folder its title names.                                         *)
Trackable(s) ==
    IF system # "windows" \/ s.root = NoWindow \/ ~s.large THEN {}
    ELSE CASE s.class = "desktop" -> [hwnd : {s.root}, folder : {"desktop"}]
           [] s.class = "folder" /\ s.known -> [hwnd : {s.root}, folder : {"profile"}]
           [] s.class = "folder" /\ ~s.known ->
                 [hwnd   : {s.root},
                  folder : {IF p = NoFolder THEN "title" ELSE p : p \in PathsAtPoint(s)}]
           [] OTHER -> {}

-----------------------------------------------------------------------------
(* The windows *)

ShowOverlay(hwnd) == overlay' = hwnd

(* hide_target_overlay_cmd, not confirmed *)
HideOverlay == overlay' = NoWindow /\ UNCHANGED timers

(* hide_target_overlay_cmd, confirmed: a thread hides it 350 ms later ...  *)
ConfirmOverlay ==
    /\ timers < MaxTimers
    /\ timers' = timers + 1
    /\ UNCHANGED overlay

(* ... whatever it marks by then.                                          *)
HideLater ==
    /\ timers > 0
    /\ timers' = timers - 1
    /\ overlay' = NoWindow
    /\ slips' = IF target = NoWindow THEN slips ELSE slips \cup {"early"}
    /\ UNCHANGED <<system, widget, gestureVars, ticks, target, marked>>

(* hide_widget_window_cmd, from the menu. *)
HideWidget ==
    /\ widget
    /\ widget' = FALSE
    /\ UNCHANGED <<system, gestureVars, ticks, markVars>>

(* The tray icon, or Open in its menu. *)
ShowWidget ==
    /\ ~widget
    /\ widget' = TRUE
    /\ UNCHANGED <<system, gestureVars, ticks, markVars>>

-----------------------------------------------------------------------------
(* The gestures *)

Outdated == [i \in Slots |-> IF ticks[i] = NoTick THEN NoTick
                             ELSE [ticks[i] EXCEPT !.current = FALSE]]

(* handleMascotMouseDown *)
MouseDown ==
    /\ widget
    /\ pressed' = "just" /\ dragging' = FALSE
    /\ slips' = IF tracker THEN slips \cup {"lost"} ELSE slips
    /\ UNCHANGED <<system, widget, tracker, ticks, target, marked, overlay, timers>>

Wait ==
    /\ pressed = "just"
    /\ pressed' = "before"
    /\ UNCHANGED <<system, widget, dragging, tracker, ticks, markVars>>

(* Faulty: startActiveDragTracker keeps lastOverlayHwnd.                   *)
ForgetTarget == target' = NoWindow /\ UNCHANGED marked

ForgetMark == target' = NoWindow /\ marked' = NoWindow

(* handleMascotMouseMove: a press anywhere in the widget that moves is a   *)
(* drag.  An overlay that a late answer has shown stays on screen.         *)
StartDrag ==
    /\ widget /\ ~dragging
    /\ dragging' = TRUE /\ tracker' = TRUE
    /\ ticks' = Outdated
    /\ ForgetMark
    /\ slips' = slips \cap {"late", "lost"}
    /\ UNCHANGED <<system, widget, pressed, overlay, timers>>

StopTracker == tracker' = FALSE /\ dragging' = FALSE

(* handleMascotMouseUp, called with ticks' given: after 120 ms a drop, on  *)
(* the target, or on what is found at the point (PathsAtPoint); any other  *)
(* just hides the overlay.  That the mascot was pressed is not forgotten.  *)
Release ==
    /\ StopTracker
    /\ \/ /\ pressed = "before" /\ target # NoWindow
          /\ ForgetMark
          /\ ConfirmOverlay
          /\ slips' = {}
       \/ /\ pressed = "before" /\ target = NoWindow
          /\ ForgetMark
          /\ HideOverlay
          /\ slips' = {}
       \/ /\ pressed # "before"
          /\ HideOverlay
          /\ slips' = IF target = NoWindow THEN {} ELSE {"quick"}
          /\ UNCHANGED <<target, marked>>
    /\ UNCHANGED <<system, widget, pressed>>

(* A mouse-up of any button anywhere in the widget, of a drag or not. *)
MouseUp ==
    /\ widget
    /\ ticks' = Outdated
    /\ Release

-----------------------------------------------------------------------------
(* A tick of the tracker *)

(* It asks where the pointer is, unless the drag is over.                  *)
Tick(i) ==
    /\ tracker /\ ticks[i] = NoTick
    /\ IF dragging
          THEN /\ ticks' = [ticks EXCEPT ![i] = [stage |-> "cursor", current |-> TRUE]]
               /\ UNCHANGED <<tracker, dragging>>
          ELSE StopTracker /\ ticks' = Outdated
    /\ UNCHANGED <<system, widget, pressed, markVars>>

(* get_cursor_position_cmd: that the button is down is known on Windows    *)
(* alone.                                                                  *)
ButtonsSeen == IF system = "windows" THEN BOOLEAN ELSE {FALSE}

(* The button is up: a mouse-up.  Otherwise the tick asks for the window   *)
(* there, unless one was asked for in the last 35 ms.  That the drag may   *)
(* be over, or be another one, is not looked at.                           *)
CursorKnown(i) ==
    /\ ticks[i].stage = "cursor"
    /\ \/ /\ FALSE \in ButtonsSeen
          /\ ticks' = [Outdated EXCEPT ![i] = NoTick]
          /\ Release
       \/ /\ TRUE \in ButtonsSeen
          /\ ticks' \in {[ticks EXCEPT ![i].stage = "window"], [ticks EXCEPT ![i] = NoTick]}
          /\ UNCHANGED <<system, widget, gestureVars, markVars>>

Mark(t) ==
    IF t.hwnd # marked THEN marked' = t.hwnd /\ ShowOverlay(t.hwnd)
                       ELSE UNCHANGED <<marked, overlay>>

Late(i) == slips' = IF ticks[i].current /\ dragging THEN slips ELSE slips \cup {"late"}

(* The answer of track_target_window_cmd, wherever the pointer was. *)
WindowKnown(i) ==
    /\ ticks[i].stage = "window"
    /\ ticks' = [ticks EXCEPT ![i] = NoTick]
    /\ \E s \in Spots : LET found == Trackable(s) IN
       \/ \E t \in found : target' = t /\ Mark(t) /\ Late(i) /\ UNCHANGED timers
       \/ /\ found = {} /\ marked # NoWindow
          /\ ForgetMark /\ HideOverlay /\ UNCHANGED slips
       \/ /\ found = {} /\ marked = NoWindow
          /\ UNCHANGED markVars
    /\ UNCHANGED <<system, widget, gestureVars>>

-----------------------------------------------------------------------------

DragTypeOK ==
    /\ system \in Systems
    /\ {widget, dragging, tracker} \subseteq BOOLEAN
    /\ pressed \in {"never", "just", "before"}
    /\ \A i \in Slots :
          \/ ticks[i] = NoTick
          \/ ticks[i] \in [stage : {"cursor", "window"}, current : BOOLEAN]
    /\ target \in Targets \cup {NoWindow}
    /\ marked = IF target = NoWindow THEN NoWindow ELSE target.hwnd
    /\ timers \in 0 .. MaxTimers
    /\ slips \subseteq {"late", "lost", "early", "quick"}

DragInit ==
    /\ system \in Systems
    /\ widget = TRUE
    /\ pressed = "never" /\ dragging = FALSE /\ tracker = FALSE
    /\ ticks = [i \in Slots |-> NoTick]
    /\ target = NoWindow /\ marked = NoWindow /\ overlay = NoWindow
    /\ timers = 0 /\ slips = {}

DragNext ==
    \/ HideLater \/ HideWidget \/ ShowWidget
    \/ MouseDown \/ Wait \/ StartDrag \/ MouseUp
    \/ \E i \in Slots : Tick(i) \/ CursorKnown(i) \/ WindowKnown(i)

-----------------------------------------------------------------------------
(* Properties *)

Cleaned(s, folder) ==
    LET readable == {i \in DOMAIN s.listed : s.listed[i].hwnd = s.root /\ s.listed[i].folder # Unread}
    IN  folder \in UserFolders
        \/ \E i \in DOMAIN s.listed :
              /\ s.listed[i].folder = folder
              /\ i \in readable \/ (readable = {} /\ s.listed[i].covers)

(* The folder that is marked is the one a drop would clean: an overlay on  *)
(* screen marks the target, or is about to be hidden, or an answer came    *)
(* when its drag was over; a target is marked on screen, unless the timer  *)
(* of an earlier drop has hidden it, or a release in the first 120 ms,     *)
(* which leaves the target to any later release in the widget              *)
(* (widget.js:944-969, 1048-1099, main.rs:644).  And the folder of another *)
(* window is cleaned only for a window whose own cannot be read.           *)
MarkedIsTarget ==
    /\ overlay # NoWindow /\ timers = 0 /\ slips \cap {"late", "lost"} = {} =>
          target # NoWindow /\ target.hwnd = overlay
    /\ target # NoWindow /\ slips \cap {"early", "quick"} = {} => overlay = target.hwnd
    /\ target # NoWindow => \E s \in Spots : s.root = target.hwnd /\ Cleaned(s, target.folder)

=============================================================================
