--------------------------- MODULE Library_proofs ---------------------------
(***************************************************************************)
(* Theorems about Library.  Its parts share nothing, so that what holds of *)
(* each by itself holds of the whole; what a function returns holds of     *)
(* every answer that is given.                                             *)
(***************************************************************************)
EXTENDS Library, ModelInstall_proofs, Index_proofs

-----------------------------------------------------------------------------
(* The parts *)

LEMMA ModelsArePart == LibrarySpec => InstallSpec
<1>1. LibraryInit => InstallInit
  BY DEF LibraryInit
<1>2. [LibraryNext]_libraryVars => [InstallNext]_installVars
  BY DEF LibraryNext, libraryVars
<1> QED
  BY <1>1, <1>2, PTL DEF LibrarySpec, InstallSpec

LEMMA IndexIsPart == LibrarySpec => IndexSpec
<1>1. LibraryInit => IndexInit
  BY DEF LibraryInit
<1>2. [LibraryNext]_libraryVars => [IndexNext]_indexVars
  BY DEF LibraryNext, libraryVars
<1> QED
  BY <1>1, <1>2, PTL DEF LibrarySpec, IndexSpec

LEMMA DragIsPart == LibrarySpec => DragInit /\ [][DragNext]_dragVars
<1>1. LibraryInit => DragInit
  BY DEF LibraryInit
<1>2. [LibraryNext]_libraryVars => [DragNext]_dragVars
  BY DEF LibraryNext, libraryVars
<1> QED
  BY <1>1, <1>2, PTL DEF LibrarySpec

-----------------------------------------------------------------------------
(* Dragging *)

TickSet == {NoTick} \cup [stage : {"cursor", "window"}, current : BOOLEAN]

(* The tracker runs while the mascot is dragged; it runs on after that     *)
(* only when a press has come in between.                                  *)
Tracked ==
    /\ dragging => tracker
    /\ tracker /\ ~dragging => "lost" \in slips

(* An overlay on screen that nothing is about to hide marks the target of  *)
(* a drag that goes on.                                                    *)
OverlayMarks ==
    overlay # NoWindow /\ timers = 0 /\ slips \cap {"late", "lost"} = {} =>
        dragging /\ target # NoWindow /\ target.hwnd = overlay

DragInv ==
    /\ DragTypeOK
    /\ ticks \in [Slots -> TickSet]
    /\ Tracked
    /\ OverlayMarks
    /\ MarkedIsTarget

-----------------------------------------------------------------------------
(* What a target is *)

LEMMA MinIn ==
    ASSUME NEW T, T \subseteq Nat, T # {}
    PROVE  Min(T) \in T
BY LeastOf DEF Min

(* A folder that is found is of the window, or of one that lies there when *)
(* the window's cannot be read.                                            *)
LEMMA PathIsCleaned ==
    ASSUME NEW s \in Spots, PathAtPoint(s) # NoFolder
    PROVE  /\ Cleaned(s, PathAtPoint(s))
           /\ PathAtPoint(s) \in UserFolders \cup {w.folder : w \in Range(s.listed)}
<1> DEFINE own  == {i \in 1 .. Len(s.listed) :
                       s.listed[i].hwnd = s.root /\ s.listed[i].folder # Unread}
           here == {i \in 1 .. Len(s.listed) :
                       s.listed[i].covers /\ s.listed[i].folder # Unread}
<1>1. DOMAIN s.listed = 1 .. Len(s.listed) /\ Len(s.listed) \in Nat
  BY DragAssumption
<1>2. own \subseteq Nat /\ here \subseteq Nat
  BY <1>1
<1>3. PathAtPoint(s) =
         IF s.class = "desktop" THEN "desktop"
         ELSE IF (IF own # {} THEN Min(own) ELSE 0) # 0
         THEN s.listed[IF own # {} THEN Min(own) ELSE 0].folder
         ELSE IF (IF here # {} THEN Min(here) ELSE 0) # 0
         THEN s.listed[IF here # {} THEN Min(here) ELSE 0].folder
         ELSE NoFolder
  BY DEF PathAtPoint, SelectInSeq
<1>4. CASE s.class = "desktop"
  BY <1>3, <1>4 DEF Cleaned, UserFolders
<1>5. CASE s.class # "desktop" /\ own # {}
  <2> DEFINE i == Min(own)
  <2>1. i \in own
    BY <1>2, <1>5, MinIn
  <2> HIDE DEF i
  <2>2. i \in 1 .. Len(s.listed) /\ s.listed[i].hwnd = s.root /\ s.listed[i].folder # Unread
    BY <2>1
  <2>3. PathAtPoint(s) = s.listed[i].folder
    <3>1. i # 0
      BY <1>1, <2>2
    <3> HIDE DEF own, here
    <3> QED
      BY <1>3, <1>5, <3>1 DEF i
  <2> QED
    BY <1>1, <2>2, <2>3 DEF Cleaned, Range
<1>6. CASE s.class # "desktop" /\ own = {} /\ here # {}
  <2> DEFINE i == Min(here)
  <2>1. i \in here
    BY <1>2, <1>6, MinIn
  <2> HIDE DEF i
  <2>2. i \in 1 .. Len(s.listed) /\ s.listed[i].covers
    BY <2>1
  <2>3. PathAtPoint(s) = s.listed[i].folder
    BY <1>1, <1>3, <1>6, <2>2 DEF i
  <2>4. {j \in DOMAIN s.listed : s.listed[j].hwnd = s.root /\ s.listed[j].folder # Unread} = {}
    BY <1>1, <1>6
  <2> QED
    BY <1>1, <2>2, <2>3, <2>4 DEF Cleaned, Range
<1>7. CASE s.class # "desktop" /\ own = {} /\ here = {}
  BY <1>3, <1>7
<1> QED
  BY <1>4, <1>5, <1>6, <1>7

LEMMA TrackableIsTarget ==
    ASSUME NEW s \in Spots, NEW t \in Trackable(s)
    PROVE  /\ t \in Targets /\ t # NoWindow
           /\ t.hwnd = s.root /\ t.hwnd # NoWindow
           /\ Cleaned(s, t.folder)
<1>1. system = "windows" /\ s.root # NoWindow
  BY DEF Trackable
<1> DEFINE Folders == {IF p = NoFolder THEN "title" ELSE p : p \in PathsAtPoint(s)}
<1>2. \A f \in {"desktop", "profile"} \cup Folders :
          /\ Cleaned(s, f)
          /\ f \in UserFolders \cup {w.folder : w \in Range(s.listed)}
  <2>1. ASSUME NEW f \in UserFolders PROVE Cleaned(s, f)
    BY DEF Cleaned
  <2>2. ASSUME NEW f \in Folders, f \notin UserFolders PROVE f = PathAtPoint(s) /\ f # NoFolder
    BY <1>1, <2>2 DEF PathsAtPoint, UserFolders
  <2> QED
    BY <2>1, <2>2, PathIsCleaned DEF UserFolders
<1>3. \/ t \in [hwnd : {s.root}, folder : {"desktop"}]
      \/ t \in [hwnd : {s.root}, folder : {"profile"}]
      \/ t \in [hwnd : {s.root}, folder : Folders]
  BY <1>1 DEF Trackable
<1> HIDE DEF Folders
<1>4. t \in [hwnd : {s.root}, folder : {"desktop", "profile"} \cup Folders]
  BY <1>3
<1>5. t.hwnd = s.root /\ t.folder \in {"desktop", "profile"} \cup Folders
  BY <1>4
<1>6. t \in Targets
  BY <1>2, <1>4, <1>5 DEF Targets
<1> QED
  BY <1>1, <1>2, <1>5, <1>6, DragAssumption

-----------------------------------------------------------------------------
(* The steps of a drag *)

SlipSet == {"late", "lost", "early", "quick"}

(* DragInv without its quantifiers over the ticks. *)
DragFacts ==
    /\ system \in Systems
    /\ widget \in BOOLEAN /\ dragging \in BOOLEAN /\ tracker \in BOOLEAN
    /\ pressed \in {"never", "just", "before"}
    /\ ticks \in [Slots -> TickSet]
    /\ target \in Targets \cup {NoWindow}
    /\ marked = IF target = NoWindow THEN NoWindow ELSE target.hwnd
    /\ timers \in 0 .. MaxTimers
    /\ slips \subseteq SlipSet
    /\ Tracked
    /\ OverlayMarks
    /\ target # NoWindow /\ slips \cap {"early", "quick"} = {} => overlay = target.hwnd
    /\ target # NoWindow => \E s \in Spots : s.root = target.hwnd /\ Cleaned(s, target.folder)

LEMMA DragInvIs == DragInv <=> DragFacts
<1>1. ASSUME DragFacts PROVE DragInv
  <2>1. \A i \in Slots : \/ ticks[i] = NoTick
                         \/ ticks[i] \in [stage : {"cursor", "window"}, current : BOOLEAN]
    BY <1>1 DEF DragFacts, TickSet
  <2>2. DragTypeOK
    BY <1>1, <2>1 DEF DragFacts, DragTypeOK, SlipSet
  <2>3. MarkedIsTarget
    BY <1>1 DEF DragFacts, MarkedIsTarget, OverlayMarks
  <2> QED
    BY <1>1, <2>2, <2>3 DEF DragFacts, DragInv
<1>2. ASSUME DragInv PROVE DragFacts
  BY <1>2 DEF DragFacts, DragInv, DragTypeOK, MarkedIsTarget, SlipSet
<1> QED
  BY <1>1, <1>2

LEMMA OutdatedIs ==
    ASSUME ticks \in [Slots -> TickSet]
    PROVE  Outdated \in [Slots -> TickSet]
<1>1. \A t \in [stage : {"cursor", "window"}, current : BOOLEAN] :
          [t EXCEPT !.current = FALSE] \in [stage : {"cursor", "window"}, current : BOOLEAN]
  OBVIOUS
<1>2. ASSUME NEW i \in Slots
      PROVE  (IF ticks[i] = NoTick THEN NoTick ELSE [ticks[i] EXCEPT !.current = FALSE]) \in TickSet
  BY <1>1 DEF TickSet
<1> QED
  BY <1>2 DEF Outdated

(* A step that leaves the marks alone, and the tracker or only its press.  *)
LEMMA MarksUntouched ==
    ASSUME DragFacts, UNCHANGED <<system, dragging, tracker, markVars>>,
           widget' \in BOOLEAN, pressed' \in {"never", "just", "before"},
           ticks' \in [Slots -> TickSet]
    PROVE  DragFacts'
BY DEF DragFacts, Tracked, OverlayMarks, markVars, Cleaned

LEMMA HideLaterKeeps ==
    ASSUME DragFacts, HideLater
    PROVE  DragFacts'
<1>1. timers > 0 /\ timers' = timers - 1 /\ overlay' = NoWindow
      /\ slips' = (IF target = NoWindow THEN slips ELSE slips \cup {"early"})
      /\ UNCHANGED <<system, widget, pressed, dragging, tracker, ticks, target, marked>>
  BY DEF HideLater, gestureVars
<1>2. timers' \in 0 .. MaxTimers
  BY <1>1, DragAssumption DEF DragFacts
<1>3. Tracked' /\ OverlayMarks'
  BY <1>1 DEF DragFacts, Tracked, OverlayMarks
<1> QED
  BY <1>1, <1>2, <1>3 DEF DragFacts, SlipSet, Cleaned

LEMMA MouseDownKeeps ==
    ASSUME DragFacts, MouseDown
    PROVE  DragFacts'
<1>1. /\ pressed' = "just" /\ dragging' = FALSE
      /\ slips' = (IF tracker THEN slips \cup {"lost"} ELSE slips)
      /\ UNCHANGED <<system, widget, tracker, ticks, target, marked, overlay, timers>>
  BY DEF MouseDown
<1>2. Tracked' /\ OverlayMarks'
  BY <1>1 DEF DragFacts, Tracked, OverlayMarks
<1> QED
  BY <1>1, <1>2 DEF DragFacts, SlipSet, Cleaned

LEMMA StartDragKeeps ==
    ASSUME DragFacts, StartDrag
    PROVE  DragFacts'
<1>1. /\ ~dragging /\ dragging' = TRUE /\ tracker' = TRUE
      /\ ticks' = Outdated
      /\ target' = NoWindow /\ marked' = NoWindow
      /\ slips' = slips \cap {"late", "lost"}
      /\ UNCHANGED <<system, widget, pressed, overlay, timers>>
  BY DEF StartDrag, ForgetMark
<1>2. ticks' \in [Slots -> TickSet]
  BY <1>1, OutdatedIs DEF DragFacts
<1>3. OverlayMarks'
  BY <1>1 DEF DragFacts, OverlayMarks
<1>4. Tracked'
  BY <1>1 DEF Tracked
<1> QED
  BY <1>1, <1>2, <1>3, <1>4 DEF DragFacts, SlipSet

LEMMA ReleaseKeeps ==
    ASSUME DragFacts, Release, ticks' \in [Slots -> TickSet]
    PROVE  DragFacts'
<1>1. tracker' = FALSE /\ dragging' = FALSE /\ UNCHANGED <<system, widget, pressed>>
  BY DEF Release, StopTracker
<1>2. Tracked'
  BY <1>1 DEF Tracked
<1>3. CASE /\ target # NoWindow /\ ForgetMark /\ ConfirmOverlay /\ slips' = {}
  <2>1. timers' \in 0 .. MaxTimers /\ timers' # 0
    BY <1>3, DragAssumption DEF DragFacts, ConfirmOverlay
  <2> QED
    BY <1>1, <1>2, <1>3, <2>1 DEF DragFacts, ForgetMark, OverlayMarks, SlipSet
<1>4. CASE target = NoWindow /\ ForgetMark /\ HideOverlay /\ slips' = {}
  BY <1>1, <1>2, <1>4 DEF DragFacts, ForgetMark, HideOverlay, OverlayMarks, SlipSet
<1>5. CASE /\ HideOverlay /\ slips' = (IF target = NoWindow THEN {} ELSE {"quick"})
           /\ UNCHANGED <<target, marked>>
  <2>1. OverlayMarks'
    BY <1>5 DEF HideOverlay, OverlayMarks
  <2> QED
    BY <1>1, <1>2, <1>5, <2>1 DEF DragFacts, HideOverlay, SlipSet, Cleaned
<1> QED
  BY <1>3, <1>4, <1>5 DEF Release

LEMMA TickKeeps ==
    ASSUME DragFacts, NEW i \in Slots, Tick(i)
    PROVE  DragFacts'
<1>1. CASE dragging
  <2>1. /\ ticks' = [ticks EXCEPT ![i] = [stage |-> "cursor", current |-> TRUE]]
        /\ UNCHANGED <<tracker, dragging, system, widget, pressed, markVars>>
    BY <1>1 DEF Tick
  <2>2. ticks' \in [Slots -> TickSet]
    BY <2>1 DEF DragFacts, TickSet
  <2> QED
    BY <2>1, <2>2, MarksUntouched DEF DragFacts
<1>2. CASE ~dragging
  <2>1. /\ tracker' = FALSE /\ dragging' = FALSE /\ ticks' = Outdated
        /\ UNCHANGED <<system, widget, pressed, markVars>>
    BY <1>2 DEF Tick, StopTracker
  <2>2. ticks' \in [Slots -> TickSet]
    BY <2>1, OutdatedIs DEF DragFacts
  <2>3. Tracked' /\ OverlayMarks'
    BY <1>2, <2>1 DEF DragFacts, Tracked, OverlayMarks, markVars
  <2> QED
    BY <2>1, <2>2, <2>3 DEF DragFacts, markVars, Cleaned
<1> QED
  BY <1>1, <1>2

LEMMA CursorKnownKeeps ==
    ASSUME DragFacts, NEW i \in Slots, CursorKnown(i)
    PROVE  DragFacts'
<1>0. NoTick \in TickSet /\ ticks[i] \in TickSet /\ ticks \in [Slots -> TickSet]
  BY DEF DragFacts, TickSet
<1>1. CASE ticks' = [Outdated EXCEPT ![i] = NoTick] /\ Release
  BY <1>0, <1>1, OutdatedIs, ReleaseKeeps
<1>2. CASE /\ ticks' \in {[ticks EXCEPT ![i].stage = "window"], [ticks EXCEPT ![i] = NoTick]}
           /\ UNCHANGED <<system, widget, gestureVars, markVars>>
  <2>1. ticks[i].stage = "cursor"
    BY DEF CursorKnown
  <2>2. \A t \in [stage : {"cursor", "window"}, current : BOOLEAN] :
            [t EXCEPT !.stage = "window"] \in [stage : {"cursor", "window"}, current : BOOLEAN]
    OBVIOUS
  <2>3. ticks[i] \in [stage : {"cursor", "window"}, current : BOOLEAN]
    BY <1>0, <2>1 DEF TickSet, NoTick
  <2>4. [ticks[i] EXCEPT !.stage = "window"] \in TickSet
    BY <2>2, <2>3 DEF TickSet
  <2>5. ticks' \in [Slots -> TickSet]
    BY <1>0, <1>2, <2>4
  <2> QED
    BY <1>2, <2>5, MarksUntouched DEF DragFacts, gestureVars
<1> QED
  BY <1>1, <1>2 DEF CursorKnown

LEMMA WindowKnownKeeps ==
    ASSUME DragFacts, NEW i \in Slots, WindowKnown(i)
    PROVE  DragFacts'
<1>1. /\ ticks' = [ticks EXCEPT ![i] = NoTick]
      /\ UNCHANGED <<system, widget, pressed, dragging, tracker>>
  BY DEF WindowKnown, gestureVars
<1>2. ticks' \in [Slots -> TickSet]
  BY <1>1 DEF DragFacts, TickSet
<1>3. PICK s \in Spots :
          \/ \E t \in Trackable(s) : target' = t /\ Mark(t) /\ Late(i) /\ UNCHANGED timers
          \/ ForgetMark /\ HideOverlay /\ UNCHANGED slips
          \/ UNCHANGED markVars
  BY DEF WindowKnown
<1>4. CASE \E t \in Trackable(s) : target' = t /\ Mark(t) /\ Late(i) /\ UNCHANGED timers
  <2>1. PICK t \in Trackable(s) : target' = t /\ Mark(t) /\ Late(i) /\ UNCHANGED timers
    BY <1>4
  <2>2. /\ t \in Targets /\ t # NoWindow /\ t.hwnd = s.root /\ t.hwnd # NoWindow
        /\ Cleaned(s, t.folder)
    BY TrackableIsTarget
  <2>3. /\ slips \subseteq slips' /\ slips' \subseteq SlipSet
        /\ slips' \cap {"early", "quick"} = slips \cap {"early", "quick"}
        /\ "late" \notin slips' => dragging /\ slips' = slips
    BY <2>1 DEF Late, DragFacts, SlipSet
  <2>4. marked' = t.hwnd
    BY <2>1 DEF Mark
  <2>5. \/ t.hwnd # marked /\ overlay' = t.hwnd
        \/ /\ t.hwnd = marked /\ overlay' = overlay
           /\ target # NoWindow /\ target.hwnd = t.hwnd
    BY <2>1, <2>2 DEF Mark, ShowOverlay, DragFacts
  <2>6. OverlayMarks'
    <3> SUFFICES ASSUME overlay' # NoWindow, timers' = 0, slips' \cap {"late", "lost"} = {}
                 PROVE  dragging' /\ target' # NoWindow /\ target'.hwnd = overlay'
      BY DEF OverlayMarks
    <3>1. dragging /\ slips' = slips
      BY <2>3
    <3> QED
      BY <1>1, <2>1, <2>2, <2>5, <3>1 DEF DragFacts, OverlayMarks
  <2>7. Tracked'
    BY <1>1, <2>3 DEF DragFacts, Tracked
  <2>8. slips' \cap {"early", "quick"} = {} => overlay' = t.hwnd
    BY <2>3, <2>5 DEF DragFacts
  <2> QED
    BY <1>1, <1>2, <2>1, <2>2, <2>3, <2>4, <2>6, <2>7, <2>8 DEF DragFacts, Cleaned
<1>5. CASE ForgetMark /\ HideOverlay /\ UNCHANGED slips
  BY <1>1, <1>2, <1>5 DEF DragFacts, ForgetMark, HideOverlay, Tracked, OverlayMarks
<1>6. CASE UNCHANGED markVars
  BY <1>1, <1>2, <1>6, MarksUntouched DEF DragFacts
<1> QED
  BY <1>3, <1>4, <1>5, <1>6

LEMMA DragNextKeeps ==
    ASSUME DragInv, [DragNext]_dragVars
    PROVE  DragInv'
<1>0. DragFacts /\ ticks \in [Slots -> TickSet]
  BY DragInvIs DEF DragFacts
<1> SUFFICES DragFacts'
  BY DragInvIs, PTL
<1>1. ASSUME HideWidget \/ ShowWidget \/ Wait \/ UNCHANGED dragVars PROVE DragFacts'
  BY <1>0, <1>1, MarksUntouched
     DEF HideWidget, ShowWidget, Wait, dragVars, gestureVars, DragFacts
<1>2. CASE HideLater
  BY <1>0, <1>2, HideLaterKeeps
<1>3. CASE MouseDown
  BY <1>0, <1>3, MouseDownKeeps
<1>4. CASE StartDrag
  BY <1>0, <1>4, StartDragKeeps
<1>5. CASE MouseUp
  BY <1>0, <1>5, ReleaseKeeps, OutdatedIs DEF MouseUp
<1>6. ASSUME NEW i \in Slots, Tick(i) \/ CursorKnown(i) \/ WindowKnown(i) PROVE DragFacts'
  BY <1>0, <1>6, TickKeeps, CursorKnownKeeps, WindowKnownKeeps
<1> QED
  BY <1>1, <1>2, <1>3, <1>4, <1>5, <1>6 DEF DragNext

-----------------------------------------------------------------------------
(* The functions *)

(* What was last answered was asked for, and is what the function returns. *)
AnswerInv ==
    \/ asked = Quiet
    \/ \E to \in DOMAIN Arguments : \E x \in Arguments[to] :
          asked = [to |-> to, with |-> x] /\ answer = Answer(to, x)

LEMMA AnswerInvHolds == LibrarySpec => []AnswerInv
<1>1. LibraryInit => AnswerInv
  BY DEF LibraryInit, AnswerInv
<1>2. AnswerInv /\ [LibraryNext]_libraryVars => AnswerInv'
  BY DEF AnswerInv, LibraryNext, libraryVars, callVars, Done, CallFunction
<1> QED
  BY <1>1, <1>2, PTL DEF LibrarySpec

LEMMA AnswerOf ==
    ASSUME AnswerInv, NEW f, f # "none", asked.to = f
    PROVE  /\ f \in DOMAIN Arguments
           /\ asked.with \in Arguments[f]
           /\ answer = Answer(f, asked.with)
BY DEF AnswerInv, Quiet

-----------------------------------------------------------------------------
(* The best of the providers that are fit *)

Ranked(table, n) == \A i \in 1 .. n : table[i].priority \in Nat

LEMMA HighestExists ==
    ASSUME NEW table, NEW n \in Nat, Ranked(table, n)
    PROVE  \A I \in SUBSET (1 .. n) : I # {} =>
               \E i \in I : \A j \in I : table[j].priority <= table[i].priority
<1> DEFINE Has(I) == \E i \in I : \A j \in I : table[j].priority <= table[i].priority
           T == {k \in Nat : k <= n => \A I \in SUBSET (1 .. k) : I # {} => Has(I)}
<1>1. 0 \in T
  <2>1. \A I \in SUBSET (1 .. 0) : I = {}
    OBVIOUS
  <2> HIDE DEF Has
  <2> QED
    BY <2>1
<1>2. ASSUME NEW k \in Nat, k \in T PROVE k + 1 \in T
  <2> SUFFICES ASSUME k + 1 <= n, NEW I \in SUBSET (1 .. k + 1), I # {} PROVE Has(I)
    OBVIOUS
  <2>0. \A i \in 1 .. k + 1 : table[i].priority \in Nat
    BY DEF Ranked
  <2>1. CASE k + 1 \notin I
    <3>1. I \in SUBSET (1 .. k)
      BY <2>1
    <3> QED
      BY <1>2, <3>1
  <2>2. CASE k + 1 \in I /\ I \ {k + 1} = {}
    BY <2>0, <2>2
  <2>3. CASE k + 1 \in I /\ I \ {k + 1} # {}
    <3>1. I \ {k + 1} \in SUBSET (1 .. k) /\ k <= n
      OBVIOUS
    <3>2. Has(I \ {k + 1})
      <4> DEFINE J == I \ {k + 1}
      <4>1. J \in SUBSET (1 .. k) /\ J # {}
        BY <2>3, <3>1
      <4> HIDE DEF J, Has
      <4>2. Has(J)
        BY <1>2, <3>1, <4>1
      <4> QED
        BY <4>2 DEF J
    <3>3. PICK i \in I \ {k + 1} : \A j \in I \ {k + 1} : table[j].priority <= table[i].priority
      BY <3>2
    <3>4. CASE table[k + 1].priority <= table[i].priority
      BY <3>3, <3>4
    <3>5. CASE ~(table[k + 1].priority <= table[i].priority)
      <4>1. \A j \in I : table[j].priority <= table[k + 1].priority
        BY <2>0, <3>3, <3>5
      <4> QED
        BY <2>3, <4>1
    <3> QED
      BY <3>4, <3>5
  <2> QED
    BY <2>1, <2>2, <2>3
<1> HIDE DEF T
<1>3. Nat \subseteq T
  BY <1>1, <1>2, SetInduction
<1> QED
  BY <1>3 DEF T

LEMMA BestIs ==
    ASSUME NEW table, NEW n \in Nat, Ranked(table, n), NEW I \in SUBSET (1 .. n), I # {}
    PROVE  /\ Best(table, I) \in I
           /\ \A j \in I : table[j].priority <= table[Best(table, I)].priority
<1> DEFINE best == {i \in I : \A j \in I : table[j].priority <= table[i].priority}
<1>1. best # {} /\ best \subseteq 1 .. n
  BY HighestExists
<1>2. Max(best) \in best
  BY <1>1, GreatestOf
<1>3. Best(table, I) = Max(best)
  BY DEF Best
<1> QED
  BY <1>2, <1>3

Rank(table, i) == IF i = 0 THEN 0 ELSE table[i].priority + 1

(* Of more providers, the best is no worse.                                *)
LEMMA BestOfMore ==
    ASSUME NEW table, NEW n \in Nat, Ranked(table, n),
           NEW J \in SUBSET (1 .. n), NEW I \in SUBSET J
    PROVE  Rank(table, Best(table, I)) <= Rank(table, Best(table, J))
<1>1. CASE I = {}
  <2>1. Best(table, I) = 0
    BY <1>1 DEF Best
  <2>2. Best(table, J) = 0 \/ Best(table, J) \in 1 .. n
    <3>1. CASE J = {}
      BY <3>1 DEF Best
    <3>2. CASE J # {}
      BY <3>2, BestIs
    <3> QED
      BY <3>1, <3>2
  <2> QED
    BY <2>1, <2>2 DEF Rank, Ranked
<1>2. CASE I # {}
  <2> DEFINE i == Best(table, I)
             j == Best(table, J)
  <2>1. i \in I /\ i \in J /\ I \in SUBSET (1 .. n)
    BY <1>2, BestIs
  <2>2. j \in J /\ table[i].priority <= table[j].priority
    BY <2>1, BestIs
  <2> HIDE DEF i, j
  <2>3. i \in 1 .. n /\ j \in 1 .. n /\ i # 0 /\ j # 0
    BY <2>1, <2>2
  <2>4. table[i].priority + 1 <= table[j].priority + 1
    BY <2>2, <2>3 DEF Ranked
  <2> QED
    BY <2>3, <2>4 DEF Rank, i, j
<1> QED
  BY <1>1, <1>2

LEMMA AloneIsChosen ==
    ASSUME NEW task, NEW kind \in Kinds, task \in OwnTasks(kind)
    PROVE  Route(<<Declared(kind)>>, task) = 1
<1> DEFINE table == <<Declared(kind)>>
<1>1. Declared(kind).enabled /\ Supports(Declared(kind), task)
  BY DEF Kinds, OwnTasks, Declared, Supports
<1>2. DOMAIN table = {1} /\ table[1] = Declared(kind) /\ 1 .. 1 = {1}
  OBVIOUS
<1>3. Fit(table, task) = {1}
  BY <1>1, <1>2 DEF Fit
<1>4. Ranked(table, 1)
  BY <1>2 DEF Ranked, Declared, OnlinePriority, Kinds
<1>5. Best(table, {1}) \in {1}
  BY <1>2, <1>4, BestIs
<1> QED
  BY <1>3, <1>5 DEF Route

LEMMA RouteOnlyAdds ==
    ASSUME NEW table \in Seq(Provider), NEW task, NEW mode
    PROVE  LET plain == Route(table, task)
               offline == RouteWithMode(table, task, mode, FALSE)
               online == RouteWithMode(table, task, mode, TRUE) IN
           /\ Rank(table, offline) <= Rank(table, online)
           /\ Rank(table, online) <= Rank(table, plain)
           /\ Rank(table, offline) <= OnlinePriority
           /\ mode = "local" => online = offline
           /\ \A i \in Fit(table, task) :
                 table[i].priority < OnlinePriority => Rank(table, i) <= Rank(table, offline)
<1> DEFINE n == Len(table)
           F == Fit(table, task)
           On(available) == {i \in F : Allowed(table[i], mode, available)}
<1>1. /\ n \in Nat /\ DOMAIN table = 1 .. n
      /\ \A i \in 1 .. n : table[i] \in Provider
  OBVIOUS
<1>2. Ranked(table, n)
  BY <1>1 DEF Ranked, Provider
<1>3. F \in SUBSET (1 .. n)
  BY <1>1 DEF Fit
<1>4. /\ On(FALSE) = {i \in F : table[i].priority < OnlinePriority}
      /\ On(FALSE) \in SUBSET On(TRUE) /\ On(TRUE) \in SUBSET F
      /\ mode = "local" => On(TRUE) = On(FALSE)
  BY <1>2, <1>3 DEF Allowed, Ranked, OnlinePriority
<1> HIDE DEF n, F, On
<1>5. On(TRUE) \in SUBSET (1 .. n) /\ On(FALSE) \in SUBSET (1 .. n)
  BY <1>3, <1>4
<1>6. /\ Rank(table, Best(table, On(FALSE))) <= Rank(table, Best(table, On(TRUE)))
      /\ Rank(table, Best(table, On(TRUE))) <= Rank(table, Best(table, F))
  BY <1>1, <1>2, <1>3, <1>4, <1>5, BestOfMore
<1>7. Rank(table, Best(table, On(FALSE))) <= OnlinePriority
  <2>1. CASE On(FALSE) = {}
    BY <2>1 DEF Rank, Best, OnlinePriority
  <2>2. CASE On(FALSE) # {}
    <3>1. Best(table, On(FALSE)) \in On(FALSE)
      BY <1>1, <1>2, <1>5, <2>2, BestIs
    <3> DEFINE b == Best(table, On(FALSE))
    <3> HIDE DEF b
    <3>2. b \in 1 .. n /\ table[b].priority < OnlinePriority
      BY <1>4, <1>5, <3>1 DEF b
    <3>3. table[b].priority \in Nat /\ b # 0
      BY <1>2, <3>2, <1>1 DEF Ranked
    <3>4. table[b].priority + 1 <= OnlinePriority
      BY <3>2, <3>3 DEF OnlinePriority
    <3> QED
      BY <3>3, <3>4 DEF Rank, b
  <2> QED
    BY <2>1, <2>2
<1>8. ASSUME NEW i \in F, table[i].priority < OnlinePriority
      PROVE  Rank(table, i) <= Rank(table, Best(table, On(FALSE)))
  <2>1. i \in On(FALSE)
    BY <1>4, <1>8
  <2>2. /\ Best(table, On(FALSE)) \in On(FALSE)
        /\ table[i].priority <= table[Best(table, On(FALSE))].priority
    BY <1>1, <1>2, <1>5, <2>1, BestIs
  <2> DEFINE b == Best(table, On(FALSE))
  <2> HIDE DEF b
  <2>3. i \in 1 .. n /\ b \in 1 .. n
    BY <1>5, <2>1, <2>2 DEF b
  <2>4. /\ i # 0 /\ b # 0
        /\ table[i].priority \in Nat /\ table[b].priority \in Nat
    BY <1>1, <1>2, <2>3 DEF Ranked
  <2>5. table[i].priority + 1 <= table[b].priority + 1
    <3>1. table[i].priority <= table[b].priority
      BY <2>2 DEF b
    <3> QED
      BY <2>4, <3>1
  <2> QED
    BY <2>4, <2>5 DEF Rank, b
<1> QED
  BY <1>4, <1>6, <1>7, <1>8 DEF Route, RouteWithMode, F, On

LEMMA HybridAsksWithConsent ==
    ASSUME NEW cfg, NEW confidence, NEW way
    PROVE  LET outcome == HybridClassify(cfg, confidence, way) IN
           /\ outcome.sent => cfg.optIn /\ way.enabled /\ cfg.mode # "local"
           /\ outcome.sent /\ cfg.mode = "hybrid" => confidence < cfg.threshold
           /\ outcome.by = "online" <=> outcome.sent /\ way.answered
<1> DEFINE asks == way.client /\ Asks(cfg, confidence, way.before)
           outcome == HybridClassify(cfg, confidence, way)
<1>1. asks => cfg.optIn /\ cfg.mode # "local"
  BY DEF Asks, ShouldTryOnline
<1>2. asks /\ cfg.mode = "hybrid" => confidence < cfg.threshold
  BY DEF Asks, ShouldTryOnline
<1> HIDE DEF asks
<1>3. outcome = [by |-> IF asks /\ way.enabled /\ way.answered THEN "online" ELSE "local",
                 sent |-> asks /\ way.enabled]
  BY Zenon DEF HybridClassify, Request, asks
<1> HIDE DEF outcome
<1>4. (outcome.sent <=> asks /\ way.enabled)
  BY <1>3
<1>5. outcome.by = IF asks /\ way.enabled /\ way.answered THEN "online" ELSE "local"
  BY <1>3
<1> QED
  BY <1>1, <1>2, <1>4, <1>5 DEF outcome
-----------------------------------------------------------------------------
(* The object in a model's answer *)

LEMMA FirstAtIs ==
    ASSUME NEW S, NEW s \in Seq(S), NEW mark
    PROVE  /\ FirstAt(s, mark) \in 0 .. Len(s)
           /\ FirstAt(s, mark) = 0 => \A m \in 1 .. Len(s) : s[m] # mark
           /\ FirstAt(s, mark) # 0 =>
                 /\ s[FirstAt(s, mark)] = mark
                 /\ \A m \in 1 .. Len(s) : s[m] = mark => FirstAt(s, mark) <= m
<1> DEFINE I == {i \in 1 .. Len(s) : s[i] = mark}
<1>1. FirstAt(s, mark) = IF I # {} THEN Min(I) ELSE 0
  BY DEF FirstAt, SelectInSeq
<1>2. Len(s) \in Nat /\ I \subseteq Nat
  OBVIOUS
<1>3. CASE I = {}
  BY <1>1, <1>2, <1>3
<1>4. CASE I # {}
  <2>1. PICK u \in I : \A v \in I : u <= v
    BY <1>2, <1>4, LeastOf
  <2>2. Min(I) \in I /\ \A v \in I : Min(I) <= v
    BY <2>1 DEF Min
  <2>3. FirstAt(s, mark) \in I /\ \A v \in I : FirstAt(s, mark) <= v
    BY <1>1, <1>4, <2>2
  <2> QED
    BY <1>2, <2>3
<1> QED
  BY <1>3, <1>4

LEMMA LastAtIs ==
    ASSUME NEW S, NEW s \in Seq(S), NEW mark
    PROVE  /\ LastAt(s, mark) \in 0 .. Len(s)
           /\ LastAt(s, mark) = 0 => \A m \in 1 .. Len(s) : s[m] # mark
           /\ LastAt(s, mark) # 0 =>
                 /\ s[LastAt(s, mark)] = mark
                 /\ \A m \in 1 .. Len(s) : s[m] = mark => m <= LastAt(s, mark)
<1> DEFINE I == {i \in 1 .. Len(s) : s[i] = mark}
<1>1. LastAt(s, mark) = IF I # {} THEN Max(I) ELSE 0
  BY DEF LastAt, SelectLastInSeq
<1>2. Len(s) \in Nat /\ I \subseteq 1 .. Len(s)
  OBVIOUS
<1>3. CASE I = {}
  BY <1>1, <1>2, <1>3
<1>4. CASE I # {}
  <2>1. Max(I) \in I /\ \A v \in I : v <= Max(I)
    BY <1>2, <1>4, GreatestOf
  <2>2. LastAt(s, mark) \in I /\ \A v \in I : v <= LastAt(s, mark)
    BY <1>1, <1>4, <2>1
  <2> QED
    BY <1>2, <2>2
<1> QED
  BY <1>3, <1>4

LEMMA FirstIs ==
    ASSUME NEW S, NEW s \in Seq(S), NEW mark, NEW p \in 1 .. Len(s), s[p] = mark,
           \A m \in 1 .. Len(s) : s[m] = mark => p <= m
    PROVE  FirstAt(s, mark) = p
<1> DEFINE f == FirstAt(s, mark)
<1>1. f \in 0 .. Len(s) /\ f # 0 /\ s[f] = mark /\ f <= p
  BY FirstAtIs
<1> HIDE DEF f
<1>2. p <= f
  BY <1>1
<1> QED
  BY <1>1, <1>2 DEF f

LEMMA LastIs ==
    ASSUME NEW S, NEW s \in Seq(S), NEW mark, NEW p \in 1 .. Len(s), s[p] = mark,
           \A m \in 1 .. Len(s) : s[m] = mark => m <= p
    PROVE  LastAt(s, mark) = p
<1> DEFINE f == LastAt(s, mark)
<1>1. f \in 0 .. Len(s) /\ f # 0 /\ s[f] = mark /\ p <= f
  BY LastAtIs
<1> HIDE DEF f
<1>2. f <= p
  BY <1>1
<1> QED
  BY <1>1, <1>2 DEF f

(* r is what s holds from a on. *)
Remains(r, s, a) ==
    /\ Len(r) = Len(s) - a + 1
    /\ \A m \in 1 .. Len(r) : r[m] = s[m + a - 1]

LEMMA PartOfRest ==
    ASSUME NEW S, NEW s \in Seq(S), NEW r \in Seq(S), NEW a \in Nat \ {0}, Remains(r, s, a),
           NEW i \in Nat, NEW j \in Nat, a <= i, i <= j + 1, j <= Len(s)
    PROVE  SubSeq(r, i - a + 1, j - a + 1) = SubSeq(s, i, j)
<1> SUFFICES ASSUME NEW u, u = SubSeq(r, i - a + 1, j - a + 1), NEW v, v = SubSeq(s, i, j)
             PROVE  u = v
  OBVIOUS
<1>1. /\ Len(s) \in Nat /\ Len(r) \in Nat /\ Len(r) = Len(s) - a + 1
      /\ \A m \in 1 .. Len(r) : r[m] = s[m + a - 1]
  BY DEF Remains
<1>2. /\ i - a + 1 \in Nat \ {0} /\ i - a + 1 <= j - a + 1 + 1
      /\ j - a + 1 \in Nat /\ j - a + 1 <= Len(r) /\ i \in Nat \ {0}
  BY <1>1
<1>3. u \in Seq(S) /\ Len(u) = j - i + 1 /\ \A m \in 1 .. j - i + 1 : u[m] = r[m + (i - a + 1) - 1]
  <2>1. PICK b \in Nat \ {0}, c \in Nat : b = i - a + 1 /\ c = j - a + 1
    BY <1>2
  <2>2. /\ u \in Seq(S) /\ Len(u) = c - b + 1 /\ \A m \in 1 .. c - b + 1 : u[m] = r[m + b - 1]
    BY <1>2, <2>1, Part
  <2>3. c - b + 1 = j - i + 1
    BY <2>1
  <2> QED
    BY <2>1, <2>2, <2>3
<1>4. v \in Seq(S) /\ Len(v) = j - i + 1 /\ \A m \in 1 .. j - i + 1 : v[m] = s[m + i - 1]
  BY <1>2, Part
<1>5. \A m \in 1 .. j - i + 1 : u[m] = v[m]
  BY <1>1, <1>2, <1>3, <1>4
<1> QED
  BY <1>3, <1>4, <1>5, SameSeq

(* The same braces delimit what is left of an answer from a place before   *)
(* the first of them.                                                      *)
LEMMA BracesOfRest ==
    ASSUME NEW S, NEW s \in Seq(S), NEW r \in Seq(S), NEW a \in Nat \ {0}, Remains(r, s, a),
           NEW i \in Nat, NEW j \in Nat, a <= i, i < j, j <= Len(s),
           s[i] = "open", \A m \in 1 .. Len(s) : s[m] = "open" => i <= m,
           s[j] = "close", \A m \in 1 .. Len(s) : s[m] = "close" => m <= j
    PROVE  Braces(r) = SubSeq(s, i, j)
<1>0. /\ Len(s) \in Nat /\ Len(r) \in Nat /\ Len(r) = Len(s) - a + 1
      /\ \A m \in 1 .. Len(r) : r[m] = s[m + a - 1]
  BY DEF Remains
<1>1. /\ s[i] = "open" /\ \A m \in 1 .. Len(s) : s[m] = "open" => i <= m
      /\ s[j] = "close" /\ \A m \in 1 .. Len(s) : s[m] = "close" => m <= j
  OBVIOUS
<1>2. PICK p \in Nat, q \in Nat : p + a - 1 = i /\ q + a - 1 = j
  <2>1. i - a + 1 \in Nat /\ j - a + 1 \in Nat /\ i - a + 1 + a - 1 = i /\ j - a + 1 + a - 1 = j
    OBVIOUS
  <2> QED
    BY <2>1
<1>3. p \in 1 .. Len(r) /\ q \in 1 .. Len(r) /\ p < q /\ p = i - a + 1 /\ q = j - a + 1
  BY <1>0, <1>2
<1>4. r[p] = "open" /\ r[q] = "close"
  <2>1. r[p] = s[p + a - 1] /\ r[q] = s[q + a - 1]
    BY <1>0, <1>3
  <2> QED
    BY <1>1, <1>2, <2>1
<1>5. ASSUME NEW m \in 1 .. Len(r)
      PROVE  /\ r[m] = "open" => p <= m
             /\ r[m] = "close" => m <= q
  <2>1. m + a - 1 \in 1 .. Len(s) /\ r[m] = s[m + a - 1]
    BY <1>0
  <2>2. /\ r[m] = "open" => i <= m + a - 1
        /\ r[m] = "close" => m + a - 1 <= j
    BY <1>1, <2>1
  <2> QED
    BY <1>0, <1>2, <2>2
<1>6. FirstAt(r, "open") = p
  <2>1. \A m \in 1 .. Len(r) : r[m] = "open" => p <= m
    BY <1>5
  <2> QED
    BY <1>3, <1>4, <2>1, FirstIs
<1>7. LastAt(r, "close") = q
  <2>1. \A m \in 1 .. Len(r) : r[m] = "close" => m <= q
    BY <1>5
  <2> QED
    BY <1>3, <1>4, <2>1, LastIs, SMTT(60)
<1>8. SubSeq(r, p, q) = SubSeq(s, i, j)
  BY <1>0, <1>3, PartOfRest
<1>9. p # 0 /\ q # 0 /\ ~(q < p - 1)
  BY <1>0, <1>3
<1> QED
  BY <1>6, <1>7, <1>8, <1>9 DEF Braces

(* What follows the first of two fences is cut at the second.              *)
LEMMA Fenced ==
    ASSUME NEW raw, NEW rest, rest = SubSeq(raw, FirstAt(raw, "fence") + 1, Len(raw)),
           FirstAt(raw, "fence") # 0, FirstAt(rest, "fence") # 0
    PROVE  ExtractJson(raw) = DropLanguage(SubSeq(rest, 1, FirstAt(rest, "fence") - 1))
BY Zenon DEF ExtractJson

LEMMA InnerFenced ==
    ASSUME NEW raw, NEW rest, rest = SubSeq(raw, FirstAt(raw, "fence") + 1, Len(raw)),
           FirstAt(raw, "fence") # 0
    PROVE  /\ FirstAt(rest, "fence") = 0 => Inner(raw) = rest
           /\ FirstAt(rest, "fence") # 0 => Inner(raw) = SubSeq(rest, 1, FirstAt(rest, "fence") - 1)
BY Zenon DEF Inner

(* The name of the language goes, unless the slice panics.                 *)
LEMMA Dropped ==
    ASSUME NEW s
    PROVE  /\ CutsCharacter(s) => DropLanguage(s) = Panic
           /\ ~CutsCharacter(s) /\ s # <<>> /\ s[1] = "json" => DropLanguage(s) = Tail(s)
           /\ ~CutsCharacter(s) /\ ~(s # <<>> /\ s[1] = "json") => DropLanguage(s) = s
BY Zenon DEF DropLanguage

(* There is no brace in a panic. *)
LEMMA BracesOfPanic == Braces(Panic) = Panic
<1>1. Panic \in Seq({"panic"}) /\ Len(Panic) = 1 /\ Panic[1] = "panic"
  BY DEF Panic
<1>2. \A m \in 1 .. Len(Panic) : Panic[m] # "open"
  BY <1>1
<1>3. FirstAt(Panic, "open") = 0
  BY <1>1, <1>2, FirstAtIs
<1> QED
  BY <1>3 DEF Braces

(* From the first brace that opens to the last that closes, fences and     *)
(* name of the language left out, unless a character is cut.               *)
LEMMA ObjectIsFound ==
    ASSUME NEW raw \in Seq(Marks), WellFormed(raw)
    PROVE  ExtractJson(raw) =
              IF CutsCharacter(Inner(raw)) THEN Panic
              ELSE SubSeq(raw, FirstAt(raw, "open"), LastAt(raw, "close"))
<1>0. SUFFICES ASSUME NEW i, i = FirstAt(raw, "open"), NEW j, j = LastAt(raw, "close"),
                      NEW n, n = Len(raw), NEW w, w = Inner(raw)
               PROVE  ExtractJson(raw) = IF CutsCharacter(w) THEN Panic ELSE SubSeq(raw, i, j)
  OBVIOUS
<1> DEFINE fences == {k \in DOMAIN raw : raw[k] = "fence"}
<1>1. /\ i \in 1 .. n /\ raw[i] = "open" /\ j \in 1 .. n /\ i < j /\ n \in Nat
      /\ \A m \in 1 .. n : raw[m] = "open" => i <= m
      /\ raw[j] = "close" /\ \A m \in 1 .. n : raw[m] = "close" => m <= j
      /\ DOMAIN raw = 1 .. n
  BY <1>0, FirstAtIs, LastAtIs DEF WellFormed
<1>2. \/ fences = {}
      \/ \E k \in 1 .. i - 1 : fences = {k}
      \/ \E k \in 1 .. i - 1 :
            fences = {k, j + 1} /\ SubSeq(raw, k + 1, i - 1) \in {<<>>, <<"json">>}
  BY <1>0 DEF WellFormed
<1>3. CASE fences = {}
  <2>1. FirstAt(raw, "fence") = 0
    BY <1>0, <1>1, <1>3, FirstAtIs
  <2>2. Braces(raw) = SubSeq(raw, i, j)
    BY <1>0, <1>1 DEF Braces
  <2>3. w = <<>> /\ ~CutsCharacter(w)
    BY <1>0, <2>1 DEF Inner, CutsCharacter
  <2> QED
    BY <2>1, <2>2, <2>3 DEF ExtractJson
<1>4. ASSUME NEW k \in 1 .. i - 1, k \in fences, \A m \in fences : k <= m
      PROVE  FirstAt(raw, "fence") = k
  <2> SUFFICES ASSUME NEW f, f = FirstAt(raw, "fence") PROVE f = k
    OBVIOUS
  <2>1. f # 0
    BY <1>0, <1>1, <1>4, FirstAtIs
  <2>2. f \in fences /\ f <= k
    BY <1>0, <1>1, <1>4, <2>1, FirstAtIs
  <2> QED
    BY <1>1, <1>4, <2>2
<1>5. ASSUME NEW r \in Seq(Marks), NEW a \in Nat \ {0}, a <= i, Remains(r, raw, a)
      PROVE  Braces(r) = SubSeq(raw, i, j)
  <2>1. /\ i \in Nat /\ j \in Nat /\ i < j /\ j <= Len(raw)
        /\ raw[i] = "open" /\ \A m \in 1 .. Len(raw) : raw[m] = "open" => i <= m
        /\ raw[j] = "close" /\ \A m \in 1 .. Len(raw) : raw[m] = "close" => m <= j
    BY <1>0, <1>1
  <2> QED
    BY <1>5, <2>1, BracesOfRest
<1>6. ASSUME NEW k \in 1 .. i - 1, FirstAt(raw, "fence") = k, NEW rest, rest = SubSeq(raw, k + 1, n)
      PROVE  /\ k \in 1 .. n /\ k < i /\ rest \in Seq(Marks) /\ Remains(rest, raw, k + 1)
             /\ Len(rest) = n - k /\ \A m \in 1 .. n - k : rest[m] = raw[m + k]
  <2>1. k \in 1 .. n /\ k < i /\ k + 1 \in Nat \ {0} /\ k + 1 <= n + 1 /\ n <= Len(raw)
    BY <1>0, <1>1
  <2>2. rest \in Seq(Marks) /\ Len(rest) = n - (k + 1) + 1
        /\ \A m \in 1 .. n - (k + 1) + 1 : rest[m] = raw[m + (k + 1) - 1]
    BY <1>0, <1>1, <1>6, <2>1, Part
  <2>3. Len(rest) = n - k /\ \A m \in 1 .. n - k : rest[m] = raw[m + k]
    BY <1>1, <2>1, <2>2
  <2> QED
    BY <1>0, <2>1, <2>2, <2>3 DEF Remains
<1>7. ASSUME NEW k \in 1 .. i - 1, fences = {k}
      PROVE  ExtractJson(raw) = IF CutsCharacter(w) THEN Panic ELSE SubSeq(raw, i, j)
  <2>0. FirstAt(raw, "fence") = k
    BY <1>1, <1>4, <1>7
  <2>1. PICK rest : rest = SubSeq(raw, k + 1, n)
    OBVIOUS
  <2>2. /\ k \in 1 .. n /\ k < i /\ rest \in Seq(Marks) /\ Remains(rest, raw, k + 1)
        /\ Len(rest) = n - k /\ \A m \in 1 .. n - k : rest[m] = raw[m + k]
    BY <1>6, <2>0, <2>1
  <2>3. \A m \in 1 .. n - k : rest[m] # "fence"
    <3>1. ASSUME NEW m \in 1 .. n - k, rest[m] = "fence" PROVE FALSE
      <4>1. m + k \in 1 .. n /\ m + k # k /\ raw[m + k] = "fence"
        BY <1>1, <2>2, <3>1
      <4>2. m + k \in fences
        BY <1>1, <4>1
      <4> QED
        BY <1>7, <4>1, <4>2
    <3> QED
      BY <3>1
  <2>4. FirstAt(rest, "fence") = 0
    BY <2>2, <2>3, FirstAtIs
  <2>5. ExtractJson(raw) = Braces(DropLanguage(rest))
    BY <2>0, <2>4, <2>2, <1>0, <1>1, <2>1 DEF ExtractJson
  <2>9. w = rest
    <3>1. k # 0 /\ rest = SubSeq(raw, FirstAt(raw, "fence") + 1, Len(raw)) /\ FirstAt(raw, "fence") # 0
      BY <1>0, <2>0, <2>1, <2>2
    <3> QED
      BY <1>0, <2>4, <3>1, InnerFenced
  <2>8. CASE CutsCharacter(rest)
    BY <2>5, <2>8, <2>9, Dropped, BracesOfPanic
  <2>6. CASE ~CutsCharacter(rest) /\ DropLanguage(rest) = rest
    <3>1. k + 1 \in Nat \ {0} /\ k + 1 <= i
      BY <1>1, <2>2
    <3>2. Braces(rest) = SubSeq(raw, i, j)
      BY <1>5, <2>2, <3>1
    <3> QED
      BY <2>5, <2>6, <2>9, <3>2
  <2>7. CASE ~CutsCharacter(rest) /\ DropLanguage(rest) # rest
    <3>1. rest # <<>> /\ rest[1] = "json" /\ DropLanguage(rest) = Tail(rest)
      BY <2>7, Dropped
    <3>2. 1 <= n - k /\ rest[1] = "json"
      BY <1>1, <2>2, <3>1
    <3>3. raw[k + 1] = "json"
      BY <1>1, <2>2, <3>2
    <3>4. k + 2 <= i /\ k + 2 \in Nat \ {0}
      BY <1>1, <2>2, <3>3
    <3>5. PICK t : t = Tail(rest)
      OBVIOUS
    <3>6. /\ t \in Seq(Marks) /\ Len(t) = n - k - 1
          /\ \A m \in 1 .. n - k - 1 : t[m] = rest[m + 1]
      BY <1>1, <2>2, <3>1, <3>2, <3>5
    <3>7. Remains(t, raw, k + 2)
      <4>1. ASSUME NEW m \in 1 .. n - k - 1
            PROVE  t[m] = raw[m + (k + 2) - 1]
        <5>1. m + 1 \in 1 .. n - k /\ m + 1 + k = m + (k + 2) - 1
          BY <1>1, <2>2
        <5>2. t[m] = raw[m + 1 + k]
          BY <2>2, <3>6, <5>1
        <5> QED
          BY <5>1, <5>2
      <4>2. n - k - 1 = n - (k + 2) + 1
        BY <1>1, <2>2
      <4> QED
        BY <1>0, <3>6, <4>1, <4>2 DEF Remains
    <3>8. Braces(t) = SubSeq(raw, i, j)
      BY <1>5, <3>4, <3>6, <3>7
    <3> QED
      BY <2>5, <2>7, <2>9, <3>1, <3>5, <3>8
  <2> QED
    BY <2>6, <2>7, <2>8
<1>8. ASSUME NEW k \in 1 .. i - 1, fences = {k, j + 1},
             SubSeq(raw, k + 1, i - 1) \in {<<>>, <<"json">>}
      PROVE  ExtractJson(raw) = IF CutsCharacter(w) THEN Panic ELSE SubSeq(raw, i, j)
  <2>0. FirstAt(raw, "fence") = k /\ j + 1 \in 1 .. n /\ raw[j + 1] = "fence"
    <3>1. k \in fences /\ j + 1 \in fences /\ \A m \in fences : k <= m
      BY <1>1, <1>8
    <3> QED
      BY <1>1, <1>4, <3>1
  <2>1. PICK rest : rest = SubSeq(raw, k + 1, n)
    OBVIOUS
  <2>2. /\ k \in 1 .. n /\ k < i /\ rest \in Seq(Marks) /\ Remains(rest, raw, k + 1)
        /\ Len(rest) = n - k /\ \A m \in 1 .. n - k : rest[m] = raw[m + k]
    BY <1>6, <2>0, <2>1
  <2>3. /\ j + 1 - k \in 1 .. n - k /\ j + 1 - k + k = j + 1
    BY <1>1, <2>0, <2>2
  <2>4. ASSUME NEW m \in 1 .. n - k, rest[m] = "fence"
        PROVE  j + 1 - k <= m
    <3>1. m + k \in 1 .. n /\ m + k # k /\ raw[m + k] = "fence"
      BY <1>1, <2>2, <2>4
    <3>2. m + k = j + 1
      BY <1>1, <1>8, <3>1
    <3> QED
      BY <1>1, <2>2, <3>2
  <2>5. FirstAt(rest, "fence") = j + 1 - k
    <3>1. rest[j + 1 - k] = "fence"
      BY <2>0, <2>2, <2>3
    <3> QED
      BY <2>2, <2>3, <2>4, <3>1, FirstIs
  <2>6. PICK middle : middle = SubSeq(raw, k + 1, j)
    OBVIOUS
  <2>7. /\ middle \in Seq(Marks) /\ Len(middle) = j - k
        /\ \A m \in 1 .. j - k : middle[m] = raw[m + k]
    <3>1. /\ k + 1 \in Nat \ {0} /\ k + 1 <= j + 1 /\ j \in Nat /\ j <= Len(raw)
      BY <1>0, <1>1, <2>2
    <3>2. /\ middle \in Seq(Marks) /\ Len(middle) = j - (k + 1) + 1
          /\ \A m \in 1 .. j - (k + 1) + 1 : middle[m] = raw[m + (k + 1) - 1]
      BY <2>6, <3>1, Part
    <3> QED
      BY <1>1, <2>2, <3>2
  <2>8. ExtractJson(raw) = DropLanguage(middle) /\ w = middle
    <3>1. j + 1 - k - 1 = j - k /\ j + 1 - k # 0 /\ k # 0
      BY <1>1, <2>2, <2>3
    <3>2. PICK front : front = SubSeq(rest, 1, j - k)
      OBVIOUS
    <3>3. front = middle
      <4>1. PICK l \in Nat : l = j - k
        BY <1>1, <2>2
      <4>2. 1 <= l + 1 /\ l <= Len(rest) /\ 1 \in Nat \ {0}
        BY <1>1, <2>0, <2>2, <4>1
      <4>3. /\ front \in Seq(Marks) /\ Len(front) = l - 1 + 1
            /\ \A m \in 1 .. l - 1 + 1 : front[m] = rest[m + 1 - 1]
        BY <2>2, <3>2, <4>1, <4>2, Part
      <4>4. ASSUME NEW m \in 1 .. l
            PROVE  front[m] = middle[m]
        <5>1. m \in 1 .. l - 1 + 1 /\ m + 1 - 1 = m /\ m \in 1 .. n - k
          BY <1>1, <2>0, <2>2, <4>1
        <5> QED
          BY <2>2, <2>7, <4>1, <4>3, <5>1
      <4>5. Len(front) = Len(middle) /\ Len(front) = l
        BY <2>7, <4>1, <4>3
      <4> QED
        BY <2>7, <4>3, <4>4, <4>5, SameSeq
    <3>4. rest = SubSeq(raw, FirstAt(raw, "fence") + 1, Len(raw))
      BY <1>0, <2>0, <2>1
    <3>5. FirstAt(raw, "fence") # 0 /\ FirstAt(rest, "fence") # 0
      BY <2>0, <2>5, <3>1
    <3>6. ExtractJson(raw) = DropLanguage(SubSeq(rest, 1, FirstAt(rest, "fence") - 1))
      BY <3>4, <3>5, Fenced
    <3>7. FirstAt(rest, "fence") - 1 = j - k
      <4>1. j \in Int /\ k \in Int
        BY <1>1, <2>2
      <4>2. \A c : c = j + 1 - k => c - 1 = j - k
        BY <4>1
      <4> QED
        BY <2>5, <4>2
    <3>8. SubSeq(rest, 1, FirstAt(rest, "fence") - 1) = middle
      BY <3>2, <3>3, <3>7, Zenon
    <3>9. w = middle
      BY <1>0, <3>4, <3>5, <3>8, InnerFenced, Zenon
    <3> QED
      BY <3>6, <3>8, <3>9, Zenon
  <2>9. PICK u : u = SubSeq(raw, k + 1, i - 1)
    OBVIOUS
  <2>10. Len(u) = i - 1 - k /\ \A m \in 1 .. i - 1 - k : u[m] = raw[m + k]
    <3>1. PICK a \in Nat \ {0} : a = k + 1
      BY <2>2
    <3>2. PICK b \in Nat : b = i - 1
      BY <1>1
    <3>3. a <= b + 1 /\ b <= Len(raw) /\ u = SubSeq(raw, a, b)
      BY <1>0, <1>1, <2>2, <2>9, <3>1, <3>2
    <3>4. Len(u) = b - a + 1 /\ \A m \in 1 .. b - a + 1 : u[m] = raw[m + a - 1]
      BY <3>3, Part
    <3>5. b - a + 1 = i - 1 - k /\ \A m \in 1 .. i - 1 - k : m + a - 1 = m + k
      BY <1>1, <2>2, <3>1, <3>2
    <3> QED
      BY <3>4, <3>5
  <2>11. 1 <= j - k /\ middle # <<>> /\ middle[1] = raw[k + 1]
    <3>1. 1 <= j - k /\ 1 + k = k + 1
      BY <1>1, <2>2
    <3> QED
      BY <2>7, <3>1
  <2>14. CASE CutsCharacter(middle)
    BY <2>8, <2>14, Dropped
  <2>12. CASE ~CutsCharacter(middle) /\ u = <<>>
    <3>1. i = k + 1
      <4>1. Len(<<>>) = 0
        OBVIOUS
      <4> QED
        BY <1>1, <2>2, <2>10, <2>12, <4>1
    <3>2. middle[1] # "json"
      BY <1>1, <2>11, <3>1
    <3>3. DropLanguage(middle) = middle
      BY <2>12, <3>2, Dropped
    <3> QED
      BY <2>6, <2>8, <2>12, <3>1, <3>3
  <2>13. CASE ~CutsCharacter(middle) /\ u = <<"json">>
    <3>1. i = k + 2
      <4>1. Len(<<"json">>) = 1
        OBVIOUS
      <4> QED
        BY <1>1, <2>2, <2>10, <2>13, <4>1
    <3>2. raw[k + 1] = "json"
      <4>1. u[1] = raw[k + 1]
        <5>1. 1 \in 1 .. i - 1 - k /\ 1 + k = k + 1
          BY <2>2, <3>1
        <5> QED
          BY <2>10, <5>1
      <4> QED
        BY <2>13, <4>1
    <3>3. ExtractJson(raw) = Tail(middle)
      BY <2>8, <2>11, <2>13, <3>2, Dropped
    <3>4. PICK t : t = Tail(middle)
      OBVIOUS
    <3>5. /\ t \in Seq(Marks) /\ Len(t) = j - k - 1
          /\ \A m \in 1 .. j - k - 1 : t[m] = middle[m + 1]
      BY <2>7, <2>11, <3>4
    <3>6. PICK v : v = SubSeq(raw, i, j)
      OBVIOUS
    <3>7. /\ v \in Seq(Marks) /\ Len(v) = j - i + 1
          /\ \A m \in 1 .. j - i + 1 : v[m] = raw[m + i - 1]
      <4>1. i \in Nat \ {0} /\ i <= j + 1 /\ j \in Nat /\ j <= Len(raw)
        BY <1>0, <1>1
      <4> QED
        BY <3>6, <4>1, Part
    <3>8. ASSUME NEW m \in 1 .. j - k - 1
          PROVE  t[m] = v[m]
      <4>1. m + 1 \in 1 .. j - k /\ m \in 1 .. j - i + 1 /\ m + 1 + k = m + i - 1
        BY <1>1, <2>2, <3>1
      <4> QED
        BY <2>7, <3>5, <3>7, <4>1
    <3>9. Len(t) = Len(v)
      BY <1>1, <2>2, <3>1, <3>5, <3>7
    <3>10. t = v
      BY <3>5, <3>7, <3>8, <3>9, SameSeq
    <3> QED
      BY <2>8, <2>13, <3>3, <3>4, <3>6, <3>10
  <2> QED
    BY <1>8, <2>9, <2>12, <2>13, <2>14
<1> QED
  BY <1>2, <1>3, <1>7, <1>8
-----------------------------------------------------------------------------
(* Theorems *)

LEMMA DragInvHolds == LibrarySpec => []DragInv
<1>1. DragInit => DragInv
  <2> SUFFICES ASSUME DragInit PROVE DragFacts
    BY DragInvIs
  <2>1. ticks \in [Slots -> TickSet] /\ timers \in 0 .. MaxTimers
    BY DragAssumption DEF DragInit, TickSet
  <2> QED
    BY <2>1 DEF DragInit, DragFacts, Tracked, OverlayMarks, SlipSet
<1>2. DragInv /\ [DragNext]_dragVars => DragInv'
  BY DragNextKeeps
<1> QED
  BY <1>1, <1>2, DragIsPart, PTL

(* Every part has its types. *)
THEOREM LibraryTypeCorrect == LibrarySpec => []LibraryTypeOK
<1>1. LibrarySpec => [](part \in {"models", "index", "functions", "drag"})
  <2>1. LibraryInit => part \in {"models", "index", "functions", "drag"}
    BY DEF LibraryInit
  <2>2. /\ part \in {"models", "index", "functions", "drag"}
        /\ [LibraryNext]_libraryVars
        => (part \in {"models", "index", "functions", "drag"})'
    BY DEF LibraryNext, libraryVars
  <2> QED
    BY <2>1, <2>2, PTL DEF LibrarySpec
<1>2. /\ part \in {"models", "index", "functions", "drag"}
      /\ InstallTypeOK /\ IndexTypeOK /\ DragInv
      => LibraryTypeOK
  BY DEF LibraryTypeOK, DragInv
<1> QED
  BY <1>1, <1>2, ModelsArePart, InstallTypeCorrect, IndexIsPart, IndexTypeCorrect, DragInvHolds, PTL

(* What the model store and the index promise by themselves, they promise  *)
(* in the library: no other part touches their state.                      *)
THEOREM PartsKeepTheirPromises ==
    LibrarySpec => /\ [](AtomicUpdate /\ RecoverySound /\ SameModelShared) /\ InstallRepairs
                   /\ [](CacheBounded /\ KeyDescribesRow /\ OneEmbedding)
BY ModelsArePart, UpdateIsAtomic, RecoveryIsSound, SameModelIsWhole, InstallationRepairs,
   IndexIsPart, CacheStaysBounded, SettingNamesRow, OneEmbeddingAtMost, PTL

(* The folder that is marked is the one a drop would clean, however many   *)
(* answers are awaited and drops are on their way out, and whatever lies   *)
(* under the pointer (widget.js:944-969, 1048-1099, main.rs:644).          *)
THEOREM MarkIsTarget == LibrarySpec => []MarkedIsTarget
<1>1. DragInv => MarkedIsTarget
  BY DEF DragInv
<1> QED
  BY <1>1, DragInvHolds, PTL

(* Being online only adds to what can be done, for every table of          *)
(* providers (ai.rs:1201).                                                 *)
THEOREM OnlineAddsOnly == LibrarySpec => []OnlineOnlyAdds
<1>1. AnswerInv => OnlineOnlyAdds
  <2> SUFFICES ASSUME AnswerInv, asked.to = "route"
               PROVE  OnlineOnlyAdds
    BY DEF OnlineOnlyAdds, Answered
  <2> DEFINE x == asked.with
  <2>1. /\ x \in Arguments["route"]
        /\ answer = [plain   |-> Route(x.table, x.task),
                     offline |-> RouteWithMode(x.table, x.task, x.mode, FALSE),
                     online  |-> RouteWithMode(x.table, x.task, x.mode, TRUE)]
    BY AnswerOf DEF Answer
  <2>2. x.table \in Seq(Provider)
    BY <2>1, RouteAssumption
  <2> HIDE DEF x
  <2>3. /\ answer.plain = Route(x.table, x.task)
        /\ answer.offline = RouteWithMode(x.table, x.task, x.mode, FALSE)
        /\ answer.online = RouteWithMode(x.table, x.task, x.mode, TRUE)
    BY <2>1
  <2> DEFINE rank(i) == IF i = 0 THEN 0 ELSE x.table[i].priority + 1
  <2>4. \A i : rank(i) = Rank(x.table, i)
    BY DEF Rank
  <2>5. /\ Rank(x.table, answer.offline) <= Rank(x.table, answer.online)
        /\ Rank(x.table, answer.online) <= Rank(x.table, answer.plain)
        /\ Rank(x.table, answer.offline) <= OnlinePriority
        /\ x.mode = "local" => answer.online = answer.offline
        /\ \A i \in Fit(x.table, x.task) :
              x.table[i].priority < OnlinePriority => Rank(x.table, i) <= Rank(x.table, answer.offline)
    BY <2>2, <2>3, RouteOnlyAdds
  <2>6. \A kind \in Kinds : x.task \in OwnTasks(kind) => Route(<<Declared(kind)>>, x.task) = 1
    BY AloneIsChosen
  <2> HIDE DEF rank
  <2>7. /\ rank(answer.offline) <= rank(answer.online)
        /\ rank(answer.online) <= rank(answer.plain)
        /\ rank(answer.offline) <= OnlinePriority
        /\ x.mode = "local" => answer.online = answer.offline
        /\ \A i \in Fit(x.table, x.task) :
              x.table[i].priority < OnlinePriority => rank(i) <= rank(answer.offline)
    BY <2>4, <2>5
  <2> QED
    BY <2>6, <2>7 DEF OnlineOnlyAdds, Answered, rank, x
<1> QED
  BY <1>1, AnswerInvHolds, PTL

(* "privacy: only selected file content transmitted when online_opt_in &&  *)
(* entitlement valid" (ai.rs:1240), whatever the configuration, the local  *)
(* result and what happens between the check and the request.              *)
THEOREM HybridStaysPrivate == LibrarySpec => []HybridPrivate
<1>1. AnswerInv => HybridPrivate
  <2> SUFFICES ASSUME AnswerInv, asked.to = "hybrid"
               PROVE  HybridPrivate
    BY DEF HybridPrivate, Answered
  <2> DEFINE x == asked.with
             local == ClassifyBundled(x.ext, x.local, x.exemplars)
  <2>1. answer = [local |-> local, outcome |-> HybridClassify(x.cfg, local.confidence, x.way)]
    BY AnswerOf DEF Answer
  <2> HIDE DEF x, local
  <2>2. /\ answer.local = local
        /\ answer.outcome = HybridClassify(x.cfg, local.confidence, x.way)
    BY <2>1
  <2>3. /\ answer.outcome.sent => x.cfg.optIn /\ x.way.enabled /\ x.cfg.mode # "local"
        /\ answer.outcome.sent /\ x.cfg.mode = "hybrid" => answer.local.confidence < x.cfg.threshold
        /\ answer.outcome.by = "online" <=> answer.outcome.sent /\ x.way.answered
    BY <2>2, HybridAsksWithConsent
  <2> QED
    BY <2>3 DEF HybridPrivate, Answered, x
<1> QED
  BY <1>1, AnswerInvHolds, PTL

(* Two analyses of a file by different engines have different cache keys,  *)
(* if their category, their embedding or their visual summary is by        *)
(* different models (analysis.rs:96).                                      *)
THEOREM KeyTellsModels == LibrarySpec => []KeyTells
<1>1. AnswerInv => KeyTells
  <2> SUFFICES ASSUME AnswerInv, asked.to = "analyze", answer.one # Failed,
                      CacheKey(answer.one) = CacheKey(answer.two)
               PROVE  /\ answer.one.category = answer.two.category
                      /\ answer.one.vector = answer.two.vector
                      /\ answer.one.seen = answer.two.seen
    BY DEF KeyTells, Answered
  <2> DEFINE x == asked.with
             d == Decide([x.file EXCEPT !.text = HasText(x.file), !.tags = FALSE])
             done == [ocr    |-> Run(d.ocr, "ocr" \in x.fails),
                      vision |-> Run(d.vision, "vision" \in x.fails),
                      audio  |-> Run(d.audio, "audio" \in x.fails)]
             Made(engines) ==
                 [content   |-> x.file.content,
                  ext       |-> x.file.ext,
                  ocr       |-> Model(done.ocr, engines.ocr),
                  seen      |-> Model(done.vision, engines.vision),
                  heard     |-> Model(done.audio, engines.audio),
                  category  |-> [by |-> engines.reasoning,
                                 of |-> ClassifiedBy(HasText(x.file), done)],
                  vector    |-> Model("embedding" \notin x.fails, engines.embedding),
                  versions  |-> [reasoning |-> engines.reasoning,
                                 embedding |-> Model("embedding" \notin x.fails, engines.embedding),
                                 vision    |-> Model(d.vision, engines.vision),
                                 audio     |-> Model(d.audio, engines.audio)]]
  <2>1. answer = [one |-> Analyze(x.file, x.one, x.fails), two |-> Analyze(x.file, x.two, x.fails)]
    BY AnswerOf DEF Answer
  <2>2. answer.one = Made(x.one) /\ answer.two = Made(x.two)
    BY <2>1 DEF Analyze
  <2> HIDE DEF x, d
  <2>3. /\ Model("embedding" \notin x.fails, x.one.embedding)
               = Model("embedding" \notin x.fails, x.two.embedding)
        /\ x.one.reasoning = x.two.reasoning
        /\ Model(d.vision, x.one.vision) = Model(d.vision, x.two.vision)
    BY <2>2 DEF CacheKey
  <2>4. Model(done.vision, x.one.vision) = Model(done.vision, x.two.vision)
    BY <2>3 DEF Model, Run
  <2> QED
    BY <2>2, <2>3, <2>4
<1> QED
  BY <1>1, AnswerInvHolds, PTL

(* The object in a model's answer is found, fenced or not, named or not,   *)
(* whatever the prose around it and however long it is (ai.rs:1302),       *)
(* unless the fourth byte after the fence ends within a character: then,   *)
(* and only then, extract_json panics (ai.rs:1310, 1319).                  *)
THEOREM JsonIsFound == LibrarySpec => []JsonFound
<1>1. AnswerInv => JsonFound
  <2> SUFFICES ASSUME AnswerInv, asked.to = "extract", WellFormed(asked.with.raw)
               PROVE  answer = IF CutsCharacter(Inner(asked.with.raw)) THEN Panic
                               ELSE SubSeq(asked.with.raw, FirstAt(asked.with.raw, "open"),
                                           LastAt(asked.with.raw, "close"))
    BY DEF JsonFound, Answered
  <2>1. asked.with.raw \in Seq(Marks) /\ answer = ExtractJson(asked.with.raw)
    BY AnswerOf, ExtractAssumption DEF Answer
  <2> QED
    BY <2>1, ObjectIsFound
<1> QED
  BY <1>1, AnswerInvHolds, PTL

(* A search lists known files, each once and no more than it was asked     *)
(* for, however many there are and whatever their scores (search.rs:115).  *)
THEOREM SearchedOnce == LibrarySpec => []SearchOnce
<1>1. AnswerInv => SearchOnce
  <2> SUFFICES ASSUME AnswerInv, asked.to = "search"
               PROVE  /\ Len(answer) <= asked.with.limit
                      /\ Range(answer) \subseteq asked.with.known
                      /\ EachOnce(Files(asked.with.rows)) => EachOnce(answer)
    BY DEF SearchOnce, Answered
  <2>1. PICK x : x = asked.with
    OBVIOUS
  <2>2. x \in Arguments["search"]
        /\ answer = SearchHybrid(x.query, x.known, x.rows, x.embeds, x.limit)
    BY <2>1, AnswerOf DEF Answer
  <2>3. Searchable(x.known, x.rows, x.limit)
    BY <2>2, SearchAssumption
  <2> QED
    BY <2>1, <2>2, <2>3, SearchIsOnce
<1> QED
  BY <1>1, AnswerInvHolds, PTL

(* A file that matches by name is found if the limit has room for all,     *)
(* unless no result is any good by its meaning (search.rs:160).            *)
THEOREM SearchedByName == LibrarySpec => []SearchFindsNames
<1>1. AnswerInv => SearchFindsNames
  <2> SUFFICES ASSUME AnswerInv, asked.to = "search",
                      asked.with.limit >= Cardinality(asked.with.known) + Len(asked.with.rows)
               PROVE  \A f \in Matching(asked.with.query, asked.with.known) \ Range(answer) :
                          LET seen == Scored(asked.with.rows, asked.with.known) IN
                          f \notin Range(Files(seen)) /\ \A i \in DOMAIN seen : seen[i].score < 1
    BY DEF SearchFindsNames, Answered
  <2>1. PICK x : x = asked.with
    OBVIOUS
  <2>2. x \in Arguments["search"]
        /\ answer = SearchHybrid(x.query, x.known, x.rows, x.embeds, x.limit)
    BY <2>1, AnswerOf DEF Answer
  <2>3. Searchable(x.known, x.rows, x.limit)
    BY <2>2, SearchAssumption
  <2> QED
    BY <2>1, <2>2, <2>3, SearchFindsAll
<1> QED
  BY <1>1, AnswerInvHolds, PTL

(* No last event of a path is lost, whatever the window and however long   *)
(* the burst (watcher.rs:80); debounce_events keeps the same events as the *)
(* widest window.                                                          *)
THEOREM DebouncedToEnds == LibrarySpec => []Debounced
<1>1. AnswerInv => Debounced
  <2> SUFFICES ASSUME AnswerInv, asked.to = "debounce", InOrder(asked.with.events)
               PROVE  /\ \A p \in {e.path : e \in Range(asked.with.events)} :
                             Of(p, answer.timed) =
                                 BurstEnds(Of(p, asked.with.events), asked.with.window)
                      /\ Range(answer.untimed) =
                             {e \in Range(DebounceTimed(asked.with.events,
                                                        Latest(asked.with.events))) :
                                 ~Ignored(asked.with.config, e.path)}
    BY DEF Debounced, Answered
  <2>1. PICK x : x = asked.with
    OBVIOUS
  <2>2. PICK E, events, n : E = Range(x.events) /\ events = x.events /\ n = Len(events)
    OBVIOUS
  <2>3. PICK J : J = {i \in DOMAIN events : ~Ignored(x.config, events[i].path)}
    OBVIOUS
  <2>4. /\ x \in Arguments["debounce"]
        /\ answer = [timed |-> DebounceTimed(events, x.window),
                     untimed |-> Debounce(At(events, J))]
    BY <2>1, <2>2, <2>3, AnswerOf DEF Answer
  <2>5. answer.timed = DebounceTimed(events, x.window) /\ answer.untimed = Debounce(At(events, J))
    BY <2>4
  <2>6. /\ x.window \in Nat /\ events \in Seq(E) /\ Timed(E) /\ InOrder(events)
        /\ n \in Nat /\ DOMAIN events = 1 .. n
    BY <2>1, <2>2, <2>4, DebounceAssumption
  <2>7. \A p : Of(p, answer.timed) = BurstEnds(Of(p, events), x.window)
    BY <2>5, <2>6, EachPathDebounced
  <2>8. \A i \in 1 .. n : i \in J <=> ~Ignored(x.config, events[i].path)
    BY <2>3, <2>6
  <2>9. J \subseteq 1 .. n
    BY <2>3, <2>6
  <2>10. \A i \in J : \A j \in 1 .. n : events[j].path = events[i].path => j \in J
    BY <2>8, <2>9
  <2>11. PICK L, M : L = {i \in J : Ends(events, i)} /\ M = {i \in 1 .. n : Ends(events, i)}
    OBVIOUS
  <2>12. Range(answer.untimed) = {events[j] : j \in L}
    <3>1. /\ events \in Seq(E) /\ J \subseteq 1 .. Len(events)
          /\ \A i \in J : \A j \in 1 .. Len(events) : events[j].path = events[i].path => j \in J
      BY <2>2, <2>6, <2>9, <2>10
    <3>2. Range(Debounce(At(events, J))) = {events[j] : j \in {i \in J : Ends(events, i)}}
      BY <3>1, LastEvents
    <3>3. Range(answer.untimed) = Range(Debounce(At(events, J)))
      BY <2>5
    <3> QED
      BY <2>11, <3>2, <3>3
  <2>13. Range(DebounceTimed(events, Latest(events))) = {events[j] : j \in M}
    BY <2>2, <2>6, <2>11, UnboundedWindow
  <2>14. \A j \in 1 .. n : j \in L <=> j \in M /\ ~Ignored(x.config, events[j].path)
    BY <2>8, <2>9, <2>11
  <2>15. M \subseteq 1 .. n /\ L \subseteq 1 .. n
    BY <2>9, <2>11
  <2>16. {events[j] : j \in L} = {e \in {events[j] : j \in M} : ~Ignored(x.config, e.path)}
    BY <2>14, <2>15
  <2> QED
    BY <2>1, <2>2, <2>7, <2>12, <2>13, <2>16
<1> QED
  BY <1>1, AnswerInvHolds, PTL

(* A walk lists every visible file once or fails, in any tree, with any    *)
(* budget and in whatever order its entries come (fs.rs:118-139).          *)
THEOREM WalkListsAll == LibrarySpec => []WalkExact
<1>1. AnswerInv => WalkExact
  <2> SUFFICES ASSUME AnswerInv, asked.to = "walk"
               PROVE  LET x == asked.with
                          base == Resolved(x.fs, x.base)
                          visible == Visible(x.fs, base, x.budget)
                      IN  IF Found(x.fs, base).kind # "dir" THEN answer = NoBase
                          ELSE IF Cardinality(visible) > x.budget.files THEN answer = TooMany
                          ELSE /\ answer.ends = "ok" /\ EachOnce(answer.files)
                               /\ Range(answer.files) = visible
    BY DEF WalkExact, Answered
  <2>1. PICK x : x = asked.with
    OBVIOUS
  <2>2. x \in Arguments["walk"] /\ answer = Walk(x.fs, x.base, x.budget, x.order)
    BY <2>1, AnswerOf DEF Answer
  <2>3. WalkAsked(x.fs, x.base, x.budget, x.order)
    BY <2>2, WalkAssumption
  <2>4. WalkAnswered(x.fs, x.base, x.budget, answer)
    BY <2>2, <2>3, WalkIsExact
  <2> QED
    BY <2>1, <2>4 DEF WalkAnswered
<1> QED
  BY <1>1, AnswerInvHolds, PTL

(* What validate_path accepts, in any tree whose links lead somewhere or   *)
(* nowhere, is below the base, without a link on its way, and accepted     *)
(* again as itself (security.rs).                                          *)
THEOREM ValidatedIsSafe == LibrarySpec => []ValidatedStraight
<1>1. AnswerInv => ValidatedStraight
  <2> SUFFICES ASSUME AnswerInv, asked.to = "validate", answer.ok
               PROVE  /\ Below(answer.place, Resolved(asked.with.fs, asked.with.base))
                      /\ Straight(asked.with.fs, answer.place)
                      /\ ValidatePath(asked.with.fs,
                                      [absolute |-> TRUE, names |-> answer.place],
                                      asked.with.base) = answer
    BY DEF ValidatedStraight, Answered
  <2>1. PICK x : x = asked.with
    OBVIOUS
  <2>2. x \in Arguments["validate"] /\ answer = ValidatePath(x.fs, x.path, x.base)
    BY <2>1, AnswerOf DEF Answer
  <2>3. /\ Tree(x.fs) /\ x.base \in Seq(Names)
        /\ x.path.absolute \in BOOLEAN
        /\ x.path.names \in Seq(Names \cup {".", ".."})
    BY <2>2, ValidateAssumption
  <2> QED
    BY <2>1, <2>2, <2>3, ValidatedIsStraight
<1> QED
  BY <1>1, AnswerInvHolds, PTL

=============================================================================
