-------------------------------- MODULE Watch --------------------------------
(***************************************************************************)
(* What the watcher makes of a burst of file-system events (watcher.rs):   *)
(* paths it ignores, and the events that are left when those of one path   *)
(* are coalesced.  Both are functions of their arguments.                  *)
(***************************************************************************)
EXTENDS Lists, SequencesExt

\* A path is the sequence of its names; starts_with compares whole names.
Under(path, dir) == IsPrefix(dir, path)

(* should_ignore: an exclusion wins over a watched folder, and no watched  *)
(* folder at all stands for every folder.                                  *)
Ignored(cfg, path) ==
    \/ \E x \in cfg.excluded : Under(path, x)
    \/ cfg.watched # {} /\ \A w \in cfg.watched : ~Under(path, w)

-----------------------------------------------------------------------------
\* Events are records with a path, a kind and a time.

Ends(events, i) == \A j \in i + 1 .. Len(events) : events[j].path # events[i].path

(* debounce_events: the last event of each path, in the order of these;    *)
(* the window is not used.                                                 *)
Debounce(events) == At(events, {i \in DOMAIN events : Ends(events, i)})

Fits(old, event, window) ==
    /\ old.path = event.path
    /\ event.time >= old.time
    /\ event.time - old.time <= window

\* Faulty: a burst keeps the time it began at.
MergedKeepingTime(old, event) == [event EXCEPT !.time = old.time]

Merged(old, event) == event

(* An event takes the place of the latest result it fits, or is a result   *)
(* of its own.                                                             *)
Coalesce(results, event, window) ==
    LET i == SelectLastInSeq(results, LAMBDA old : Fits(old, event, window)) IN
    IF i = 0
    THEN Append(results, event)
    ELSE [results EXCEPT ![i] = Merged(@, event)]

\* debounce_timed_events.
DebounceTimed(events, window) ==
    FoldLeft(LAMBDA results, event : Coalesce(results, event, window), <<>>, events)

-----------------------------------------------------------------------------
(* What the watcher promises *)

Of(path, events) == At(events, {i \in DOMAIN events : events[i].path = path})

(* "Events for the same path occurring within window_ms of each other are  *)
(* coalesced into the latest event" (watcher.rs:80): a burst is a run of   *)
(* events each no more than the window after the one before.               *)
BurstEnds(events, window) ==
    At(events, {i \in DOMAIN events :
                   i = Len(events) \/ events[i + 1].time - events[i].time > window})

\* A window of this length spans all the events there are.
Latest(events) == Max({0} \cup {events[i].time : i \in DOMAIN events})

Timed(E) == \A e \in E : e.time \in Nat

InOrder(events) == IsSorted(events, LAMBDA a, b : a.time <= b.time)

=============================================================================
