------------------------------- MODULE Charts -------------------------------
(***************************************************************************)
(* A chart of the dashboard's index page: hooks/useECharts.ts, with        *)
(* useEventListener and useTimeoutFn, as pages/Index.vue uses it.  Every   *)
(* setOptions draws later, from a timer; a change of the theme disposes of *)
(* the chart and makes a new one.  The page's two charts never interact.   *)
(*                                                                         *)
(* The panel has a fixed height, so offsetHeight is not 0 while it is      *)
(* mounted; nothing calls createBreakpointListen, so widthRef is undefined *)
(* and no chart is resized when it is made.                                *)
(***************************************************************************)
EXTENDS Naturals

VARIABLES
    el,         \* whether elRef holds the panel, that is, the page is mounted
    instance,   \* whether there is a chartInstance
    drawn,      \* whether it shows the cached options
    timers,     \* the setOptions that have yet to draw
    lateTimers, \* those of pages that are gone
    listeners,  \* the resize listeners on window
    toggles     \* history: how often a change of the theme made the chart anew

chartVars == <<el, instance, drawn, timers, lateTimers, listeners, toggles>>

\* The page has been mounted.
InitChart ==
    /\ el = TRUE /\ instance = FALSE /\ drawn = FALSE
    /\ timers = 1 /\ lateTimers = 0 /\ listeners = 0 /\ toggles = 0

\* useEventListener, which also returns the function that removes it.
AddListener == listeners' = listeners + 1

\* setOptions: the options are cached, a timer will draw them.
SetOptions ==
    /\ drawn' = FALSE
    /\ timers' = timers + 1

-----------------------------------------------------------------------------

\* onMounted sets the options for the first time.
MountChart ==
    /\ ~el
    /\ el' = TRUE
    /\ SetOptions
    /\ UNCHANGED <<instance, lateTimers, listeners, toggles>>

\* watch(stats): new statistics.
UpdateChart ==
    /\ el
    /\ SetOptions
    /\ UNCHANGED <<el, instance, lateTimers, listeners, toggles>>

\* The timer: initCharts if there is no instance, then setOption.
Draw ==
    /\ timers > 0
    /\ timers' = timers - 1
    /\ instance' = TRUE
    /\ drawn' = TRUE
    /\ IF instance THEN UNCHANGED listeners ELSE AddListener
    /\ UNCHANGED <<el, lateTimers, toggles>>

\* Mistake: the chart is made although the panel is gone.
DrawLateAnyway ==
    /\ lateTimers > 0
    /\ lateTimers' = lateTimers - 1
    /\ listeners' = listeners + 1
    /\ UNCHANGED <<el, instance, drawn, timers, toggles>>

\* The timer of a page that is gone: there is no instance, and no panel to
\* make one for.
DrawLate ==
    /\ lateTimers > 0
    /\ lateTimers' = lateTimers - 1
    /\ UNCHANGED <<el, instance, drawn, timers, listeners, toggles>>

\* Mistake: the new instance gets no options.
ToggleThemeBlank ==
    /\ IF el /\ instance
         THEN drawn' = FALSE /\ AddListener /\ toggles' = toggles + 1
         ELSE UNCHANGED <<drawn, listeners, toggles>>
    /\ UNCHANGED <<el, instance, timers, lateTimers>>

\* watch(getDarkMode): dispose, initCharts, setOptions.  removeResizeFn now
\* removes the new listener; nothing removes the old one.
ToggleTheme ==
    /\ IF el /\ instance
         THEN SetOptions /\ AddListener /\ toggles' = toggles + 1
         ELSE UNCHANGED <<drawn, timers, listeners, toggles>>
    /\ UNCHANGED <<el, instance, lateTimers>>

\* tryOnUnmounted.  The timers that run are not cleared.
UnmountChart ==
    /\ el
    /\ el' = FALSE /\ instance' = FALSE /\ drawn' = FALSE
    /\ listeners' = IF instance THEN listeners - 1 ELSE listeners
    /\ timers' = 0 /\ lateTimers' = lateTimers + timers
    /\ UNCHANGED toggles

-----------------------------------------------------------------------------

(***************************************************************************)
(* When no timer runs, a mounted chart shows the newest options, whatever  *)
(* the order of polls, theme changes and timers was.                       *)
(***************************************************************************)
ChartCurrent == el /\ timers = 0 => instance /\ drawn

(***************************************************************************)
(* Leaving the page leaves no resize listener behind, even if a timer is   *)
(* still to draw, except one for each time the theme was changed on it.    *)
(***************************************************************************)
ListenersRemoved == ~el => listeners <= toggles
=============================================================================
