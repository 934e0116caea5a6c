------------------------------ MODULE Frontend ------------------------------
(***************************************************************************)
(* The dashboard in a browser: the store that App.vue polls, the router,   *)
(* and the index page or the message page, both of which watch the store.  *)
(***************************************************************************)
EXTENDS MessagePage, Charts

CONSTANT MaxEvents      \* BOUND: what the user does

ASSUME FrontendAssumption == MaxEvents \in Nat

VARIABLE events         \* how much the user may still do

frontVars == <<pollingVars, pageVars, toastVars, chartVars, events>>

\* The index page is shown first.
InitFrontend == InitPolling /\ InitPage /\ InitToasts /\ InitChart /\ events = MaxEvents

User == events > 0 /\ events' = events - 1

-----------------------------------------------------------------------------

\* New statistics: the index page draws them, the message page counts them.
NewStats(i) ==
    /\ Answer(i)
    /\ IF el THEN UpdateChart ELSE UNCHANGED chartVars
    /\ UNCHANGED <<pageVars, toastVars, events>>

Network ==
    \/ /\ \/ CountUp \/ Poll
          \/ \E i \in 1 .. Len(polls) : Serve(i) \/ PollError(i)
       /\ UNCHANGED <<pageVars, toastVars, chartVars, events>>
    \/ \E i \in 1 .. Len(polls) : NewStats(i)
    \/ /\ \E i \in 1 .. Len(listing), ok \in BOOLEAN : ListAnswer(i, ok)
       /\ UNCHANGED <<pollingVars, toastVars, chartVars, events>>
    \/ /\ \E ok \in BOOLEAN : DeleteAnswer(ok)
       /\ UNCHANGED <<pollingVars, chartVars, events>>

\* The router replaces one page by the other.
ShowMessages ==
    /\ User
    /\ \E status \in Statuses : MountPage(status)
    /\ UnmountChart
    /\ UNCHANGED <<pollingVars, toastVars>>

ShowIndex == User /\ UnmountPage /\ MountChart /\ UNCHANGED <<pollingVars, toastVars>>

\* What the page offers, the table only while no dialog covers it.
OnThePage ==
    /\ mounted
    /\ \/ User /\ \E status \in Statuses : ChangeStatus(status)
       \/ /\ User /\ ~dialog.open
          /\ \/ \E page \in 1 .. pageCount : ChangePage(page)
             \/ \E size \in PageSizes : ChangePageSize(size)
             \/ Select
             \/ \E what \in {"selected", "one"} : Delete(what)
       \/ Dialog /\ UNCHANGED events
    /\ UNCHANGED <<pollingVars, toastVars, chartVars>>

Theme == User /\ ToggleTheme /\ UNCHANGED <<pollingVars, pageVars, toastVars>>

Watchers ==
    /\ WatchStatus \/ WatchPages
    /\ UNCHANGED <<pollingVars, toastVars, chartVars, events>>

Timers ==
    \/ (Draw \/ DrawLate) /\ UNCHANGED <<pollingVars, pageVars, toastVars, events>>
    \/ /\ LapseToast \/ CloseToast \/ DestroyToast
       /\ UNCHANGED <<pollingVars, pageVars, chartVars, events>>

\* Watchers run before the next event is handled.
NextFrontend ==
    \/ Watchers
    \/ Flushed /\ (Network \/ ShowMessages \/ ShowIndex \/ OnThePage \/ Theme \/ Timers)

SpecFrontend == InitFrontend /\ [][NextFrontend]_frontVars
=============================================================================
