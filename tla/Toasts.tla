------------------------------- MODULE Toasts -------------------------------
(***************************************************************************)
(* The notices of the dashboard (plugins/toast.ts): there is one at most,  *)
(* each replaces the one before, and 300 ms after its timeout it is taken  *)
(* out of the document.  The timer that does so takes out whatever toast   *)
(* is current by then.                                                     *)
(*                                                                         *)
(* Time is left out but for one fact: 300 ms pass before a younger toast's *)
(* timeout (3 s, no caller gives another one), so that there is no second  *)
(* timer while one runs.                                                   *)
(***************************************************************************)
EXTENDS Naturals

VARIABLES
    toast,  \* currentToast: "none", "shown", "closing" (its timeout is over)
            \* or "closed" (by its button)
    timer,  \* whether a timer of 300 ms runs
    hasty   \* history: the toast was made while the one before was closing

toastVars == <<toast, timer, hasty>>

InitToasts == toast = "none" /\ timer = FALSE /\ hasty = FALSE

\* createToast, which calls destroyToast first.
CreateToast ==
    /\ toast' = "shown"
    /\ hasty' = (toast = "closing" \/ (hasty /\ timer))
    /\ UNCHANGED timer

\* The snackbar's timeout is over: onUpdate:modelValue.
LapseToast ==
    /\ toast = "shown" /\ ~timer
    /\ toast' = "closing" /\ timer' = TRUE
    /\ UNCHANGED hasty

\* Mistake: the button does what the timeout does.
CloseToastLater ==
    /\ toast = "shown"
    /\ toast' = "closed" /\ timer' = TRUE
    /\ UNCHANGED hasty

\* Its button hides the toast.  That is no update from the snackbar, so that
\* no timer starts and the container stays until the next toast.
CloseToast ==
    /\ toast = "shown"
    /\ toast' = "closed"
    /\ UNCHANGED <<timer, hasty>>

\* The timer: destroyToast, whose toast it may be.
DestroyToast ==
    /\ timer
    /\ timer' = FALSE /\ toast' = "none" /\ hasty' = FALSE

NextToasts == CreateToast \/ LapseToast \/ CloseToast \/ DestroyToast

SpecToasts == InitToasts /\ [][NextToasts]_toastVars

-----------------------------------------------------------------------------

(***************************************************************************)
(* A toast that is shown stays until its timeout, its button or the next   *)
(* toast, unless it was made within the 300 ms after the timeout of the    *)
(* one before: that one's timer then takes it out too early.               *)
(***************************************************************************)
ToastStays == [][toast = "shown" /\ ~hasty => toast' # "none"]_toastVars
=============================================================================
