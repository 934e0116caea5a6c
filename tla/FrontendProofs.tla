--------------------------- MODULE FrontendProofs ---------------------------
(***************************************************************************)
(* What the dashboard shows, for any number of polls, statuses, pages,     *)
(* requests and user actions.                                              *)
(***************************************************************************)
EXTENDS Frontend, SequenceTheorems, TLAPS

-----------------------------------------------------------------------------

(***************************************************************************)
(* The store: polls that overlap, fail and are answered in any order.      *)
(***************************************************************************)

Value == Nat \union {Undefined}

PollRecord == [at : {"sent", "served", "done"}, old : Value, new : Value]

PollingTypeOK ==
    /\ total \in Nat /\ stats \in Value /\ charted \in Nat /\ origin \in Nat
    /\ polls \in Seq(PollRecord) /\ overlapped \in BOOLEAN
    /\ \A i \in 1 .. Len(polls) : polls[i].at = "served" => polls[i].new \in Nat

\* The bases of the polls under way are covered by the chart already.
BasesCovered ==
    \A i \in 1 .. Len(polls) :
        InFlight(i) /\ polls[i].old # Undefined => charted >= polls[i].old - origin

Covered == PollingTypeOK /\ BasesCovered /\ NothingMissed

\* With one poll at a time: its base is what the store holds, and the counter
\* has only grown since.
OneByOne ==
    ~overlapped =>
        /\ \A i, j \in 1 .. Len(polls) : InFlight(i) /\ InFlight(j) => i = j
        /\ \A i \in 1 .. Len(polls) : InFlight(i) => polls[i].old = stats
        /\ \A i \in 1 .. Len(polls) : polls[i].at = "served" =>
              stats <= polls[i].new /\ polls[i].new <= total
        /\ stats <= total
        /\ stats = Undefined => charted = 0 /\ origin = 0

Exact == PollingTypeOK /\ OneByOne /\ ExactOneByOne

-----------------------------------------------------------------------------

(***************************************************************************)
(* A record of the history of polls is replaced by another one (the await  *)
(* of a poll ends, or the server has read the counters).                   *)
(***************************************************************************)
LEMMA ReplacePoll ==
    ASSUME polls \in Seq(PollRecord), NEW i \in 1 .. Len(polls), NEW r \in PollRecord,
           polls' = [polls EXCEPT ![i] = r]
    PROVE  /\ polls' \in Seq(PollRecord)
           /\ Len(polls') = Len(polls)
           /\ \A j \in 1 .. Len(polls) : polls'[j] = IF j = i THEN r ELSE polls[j]
<1>1. polls' \in Seq(PollRecord) /\ Len(polls') = Len(polls)
  BY ExceptSeq
<1>2. DOMAIN polls = 1 .. Len(polls)
  BY LenProperties
<1> QED BY <1>1, <1>2

(***************************************************************************)
(* fetchStats appends a poll that remembers the statistics in the store.   *)
(***************************************************************************)
LEMMA AppendPoll ==
    ASSUME PollingTypeOK, Poll
    PROVE  /\ polls' \in Seq(PollRecord)
           /\ Len(polls') = Len(polls) + 1
           /\ \A j \in 1 .. Len(polls) : polls'[j] = polls[j]
           /\ polls'[Len(polls) + 1] = [at |-> "sent", old |-> stats, new |-> Undefined]
<1> DEFINE r == [at |-> "sent", old |-> stats, new |-> Undefined]
<1>1. r \in PollRecord
  BY DEF PollingTypeOK, PollRecord, Value
<1>2. polls \in Seq(PollRecord) /\ polls' = Append(polls, r)
  BY DEF PollingTypeOK, Poll
<1> QED BY <1>1, <1>2, AppendProperties

(***************************************************************************)
(* RouteActionProvider.Stats leaves the counter in one poll.               *)
(***************************************************************************)
LEMMA ServePoll ==
    ASSUME PollingTypeOK, NEW i \in 1 .. Len(polls), Serve(i)
    PROVE  /\ polls' \in Seq(PollRecord)
           /\ Len(polls') = Len(polls)
           /\ \A j \in 1 .. Len(polls) : j # i => polls'[j] = polls[j]
           /\ polls'[i].at = "served" /\ polls'[i].old = polls[i].old /\ polls'[i].new = total
<1> DEFINE read == [at |-> "served", old |-> polls[i].old, new |-> total]
<1>1. polls[i] \in PollRecord /\ total \in Nat
  BY ElementOfSeq DEF PollingTypeOK
<1>2. read \in PollRecord
  BY <1>1 DEF PollRecord, Value
<1>3. polls \in Seq(PollRecord) /\ polls' = [polls EXCEPT ![i] = read]
  BY DEF PollingTypeOK, Serve
<1> HIDE DEF read
<1>4. /\ polls' \in Seq(PollRecord) /\ Len(polls') = Len(polls)
      /\ \A j \in 1 .. Len(polls) : polls'[j] = IF j = i THEN read ELSE polls[j]
  BY <1>2, <1>3, ReplacePoll
<1>5. read.at = "served" /\ read.old = polls[i].old /\ read.new = total
  BY DEF read
<1>6. polls'[i] = read
  BY <1>4
<1> QED BY <1>4, <1>5, <1>6

(***************************************************************************)
(* The two ends of a poll, an answer and an error, leave nothing of it.    *)
(***************************************************************************)
LEMMA EndPoll ==
    ASSUME PollingTypeOK, NEW i \in 1 .. Len(polls), Answer(i) \/ PollError(i)
    PROVE  /\ polls' \in Seq(PollRecord)
           /\ Len(polls') = Len(polls)
           /\ \A j \in 1 .. Len(polls) : j # i => polls'[j] = polls[j]
           /\ polls'[i].at = "done"
<1> DEFINE done == [at |-> "done", old |-> Undefined, new |-> Undefined]
<1>1. done \in PollRecord
  BY DEF PollRecord, Value
<1>2. polls \in Seq(PollRecord) /\ polls' = [polls EXCEPT ![i] = done]
  BY DEF PollingTypeOK, Answer, PollError
<1>3. /\ polls' \in Seq(PollRecord) /\ Len(polls') = Len(polls)
      /\ \A j \in 1 .. Len(polls) : polls'[j] = IF j = i THEN done ELSE polls[j]
  BY <1>1, <1>2, ReplacePoll
<1> QED BY <1>3

(***************************************************************************)
(* Every step keeps the types.                                             *)
(***************************************************************************)
LEMMA PollingTypes ==
    ASSUME PollingTypeOK, [NextPolling]_pollingVars
    PROVE  PollingTypeOK'
<1>1. CASE CountUp
  BY <1>1 DEF CountUp, PollingTypeOK
<1>2. CASE Poll
  <2>1. UNCHANGED <<total, stats, charted, origin>> /\ overlapped' \in BOOLEAN
    BY <1>2 DEF Poll, PollingTypeOK
  <2>2. ASSUME NEW j \in 1 .. Len(polls'), polls'[j].at = "served"
        PROVE  polls'[j].new \in Nat
    <3>1. Len(polls) \in Nat
      BY LenProperties DEF PollingTypeOK
    <3> QED BY <1>2, <2>2, <3>1, AppendPoll DEF PollingTypeOK
  <2> QED BY <1>2, <2>1, <2>2, AppendPoll DEF PollingTypeOK
<1>3. ASSUME NEW i \in 1 .. Len(polls), Serve(i) \/ Answer(i) \/ PollError(i)
      PROVE  PollingTypeOK'
  <2>1. polls[i] \in PollRecord
    BY ElementOfSeq DEF PollingTypeOK
  <2>2. /\ total' \in Nat /\ stats' \in Value /\ charted' \in Nat
        /\ origin' \in Nat /\ overlapped' \in BOOLEAN
    BY <1>3, <2>1 DEF Serve, Answer, PollError, PollingTypeOK, PollRecord, Value, Undefined
  <2>3. /\ polls' \in Seq(PollRecord) /\ Len(polls') = Len(polls)
        /\ \A j \in 1 .. Len(polls) : j # i => polls'[j] = polls[j]
        /\ polls'[i].at = "served" => polls'[i].new \in Nat
    <3>1. CASE Serve(i)
      <4>1. polls'[i].new = total /\ total \in Nat
        BY <3>1, ServePoll DEF PollingTypeOK
      <4> QED BY <3>1, <4>1, ServePoll
    <3>2. CASE Answer(i) \/ PollError(i)
      BY <3>2, EndPoll
    <3> QED BY <1>3, <3>1, <3>2
  <2>4. \A j \in 1 .. Len(polls') : polls'[j].at = "served" => polls'[j].new \in Nat
    BY <2>3 DEF PollingTypeOK
  <2> QED BY <2>2, <2>3, <2>4 DEF PollingTypeOK
<1>4. CASE UNCHANGED pollingVars
  BY <1>4 DEF pollingVars, PollingTypeOK
<1> QED BY <1>1, <1>2, <1>3, <1>4 DEF NextPolling

-----------------------------------------------------------------------------

(***************************************************************************)
(* The inductive step of NothingMissed.  An answer adds the difference to  *)
(* its base, and what came before the base is on the chart already.        *)
(***************************************************************************)
LEMMA CoveredStep ==
    ASSUME Covered, [NextPolling]_pollingVars
    PROVE  Covered'
<1> USE DEF Undefined
<1>0. PollingTypeOK' /\ PollingTypeOK
  BY PollingTypes DEF Covered
<1>1. CASE CountUp
  BY <1>0, <1>1 DEF CountUp, Covered, BasesCovered, NothingMissed, InFlight
<1>2. CASE Poll
  <2>1. UNCHANGED <<stats, charted, origin>>
    BY <1>2 DEF Poll
  <2>2. ASSUME NEW j \in 1 .. Len(polls'), polls'[j].old # Undefined, InFlight(j)'
        PROVE  charted' >= polls'[j].old - origin'
    <3>1. Len(polls) \in Nat
      BY <1>0, LenProperties DEF PollingTypeOK
    <3>2. CASE j \in 1 .. Len(polls)
      BY <1>0, <1>2, <2>1, <2>2, <3>2, AppendPoll DEF Covered, BasesCovered, InFlight
    <3>3. CASE j = Len(polls) + 1
      <4>1. polls'[j].old = stats
        BY <1>0, <1>2, <3>3, AppendPoll
      <4> QED BY <2>1, <2>2, <4>1 DEF Covered, NothingMissed
    <3> QED BY <1>0, <1>2, <2>2, <3>1, <3>2, <3>3, AppendPoll
  <2> QED BY <1>0, <2>1, <2>2 DEF Covered, BasesCovered, NothingMissed
<1>3. ASSUME NEW i \in 1 .. Len(polls), Serve(i) \/ PollError(i)
      PROVE  Covered'
  <2>1. UNCHANGED <<stats, charted, origin>> /\ InFlight(i)
    BY <1>3 DEF Serve, PollError, InFlight
  <2>2. ASSUME NEW j \in 1 .. Len(polls'), polls'[j].old # Undefined, InFlight(j)'
        PROVE  charted' >= polls'[j].old - origin'
    <3>1. polls'[j].old = polls[j].old /\ InFlight(j) /\ j \in 1 .. Len(polls)
      <4>1. CASE Serve(i)
        <5>1. Len(polls') = Len(polls) /\ \A k \in 1 .. Len(polls) : k # i => polls'[k] = polls[k]
          BY <1>0, <4>1, ServePoll
        <5>2. polls'[i].old = polls[i].old
          BY <1>0, <4>1, ServePoll
        <5> QED BY <2>1, <2>2, <5>1, <5>2 DEF InFlight
      <4>2. CASE PollError(i)
        BY <1>0, <4>2, <2>1, <2>2, EndPoll DEF InFlight
      <4> QED BY <1>3, <4>1, <4>2
    <3> QED BY <2>1, <2>2, <3>1 DEF Covered, BasesCovered
  <2> QED BY <1>0, <2>1, <2>2 DEF Covered, BasesCovered, NothingMissed
<1>4. ASSUME NEW i \in 1 .. Len(polls), Answer(i)
      PROVE  Covered'
  <2> DEFINE old == polls[i].old
             new == polls[i].new
  <2>1. /\ new \in Nat /\ old \in Value /\ InFlight(i)
        /\ charted \in Nat /\ origin \in Nat /\ charted' \in Nat /\ origin' \in Nat
    <3>1. polls[i] \in PollRecord /\ polls[i].at = "served"
      BY <1>0, <1>4, ElementOfSeq DEF PollingTypeOK, Answer
    <3> QED BY <1>0, <3>1 DEF PollingTypeOK, PollRecord, InFlight
  <2>2. /\ stats' = new
        /\ charted' = IF old # Undefined /\ new > old THEN charted + (new - old) ELSE charted
        /\ origin' = IF old = Undefined /\ new > origin THEN new ELSE origin
    BY <1>4 DEF Answer
  <2>3. old # Undefined => charted >= old - origin
    BY <2>1 DEF Covered, BasesCovered
  <2>4. charted' >= charted /\ origin' >= origin
    BY <2>1, <2>2 DEF Value
  <2>5. charted' >= stats' - origin'
    BY <2>1, <2>2, <2>3 DEF Value
  <2>6. ASSUME NEW j \in 1 .. Len(polls'), polls'[j].old # Undefined, InFlight(j)'
        PROVE  charted' >= polls'[j].old - origin'
    <3>1. j # i /\ j \in 1 .. Len(polls) /\ polls'[j] = polls[j]
      BY <1>0, <1>4, <2>6, EndPoll DEF InFlight
    <3>2. polls[j].old \in Value /\ charted >= polls[j].old - origin
      <4>1. polls[j] \in PollRecord
        BY <1>0, <3>1, ElementOfSeq DEF PollingTypeOK
      <4> QED BY <2>6, <3>1, <4>1 DEF Covered, BasesCovered, InFlight, PollRecord
    <3> QED BY <2>1, <2>4, <3>1, <3>2 DEF Value
  <2> QED BY <1>0, <2>5, <2>6 DEF Covered, BasesCovered, NothingMissed
<1>5. CASE UNCHANGED pollingVars
  BY <1>0, <1>5 DEF pollingVars, Covered, BasesCovered, NothingMissed, InFlight
<1> QED BY <1>1, <1>2, <1>3, <1>4, <1>5 DEF NextPolling

(***************************************************************************)
(* Before the first poll nothing is charted.                               *)
(***************************************************************************)
LEMMA InitCovered ==
    ASSUME InitPolling
    PROVE  Covered
<1>1. polls \in Seq(PollRecord) /\ Len(polls) = 0
  BY EmptySeq DEF InitPolling
<1>2. PollingTypeOK
  <2>1. \A i \in 1 .. Len(polls) : FALSE
    BY <1>1
  <2>2. /\ total \in Nat /\ stats \in Value /\ charted \in Nat /\ origin \in Nat
        /\ overlapped \in BOOLEAN
    BY DEF InitPolling, Value
  <2> QED BY <1>1, <2>1, <2>2 DEF PollingTypeOK
<1>3. BasesCovered
  BY <1>1 DEF BasesCovered
<1> QED BY <1>2, <1>3 DEF Covered, InitPolling, NothingMissed

(***************************************************************************)
(* The chart shows at least what the counter has grown by since it began   *)
(* (fetchStats, whatever the order of its answers).                        *)
(***************************************************************************)
THEOREM ChartMissesNothing == SpecPolling => []NothingMissed
<1>1. InitPolling => Covered
  BY InitCovered
<1>2. Covered /\ [NextPolling]_pollingVars => Covered'
  BY CoveredStep
<1>3. Covered => NothingMissed
  BY DEF Covered
<1> QED BY <1>1, <1>2, <1>3, PTL DEF SpecPolling

-----------------------------------------------------------------------------

(***************************************************************************)
(* The inductive step of ExactOneByOne.  Without an overlap the one poll   *)
(* under way was sent with what the store still holds, and the counter has *)
(* not become smaller since.                                               *)
(***************************************************************************)
LEMMA ExactStep ==
    ASSUME Exact, [NextPolling]_pollingVars
    PROVE  Exact'
<1> USE DEF Undefined
<1>0. PollingTypeOK' /\ PollingTypeOK /\ Len(polls) \in Nat
  BY PollingTypes, LenProperties DEF Exact, PollingTypeOK
<1>t. /\ total \in Nat /\ stats \in Value /\ charted \in Nat /\ origin \in Nat
      /\ overlapped \in BOOLEAN
  BY <1>0 DEF PollingTypeOK
<1>1. CASE CountUp
  <2>1. total' = total + 1 /\ UNCHANGED <<stats, polls, charted, origin, overlapped>>
    BY <1>1 DEF CountUp
  <2>2. \A i \in 1 .. Len(polls) : polls[i].at = "served" => polls[i].new \in Nat
    BY <1>0 DEF PollingTypeOK
  <2> QED BY <1>0, <1>t, <2>1, <2>2 DEF Exact, OneByOne, ExactOneByOne, InFlight, Value
<1>2. CASE Poll
  <2>1. /\ UNCHANGED <<total, stats, charted, origin>>
        /\ ~overlapped' => ~overlapped /\ \A k \in 1 .. Len(polls) : ~InFlight(k)
    BY <1>2, <1>t DEF Poll
  <2>2. /\ Len(polls') = Len(polls) + 1
        /\ \A k \in 1 .. Len(polls) : polls'[k] = polls[k]
        /\ polls'[Len(polls) + 1] = [at |-> "sent", old |-> stats, new |-> Undefined]
    BY <1>0, <1>2, AppendPoll
  <2>3. ASSUME ~overlapped', NEW k \in 1 .. Len(polls'), InFlight(k)'
        PROVE  k = Len(polls) + 1
    BY <1>0, <2>1, <2>2, <2>3 DEF InFlight
  <2>4. ASSUME ~overlapped', NEW k \in 1 .. Len(polls'), InFlight(k)'
        PROVE  polls'[k].old = stats' /\ polls'[k].at # "served"
    BY <2>1, <2>2, <2>3, <2>4
  <2>5. OneByOne'
    BY <2>1, <2>3, <2>4 DEF Exact, OneByOne, InFlight
  <2> QED BY <1>0, <2>1, <2>5 DEF Exact, ExactOneByOne
<1>3. ASSUME NEW i \in 1 .. Len(polls), Serve(i)
      PROVE  Exact'
  <2>1. UNCHANGED <<total, stats, charted, origin, overlapped>> /\ InFlight(i)
    BY <1>3 DEF Serve, InFlight
  <2>2. /\ Len(polls') = Len(polls)
        /\ \A j \in 1 .. Len(polls) : j # i => polls'[j] = polls[j]
        /\ polls'[i].at = "served" /\ polls'[i].old = polls[i].old /\ polls'[i].new = total
    BY <1>0, <1>3, ServePoll
  <2>3. \A j \in 1 .. Len(polls) : InFlight(j)' <=> InFlight(j)
    BY <2>1, <2>2 DEF InFlight
  <2>4. OneByOne'
    BY <1>t, <2>1, <2>2, <2>3 DEF Exact, OneByOne, Value
  <2> QED BY <1>0, <2>1, <2>4 DEF Exact, ExactOneByOne
<1>4. ASSUME NEW i \in 1 .. Len(polls), Answer(i) \/ PollError(i)
      PROVE  Exact'
  <2>1. /\ Len(polls') = Len(polls)
        /\ \A j \in 1 .. Len(polls) : j # i => polls'[j] = polls[j]
        /\ polls'[i].at = "done"
    BY <1>0, <1>4, EndPoll
  <2>2. InFlight(i) /\ UNCHANGED <<total, overlapped>>
    BY <1>4 DEF Answer, PollError, InFlight
  <2>3. ASSUME ~overlapped, NEW j \in 1 .. Len(polls')  PROVE ~InFlight(j)' /\ polls'[j].at # "served"
    BY <2>1, <2>2, <2>3 DEF Exact, OneByOne, InFlight
  <2>4. /\ ~overlapped /\ stats' # Undefined => charted' = stats' - origin'
        /\ ~overlapped => stats' <= total
        /\ ~overlapped /\ stats' = Undefined => charted' = 0 /\ origin' = 0
    <3>1. CASE PollError(i)
      BY <3>1 DEF PollError, Exact, OneByOne, ExactOneByOne
    <3>2. CASE Answer(i)
      <4> DEFINE new == polls[i].new
      <4>1. new \in Nat /\ (~overlapped => polls[i].old = stats /\ stats <= new /\ new <= total)
        BY <1>0, <2>2, <3>2 DEF Exact, OneByOne, PollingTypeOK, Answer
      <4>2. /\ stats' = new
            /\ ~overlapped => charted' = IF stats # Undefined /\ new > stats THEN charted + (new - stats) ELSE charted
            /\ ~overlapped => origin' = IF stats = Undefined /\ new > origin THEN new ELSE origin
        BY <3>2, <4>1 DEF Answer
      <4> HIDE DEF new
      <4>3. ~overlapped => /\ stats = Undefined => charted = 0 /\ origin = 0
                           /\ stats # Undefined => charted = stats - origin
        BY DEF Exact, OneByOne, ExactOneByOne
      <4> QED BY <1>t, <4>1, <4>2, <4>3 DEF Value
    <3> QED BY <1>4, <3>1, <3>2
  <2>5. OneByOne'
    BY <2>2, <2>3, <2>4 DEF OneByOne
  <2> QED BY <1>0, <2>2, <2>4, <2>5 DEF Exact, ExactOneByOne
<1>5. CASE UNCHANGED pollingVars
  BY <1>0, <1>5 DEF pollingVars, Exact, OneByOne, ExactOneByOne, InFlight
<1> QED BY <1>1, <1>2, <1>3, <1>4, <1>5 DEF NextPolling

(***************************************************************************)
(* The chart is exact when no two polls are under way at once: no growth   *)
(* of the counter is lost or charted twice by fetchStats.                  *)
(***************************************************************************)
THEOREM ChartExactOneByOne == SpecPolling => []ExactOneByOne
<1>1. InitPolling => Exact
  <2> SUFFICES ASSUME InitPolling  PROVE Exact
    OBVIOUS
  <2>1. Covered /\ \A i \in 1 .. Len(polls) : FALSE
    <3>1. Len(polls) = 0
      BY EmptySeq DEF InitPolling
    <3> QED BY <3>1, InitCovered
  <2>2. OneByOne
    BY <2>1 DEF OneByOne, InitPolling, Undefined
  <2> QED BY <2>1, <2>2 DEF Covered, Exact, InitPolling, ExactOneByOne
<1>2. Exact /\ [NextPolling]_pollingVars => Exact'
  BY ExactStep
<1>3. Exact => ExactOneByOne
  BY DEF Exact
<1> QED BY <1>1, <1>2, <1>3, PTL DEF SpecPolling

-----------------------------------------------------------------------------

(***************************************************************************)
(* The store and the toasts do what they do alone, whatever the pages do.  *)
(***************************************************************************)
THEOREM StoreUndisturbed == SpecFrontend => SpecPolling
<1>1. InitFrontend => InitPolling
  BY DEF InitFrontend
<1>2. [NextFrontend]_frontVars => [NextPolling]_pollingVars
  <2> SUFFICES ASSUME [NextFrontend]_frontVars PROVE [NextPolling]_pollingVars
    OBVIOUS
  <2>1. CASE Watchers
    BY <2>1 DEF Watchers
  <2>2. CASE Network
    BY <2>2 DEF Network, NewStats, NextPolling
  <2>3. CASE ShowMessages \/ ShowIndex \/ OnThePage \/ Theme \/ Timers
    BY <2>3 DEF ShowMessages, ShowIndex, OnThePage, Theme, Timers
  <2>4. CASE UNCHANGED frontVars
    BY <2>4 DEF frontVars
  <2> QED BY <2>1, <2>2, <2>3, <2>4 DEF NextFrontend
<1> QED BY <1>1, <1>2, PTL DEF SpecFrontend, SpecPolling

THEOREM ToastsUndisturbed == SpecFrontend => SpecToasts
<1>1. InitFrontend => InitToasts
  BY DEF InitFrontend
<1>2. [NextFrontend]_frontVars => [NextToasts]_toastVars
  <2> SUFFICES ASSUME [NextFrontend]_frontVars PROVE [NextToasts]_toastVars
    OBVIOUS
  <2>1. CASE Network
    BY <2>1 DEF Network, NewStats, DeleteAnswer, NextToasts
  <2>2. CASE Timers
    BY <2>2 DEF Timers, NextToasts
  <2>3. CASE Watchers \/ ShowMessages \/ ShowIndex \/ OnThePage \/ Theme
    BY <2>3 DEF Watchers, ShowMessages, ShowIndex, OnThePage, Theme
  <2>4. CASE UNCHANGED frontVars
    BY <2>4 DEF frontVars
  <2> QED BY <2>1, <2>2, <2>3, <2>4 DEF NextFrontend
<1> QED BY <1>1, <1>2, PTL DEF SpecFrontend, SpecToasts

-----------------------------------------------------------------------------

\* A timer that runs belongs to the toast whose timeout is over, or it was
\* running already when the toast was made.
TimerIsExpected == timer => toast = "closing" \/ hasty

(***************************************************************************)
(* A toast that was not made in haste stays until its timeout, its button  *)
(* or the next toast, however many there are.                              *)
(***************************************************************************)
THEOREM ToastsStay == SpecToasts => ToastStays
<1>1. InitToasts => TimerIsExpected
  BY DEF InitToasts, TimerIsExpected
<1>2. TimerIsExpected /\ [NextToasts]_toastVars => TimerIsExpected'
  BY DEF TimerIsExpected, NextToasts, toastVars, CreateToast, LapseToast, CloseToast, DestroyToast
<1>3. TimerIsExpected /\ [NextToasts]_toastVars
         => [toast = "shown" /\ ~hasty => toast' # "none"]_toastVars
  BY DEF TimerIsExpected, NextToasts, toastVars, CreateToast, LapseToast, CloseToast, DestroyToast
<1> QED BY <1>1, <1>2, <1>3, PTL DEF SpecToasts, ToastStays

-----------------------------------------------------------------------------

\* What the index page does with its charts.
ChartStep ==
    \/ MountChart \/ UpdateChart \/ UnmountChart
    \/ Draw \/ DrawLate \/ ToggleTheme
    \/ UNCHANGED chartVars

LEMMA ChartPart == [NextFrontend]_frontVars => ChartStep
<1> SUFFICES ASSUME [NextFrontend]_frontVars PROVE ChartStep
  OBVIOUS
<1>1. CASE Network
  BY <1>1 DEF Network, NewStats, ChartStep
<1>2. CASE ShowMessages \/ ShowIndex \/ Theme \/ Timers
  BY <1>2 DEF ShowMessages, ShowIndex, Theme, Timers, ChartStep
<1>3. CASE Watchers \/ OnThePage
  BY <1>3 DEF Watchers, OnThePage, ChartStep
<1>4. CASE UNCHANGED frontVars
  BY <1>4 DEF frontVars, ChartStep
<1> QED BY <1>1, <1>2, <1>3, <1>4 DEF NextFrontend

\* A page that is gone has no chart and no timer of its own that could make
\* one; all listeners but the chart's own are those that theme changes left.
ChartIInv ==
    /\ timers \in Nat /\ lateTimers \in Nat /\ listeners \in Int /\ toggles \in Nat
    /\ el \in BOOLEAN /\ instance \in BOOLEAN /\ drawn \in BOOLEAN
    /\ ~el => ~instance /\ timers = 0
    /\ listeners <= toggles + 1 /\ (~instance => listeners <= toggles)
    /\ ChartCurrent

LEMMA ChartInductive == SpecFrontend => []ChartIInv
<1>1. InitFrontend => ChartIInv
  <2> SUFFICES ASSUME InitChart PROVE ChartIInv
    BY DEF InitFrontend
  <2>1. el /\ ~instance /\ ~drawn /\ el \in BOOLEAN /\ instance \in BOOLEAN /\ drawn \in BOOLEAN
    BY Zenon DEF InitChart
  <2>2. timers = 1 /\ lateTimers = 0 /\ listeners = 0 /\ toggles = 0
    BY DEF InitChart
  <2> QED BY <2>1, <2>2 DEF ChartIInv, ChartCurrent
<1>2. ChartIInv /\ ChartStep => ChartIInv'
  <2> SUFFICES ASSUME ChartIInv, ChartStep PROVE ChartIInv'
    OBVIOUS
  <2> USE DEF ChartIInv, ChartCurrent
  <2>1. CASE MountChart \/ UpdateChart
    <3>1. /\ el' /\ el' \in BOOLEAN /\ drawn' \in BOOLEAN
          /\ instance' = instance
      BY <2>1, Zenon DEF MountChart, UpdateChart, SetOptions
    <3>2. /\ timers' = timers + 1 /\ lateTimers' = lateTimers
          /\ listeners' = listeners /\ toggles' = toggles
      BY <2>1 DEF MountChart, UpdateChart, SetOptions
    <3> QED BY <3>1, <3>2
  <2>2. CASE UnmountChart
    <3>1. /\ ~el' /\ ~instance' /\ ~drawn'
          /\ el' \in BOOLEAN /\ instance' \in BOOLEAN /\ drawn' \in BOOLEAN
      BY <2>2, Zenon DEF UnmountChart
    <3>2. /\ timers' = 0 /\ lateTimers' = lateTimers + timers /\ toggles' = toggles
          /\ listeners' = IF instance THEN listeners - 1 ELSE listeners
      BY <2>2 DEF UnmountChart
    <3> QED BY <3>1, <3>2
  <2>3. CASE Draw
    BY <2>3 DEF Draw, AddListener
  <2>4. CASE DrawLate
    BY <2>4 DEF DrawLate
  <2>5. CASE ToggleTheme
    <3>1. CASE el /\ instance
      <4>1. drawn' \in BOOLEAN /\ el' = el /\ instance' = instance
        BY <2>5, <3>1, Zenon DEF ToggleTheme, SetOptions
      <4>2. /\ timers' = timers + 1 /\ lateTimers' = lateTimers
            /\ listeners' = listeners + 1 /\ toggles' = toggles + 1
        BY <2>5, <3>1 DEF ToggleTheme, SetOptions, AddListener
      <4> QED BY <3>1, <4>1, <4>2
    <3>2. CASE ~(el /\ instance)
      BY <2>5, <3>2 DEF ToggleTheme
    <3> QED BY <3>1, <3>2
  <2>6. CASE UNCHANGED chartVars
    BY <2>6 DEF chartVars
  <2> QED BY <2>1, <2>2, <2>3, <2>4, <2>5, <2>6 DEF ChartStep
<1> QED BY <1>1, <1>2, ChartPart, PTL DEF SpecFrontend

(***************************************************************************)
(* A mounted chart with no timer to come shows the newest options.         *)
(***************************************************************************)
THEOREM ChartsKept == SpecFrontend => []ChartCurrent
<1>1. ChartIInv => ChartCurrent
  BY DEF ChartIInv
<1> QED BY <1>1, ChartInductive, PTL

(***************************************************************************)
(* A page that is gone leaves no listeners but those of theme changes: the *)
(* timers that would add one late find it unmounted.                       *)
(***************************************************************************)
THEOREM ListenersLeave == SpecFrontend => []ListenersRemoved
<1>1. ChartIInv => ListenersRemoved
  BY DEF ChartIInv, ListenersRemoved
<1> QED BY <1>1, ChartInductive, PTL

-----------------------------------------------------------------------------

Queries == [page : Nat \ {0}, size : Nat \ {0}, status : Statuses]

PageTypeOK ==
    /\ counts \in [Statuses -> Nat]
    /\ mounted \in BOOLEAN /\ stale \in BOOLEAN /\ early \in BOOLEAN
    /\ routeStatus \in Statuses
    /\ query \in Queries
    /\ seen \in [status : Statuses, pages : Nat \ {0}]
    /\ listing \in Seq(Queries)
    /\ messages \in Queries \union {NoMessages}
    /\ selected \subseteq Statuses

\* Unmounted, the page has the refs that setup will give it.
Fresh == ~mounted => selected = {} /\ ~early

\* Once watch(pageCount) has run, the page index is within the pages.
WithinSeen == mounted /\ seen.pages = pageCount => query.page <= pageCount

\* The youngest request under way asks for what the page shows; if there is
\* none, the list answers it.
YoungestIsCurrent ==
    mounted /\ ~stale =>
        IF listing = <<>> THEN messages = query ELSE listing[Len(listing)] = query

SelectedUnderFilter == mounted /\ ~early => selected \subseteq {query.status}

PageIInv ==
    PageTypeOK /\ Fresh /\ WithinSeen /\ YoungestIsCurrent /\ SelectedUnderFilter

\* What concerns the message page: an action of its own, or new counts.
PageStep ==
    /\ UNCHANGED counts
    /\ \/ \E status \in Statuses : MountPage(status) \/ ChangeStatus(status)
       \/ UnmountPage \/ WatchStatus \/ WatchPages
       \/ \E page \in 1 .. pageCount : ChangePage(page)
       \/ \E size \in PageSizes : ChangePageSize(size)
       \/ \E i \in 1 .. Len(listing), ok \in BOOLEAN : ListAnswer(i, ok)
       \/ \E what \in {"selected", "one"} : Delete(what)
       \/ \E ok \in BOOLEAN : DeleteAnswer(ok)
       \/ mounted /\ Select
       \/ Dialog
       \/ UNCHANGED pageVars

NewCounts == counts' \in [Statuses -> Nat] /\ Flushed /\ UNCHANGED pageVars

LEMMA PagePart == [NextFrontend]_frontVars => PageStep \/ NewCounts
<1> SUFFICES ASSUME [NextFrontend]_frontVars PROVE PageStep \/ NewCounts
  OBVIOUS
<1>1. CASE Watchers
  BY <1>1 DEF Watchers, pollingVars, PageStep
<1>2. CASE Flushed /\ Network
  <2>1. CASE \E i \in 1 .. Len(polls) : NewStats(i)
    <3>1. counts' \in [Statuses -> 0 .. MaxCount] /\ UNCHANGED pageVars
      BY <2>1 DEF NewStats, Answer
    <3>2. counts' \in [Statuses -> Nat]
      BY <3>1, PollingAssumption
    <3> QED BY <1>2, <3>1, <3>2 DEF NewCounts
  <2>2. CASE (CountUp \/ Poll \/ \E i \in 1 .. Len(polls) : Serve(i) \/ PollError(i))
             /\ UNCHANGED <<pageVars, toastVars, chartVars, events>>
    BY <2>2 DEF CountUp, Poll, Serve, PollError, PageStep
  <2>3. CASE (\E i \in 1 .. Len(listing), ok \in BOOLEAN : ListAnswer(i, ok)) /\ UNCHANGED pollingVars
    BY <2>3 DEF pollingVars, PageStep
  <2>4. CASE (\E ok \in BOOLEAN : DeleteAnswer(ok)) /\ UNCHANGED pollingVars
    BY <2>4 DEF pollingVars, PageStep
  <2> QED BY <1>2, <2>1, <2>2, <2>3, <2>4 DEF Network
<1>3. CASE ShowMessages \/ ShowIndex
  BY <1>3 DEF ShowMessages, ShowIndex, pollingVars, PageStep
<1>4. CASE OnThePage
  BY <1>4 DEF OnThePage, pollingVars, PageStep
<1>5. CASE Theme \/ Timers
  BY <1>5 DEF Theme, Timers, pollingVars, PageStep
<1>6. CASE UNCHANGED frontVars
  BY <1>6 DEF frontVars, pollingVars, PageStep
<1> QED BY <1>1, <1>2, <1>3, <1>4, <1>5, <1>6 DEF NextFrontend

(***************************************************************************)
(* pageCount is at least 1, and its last page begins with a message.       *)
(***************************************************************************)
LEMMA PagesPositive ==
    ASSUME PageTypeOK, NEW status \in Statuses, NEW size \in Nat \ {0}
    PROVE  Pages(status, size) \in Nat \ {0}
<1>1. counts[status] \in Nat
  BY DEF PageTypeOK
<1>2. (counts[status] + size - 1) \div size \in Nat
  BY <1>1
<1> QED BY <1>2 DEF Pages

LEMMA PagesCover ==
    ASSUME NEW n \in Nat \ {0}, NEW size \in Nat \ {0}, NEW page \in Nat \ {0},
           page <= (n + size - 1) \div size
    PROVE  (page - 1) * size + 1 <= n
<1> DEFINE q == (n + size - 1) \div size
<1>1. q \in Nat /\ q * size <= n + size - 1
  OBVIOUS
<1>2. page * size <= q * size
  BY <1>1
<1>3. (page - 1) * size = page * size - size
  OBVIOUS
<1> QED BY <1>1, <1>2, <1>3

(***************************************************************************)
(* fetchMessages asks for q, as the youngest request.                      *)
(***************************************************************************)
LEMMA Asked ==
    ASSUME PageTypeOK, NEW q \in Queries, Fetch(q)
    PROVE  /\ listing' \in Seq(Queries) /\ stale' \in BOOLEAN
           /\ listing' # <<>> /\ listing'[Len(listing')] = q
<1>1. listing \in Seq(Queries) /\ listing' = Append(listing, q)
  BY DEF PageTypeOK, Fetch
<1>2. stale' \in BOOLEAN
  BY DEF Fetch
<1> QED BY <1>1, <1>2, AppendProperties

(***************************************************************************)
(* The refs are set to q, within its pages, and the request is sent.       *)
(***************************************************************************)
LEMMA Turned ==
    ASSUME PageTypeOK, NEW q \in Queries, Turn(q), UNCHANGED counts,
           q.page <= Pages(q.status, q.size)
    PROVE  /\ query' \in Queries /\ listing' \in Seq(Queries) /\ stale' \in BOOLEAN
           /\ WithinSeen' /\ YoungestIsCurrent'
<1>1. query' = q /\ Fetch(q)
  BY DEF Turn
<1>2. /\ listing' \in Seq(Queries) /\ stale' \in BOOLEAN
      /\ listing' # <<>> /\ listing'[Len(listing')] = q
  BY <1>1, Asked
<1>3. WithinSeen'
  BY <1>1 DEF WithinSeen, pageCount, Pages
<1> QED BY <1>1, <1>2, <1>3 DEF YoungestIsCurrent

(***************************************************************************)
(* One of the requests is over.                                            *)
(***************************************************************************)
LEMMA Answered ==
    ASSUME PageTypeOK, NEW i \in 1 .. Len(listing), NEW ok \in BOOLEAN, ListAnswer(i, ok)
    PROVE  /\ listing' \in Seq(Queries) /\ stale' \in BOOLEAN
           /\ messages' \in Queries \union {NoMessages}
           /\ ~stale' => /\ ~stale /\ messages' = listing[1]
                         /\ Len(listing) = 1 => listing' = <<>>
                         /\ Len(listing) > 1 => /\ listing' # <<>>
                                                /\ listing'[Len(listing')] = listing[Len(listing)]
<1> DEFINE before == SubSeq(listing, 1, i - 1)
           after == SubSeq(listing, i + 1, Len(listing))
           n == Len(listing)
<1>1. listing \in Seq(Queries) /\ n \in Nat /\ listing' = before \o after
  BY DEF PageTypeOK, ListAnswer, RemoveAt
<1>2. \A j \in 1 .. n : listing[j] \in Queries
  BY <1>1, ElementOfSeq
<1>3. before \in Seq(Queries) /\ Len(before) = i - 1
  <2>1. \A j \in 1 .. i - 1 : listing[j] \in Queries
    BY <1>1, <1>2
  <2> QED BY <1>1, <2>1, SubSeqProperties
<1>4. /\ after \in Seq(Queries) /\ Len(after) = n - i
      /\ \A j \in 1 .. n - i : after[j] = listing[i + j]
  <2>1. \A j \in i + 1 .. n : listing[j] \in Queries
    BY <1>1, <1>2
  <2>2. /\ after \in Seq(Queries)
        /\ Len(after) = IF i + 1 <= n THEN n - (i + 1) + 1 ELSE 0
        /\ \A j \in 1 .. n - (i + 1) + 1 : after[j] = listing[(i + 1) + j - 1]
    BY <1>1, <2>1, SubSeqProperties
  <2> QED BY <1>1, <2>2
<1> HIDE DEF before, after
<1>5. /\ listing' \in Seq(Queries) /\ Len(listing') = n - 1
      /\ \A j \in 1 .. n - 1 : listing'[j] = IF j <= i - 1 THEN before[j] ELSE after[j - (i - 1)]
  <2>1. /\ before \o after \in Seq(Queries)
        /\ Len(before \o after) = Len(before) + Len(after)
        /\ \A j \in 1 .. Len(before) + Len(after) :
              (before \o after)[j] = IF j <= Len(before) THEN before[j]
                                                       ELSE after[j - Len(before)]
    BY <1>3, <1>4, ConcatProperties
  <2>2. Len(before) + Len(after) = n - 1
    BY <1>1, <1>3, <1>4
  <2> QED BY <1>1, <1>3, <2>1, <2>2
<1>6. stale' \in BOOLEAN /\ messages' \in Queries \union {NoMessages}
  BY <1>2 DEF PageTypeOK, ListAnswer
<1>7. ASSUME ~stale'
      PROVE  /\ ~stale /\ messages' = listing[1]
             /\ n = 1 => listing' = <<>>
             /\ n > 1 => /\ listing' # <<>>
                         /\ listing'[Len(listing')] = listing[n]
  <2>1. i = 1 /\ ok /\ ~stale /\ messages' = listing[1]
    <3>1. ~stale /\ ok /\ ~(i > 1) /\ messages' = listing[i]
      BY <1>7, Zenon DEF ListAnswer
    <3>2. i = 1
      BY <1>1, <3>1
    <3> QED BY <3>1, <3>2
  <2>2. n = 1 => listing' = <<>>
    BY <1>5, EmptySeq
  <2>3. ASSUME n > 1 PROVE listing' # <<>> /\ listing'[Len(listing')] = listing[n]
    <3> DEFINE m == n - 1
    <3>0. m \in 1 .. n - 1 /\ m \in 1 .. n - i /\ ~(m <= i - 1) /\ m - (i - 1) = m /\ i + m = n
      BY <1>1, <2>1, <2>3
    <3>1. Len(listing') = m /\ listing'[m] = after[m] /\ after[m] = listing[n]
      <4> HIDE DEF m
      <4>1. listing'[m] = after[m - (i - 1)]
        BY <1>5, <3>0
      <4>2. after[m] = listing[i + m]
        BY <1>4, <3>0
      <4>3. Len(listing') = n - 1
        BY <1>5
      <4> QED BY <3>0, <4>1, <4>2, <4>3 DEF m
    <3>2. Len(listing') # 0
      BY <1>1, <2>3, <3>1
    <3> QED BY <1>5, <3>1, <3>2, EmptySeq
  <2> QED BY <2>1, <2>2, <2>3
<1> QED BY <1>5, <1>6, <1>7

LEMMA PageStart == InitFrontend => PageIInv
<1> SUFFICES ASSUME InitFrontend PROVE PageIInv
  OBVIOUS
<1>1. ~mounted /\ ~stale /\ ~early /\ mounted \in BOOLEAN /\ stale \in BOOLEAN /\ early \in BOOLEAN
  BY Zenon DEF InitFrontend, InitPage
<1>2. counts \in [Statuses -> Nat]
  BY DEF InitFrontend, InitPolling
<1>3. query \in Queries /\ seen \in [status : Statuses, pages : Nat \ {0}] /\ routeStatus \in Statuses
  BY PageAssumption DEF InitFrontend, InitPage, Query, Queries
<1>4. listing \in Seq(Queries) /\ messages = NoMessages /\ selected = {}
  BY EmptySeq DEF InitFrontend, InitPage
<1> QED BY <1>1, <1>2, <1>3, <1>4
    DEF PageIInv, PageTypeOK, Fresh, WithinSeen, YoungestIsCurrent, SelectedUnderFilter

(***************************************************************************)
(* New counts find the watchers' work done, and leave them work to do if   *)
(* the number of pages has changed.                                        *)
(***************************************************************************)
LEMMA NewCountsKeep == PageIInv /\ NewCounts => PageIInv'
<1> SUFFICES ASSUME PageIInv, NewCounts PROVE PageIInv'
  OBVIOUS
<1>1. PageTypeOK'
  BY DEF NewCounts, PageIInv, PageTypeOK, pageVars, watchVars, listVars, choiceVars
<1>2. Fresh' /\ SelectedUnderFilter' /\ YoungestIsCurrent'
  BY DEF NewCounts, PageIInv, Fresh, SelectedUnderFilter, YoungestIsCurrent,
         pageVars, watchVars, listVars, choiceVars
<1>3. WithinSeen'
  <2>1. mounted => seen.pages = pageCount
    BY DEF NewCounts, Flushed
  <2> QED BY <2>1 DEF NewCounts, PageIInv, WithinSeen, pageVars, watchVars
<1> QED BY <1>1, <1>2, <1>3 DEF PageIInv

(***************************************************************************)
(* The actions that set the refs and ask anew.                             *)
(***************************************************************************)
LEMMA MountPageKeeps ==
    ASSUME PageIInv, UNCHANGED counts, NEW status \in Statuses, MountPage(status)
    PROVE  PageIInv'
<1> DEFINE q == Query(1, FirstSize, status)
<1>1. FirstSize \in Nat \ {0} /\ All \in Statuses
  BY PageAssumption
<1>2. q \in Queries /\ q.page = 1 /\ q.status = status /\ q.size = FirstSize
  BY <1>1 DEF Query, Queries
<1>3. Pages(status, FirstSize) \in Nat \ {0} /\ Pages(All, FirstSize) \in Nat \ {0}
  BY <1>1, PagesPositive DEF PageIInv
<1>4. Turn(q)
  BY DEF MountPage
<1> HIDE DEF q
<1>5. /\ query' \in Queries /\ listing' \in Seq(Queries) /\ stale' \in BOOLEAN
      /\ WithinSeen' /\ YoungestIsCurrent'
  BY <1>2, <1>3, <1>4, Turned DEF PageIInv
<1>6. /\ mounted' \in BOOLEAN /\ mounted' /\ routeStatus' \in Statuses
      /\ messages' = messages /\ selected' = selected /\ early' = early
      /\ selected = {} /\ ~early
  BY Zenon DEF MountPage, choiceVars, PageIInv, Fresh
<1>7. seen' \in [status : Statuses, pages : Nat \ {0}]
  BY <1>3 DEF MountPage
<1>8. PageTypeOK'
  BY <1>5, <1>6, <1>7 DEF PageIInv, PageTypeOK, NoMessages
<1> QED BY <1>5, <1>6, <1>8 DEF PageIInv, Fresh, SelectedUnderFilter

LEMMA WatchStatusKeeps ==
    ASSUME PageIInv, UNCHANGED counts, WatchStatus
    PROVE  PageIInv'
<1>1. PageTypeOK /\ mounted /\ mounted' = mounted /\ routeStatus' = routeStatus /\ messages' = messages
  BY Zenon DEF WatchStatus, PageIInv
<1>2. seen' \in [status : Statuses, pages : Nat \ {0}] /\ seen'.pages = seen.pages
  BY DEF WatchStatus, PageIInv, PageTypeOK
<1>3. CASE query.status # routeStatus
  <2> DEFINE q == Query(1, query.size, routeStatus)
  <2>1. q \in Queries /\ q.page = 1 /\ q.status \in Statuses /\ q.size \in Nat \ {0}
    BY <1>1 DEF PageTypeOK, Query, Queries
  <2>2. Turn(q) /\ selected' = {} /\ early' = FALSE
    BY <1>3 DEF WatchStatus, ForgetChoice
  <2> HIDE DEF q
  <2>3. Pages(q.status, q.size) \in Nat \ {0}
    BY <1>1, <2>1, PagesPositive
  <2>4. /\ query' \in Queries /\ listing' \in Seq(Queries) /\ stale' \in BOOLEAN
        /\ WithinSeen' /\ YoungestIsCurrent'
    BY <1>1, <2>1, <2>2, <2>3, Turned
  <2>5. PageTypeOK'
    BY <1>1, <1>2, <2>2, <2>4 DEF PageTypeOK, NoMessages
  <2> QED BY <1>1, <2>2, <2>4, <2>5 DEF PageIInv, Fresh, SelectedUnderFilter
<1>4. CASE query.status = routeStatus
  <2>1. /\ query' = query /\ listing' = listing /\ stale' = stale
        /\ selected' = selected /\ early' = early
    BY <1>4, Zenon DEF WatchStatus, listVars, choiceVars
  <2>2. PageTypeOK'
    BY <1>1, <1>2, <2>1 DEF PageTypeOK, NoMessages
  <2> QED BY <1>1, <1>2, <2>1, <2>2
      DEF PageIInv, Fresh, SelectedUnderFilter, WithinSeen, YoungestIsCurrent, pageCount, Pages
<1> QED BY <1>3, <1>4

LEMMA WatchPagesKeeps ==
    ASSUME PageIInv, UNCHANGED counts, WatchPages
    PROVE  PageIInv'
<1>1. /\ PageTypeOK /\ mounted /\ mounted' = mounted /\ routeStatus' = routeStatus
      /\ messages' = messages /\ selected' = selected /\ early' = early
  BY Zenon DEF WatchPages, PageIInv, choiceVars
<1>2. query \in Queries /\ query.status \in Statuses /\ query.size \in Nat \ {0} /\ query.page \in Nat \ {0}
  BY <1>1 DEF PageTypeOK, Queries
<1>3. pageCount \in Nat \ {0}
  BY <1>1, <1>2, PagesPositive DEF pageCount
<1>4. seen' \in [status : Statuses, pages : Nat \ {0}]
  BY <1>1, <1>3 DEF WatchPages, PageTypeOK
<1>5. CASE Beyond
  <2> DEFINE q == [query EXCEPT !.page = pageCount]
  <2>1. q \in Queries /\ q.page = pageCount /\ q.status = query.status /\ q.size = query.size
    BY <1>2, <1>3 DEF Queries
  <2>2. Turn(q)
    BY <1>5 DEF WatchPages
  <2>3. q.page <= Pages(q.status, q.size)
    BY <1>3, <2>1 DEF pageCount
  <2>4. query' = q
    BY <2>2 DEF Turn
  <2> HIDE DEF q
  <2>5. /\ query' \in Queries /\ listing' \in Seq(Queries) /\ stale' \in BOOLEAN
        /\ WithinSeen' /\ YoungestIsCurrent'
    BY <1>1, <2>1, <2>2, <2>3, Turned
  <2>6. PageTypeOK'
    BY <1>1, <1>4, <2>5 DEF PageTypeOK, NoMessages
  <2>7. Fresh' /\ SelectedUnderFilter'
    BY <1>1, <2>1, <2>4 DEF PageIInv, Fresh, SelectedUnderFilter
  <2> QED BY <2>5, <2>6, <2>7 DEF PageIInv
<1>6. CASE ~Beyond
  <2>1. query' = query /\ listing' = listing /\ stale' = stale
    BY <1>6, Zenon DEF WatchPages, listVars
  <2>2. PageTypeOK'
    BY <1>1, <1>4, <2>1 DEF PageTypeOK, NoMessages
  <2>3. WithinSeen'
    BY <1>2, <1>3, <1>6, <2>1 DEF WithinSeen, Beyond, pageCount, Pages
  <2> QED BY <1>1, <2>1, <2>2, <2>3 DEF PageIInv, Fresh, SelectedUnderFilter, YoungestIsCurrent
<1> QED BY <1>5, <1>6

LEMMA ChangePageKeeps ==
    ASSUME PageIInv, UNCHANGED counts, NEW page \in 1 .. pageCount, ChangePage(page)
    PROVE  PageIInv'
<1> DEFINE q == [query EXCEPT !.page = page]
<1>1. /\ PageTypeOK /\ mounted' = mounted /\ routeStatus' = routeStatus /\ seen' = seen
      /\ messages' = messages /\ selected' = selected /\ early' = early
  BY Zenon DEF ChangePage, PageIInv, choiceVars, watchVars
<1>2. query \in Queries /\ query.status \in Statuses /\ query.size \in Nat \ {0}
  BY <1>1 DEF PageTypeOK, Queries
<1>3. pageCount \in Nat \ {0}
  BY <1>1, <1>2, PagesPositive DEF pageCount
<1>4. q \in Queries /\ q.page = page /\ q.status = query.status /\ q.size = query.size
  BY <1>2, <1>3 DEF Queries
<1>5. Turn(q) /\ query' = q
  BY DEF ChangePage, Turn
<1>6. q.page <= Pages(q.status, q.size)
  BY <1>3, <1>4 DEF pageCount
<1> HIDE DEF q
<1>7. /\ query' \in Queries /\ listing' \in Seq(Queries) /\ stale' \in BOOLEAN
      /\ WithinSeen' /\ YoungestIsCurrent'
  BY <1>1, <1>4, <1>5, <1>6, Turned
<1>8. PageTypeOK'
  BY <1>1, <1>7 DEF PageTypeOK, NoMessages
<1>9. Fresh' /\ SelectedUnderFilter'
  BY <1>1, <1>4, <1>5 DEF PageIInv, Fresh, SelectedUnderFilter
<1> QED BY <1>7, <1>8, <1>9 DEF PageIInv

LEMMA ChangePageSizeKeeps ==
    ASSUME PageIInv, UNCHANGED counts, NEW size \in PageSizes, ChangePageSize(size)
    PROVE  PageIInv'
<1> DEFINE q == Query(1, size, query.status)
<1>1. /\ PageTypeOK /\ mounted' = mounted /\ routeStatus' = routeStatus /\ seen' = seen
      /\ messages' = messages /\ selected' = selected /\ early' = early
  BY Zenon DEF ChangePageSize, PageIInv, choiceVars, watchVars
<1>2. query \in Queries /\ query.status \in Statuses /\ size \in Nat \ {0}
  BY <1>1, PageAssumption DEF PageTypeOK, Queries
<1>3. q \in Queries /\ q.page = 1 /\ q.status = query.status /\ q.size = size
  BY <1>2 DEF Queries, Query
<1>4. Turn(q) /\ query' = q
  BY DEF ChangePageSize, Turn
<1>5. q.page <= Pages(q.status, q.size)
  BY <1>1, <1>2, <1>3, PagesPositive
<1> HIDE DEF q
<1>6. /\ query' \in Queries /\ listing' \in Seq(Queries) /\ stale' \in BOOLEAN
      /\ WithinSeen' /\ YoungestIsCurrent'
  BY <1>1, <1>3, <1>4, <1>5, Turned
<1>7. PageTypeOK'
  BY <1>1, <1>6 DEF PageTypeOK, NoMessages
<1>8. Fresh' /\ SelectedUnderFilter'
  BY <1>1, <1>3, <1>4 DEF PageIInv, Fresh, SelectedUnderFilter
<1> QED BY <1>6, <1>7, <1>8 DEF PageIInv

(***************************************************************************)
(* The answers, in whatever order they arrive.                             *)
(***************************************************************************)
LEMMA ListAnswerKeeps ==
    ASSUME PageIInv, UNCHANGED counts, NEW i \in 1 .. Len(listing), NEW ok \in BOOLEAN,
           ListAnswer(i, ok)
    PROVE  PageIInv'
<1>1. /\ PageTypeOK /\ mounted' = mounted /\ routeStatus' = routeStatus /\ seen' = seen
      /\ query' = query /\ selected' = selected /\ early' = early
  BY Zenon DEF ListAnswer, PageIInv, choiceVars, watchVars
<1>2. /\ listing' \in Seq(Queries) /\ stale' \in BOOLEAN
      /\ messages' \in Queries \union {NoMessages}
      /\ ~stale' => /\ ~stale /\ messages' = listing[1]
                    /\ Len(listing) = 1 => listing' = <<>>
                    /\ Len(listing) > 1 => /\ listing' # <<>>
                                           /\ listing'[Len(listing')] = listing[Len(listing)]
  BY <1>1, Answered
<1>3. PageTypeOK'
  BY <1>1, <1>2 DEF PageTypeOK, NoMessages
<1>4. Fresh' /\ SelectedUnderFilter' /\ WithinSeen'
  BY <1>1 DEF PageIInv, Fresh, SelectedUnderFilter, WithinSeen, pageCount, Pages
<1>5. YoungestIsCurrent'
  <2> SUFFICES ASSUME mounted', ~stale'
               PROVE  IF listing' = <<>> THEN messages' = query'
                      ELSE listing'[Len(listing')] = query'
    BY DEF YoungestIsCurrent
  <2>1. Len(listing) \in Nat /\ Len(listing) >= 1
    BY <1>1 DEF PageTypeOK
  <2>2. listing # <<>>
    BY <2>1
  <2>3. listing[Len(listing)] = query
    BY <1>1, <1>2, <2>2 DEF PageIInv, YoungestIsCurrent
  <2>4. CASE Len(listing) = 1
    BY <1>1, <1>2, <2>3, <2>4
  <2>5. CASE Len(listing) > 1
    BY <1>1, <1>2, <2>3, <2>5
  <2>6. Len(listing) = 1 \/ Len(listing) > 1
    <3>1. \A n \in Nat : n >= 1 => n = 1 \/ n > 1
      OBVIOUS
    <3> QED BY <2>1, <3>1
  <2> QED BY <2>4, <2>5, <2>6
<1> QED BY <1>3, <1>4, <1>5 DEF PageIInv

LEMMA DeleteAnswerKeeps ==
    ASSUME PageIInv, UNCHANGED counts, NEW ok \in BOOLEAN, DeleteAnswer(ok)
    PROVE  PageIInv'
<1>1. /\ PageTypeOK /\ mounted' = mounted /\ routeStatus' = routeStatus /\ seen' = seen
      /\ query' = query /\ messages' = messages
  BY Zenon DEF DeleteAnswer, PageIInv, watchVars
<1>2. query \in Queries
  BY <1>1 DEF PageTypeOK
<1>3. /\ listing' \in Seq(Queries) /\ stale' \in BOOLEAN
      /\ YoungestIsCurrent'
  <2>1. CASE Fetch(query)
    BY <1>1, <1>2, <2>1, Asked DEF YoungestIsCurrent
  <2>2. CASE UNCHANGED listVars
    BY <1>1, <2>2 DEF listVars, PageIInv, PageTypeOK, YoungestIsCurrent
  <2> QED BY <2>1, <2>2 DEF DeleteAnswer
<1>4. \/ selected' = {} /\ ~early' /\ early' \in BOOLEAN
      \/ selected' = selected /\ early' = early
  BY Zenon DEF DeleteAnswer, ForgetChoice, choiceVars
<1>5. PageTypeOK'
  BY <1>1, <1>3, <1>4 DEF PageTypeOK, NoMessages
<1>6. Fresh' /\ SelectedUnderFilter' /\ WithinSeen'
  BY <1>1, <1>4 DEF PageIInv, Fresh, SelectedUnderFilter, WithinSeen, pageCount, Pages
<1> QED BY <1>3, <1>5, <1>6 DEF PageIInv

(***************************************************************************)
(* Check boxes, and leaving the page.                                      *)
(***************************************************************************)
LEMMA SelectKeeps ==
    ASSUME PageIInv, UNCHANGED counts, mounted, Select
    PROVE  PageIInv'
<1>1. /\ PageTypeOK /\ mounted' = mounted /\ routeStatus' = routeStatus /\ seen' = seen
      /\ query' = query /\ messages' = messages /\ listing' = listing /\ stale' = stale
  BY Zenon DEF Select, PageIInv, watchVars, listVars
<1>2. messages.status \in Statuses
  BY <1>1 DEF Select, PageTypeOK, Queries
<1>3. early' \in BOOLEAN
  BY Zenon DEF Select
<1>4. selected' \subseteq selected \union {messages.status}
  BY DEF Select
<1>5. ~early' => selected' = {} \/ (~early /\ messages.status = query.status)
  BY Zenon DEF Select
<1>6. PageTypeOK'
  BY <1>1, <1>2, <1>3, <1>4 DEF PageTypeOK, NoMessages
<1>7. SelectedUnderFilter'
  BY <1>1, <1>4, <1>5 DEF PageIInv, SelectedUnderFilter
<1>8. Fresh' /\ WithinSeen' /\ YoungestIsCurrent'
  BY <1>1 DEF PageIInv, Fresh, WithinSeen, YoungestIsCurrent, pageCount, Pages
<1> QED BY <1>6, <1>7, <1>8 DEF PageIInv

LEMMA UnmountPageKeeps ==
    ASSUME PageIInv, UNCHANGED counts, UnmountPage
    PROVE  PageIInv'
<1>1. ~mounted' /\ ~stale' /\ ~early' /\ mounted' \in BOOLEAN /\ stale' \in BOOLEAN /\ early' \in BOOLEAN
  BY Zenon DEF UnmountPage, FreshPage
<1>2. query' \in Queries /\ seen' \in [status : Statuses, pages : Nat \ {0}] /\ routeStatus' \in Statuses
  BY PageAssumption DEF UnmountPage, FreshPage, Query, Queries
<1>3. listing' = <<>> /\ messages' = NoMessages /\ selected' = {}
  BY DEF UnmountPage, FreshPage
<1>4. PageTypeOK'
  BY <1>1, <1>2, <1>3, EmptySeq DEF PageIInv, PageTypeOK, NoMessages
<1> QED BY <1>1, <1>3, <1>4
    DEF PageIInv, Fresh, WithinSeen, YoungestIsCurrent, SelectedUnderFilter

\* The rest touches none of the variables of the invariant but the route.
LEMMA OthersKeep ==
    ASSUME PageIInv, UNCHANGED counts,
           \/ \E status \in Statuses : ChangeStatus(status)
           \/ \E what \in {"selected", "one"} : Delete(what)
           \/ Dialog
           \/ UNCHANGED pageVars
    PROVE  PageIInv'
<1>1. /\ mounted' = mounted /\ routeStatus' \in {routeStatus} \union Statuses /\ seen' = seen
      /\ query' = query /\ messages' = messages /\ listing' = listing /\ stale' = stale
      /\ selected' = selected /\ early' = early
  BY DEF ChangeStatus, Delete, Dialog, pageVars, watchVars, listVars, choiceVars
<1>2. PageTypeOK'
  BY <1>1 DEF PageIInv, PageTypeOK, NoMessages
<1> QED BY <1>1, <1>2
    DEF PageIInv, Fresh, WithinSeen, YoungestIsCurrent, SelectedUnderFilter, pageCount, Pages

LEMMA PageInductive == SpecFrontend => []PageIInv
<1>1. PageIInv /\ [NextFrontend]_frontVars => PageIInv'
  <2> SUFFICES ASSUME PageIInv, PageStep PROVE PageIInv'
    BY PagePart, NewCountsKeep
  <2>1. UNCHANGED counts
    BY DEF PageStep
  <2>2. ASSUME NEW status \in Statuses, MountPage(status) PROVE PageIInv'
    BY <2>1, <2>2, MountPageKeeps
  <2>3. CASE WatchStatus
    BY <2>1, <2>3, WatchStatusKeeps
  <2>4. CASE WatchPages
    BY <2>1, <2>4, WatchPagesKeeps
  <2>5. ASSUME NEW page \in 1 .. pageCount, ChangePage(page) PROVE PageIInv'
    BY <2>1, <2>5, ChangePageKeeps
  <2>6. ASSUME NEW size \in PageSizes, ChangePageSize(size) PROVE PageIInv'
    BY <2>1, <2>6, ChangePageSizeKeeps
  <2>7. ASSUME NEW i \in 1 .. Len(listing), NEW ok \in BOOLEAN, ListAnswer(i, ok) PROVE PageIInv'
    BY <2>1, <2>7, ListAnswerKeeps
  <2>8. ASSUME NEW ok \in BOOLEAN, DeleteAnswer(ok) PROVE PageIInv'
    BY <2>1, <2>8, DeleteAnswerKeeps
  <2>9. CASE mounted /\ Select
    BY <2>1, <2>9, SelectKeeps
  <2>10. CASE UnmountPage
    BY <2>1, <2>10, UnmountPageKeeps
  <2>11. CASE \/ \E status \in Statuses : ChangeStatus(status)
              \/ \E what \in {"selected", "one"} : Delete(what)
              \/ Dialog
              \/ UNCHANGED pageVars
    BY <2>1, <2>11, OthersKeep
  <2> QED BY <2>2, <2>3, <2>4, <2>5, <2>6, <2>7, <2>8, <2>9, <2>10, <2>11 DEF PageStep
<1> QED BY <1>1, PageStart, PTL DEF SpecFrontend

(***************************************************************************)
(* Whatever polls, filters, sizes and answers come, the page index is one  *)
(* of the pages there are, and the range it names is not empty.            *)
(***************************************************************************)
THEOREM PagesInRange == SpecFrontend => []PageInRange
<1>1. PageIInv => PageInRange
  <2> SUFFICES ASSUME PageIInv, mounted, Flushed
               PROVE  /\ query.page \in 1 .. pageCount
                      /\ counts[query.status] > 0 => pageRange.from <= pageRange.to
    BY DEF PageInRange
  <2> DEFINE n == counts[query.status]
             page == query.page
             size == query.size
  <2>1. page \in Nat \ {0} /\ size \in Nat \ {0} /\ n \in Nat
    BY DEF PageIInv, PageTypeOK, Queries
  <2>2. page <= pageCount
    BY DEF PageIInv, WithinSeen, Flushed
  <2>3. pageCount \in Nat
    BY <2>1, PagesPositive DEF PageIInv, PageTypeOK, Queries, pageCount
  <2>4. ASSUME n > 0 PROVE pageRange.from <= pageRange.to
    <3>1. pageCount = (n + size - 1) \div size \/ page <= 1
      BY <2>2 DEF pageCount, Pages
    <3>2. page = 1 \/ page <= (n + size - 1) \div size
      BY <2>1, <2>2, <3>1
    <3>3. (page - 1) * size + 1 <= n
      <4> HIDE DEF n, page, size
      <4>1. CASE page = 1
        BY <2>1, <2>4, <4>1
      <4>2. CASE page <= (n + size - 1) \div size
        BY <2>1, <2>4, <4>2, PagesCover
      <4> QED BY <3>2, <4>1, <4>2
    <3>4. (page - 1) * size + 1 <= page * size
      <4> HIDE DEF n, page, size
      <4> QED BY <2>1
    <3> QED BY <3>3, <3>4 DEF pageRange
  <2> QED BY <2>1, <2>2, <2>3, <2>4
<1> QED BY <1>1, PageInductive, PTL

(***************************************************************************)
(* When every request was answered in order, the list is the one that the  *)
(* page's index, size and filter ask for.                                  *)
(***************************************************************************)
THEOREM ListsCurrent == SpecFrontend => []ListIsCurrent
<1>1. PageIInv => ListIsCurrent
  BY DEF PageIInv, YoungestIsCurrent, ListIsCurrent
<1> QED BY <1>1, PageInductive, PTL

(***************************************************************************)
(* No filter change lets a selection of another filter survive.            *)
(***************************************************************************)
THEOREM SelectionsOfFilter == SpecFrontend => []SelectionOfFilter
<1>1. PageIInv => SelectionOfFilter
  BY DEF PageIInv, SelectedUnderFilter, SelectionOfFilter
<1> QED BY <1>1, PageInductive, PTL

(***************************************************************************)
(* The tab of an error is left when the dialog is opened for a message,    *)
(* so that it is never shown for one without.                              *)
(***************************************************************************)
THEOREM TabsExist == SpecFrontend => []TabExists
<1> DEFINE TabIInv == dialog \in [open : BOOLEAN, tab : {"details", "error"}, error : BOOLEAN]
                      /\ TabExists
<1>1. InitFrontend => TabIInv
  BY DEF InitFrontend, InitPage, NoDialog, TabExists
<1>2. TabIInv /\ [NextFrontend]_frontVars => TabIInv'
  <2> SUFFICES ASSUME TabIInv, [NextFrontend]_frontVars PROVE TabIInv'
    OBVIOUS
  <2>1. CASE Dialog
    <3>1. CASE \E error \in BOOLEAN : dialog' = View(error)
      BY <3>1 DEF View, TabExists
    <3>2. CASE dialog.open /\ \E tab \in {"details"} \cup (IF dialog.error THEN {"error"} ELSE {}) :
                                dialog' = [dialog EXCEPT !.tab = tab]
      <4>1. PICK tab \in {"details", "error"} :
                /\ tab = "error" => dialog.error
                /\ dialog' = [dialog EXCEPT !.tab = tab]
        BY <3>2
      <4>2. dialog'.open = dialog.open /\ dialog'.tab = tab /\ dialog'.error = dialog.error
        BY <4>1
      <4>3. dialog' \in [open : BOOLEAN, tab : {"details", "error"}, error : BOOLEAN]
        BY <4>1
      <4> QED BY <4>1, <4>2, <4>3 DEF TabExists
    <3>3. CASE dialog' = [dialog EXCEPT !.open = FALSE, !.error = FALSE]
      BY <3>3 DEF TabExists
    <3> QED BY <2>1, <3>1, <3>2, <3>3 DEF Dialog
  <2>2. CASE UNCHANGED dialog
    BY <2>2 DEF TabExists
  <2>3. CASE UnmountPage
    BY <2>3 DEF UnmountPage, FreshPage, NoDialog, TabExists
  <2>4. UNCHANGED dialog \/ Dialog \/ UnmountPage
    <3>1. CASE PageStep
      BY <3>1 DEF PageStep, MountPage, ChangeStatus, WatchStatus, WatchPages, ChangePage,
                  ChangePageSize, ListAnswer, Delete, DeleteAnswer, Select, pageVars
    <3>2. CASE NewCounts
      BY <3>2 DEF NewCounts, pageVars
    <3> QED BY <3>1, <3>2, PagePart
  <2> QED BY <2>1, <2>2, <2>3, <2>4
<1> QED BY <1>1, <1>2, PTL DEF SpecFrontend

-----------------------------------------------------------------------------

\* formatDelayTime names each unit that is not zero, and no other unless the
\* delay is below one second.
DelayShown(s) ==
    LET parts == DelayParts(s)
        value(u) == IF u \in DelayUnits(s) THEN parts[u] ELSE 0
    IN  3600 * value("hours") + 60 * value("minutes") + value("seconds")

(***************************************************************************)
(* The parts of a delay that the dialog shows add up to the delay: no unit *)
(* that it leaves out stands for any time.                                 *)
(***************************************************************************)
THEOREM DelayAddsUp == \A s \in Nat : DelayShown(s) = s
<1> SUFFICES ASSUME NEW s \in Nat PROVE DelayShown(s) = s
  OBVIOUS
<1> DEFINE h == s \div 3600
           m == (s % 3600) \div 60
           r == s % 60
<1>1. h \in Nat /\ m \in Nat /\ r \in Nat /\ s = 3600 * h + 60 * m + r
  OBVIOUS
<1>2. /\ DelayParts(s).hours = h /\ DelayParts(s).minutes = m /\ DelayParts(s).seconds = r
      /\ DelayParts(s)["hours"] = h /\ DelayParts(s)["minutes"] = m /\ DelayParts(s)["seconds"] = r
  BY DEF DelayParts
<1> HIDE DEF h, m, r
<1>3. "hours" \notin DelayUnits(s) => h = 0
  BY <1>1, <1>2 DEF DelayUnits
<1>4. "minutes" \notin DelayUnits(s) => m = 0
  BY <1>1, <1>2 DEF DelayUnits
<1>5. "seconds" \notin DelayUnits(s) => r = 0
  BY <1>1, <1>2 DEF DelayUnits
<1> QED BY <1>1, <1>2, <1>3, <1>4, <1>5 DEF DelayShown

=============================================================================
