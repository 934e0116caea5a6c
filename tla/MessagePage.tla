---------------------------- MODULE MessagePage ----------------------------
(***************************************************************************)
(* The dashboard's message page (pages/Message.vue): the filter by status  *)
(* in the route, the pagination over the counts of the store, the requests *)
(* for a page of messages, the selection, the deletion of messages and the *)
(* dialog with the details of one.                                         *)
(*                                                                         *)
(* A list of messages is the query it answers.  Of the selected messages   *)
(* there is the status of the lists in which they were selected, and of    *)
(* the message in the dialog whether it has an errorInfo.  The two         *)
(* watchers run before anything else happens; each remembers the value it  *)
(* saw last.                                                               *)
(***************************************************************************)
EXTENDS StatsPolling, Toasts, FiniteSets, SequencesExt

CONSTANTS
    All,        \* the filter null
    PageSizes,  \* pageSizeOptions
    FirstSize   \* the page size at first, 20

ASSUME PageAssumption ==
    All \in Statuses /\ PageSizes \subseteq Nat \ {0} /\ FirstSize \in PageSizes

VARIABLES
    mounted,        \* whether the page is mounted
    routeStatus,    \* the status in the route, All if there is none
    query,          \* pageIndex, pageSize and selectedStatus
    seen,           \* the values that watch(routeStatus) and watch(pageCount)
                    \* saw last
    listing,        \* the queries of the list requests under way, oldest first
    messages,       \* the query that the list on the page answers
    selected,       \* the statuses of the lists where messages were selected
    dialog,         \* dialogVisible, activeTab, selectedMessage.errorInfo
    deleting,       \* the delete request under way
    stale,          \* history: since the last time no list request was under
                    \* way, one failed or was overtaken by a younger one
    early           \* history: something was selected in a list of another
                    \* status than the filter's

watchVars == <<mounted, routeStatus, seen>>
listVars == <<listing, stale>>
choiceVars == <<selected, early>>
pageVars == <<watchVars, query, listVars, messages, choiceVars, dialog, deleting>>

Query(page, size, status) == [page |-> page, size |-> size, status |-> status]
NoMessages == Query(0, 0, All)
NoDialog == [open |-> FALSE, tab |-> "details", error |-> FALSE]

\* pageCount, at least 1.
Pages(status, size) ==
    LET n == (counts[status] + size - 1) \div size
    IN  IF n = 0 THEN 1 ELSE n
pageCount == Pages(query.status, query.size)

\* pageRangeText, of no use while there are no messages.
pageRange ==
    LET last == query.page * query.size
    IN  [from |-> (query.page - 1) * query.size + 1,
         to   |-> IF last < counts[query.status] THEN last ELSE counts[query.status]]

\* formatDelayTime: the parts of a delay in seconds, and the units it shows.
DelayParts(s) == [hours |-> s \div 3600, minutes |-> (s % 3600) \div 60, seconds |-> s % 60]
DelayUnits(s) ==
    LET parts == DelayParts(s)
        some(units) == {u \in units : parts[u] > 0}
    IN  IF parts.hours > 0 THEN {"hours"} \cup some({"minutes", "seconds"})
        ELSE IF parts.minutes > 0 THEN {"minutes"} \cup some({"seconds"})
        ELSE {"seconds"}

\* The watchers have run.
Flushed == mounted => seen = [status |-> routeStatus, pages |-> pageCount]

\* The refs as setup leaves them.
FreshPage ==
    /\ query' = Query(1, FirstSize, All)
    /\ messages' = NoMessages /\ selected' = {} /\ early' = FALSE /\ dialog' = NoDialog

InitPage ==
    /\ mounted = FALSE /\ routeStatus = All /\ seen = [status |-> All, pages |-> 1]
    /\ query = Query(1, FirstSize, All) /\ listing = <<>> /\ stale = FALSE
    /\ messages = NoMessages /\ selected = {} /\ early = FALSE
    /\ dialog = NoDialog /\ deleting = "none"

\* Mistake: the request is sent before the refs are set.
FetchBefore(q) ==
    /\ listing' = Append(listing, query)
    /\ stale' = (listing # <<>> /\ stale)

\* fetchMessages up to its await.
Fetch(q) ==
    /\ listing' = Append(listing, q)
    /\ stale' = (listing # <<>> /\ stale)

Turn(q) == query' = q /\ Fetch(q)

-----------------------------------------------------------------------------

\* The route leads here: setup, onMounted, and the first request.
MountPage(status) ==
    /\ ~mounted /\ mounted' = TRUE
    /\ routeStatus' = status
    /\ seen' = [status |-> status, pages |-> Pages(All, FirstSize)]
    /\ Turn(Query(1, FirstSize, status))
    /\ UNCHANGED <<messages, choiceVars, dialog, deleting>>

\* The route leads elsewhere.  What is under way goes on for a page that is
\* gone, and so does the request that watch(routeStatus) may still send; of
\* that only the toast of a deletion can be seen.
UnmountPage ==
    /\ mounted /\ mounted' = FALSE
    /\ routeStatus' = All /\ seen' = [status |-> All, pages |-> 1]
    /\ FreshPage
    /\ listing' = <<>> /\ stale' = FALSE
    /\ deleting' = IF deleting = "none" THEN "none" ELSE "gone"

\* handleStatusChange, or the browser's history: the status is in the route.
ChangeStatus(status) ==
    /\ mounted /\ status # routeStatus
    /\ routeStatus' = status
    /\ UNCHANGED <<mounted, seen, query, listVars, messages, choiceVars, dialog, deleting>>

\* Mistake: what was selected stays selected.
ForgetChoiceNot == UNCHANGED choiceVars

ForgetChoice == selected' = {} /\ early' = FALSE

\* watch(routeStatus)
WatchStatus ==
    /\ mounted /\ seen.status # routeStatus
    /\ seen' = [seen EXCEPT !.status = routeStatus]
    /\ IF query.status # routeStatus
         THEN Turn(Query(1, query.size, routeStatus)) /\ ForgetChoice
         ELSE UNCHANGED <<query, listVars, choiceVars>>
    /\ UNCHANGED <<mounted, routeStatus, messages, dialog, deleting>>

\* Mistake: only an empty list brings the page back.
BeyondEmpty == query.page > pageCount /\ counts[query.status] = 0

Beyond == query.page > pageCount

\* watch(pageCount)
WatchPages ==
    /\ mounted /\ seen.pages # pageCount
    /\ seen' = [seen EXCEPT !.pages = pageCount]
    /\ IF Beyond THEN Turn([query EXCEPT !.page = pageCount])
                 ELSE UNCHANGED <<query, listVars>>
    /\ UNCHANGED <<mounted, routeStatus, messages, choiceVars, dialog, deleting>>

-----------------------------------------------------------------------------

\* The pagination offers the pages there are; handlePageIndexChange.
ChangePage(page) ==
    /\ page \in 1 .. pageCount \ {query.page}
    /\ Turn([query EXCEPT !.page = page])
    /\ UNCHANGED <<watchVars, messages, choiceVars, dialog, deleting>>

\* The page size is set, then handlePageSizeChange runs.
ChangePageSize(size) ==
    /\ size # query.size
    /\ Turn(Query(1, size, query.status))
    /\ UNCHANGED <<watchVars, messages, choiceVars, dialog, deleting>>

\* A list arrives, or a failure; nothing checks that it is the latest one.
ListAnswer(i, ok) ==
    /\ i \in 1 .. Len(listing)
    /\ listing' = RemoveAt(listing, i)
    /\ messages' = IF ok THEN listing[i] ELSE messages
    /\ stale' = (stale \/ ~ok \/ i > 1)
    /\ UNCHANGED <<watchVars, query, choiceVars, dialog, deleting>>

\* The check boxes of the table.
Select ==
    /\ messages # NoMessages
    /\ selected' \in {selected \cup {messages.status}, selected \ {messages.status}}
    /\ early' = (selected' # {} /\ (early \/ messages.status # query.status))
    /\ UNCHANGED <<watchVars, query, listVars, messages, dialog, deleting>>

\* handleDelete and handleDeleteOne up to their awaits.  BOUND: one at a time.
Delete(what) ==
    /\ deleting = "none"
    /\ IF what = "selected" THEN selected # {} ELSE messages # NoMessages
    /\ deleting' = what
    /\ UNCHANGED <<watchVars, query, listVars, messages, choiceVars, dialog>>

\* The answer: a toast, a new list of the page as it is now, and no selection.
DeleteAnswer(ok) ==
    /\ deleting # "none" /\ deleting' = "none"
    /\ CreateToast
    /\ IF ok /\ deleting # "gone" THEN Fetch(query) ELSE UNCHANGED listVars
    /\ IF ok /\ deleting = "selected" THEN ForgetChoice ELSE UNCHANGED choiceVars
    /\ UNCHANGED <<watchVars, query, messages, dialog>>

\* handleView
View(error) == [open |-> TRUE, tab |-> "details", error |-> error]

\* The dialog is opened, turned to a tab that it has, or closed.
Dialog ==
    /\ \/ ~dialog.open /\ messages # NoMessages /\ \E error \in BOOLEAN : dialog' = View(error)
       \/ /\ dialog.open
          /\ \E tab \in {"details"} \cup (IF dialog.error THEN {"error"} ELSE {}) :
                dialog' = [dialog EXCEPT !.tab = tab]
       \/ dialog.open /\ dialog' = [dialog EXCEPT !.open = FALSE, !.error = FALSE]
    /\ UNCHANGED <<watchVars, query, listVars, messages, choiceVars, deleting>>

-----------------------------------------------------------------------------

(***************************************************************************)
(* The page index stays within the pages there are, although every poll    *)
(* may change their number and the status and the size may change too: the *)
(* range of messages that the page names is not empty unless the list is.  *)
(***************************************************************************)
PageInRange ==
    mounted /\ Flushed =>
        /\ query.page \in 1 .. pageCount
        /\ counts[query.status] > 0 => pageRange.from <= pageRange.to

(***************************************************************************)
(* The list on the page answers the page, size and status it shows, when   *)
(* nothing is under way and the answers came in order and none failed:     *)
(* every change of the three, by whatever handler or watcher, asks anew.   *)
(***************************************************************************)
ListIsCurrent == mounted /\ Flushed /\ listing = <<>> /\ ~stale => messages = query

(***************************************************************************)
(* What is deleted was selected under the filter that the page shows,      *)
(* unless it was selected before the list of a new filter had arrived: a   *)
(* change of the filter, by the list or by the history, drops the rest.    *)
(***************************************************************************)
SelectionOfFilter == mounted /\ Flushed /\ ~early => selected \subseteq {query.status}

(***************************************************************************)
(* The dialog never stands on the tab of an error that the message does    *)
(* not have, whichever message was viewed before.                          *)
(***************************************************************************)
TabExists == dialog.open /\ dialog.tab = "error" => dialog.error
=============================================================================
