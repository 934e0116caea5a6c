----------------------------- MODULE ListPages -----------------------------
(***************************************************************************)
(* The dashboard's server page and queue page (pages/Server.vue,           *)
(* pages/Queue.vue), the requests of apis/index.ts that load their lists,  *)
(* and the heartbeats that the server page judges.                         *)
(*                                                                         *)
(* Time passes in ticks of 5 s, the period of the server page's interval;  *)
(* a time below a tick is rounded.  Ages stop at MaxAge.  The server's     *)
(* clock and the browser's agree.  What the queue page lists is left out,  *)
(* nothing on that page depends on it.                                     *)
(***************************************************************************)
EXTENDS Integers, FiniteSets

CONSTANTS
    Servers,        \* the server processes; a restart is another server
    BeatTicks,      \* the ticks between two heartbeats, 4
    OfflineTicks,   \* a server is offline after more than so many, 6
    TimeoutTicks,   \* the timeout of axios, 2
    MaxAge          \* BOUND: where ages stop; nodes are removed at this age

ASSUME ListAssumption ==
    /\ {BeatTicks, OfflineTicks, TimeoutTicks, MaxAge} \subseteq Nat \ {0}
    /\ BeatTicks <= OfflineTicks /\ OfflineTicks + TimeoutTicks < MaxAge

VARIABLES
    process,    \* per server: "new", "up" while its heartbeat goes on, or "down"
    silent,     \* per server: the age of its last heartbeat
    nodes,      \* ServerNodes: the servers that have a heartbeat in Redis
    page,       \* the page that is mounted
    due,        \* whether the callback of setInterval is due
    requests,   \* the requests of that page that are under way
    loading,    \* loading of both pages, loadingConsumers, by list
    servers,    \* the age of the heartbeats in the list shown, by server
    listAge,    \* how long ago Redis was read for that list
    chips       \* what the page shows of each server since it was last rendered

registryVars == <<process, silent, nodes>>
browserVars == <<page, due, requests, loading, servers, listAge, chips>>
listVars == <<registryVars, browserVars>>

Lists == {"queues", "consumers", "servers"}
ListsOf == [queue |-> {"queues", "consumers"}, server |-> {"servers"}, elsewhere |-> {}]
Absent == -1
NoServers == [s \in Servers |-> Absent]
Nothing == [s \in Servers |-> "absent"]

Older(a) == IF a = Absent \/ a = MaxAge THEN a ELSE a + 1

InitLists ==
    /\ process = [s \in Servers |-> "new"] /\ silent = [s \in Servers |-> 0] /\ nodes = {}
    /\ page = "elsewhere" /\ due = FALSE /\ requests = {}
    /\ loading = [l \in Lists |-> FALSE]
    /\ servers = NoServers /\ listAge = 0 /\ chips = Nothing

-----------------------------------------------------------------------------

\* The heartbeat of a server, every 20 s.
Beat(s) ==
    /\ process[s] = "new" \/ (process[s] = "up" /\ silent[s] >= BeatTicks)
    /\ process' = [process EXCEPT ![s] = "up"]
    /\ silent' = [silent EXCEPT ![s] = 0]
    /\ nodes' = nodes \cup {s}
    /\ UNCHANGED browserVars

\* The process ends, or an exception ends its heartbeat.
Fall(s) ==
    /\ process[s] = "up"
    /\ process' = [process EXCEPT ![s] = "down"]
    /\ UNCHANGED <<silent, nodes, browserVars>>

\* Another server removes the node.
Forget(s) ==
    /\ s \in nodes /\ silent[s] = MaxAge
    /\ nodes' = nodes \ {s}
    /\ UNCHANGED <<process, silent, browserVars>>

-----------------------------------------------------------------------------

\* Mistake: offline as soon as the next heartbeat could be there.
OfflineTight(a) == a >= BeatTicks

Offline(a) == a > OfflineTicks

\* getServerStatus, for each row when the table is rendered.
Status(list) ==
    [s \in Servers |-> CASE list[s] = Absent -> "absent"
                         [] list[s] # Absent /\ Offline(list[s]) -> "offline"
                         [] list[s] # Absent /\ ~Offline(list[s]) -> "online"]

\* Mistake: the status is computed when the list arrives.
RenderNot(flips) == UNCHANGED chips

\* Vue renders the table when its property loading has changed.
Render(flips) == IF flips THEN chips' = Status(servers) ELSE UNCHANGED chips

\* A request as apis/index.ts sends it.
Request(l) == [list |-> l, age |-> 0, served |-> FALSE, since |-> 0, beats |-> NoServers]

\* The router shows a page: its refs are new, and onMounted calls loadQueues and
\* loadConsumers, or loadServers and setInterval.  onUnmounted has cleared the
\* interval of the page before; what that had under way goes unseen.
Open(p) ==
    /\ p # page /\ page' = p /\ due' = FALSE
    /\ loading' = [l \in Lists |-> l \in ListsOf[p]]
    /\ requests' = {Request(l) : l \in ListsOf[p]}
    /\ servers' = NoServers /\ listAge' = 0 /\ chips' = Nothing
    /\ UNCHANGED registryVars

\* The interval calls loadServers, which does not wait for earlier answers.
Refresh ==
    /\ due /\ due' = FALSE
    /\ loading' = [loading EXCEPT !["servers"] = TRUE]
    /\ requests' = requests \cup {Request("servers")}
    /\ Render(~loading["servers"])
    /\ UNCHANGED <<registryVars, page, servers, listAge>>

\* RouteActionProvider reads Redis.
ServeList(r) ==
    /\ ~r.served
    /\ requests' = (requests \ {r}) \cup
          {[r EXCEPT !.served = TRUE,
                     !.beats = [s \in Servers |-> IF r.list = "servers" /\ s \in nodes
                                                    THEN silent[s] ELSE Absent]]}
    /\ UNCHANGED <<registryVars, page, due, loading, servers, listAge, chips>>

\* Mistake: only an answer ends loading.
SettledByAnswer(l, ok) == IF ok THEN loading' = [loading EXCEPT ![l] = FALSE] ELSE UNCHANGED loading

\* finally
Settled(l, ok) == loading' = [loading EXCEPT ![l] = FALSE]

\* The answer: the list is shown, although a later one may have arrived before.
ListArrives(r) ==
    /\ r.served
    /\ requests' = requests \ {r}
    /\ Settled(r.list, TRUE)
    /\ IF r.list = "servers"
         THEN servers' = r.beats /\ listAge' = r.since /\ chips' = Status(r.beats)
         ELSE UNCHANGED <<servers, listAge, chips>>
    /\ UNCHANGED <<registryVars, page, due>>

\* An error or the timeout is logged.
ListFails(r) ==
    /\ requests' = requests \ {r}
    /\ Settled(r.list, FALSE)
    /\ Render(r.list = "servers" /\ loading'["servers"] # loading["servers"])
    /\ UNCHANGED <<registryVars, page, due, servers, listAge>>

-----------------------------------------------------------------------------

\* A tick passes: nobody is late with a heartbeat, no request outlives its
\* timeout, and the interval fires each time.
Tick ==
    /\ ~due /\ due' = (page = "server")
    /\ \A r \in requests : r.age < TimeoutTicks
    /\ \A s \in Servers : process[s] = "up" => silent[s] < BeatTicks
    /\ silent' = [s \in Servers |-> IF process[s] = "new" THEN 0 ELSE Older(silent[s])]
    /\ requests' = {[r EXCEPT !.age = @ + 1,
                              !.since = IF r.served THEN @ + 1 ELSE 0,
                              !.beats = [s \in Servers |-> Older(r.beats[s])]] : r \in requests}
    /\ servers' = [s \in Servers |-> Older(servers[s])]
    /\ listAge' = Older(listAge)
    /\ UNCHANGED <<process, nodes, page, loading, chips>>

NextLists ==
    \/ \E s \in Servers : Beat(s) \/ Fall(s) \/ Forget(s)
    \/ \E p \in {"queue", "server", "elsewhere"} : Open(p)
    \/ Refresh
    \/ \E r \in requests : ServeList(r) \/ ListArrives(r) \/ ListFails(r)
    \/ Tick

SpecLists == InitLists /\ [][NextLists]_listVars

-----------------------------------------------------------------------------

(***************************************************************************)
(* Spinners: a list is loading only while a request for it is under way,   *)
(* however the answers and failures of overlapping loads are ordered.      *)
(***************************************************************************)
NoStuckSpinner == \A l \in Lists : loading[l] => \E r \in requests : r.list = l

(***************************************************************************)
(* A server that beats in time is shown as offline only on a list that is  *)
(* older than 10 s, that is, after refreshes failed or answers were late.  *)
(***************************************************************************)
NoFalseAlarm ==
    \A s \in Servers :
        process[s] = "up" /\ chips[s] = "offline" => listAge > OfflineTicks - BeatTicks

(***************************************************************************)
(* A server without heartbeats is not shown as online for longer than 30 s *)
(* and one more tick per tick of the timeout, even if every refresh fails: *)
(* the table is rendered again when loading begins and ends.               *)
(***************************************************************************)
DeadNoticed ==
    \A s \in Servers : chips[s] = "online" => silent[s] <= OfflineTicks + TimeoutTicks
=============================================================================
