-------------------------- MODULE ListPagesProofs --------------------------
(***************************************************************************)
(* What the server page shows of the servers, for any number of servers,   *)
(* overlapping refreshes, failures and timeouts.                           *)
(***************************************************************************)
EXTENDS ListPages, TLAPS

Ages == 0 .. MaxAge
Beats == [Servers -> Ages \union {Absent}]

RequestRecord ==
    [list : Lists, age : 0 .. TimeoutTicks, served : BOOLEAN,
     since : 0 .. TimeoutTicks, beats : Beats]

ListTypeOK ==
    /\ process \in [Servers -> {"new", "up", "down"}]
    /\ silent \in [Servers -> Ages]
    /\ nodes \subseteq Servers
    /\ page \in {"queue", "server", "elsewhere"} /\ due \in BOOLEAN
    /\ requests \subseteq RequestRecord
    /\ \A r \in requests : r.since <= r.age /\ (~r.served => r.beats = NoServers)
    /\ loading \in [Lists -> BOOLEAN]
    /\ servers \in Beats /\ listAge \in Ages
    /\ chips \in [Servers -> {"absent", "online", "offline"}]

\* Only servers that have started have a node, and those that are up are not
\* late with their heartbeat.
RegistrySound ==
    \A s \in Servers : /\ process[s] = "new" => s \notin nodes /\ silent[s] = 0
                       /\ process[s] = "up" => silent[s] <= BeatTicks

\* What a list that was read a while ago can still say.
Plausible(state, silence, list, age) ==
    \A s \in Servers : /\ state[s] = "new" => list[s] = Absent
                       /\ state[s] = "up" => list[s] <= BeatTicks + age \/ age = MaxAge
                       /\ list[s] # Absent => silence[s] <= list[s]

ListsPlausible ==
    /\ \A r \in requests : Plausible(process, silent, r.beats, r.since)
    /\ Plausible(process, silent, servers, listAge)

\* The chips of the table are those of the list, from the last rendering.
OfflineSince == \A s \in Servers : chips[s] = "offline" => servers[s] > OfflineTicks

\* What was shown online is shown so for as long as a request that began with
\* the last rendering is under way, or until the next refresh.
OnlineSince ==
    \A s \in Servers : chips[s] = "online" =>
        /\ page = "server" /\ servers[s] # Absent
        /\ IF loading["servers"]
             THEN \E r \in requests : r.list = "servers" /\ servers[s] <= OfflineTicks + r.age
             ELSE servers[s] <= OfflineTicks + (IF due THEN 1 ELSE 0)

\* Only the server page asks for servers, and only its interval does so again.
OwnRequests ==
    /\ \A r \in requests : r.list = "servers" => page = "server"
    /\ due => page = "server"

ListsIInv ==
    /\ ListTypeOK /\ RegistrySound /\ ListsPlausible
    /\ OfflineSince /\ OnlineSince /\ OwnRequests /\ NoStuckSpinner

-----------------------------------------------------------------------------

LEMMA Bounds ==
    /\ BeatTicks \in Nat /\ OfflineTicks \in Nat /\ TimeoutTicks \in Nat /\ MaxAge \in Nat
    /\ TimeoutTicks >= 1 /\ BeatTicks <= OfflineTicks
    /\ OfflineTicks < MaxAge /\ TimeoutTicks < MaxAge
BY ListAssumption

LEMMA OlderAge ==
    /\ \A a \in Ages : Older(a) \in Ages /\ Older(a) <= a + 1 /\ Older(a) >= a
                       /\ Older(a) # Absent /\ (Older(a) = a + 1 \/ (a = MaxAge /\ Older(a) = MaxAge))
    /\ Older(Absent) = Absent
    /\ \A a, b \in Ages : a <= b => Older(a) <= Older(b)
BY ListAssumption DEF Older, Ages, Absent

\* The fields of a request after a tick.
Aged(r) == [r EXCEPT !.age = @ + 1,
                     !.since = IF r.served THEN @ + 1 ELSE 0,
                     !.beats = [s \in Servers |-> Older(r.beats[s])]]

LEMMA AgedFields ==
    ASSUME NEW r \in RequestRecord, r.age < TimeoutTicks, r.since <= r.age
    PROVE  /\ Aged(r) \in RequestRecord
           /\ Aged(r).list = r.list /\ Aged(r).served = r.served
           /\ Aged(r).age = r.age + 1 /\ Aged(r).since <= Aged(r).age
           /\ Aged(r).since = IF r.served THEN r.since + 1 ELSE 0
           /\ Aged(r).beats = [s \in Servers |-> Older(r.beats[s])]
<1>1. /\ r.list \in Lists /\ r.age \in 0 .. TimeoutTicks /\ r.served \in BOOLEAN
      /\ r.since \in 0 .. TimeoutTicks /\ r.beats \in Beats
  BY DEF RequestRecord
<1>2. [s \in Servers |-> Older(r.beats[s])] \in Beats
  BY <1>1, OlderAge DEF Beats
<1>3. /\ Aged(r).list = r.list /\ Aged(r).served = r.served
      /\ Aged(r).age = r.age + 1
      /\ Aged(r).since = IF r.served THEN r.since + 1 ELSE 0
      /\ Aged(r).beats = [s \in Servers |-> Older(r.beats[s])]
  BY DEF Aged, RequestRecord
<1>4. r.age + 1 \in 0 .. TimeoutTicks
  BY <1>1, ListAssumption
<1>5. (IF r.served THEN r.since + 1 ELSE 0) \in 0 .. TimeoutTicks
      /\ (IF r.served THEN r.since + 1 ELSE 0) <= r.age + 1
  <2>1. /\ r.since + 1 \in 0 .. TimeoutTicks /\ r.since + 1 <= r.age + 1
        /\ 0 \in 0 .. TimeoutTicks /\ 0 <= r.age + 1
    BY <1>1, <1>4, Bounds
  <2> QED BY <2>1, Zenon
<1>6. Aged(r) \in RequestRecord
  BY <1>1, <1>2, <1>4, <1>5 DEF Aged, RequestRecord
<1> QED BY <1>3, <1>5, <1>6

(***************************************************************************)
(* Time makes no list implausible: the heartbeats in it grow older with    *)
(* the list, and no server that is up is late.                             *)
(***************************************************************************)
LEMMA AgedPlausible ==
    ASSUME ListTypeOK, Tick, NEW list \in Beats, NEW age \in Ages,
           Plausible(process, silent, list, age), NEW later \in Ages,
           later = age + 1 \/ later = MaxAge \/ list = NoServers
    PROVE  Plausible(process', silent', [s \in Servers |-> Older(list[s])], later)
<1>1. process' = process
      /\ silent' = [s \in Servers |-> IF process[s] = "new" THEN 0 ELSE Older(silent[s])]
  BY DEF Tick
<1> SUFFICES ASSUME NEW s \in Servers
             PROVE  /\ process[s] = "new" => Older(list[s]) = Absent
                    /\ process[s] = "up" => Older(list[s]) <= BeatTicks + later \/ later = MaxAge
                    /\ Older(list[s]) # Absent => silent'[s] <= Older(list[s])
  BY <1>1 DEF Plausible
<1>2. /\ process[s] = "new" => list[s] = Absent
      /\ process[s] = "up" => list[s] <= BeatTicks + age \/ age = MaxAge
      /\ list[s] # Absent => silent[s] <= list[s]
  BY DEF Plausible
<1>3. silent[s] \in Ages /\ silent'[s] = IF process[s] = "new" THEN 0 ELSE Older(silent[s])
  BY <1>1 DEF ListTypeOK
<1>4. list[s] \in Ages \/ list[s] = Absent
  BY DEF Beats
<1>5. BeatTicks \in Nat /\ MaxAge \in Nat
  BY ListAssumption
<1>6. CASE list[s] = Absent
  <2>1. Older(list[s]) = -1 /\ Older(list[s]) = Absent
    BY <1>6, OlderAge DEF Absent
  <2> QED BY <2>1, <1>5 DEF Ages
<1>7. CASE list[s] \in Ages /\ list[s] # Absent
  <2>1. Older(list[s]) \in Ages /\ Older(list[s]) <= list[s] + 1 /\ Older(list[s]) # Absent
    BY <1>7, OlderAge
  <2>2. process[s] # "new"
    BY <1>2, <1>7
  <2>3. silent'[s] <= Older(list[s])
    BY <1>2, <1>3, <1>7, <2>2, OlderAge
  <2>4. process[s] = "up" => Older(list[s]) <= BeatTicks + later \/ later = MaxAge
    BY <1>2, <1>5, <1>7, <2>1 DEF Ages, NoServers
  <2> QED BY <2>1, <2>2, <2>3, <2>4
<1> QED BY <1>4, <1>6, <1>7 DEF Ages, Absent

\* What a tick does not disturb otherwise.
LEMMA TickKeeps ==
    ASSUME ListsIInv, Tick
    PROVE  ListsIInv'
<1>1. /\ ListTypeOK /\ RegistrySound /\ ListsPlausible
      /\ OfflineSince /\ OnlineSince /\ OwnRequests /\ NoStuckSpinner
  BY DEF ListsIInv
<1>2. /\ ~due /\ due' = (page = "server")
      /\ \A r \in requests : r.age < TimeoutTicks
      /\ \A s \in Servers : process[s] = "up" => silent[s] < BeatTicks
      /\ silent' = [s \in Servers |-> IF process[s] = "new" THEN 0 ELSE Older(silent[s])]
      /\ requests' = {Aged(r) : r \in requests}
      /\ servers' = [s \in Servers |-> Older(servers[s])]
      /\ listAge' = Older(listAge)
      /\ process' = process /\ nodes' = nodes /\ page' = page /\ loading' = loading /\ chips' = chips
  BY DEF Tick, Aged
<1>3. \A r \in requests :
        /\ r \in RequestRecord /\ r.age < TimeoutTicks /\ r.since <= r.age
        /\ Aged(r) \in RequestRecord
        /\ Aged(r).list = r.list /\ Aged(r).served = r.served
        /\ Aged(r).age = r.age + 1 /\ Aged(r).since <= Aged(r).age
        /\ Aged(r).since = IF r.served THEN r.since + 1 ELSE 0
        /\ Aged(r).beats = [s \in Servers |-> Older(r.beats[s])]
  BY <1>1, <1>2, AgedFields DEF ListTypeOK
<1>4. servers \in Beats /\ servers' \in Beats /\ listAge \in Ages /\ listAge' \in Ages
  BY <1>1, <1>2, OlderAge DEF ListTypeOK, Beats
<1>5. ListTypeOK'
  <2>1. silent' \in [Servers -> Ages]
    <3>1. 0 \in Ages
      BY ListAssumption DEF Ages
    <3> QED BY <1>1, <1>2, <3>1, OlderAge DEF ListTypeOK
  <2>2. /\ requests' \subseteq RequestRecord
        /\ \A r \in requests' : r.since <= r.age /\ (~r.served => r.beats = NoServers)
    <3> SUFFICES ASSUME NEW r \in requests
                 PROVE  /\ Aged(r) \in RequestRecord /\ Aged(r).since <= Aged(r).age
                        /\ ~Aged(r).served => Aged(r).beats = NoServers
      BY <1>2
    <3>1. ASSUME ~Aged(r).served PROVE Aged(r).beats = NoServers
      <4>1. r.beats = NoServers
        BY <1>1, <1>3, <3>1 DEF ListTypeOK
      <4>2. [s \in Servers |-> Older(r.beats[s])] = NoServers
        BY <4>1, OlderAge DEF NoServers
      <4> QED BY <1>3, <4>2
    <3> QED BY <1>3, <3>1
  <2>3. due' \in BOOLEAN
    BY <1>2, Zenon
  <2> QED BY <1>1, <1>2, <1>4, <2>1, <2>2, <2>3 DEF ListTypeOK
<1>6. RegistrySound'
  <2> SUFFICES ASSUME NEW s \in Servers
               PROVE  /\ process[s] = "new" => s \notin nodes /\ silent'[s] = 0
                      /\ process[s] = "up" => silent'[s] <= BeatTicks
    BY <1>2 DEF RegistrySound
  <2>1. silent[s] \in Ages /\ silent'[s] = IF process[s] = "new" THEN 0 ELSE Older(silent[s])
    BY <1>1, <1>2 DEF ListTypeOK
  <2>2. process[s] = "up" => silent'[s] <= BeatTicks
    BY <1>2, <2>1, OlderAge, ListAssumption DEF Ages
  <2> QED BY <1>1, <2>1, <2>2 DEF RegistrySound
<1>7. ListsPlausible'
  <2>1. Plausible(process', silent', servers', listAge')
    <3>1. listAge' = listAge + 1 \/ listAge' = MaxAge
      BY <1>2, <1>4, OlderAge
    <3>2. Plausible(process, silent, servers, listAge)
      BY <1>1 DEF ListsPlausible
    <3> QED BY <1>1, <1>2, <1>4, <3>1, <3>2, AgedPlausible
  <2>2. ASSUME NEW r \in requests
        PROVE  Plausible(process', silent', Aged(r).beats, Aged(r).since)
    <3>1. r.beats \in Beats /\ Plausible(process, silent, r.beats, r.since)
      BY <1>1, <1>3 DEF ListsPlausible, RequestRecord
    <3>2. r.since \in Ages /\ Aged(r).since \in Ages
      <4>1. /\ r.since \in 0 .. TimeoutTicks /\ Aged(r).since \in 0 .. TimeoutTicks
        BY <1>3 DEF RequestRecord
      <4> QED BY <4>1, Bounds DEF Ages
    <3>3. Aged(r).since = r.since + 1 \/ r.beats = NoServers
      BY <1>1, <1>3, Zenon DEF ListTypeOK
    <3>4. Aged(r).beats = [s \in Servers |-> Older(r.beats[s])]
      BY <1>3
    <3> QED BY <1>1, <3>1, <3>2, <3>3, <3>4, AgedPlausible
  <2> QED BY <1>2, <2>1, <2>2 DEF ListsPlausible
<1>8. OfflineSince'
  <2> SUFFICES ASSUME NEW s \in Servers, chips[s] = "offline" PROVE servers'[s] > OfflineTicks
    BY <1>2 DEF OfflineSince
  <2>1. servers[s] > OfflineTicks
    BY <1>1 DEF OfflineSince
  <2>2. servers[s] \in Ages \/ servers[s] = -1
    BY <1>4 DEF Beats, Absent
  <2>3. servers[s] \in Ages
    BY <2>1, <2>2, ListAssumption
  <2> QED BY <1>2, <2>1, <2>3, OlderAge, ListAssumption DEF Ages
<1>9. OnlineSince'
  <2> SUFFICES ASSUME NEW s \in Servers, chips[s] = "online"
               PROVE  /\ page = "server" /\ servers'[s] # Absent
                      /\ IF loading["servers"]
                           THEN \E r \in requests' :
                                   r.list = "servers" /\ servers'[s] <= OfflineTicks + r.age
                           ELSE servers'[s] <= OfflineTicks + (IF due' THEN 1 ELSE 0)
    BY <1>2 DEF OnlineSince
  <2>1. /\ page = "server" /\ servers[s] # Absent
        /\ loading["servers"] => \E r \in requests :
              r.list = "servers" /\ servers[s] <= OfflineTicks + r.age
        /\ ~loading["servers"] => servers[s] <= OfflineTicks + 0
    BY <1>1, <1>2 DEF OnlineSince
  <2>2. servers[s] \in Ages /\ servers'[s] = Older(servers[s])
    BY <1>2, <1>4, <2>1 DEF Beats
  <2>3. servers'[s] \in Ages /\ servers'[s] # Absent /\ servers'[s] <= servers[s] + 1
    BY <2>2, OlderAge
  <2>4. CASE loading["servers"]
    <3>1. PICK r \in requests : r.list = "servers" /\ servers[s] <= OfflineTicks + r.age
      BY <2>1, <2>4
    <3>2. r.age \in Nat /\ Aged(r).age = r.age + 1
      <4>1. r.age \in 0 .. TimeoutTicks
        BY <1>3 DEF RequestRecord
      <4>2. r.age \in Nat
        BY <4>1
      <4>3. Aged(r).age = r.age + 1
        BY <1>3
      <4> QED BY <4>2, <4>3
    <3>3. servers'[s] <= OfflineTicks + Aged(r).age
      <4>1. servers[s] <= OfflineTicks + r.age
        BY <3>1
      <4> QED BY <2>2, <2>3, <3>2, <4>1, Bounds DEF Ages
    <3>4. Aged(r) \in requests' /\ Aged(r).list = "servers"
      BY <1>2, <1>3, <3>1
    <3> QED BY <2>1, <2>3, <2>4, <3>3, <3>4
  <2>5. CASE ~loading["servers"]
    <3>1. servers'[s] <= OfflineTicks + 1
      BY <2>1, <2>2, <2>3, <2>5, ListAssumption DEF Ages
    <3>2. due'
      BY <1>2, <2>1
    <3> QED BY <2>1, <2>3, <2>5, <3>1, <3>2
  <2> QED BY <2>4, <2>5
<1>10. OwnRequests'
  <2> SUFFICES ASSUME NEW r \in requests, Aged(r).list = "servers" PROVE page = "server"
    BY <1>2 DEF OwnRequests
  <2> QED BY <1>1, <1>3 DEF OwnRequests
<1>11. NoStuckSpinner'
  <2> SUFFICES ASSUME NEW l \in Lists, loading[l] PROVE \E r \in requests' : r.list = l
    BY <1>2 DEF NoStuckSpinner
  <2>1. PICK r \in requests : r.list = l
    BY <1>1 DEF NoStuckSpinner
  <2> QED BY <1>2, <1>3, <2>1
<1> QED BY <1>5, <1>6, <1>7, <1>8, <1>9, <1>10, <1>11 DEF ListsIInv

(***************************************************************************)
(* The servers' own steps.                                                 *)
(***************************************************************************)
LEMMA BeatKeeps ==
    ASSUME ListsIInv, NEW x \in Servers, Beat(x)
    PROVE  ListsIInv'
<1>1. /\ ListTypeOK /\ RegistrySound /\ ListsPlausible
      /\ OfflineSince /\ OnlineSince /\ OwnRequests /\ NoStuckSpinner
  BY DEF ListsIInv
<1>2. /\ process' = [process EXCEPT ![x] = "up"]
      /\ silent' = [silent EXCEPT ![x] = 0]
      /\ nodes' = nodes \cup {x}
      /\ page' = page /\ due' = due /\ requests' = requests /\ loading' = loading
      /\ servers' = servers /\ listAge' = listAge /\ chips' = chips
      /\ process[x] = "new" \/ process[x] = "up"
  BY DEF Beat, browserVars
<1>3. 0 \in Ages
  BY Bounds DEF Ages
<1>4. ListTypeOK'
  BY <1>1, <1>2, <1>3 DEF ListTypeOK
<1>5. RegistrySound'
  BY <1>1, <1>2, Bounds DEF ListTypeOK, RegistrySound
<1>6. ASSUME NEW list \in Beats, NEW age \in Ages, Plausible(process, silent, list, age)
      PROVE  Plausible(process', silent', list, age)
  <2> SUFFICES ASSUME NEW s \in Servers
               PROVE  /\ process'[s] = "new" => list[s] = Absent
                      /\ process'[s] = "up" => list[s] <= BeatTicks + age \/ age = MaxAge
                      /\ list[s] # Absent => silent'[s] <= list[s]
    BY DEF Plausible
  <2>1. /\ process[s] = "new" => list[s] = Absent
        /\ process[s] = "up" => list[s] <= BeatTicks + age \/ age = MaxAge
        /\ list[s] # Absent => silent[s] <= list[s]
        /\ list[s] \in Ages \/ list[s] = Absent
    BY <1>6 DEF Plausible, Beats
  <2>2. CASE s = x
    <3>1. process'[s] = "up" /\ silent'[s] = 0
      BY <1>1, <1>2, <2>2 DEF ListTypeOK
    <3>2. list[s] <= BeatTicks + age \/ age = MaxAge
      BY <1>2, <2>1, <2>2, Bounds DEF Absent, Ages
    <3> QED BY <2>1, <3>1, <3>2 DEF Ages
  <2>3. CASE s # x
    BY <1>1, <1>2, <2>1, <2>3 DEF ListTypeOK
  <2> QED BY <2>2, <2>3
<1>7. ListsPlausible'
  <2>1. \A r \in requests : r.beats \in Beats /\ r.since \in Ages
    BY <1>1, Bounds DEF ListTypeOK, RequestRecord, Ages
  <2>2. servers \in Beats /\ listAge \in Ages
    BY <1>1 DEF ListTypeOK
  <2> QED BY <1>1, <1>2, <1>6, <2>1, <2>2 DEF ListsPlausible
<1>8. OfflineSince' /\ OnlineSince' /\ OwnRequests' /\ NoStuckSpinner'
  BY <1>1, <1>2 DEF OfflineSince, OnlineSince, OwnRequests, NoStuckSpinner
<1> QED BY <1>4, <1>5, <1>7, <1>8 DEF ListsIInv

LEMMA FallKeeps ==
    ASSUME ListsIInv, NEW x \in Servers, Fall(x)
    PROVE  ListsIInv'
<1>1. /\ ListTypeOK /\ RegistrySound /\ ListsPlausible
      /\ OfflineSince /\ OnlineSince /\ OwnRequests /\ NoStuckSpinner
  BY DEF ListsIInv
<1>2. /\ process' = [process EXCEPT ![x] = "down"]
      /\ silent' = silent /\ nodes' = nodes
      /\ page' = page /\ due' = due /\ requests' = requests /\ loading' = loading
      /\ servers' = servers /\ listAge' = listAge /\ chips' = chips
  BY DEF Fall, browserVars
<1>3. ListTypeOK' /\ RegistrySound'
  BY <1>1, <1>2 DEF ListTypeOK, RegistrySound
<1>4. \A s \in Servers : process'[s] # "down" => process'[s] = process[s]
  BY <1>1, <1>2 DEF ListTypeOK
<1>5. ListsPlausible'
  BY <1>1, <1>2, <1>4 DEF ListsPlausible, Plausible
<1>6. OfflineSince' /\ OnlineSince' /\ OwnRequests' /\ NoStuckSpinner'
  BY <1>1, <1>2 DEF OfflineSince, OnlineSince, OwnRequests, NoStuckSpinner
<1> QED BY <1>3, <1>5, <1>6 DEF ListsIInv

LEMMA ForgetKeeps ==
    ASSUME ListsIInv, NEW x \in Servers, Forget(x)
    PROVE  ListsIInv'
<1>1. /\ ListTypeOK /\ RegistrySound /\ ListsPlausible
      /\ OfflineSince /\ OnlineSince /\ OwnRequests /\ NoStuckSpinner
  BY DEF ListsIInv
<1>2. /\ process' = process /\ silent' = silent /\ nodes' = nodes \ {x}
      /\ page' = page /\ due' = due /\ requests' = requests /\ loading' = loading
      /\ servers' = servers /\ listAge' = listAge /\ chips' = chips
  BY DEF Forget, browserVars
<1>3. ListTypeOK' /\ RegistrySound' /\ ListsPlausible'
  BY <1>1, <1>2 DEF ListTypeOK, RegistrySound, ListsPlausible
<1>4. OfflineSince' /\ OnlineSince' /\ OwnRequests' /\ NoStuckSpinner'
  BY <1>1, <1>2 DEF OfflineSince, OnlineSince, OwnRequests, NoStuckSpinner
<1> QED BY <1>3, <1>4 DEF ListsIInv

(***************************************************************************)
(* What rendering shows, and what a request begins with.                   *)
(***************************************************************************)
LEMMA StatusShows ==
    ASSUME NEW list \in Beats
    PROVE  /\ Status(list) \in [Servers -> {"absent", "online", "offline"}]
           /\ \A s \in Servers : Status(list)[s] = "offline" => list[s] > OfflineTicks
           /\ \A s \in Servers : Status(list)[s] = "online" =>
                 list[s] # Absent /\ list[s] <= OfflineTicks
<1>1. \A s \in Servers : list[s] \in Ages \/ list[s] = Absent
  BY DEF Beats
<1> SUFFICES ASSUME NEW s \in Servers
             PROVE  /\ Status(list)[s] \in {"absent", "online", "offline"}
                    /\ Status(list)[s] = "offline" => list[s] > OfflineTicks
                    /\ Status(list)[s] = "online" => list[s] # Absent /\ list[s] <= OfflineTicks
  BY DEF Status
<1>2. CASE list[s] = Absent
  BY <1>2 DEF Status
<1>3. CASE list[s] # Absent /\ list[s] > OfflineTicks
  BY <1>3 DEF Status, Offline
<1>4. CASE list[s] # Absent /\ ~(list[s] > OfflineTicks)
  <2>1. list[s] <= OfflineTicks
    BY <1>1, <1>4, Bounds DEF Ages
  <2> QED BY <1>4, <2>1 DEF Status, Offline
<1> QED BY <1>2, <1>3, <1>4

LEMMA NewRequest ==
    ASSUME ListTypeOK, NEW l \in Lists
    PROVE  /\ Request(l) \in RequestRecord /\ Request(l).list = l
           /\ Request(l).since = 0 /\ Request(l).age = 0 /\ Request(l).beats = NoServers
           /\ Plausible(process, silent, Request(l).beats, Request(l).since)
<1>1. NoServers \in Beats
  BY DEF NoServers, Beats
<1>2. Request(l) \in RequestRecord
  BY <1>1, Bounds DEF Request, RequestRecord
<1>3. Plausible(process, silent, NoServers, 0)
  BY Bounds DEF Plausible, NoServers, Absent
<1>4. /\ Request(l).list = l
      /\ Request(l).since = 0 /\ Request(l).age = 0 /\ Request(l).beats = NoServers
  BY DEF Request
<1> QED BY <1>2, <1>3, <1>4

(***************************************************************************)
(* The router shows a page.                                                *)
(***************************************************************************)
LEMMA OpenKeeps ==
    ASSUME ListsIInv, NEW p \in {"queue", "server", "elsewhere"}, Open(p)
    PROVE  ListsIInv'
<1>1. ListTypeOK /\ RegistrySound
  BY DEF ListsIInv
<1>2. /\ page' = p /\ due' = FALSE
      /\ loading' = [l \in Lists |-> l \in ListsOf[p]]
      /\ requests' = {Request(l) : l \in ListsOf[p]}
      /\ servers' = NoServers /\ listAge' = 0 /\ chips' = Nothing
      /\ process' = process /\ silent' = silent /\ nodes' = nodes
  BY DEF Open, registryVars
<1>3. ListsOf[p] \subseteq Lists /\ ("servers" \in ListsOf[p] => p = "server")
  BY DEF ListsOf, Lists
<1>4. ListTypeOK'
  <2>1. requests' \subseteq RequestRecord
        /\ \A r \in requests' : r.since <= r.age /\ r.beats = NoServers
    BY <1>1, <1>2, <1>3, NewRequest
  <2>2. servers' \in Beats /\ 0 \in Ages /\ Nothing \in [Servers -> {"absent", "online", "offline"}]
    BY <1>2, Bounds DEF Beats, NoServers, Nothing, Ages
  <2>3. due' \in BOOLEAN /\ loading' \in [Lists -> BOOLEAN]
    <3>1. ASSUME NEW l \in Lists PROVE (l \in ListsOf[p]) \in BOOLEAN
      <4>1. CASE l \in ListsOf[p]
        <5>1. (l \in ListsOf[p]) = TRUE
          BY <4>1, Zenon
        <5> QED BY <5>1
      <4>2. CASE l \notin ListsOf[p]
        <5>1. (l \in ListsOf[p]) = FALSE
          BY <4>2
        <5> QED BY <5>1
      <4> QED BY <4>1, <4>2
    <3>2. [l \in Lists |-> l \in ListsOf[p]] \in [Lists -> BOOLEAN]
      BY <3>1, Zenon
    <3> QED BY <1>2, <3>2
  <2> QED BY <1>1, <1>2, <2>1, <2>2, <2>3 DEF ListTypeOK
<1>5. RegistrySound'
  BY <1>1, <1>2 DEF RegistrySound
<1>6. ListsPlausible'
  <2>1. Plausible(process', silent', NoServers, 0)
    BY <1>2, Bounds DEF Plausible, NoServers, Absent
  <2>2. \A r \in requests' : r.beats = NoServers /\ r.since = 0
    BY <1>1, <1>2, <1>3, NewRequest
  <2> QED BY <1>2, <2>1, <2>2 DEF ListsPlausible
<1>7. OfflineSince' /\ OnlineSince'
  BY <1>2 DEF OfflineSince, OnlineSince, Nothing
<1>8. OwnRequests' /\ NoStuckSpinner'
  <2>1. \A l \in ListsOf[p] : Request(l).list = l
    BY <1>1, <1>3, NewRequest
  <2>2. \A l \in Lists : loading'[l] => l \in ListsOf[p]
    BY <1>2
  <2> QED BY <1>2, <1>3, <2>1, <2>2 DEF OwnRequests, NoStuckSpinner
<1> QED BY <1>4, <1>5, <1>6, <1>7, <1>8 DEF ListsIInv

(***************************************************************************)
(* The interval asks for the servers again, whatever is under way.         *)
(***************************************************************************)
LEMMA RefreshKeeps ==
    ASSUME ListsIInv, Refresh
    PROVE  ListsIInv'
<1>1. /\ ListTypeOK /\ RegistrySound /\ ListsPlausible
      /\ OfflineSince /\ OnlineSince /\ OwnRequests /\ NoStuckSpinner
  BY DEF ListsIInv
<1> DEFINE r0 == Request("servers")
<1>2. /\ due' = FALSE /\ loading' = [loading EXCEPT !["servers"] = TRUE]
      /\ requests' = requests \cup {r0}
      /\ page' = page /\ servers' = servers /\ listAge' = listAge
      /\ process' = process /\ silent' = silent /\ nodes' = nodes
  BY DEF Refresh, registryVars
<1>0. page = "server"
  BY <1>1 DEF Refresh, OwnRequests
<1>3. /\ ~loading["servers"] => chips' = Status(servers)
      /\ loading["servers"] => chips' = chips
  BY DEF Refresh, Render
<1>4. "servers" \in Lists
  BY DEF Lists
<1>5. /\ r0 \in RequestRecord /\ r0.list = "servers" /\ r0.since = 0 /\ r0.age = 0
      /\ r0.beats = NoServers /\ Plausible(process, silent, r0.beats, r0.since)
  BY <1>1, <1>4, NewRequest
<1> HIDE DEF r0
<1>6. /\ servers \in Beats /\ chips \in [Servers -> {"absent", "online", "offline"}]
      /\ loading \in [Lists -> BOOLEAN]
  BY <1>1 DEF ListTypeOK
<1>7. loading' \in [Lists -> BOOLEAN] /\ loading'["servers"]
  BY <1>2, <1>4, <1>6
<1>8. chips' \in [Servers -> {"absent", "online", "offline"}]
  BY <1>3, <1>6, StatusShows
<1>9. ListTypeOK'
  <2>1. requests' \subseteq RequestRecord
        /\ \A r \in requests' : r.since <= r.age /\ (~r.served => r.beats = NoServers)
    BY <1>1, <1>2, <1>5 DEF ListTypeOK
  <2>2. due' \in BOOLEAN
    BY <1>2
  <2> QED BY <1>1, <1>2, <1>7, <1>8, <2>1, <2>2 DEF ListTypeOK
<1>10. RegistrySound' /\ OwnRequests'
  BY <1>0, <1>1, <1>2, <1>5 DEF RegistrySound, OwnRequests
<1>11. ListsPlausible'
  BY <1>1, <1>2, <1>5 DEF ListsPlausible
<1>12. OfflineSince'
  BY <1>1, <1>2, <1>3, <1>6, StatusShows DEF OfflineSince
<1>13. OnlineSince'
  <2> SUFFICES ASSUME NEW s \in Servers, chips'[s] = "online"
               PROVE  /\ servers[s] # Absent
                      /\ \E r \in requests' : r.list = "servers" /\ servers[s] <= OfflineTicks + r.age
    BY <1>0, <1>2, <1>7 DEF OnlineSince
  <2>1. CASE loading["servers"]
    BY <1>1, <1>2, <1>3, <2>1 DEF OnlineSince
  <2>2. CASE ~loading["servers"]
    <3>1. servers[s] # Absent /\ servers[s] <= OfflineTicks
      BY <1>3, <1>6, <2>2, StatusShows
    <3>2. OfflineTicks + r0.age = OfflineTicks
      BY <1>5, Bounds
    <3> QED BY <1>2, <1>5, <3>1, <3>2
  <2> QED BY <2>1, <2>2
<1>14. NoStuckSpinner'
  <2> SUFFICES ASSUME NEW l \in Lists, loading'[l] PROVE \E r \in requests' : r.list = l
    BY DEF NoStuckSpinner
  <2>1. CASE l = "servers"
    BY <1>2, <1>5, <2>1
  <2>2. CASE l # "servers"
    <3>1. loading[l]
      BY <1>2, <1>6, <2>2
    <3> QED BY <1>1, <1>2, <3>1 DEF NoStuckSpinner
  <2> QED BY <2>1, <2>2
<1> QED BY <1>9, <1>10, <1>11, <1>12, <1>13, <1>14 DEF ListsIInv

(***************************************************************************)
(* The API reads the heartbeats for one request.                           *)
(***************************************************************************)
LEMMA ServeKeeps ==
    ASSUME ListsIInv, NEW x \in requests, ServeList(x)
    PROVE  ListsIInv'
<1>1. /\ ListTypeOK /\ RegistrySound /\ ListsPlausible
      /\ OfflineSince /\ OnlineSince /\ OwnRequests /\ NoStuckSpinner
  BY DEF ListsIInv
<1> DEFINE read == [s \in Servers |-> IF x.list = "servers" /\ s \in nodes
                                        THEN silent[s] ELSE Absent]
           y == [x EXCEPT !.served = TRUE, !.beats = read]
<1>2. /\ ~x.served /\ requests' = (requests \ {x}) \cup {y}
      /\ page' = page /\ due' = due /\ loading' = loading
      /\ servers' = servers /\ listAge' = listAge /\ chips' = chips
      /\ process' = process /\ silent' = silent /\ nodes' = nodes
  BY DEF ServeList, registryVars
<1>3. x \in RequestRecord /\ x.since <= x.age
  BY <1>1 DEF ListTypeOK
<1>4. read \in Beats
  BY <1>1 DEF ListTypeOK, Beats
<1>5. Plausible(process, silent, read, x.since)
  <2> SUFFICES ASSUME NEW s \in Servers
               PROVE  /\ process[s] = "new" => read[s] = Absent
                      /\ process[s] = "up" => read[s] <= BeatTicks + x.since
                      /\ read[s] # Absent => silent[s] <= read[s]
    BY DEF Plausible
  <2>1. x.since \in Nat
    BY <1>3, Bounds DEF RequestRecord
  <2>2. silent[s] \in Ages
    BY <1>1 DEF ListTypeOK
  <2>3. (read[s] = silent[s] /\ s \in nodes) \/ read[s] = Absent
    OBVIOUS
  <2> HIDE DEF read
  <2>4. process[s] = "up" => silent[s] <= BeatTicks
    BY <1>1 DEF RegistrySound
  <2>5. process[s] = "new" => s \notin nodes
    BY <1>1 DEF RegistrySound
  <2>6. process[s] = "up" => read[s] <= BeatTicks + x.since
    BY <2>1, <2>2, <2>3, <2>4, Bounds DEF Absent, Ages
  <2> QED BY <2>2, <2>3, <2>5, <2>6 DEF Ages
<1> HIDE DEF read
<1>6. /\ y \in RequestRecord /\ y.list = x.list /\ y.age = x.age /\ y.since = x.since
      /\ y.beats = read /\ y.served
  BY <1>3, <1>4 DEF RequestRecord
<1> HIDE DEF y
<1>7. ListTypeOK'
  <2>1. requests' \subseteq RequestRecord
        /\ \A r \in requests' : r.since <= r.age /\ (~r.served => r.beats = NoServers)
    BY <1>1, <1>2, <1>3, <1>6 DEF ListTypeOK
  <2> QED BY <1>1, <1>2, <2>1 DEF ListTypeOK
<1>8. RegistrySound' /\ OfflineSince'
  BY <1>1, <1>2 DEF RegistrySound, OfflineSince
<1>9. ListsPlausible'
  BY <1>1, <1>2, <1>5, <1>6 DEF ListsPlausible
<1>10. \A r \in requests : \E q \in requests' : q.list = r.list /\ q.age = r.age
  BY <1>2, <1>6
<1>11. OnlineSince'
  <2> SUFFICES ASSUME NEW s \in Servers, chips[s] = "online"
               PROVE  /\ page = "server" /\ servers[s] # Absent
                      /\ IF loading["servers"]
                           THEN \E r \in requests' :
                                   r.list = "servers" /\ servers[s] <= OfflineTicks + r.age
                           ELSE servers[s] <= OfflineTicks + (IF due THEN 1 ELSE 0)
    BY <1>2 DEF OnlineSince
  <2>1. CASE loading["servers"]
    <3>1. PICK r \in requests : r.list = "servers" /\ servers[s] <= OfflineTicks + r.age
      BY <1>1, <2>1 DEF OnlineSince
    <3>2. PICK q \in requests' : q.list = r.list /\ q.age = r.age
      BY <1>10
    <3> QED BY <1>1, <2>1, <3>1, <3>2 DEF OnlineSince
  <2>2. CASE ~loading["servers"]
    BY <1>1, <2>2 DEF OnlineSince
  <2> QED BY <2>1, <2>2
<1>12. OwnRequests' /\ NoStuckSpinner'
  <2>1. OwnRequests'
    BY <1>1, <1>2, <1>6 DEF OwnRequests
  <2>2. NoStuckSpinner'
    BY <1>1, <1>2, <1>10 DEF NoStuckSpinner
  <2> QED BY <2>1, <2>2
<1> QED BY <1>7, <1>8, <1>9, <1>11, <1>12 DEF ListsIInv

(***************************************************************************)
(* A request is over: its list is no longer loading, although others for   *)
(* the same list may be under way.                                         *)
(***************************************************************************)
LEMMA SettledKeeps ==
    ASSUME ListTypeOK, NoStuckSpinner, NEW x \in requests, NEW ok \in BOOLEAN,
           Settled(x.list, ok), requests' = requests \ {x}
    PROVE  /\ loading' \in [Lists -> BOOLEAN] /\ ~loading'[x.list]
           /\ \A l \in Lists : l # x.list => loading'[l] = loading[l]
           /\ NoStuckSpinner'
<1>1. /\ loading \in [Lists -> BOOLEAN] /\ x.list \in Lists
      /\ loading' = [loading EXCEPT ![x.list] = FALSE]
  BY DEF Settled, ListTypeOK, RequestRecord
<1>2. loading' \in [Lists -> BOOLEAN] /\ ~loading'[x.list]
  BY <1>1
<1>3. \A l \in Lists : l # x.list => loading'[l] = loading[l]
  BY <1>1
<1>4. NoStuckSpinner'
  <2> SUFFICES ASSUME NEW l \in Lists, loading'[l] PROVE \E r \in requests' : r.list = l
    BY DEF NoStuckSpinner
  <2>1. l # x.list /\ loading[l]
    BY <1>2, <1>3
  <2> QED BY <2>1 DEF NoStuckSpinner
<1> QED BY <1>2, <1>3, <1>4

LEMMA ArrivesKeeps ==
    ASSUME ListsIInv, NEW x \in requests, ListArrives(x)
    PROVE  ListsIInv'
<1>1. /\ ListTypeOK /\ RegistrySound /\ ListsPlausible
      /\ OfflineSince /\ OnlineSince /\ OwnRequests /\ NoStuckSpinner
  BY DEF ListsIInv
<1>2. /\ requests' = requests \ {x} /\ page' = page /\ due' = due
      /\ process' = process /\ silent' = silent /\ nodes' = nodes
  BY DEF ListArrives, registryVars
<1>3. /\ loading' \in [Lists -> BOOLEAN] /\ ~loading'[x.list]
      /\ \A l \in Lists : l # x.list => loading'[l] = loading[l]
      /\ NoStuckSpinner'
  BY <1>1, <1>2, SettledKeeps DEF ListArrives
<1>4. RegistrySound' /\ OwnRequests'
  BY <1>1, <1>2 DEF RegistrySound, OwnRequests
<1>5. /\ requests' \subseteq RequestRecord
      /\ \A r \in requests' : r.since <= r.age /\ (~r.served => r.beats = NoServers)
      /\ \A r \in requests' : Plausible(process', silent', r.beats, r.since)
  BY <1>1, <1>2 DEF ListTypeOK, ListsPlausible
<1>6. CASE x.list = "servers"
  <2>1. servers' = x.beats /\ listAge' = x.since /\ chips' = Status(x.beats)
    BY <1>6 DEF ListArrives
  <2>2. x.beats \in Beats /\ x.since \in Ages
    <3>1. x.since \in 0 .. TimeoutTicks /\ x.beats \in Beats
      BY <1>1 DEF ListTypeOK, RequestRecord
    <3> QED BY <3>1, Bounds DEF Ages
  <2>3. /\ chips' \in [Servers -> {"absent", "online", "offline"}]
        /\ \A s \in Servers : chips'[s] = "offline" => servers'[s] > OfflineTicks
        /\ \A s \in Servers : chips'[s] = "online" =>
              servers'[s] # Absent /\ servers'[s] <= OfflineTicks
    BY <2>1, <2>2, StatusShows
  <2>4. ListTypeOK'
    BY <1>1, <1>2, <1>3, <1>5, <2>1, <2>2, <2>3 DEF ListTypeOK
  <2>5. ListsPlausible'
    BY <1>1, <1>2, <1>5, <2>1 DEF ListsPlausible
  <2>6. OfflineSince'
    BY <2>3 DEF OfflineSince
  <2>7. OnlineSince'
    <3> SUFFICES ASSUME NEW s \in Servers, chips'[s] = "online"
                 PROVE  /\ page = "server" /\ servers'[s] # Absent
                        /\ servers'[s] <= OfflineTicks + (IF due THEN 1 ELSE 0)
      BY <1>2, <1>3, <1>6 DEF OnlineSince
    <3>1. servers'[s] # Absent /\ servers'[s] <= OfflineTicks
      BY <2>3
    <3>2. servers'[s] \in Ages
      BY <2>1, <2>2, <3>1 DEF Beats
    <3>3. servers'[s] <= OfflineTicks + 0 /\ servers'[s] <= OfflineTicks + 1
      BY <3>1, <3>2, Bounds DEF Ages
    <3>4. page = "server"
      BY <1>1, <1>6 DEF OwnRequests
    <3> QED BY <3>1, <3>3, <3>4, Zenon
  <2> QED BY <1>3, <1>4, <2>4, <2>5, <2>6, <2>7 DEF ListsIInv
<1>7. CASE x.list # "servers"
  <2>1. servers' = servers /\ listAge' = listAge /\ chips' = chips
    BY <1>7 DEF ListArrives
  <2>2. ListTypeOK'
    BY <1>1, <1>2, <1>3, <1>5, <2>1 DEF ListTypeOK
  <2>3. ListsPlausible'
    BY <1>1, <1>2, <1>5, <2>1 DEF ListsPlausible
  <2>4. OfflineSince'
    BY <1>1, <2>1 DEF OfflineSince
  <2>5. loading'["servers"] = loading["servers"]
    BY <1>3, <1>7 DEF Lists
  <2>6. OnlineSince'
    BY <1>1, <1>2, <1>7, <2>1, <2>5 DEF OnlineSince
  <2> QED BY <1>3, <1>4, <2>2, <2>3, <2>4, <2>6 DEF ListsIInv
<1> QED BY <1>6, <1>7

LEMMA FailsKeeps ==
    ASSUME ListsIInv, NEW x \in requests, ListFails(x)
    PROVE  ListsIInv'
<1>1. /\ ListTypeOK /\ RegistrySound /\ ListsPlausible
      /\ OfflineSince /\ OnlineSince /\ OwnRequests /\ NoStuckSpinner
  BY DEF ListsIInv
<1>2. /\ requests' = requests \ {x} /\ page' = page /\ due' = due
      /\ process' = process /\ silent' = silent /\ nodes' = nodes
      /\ servers' = servers /\ listAge' = listAge
  BY DEF ListFails, registryVars
<1>3. /\ loading' \in [Lists -> BOOLEAN] /\ ~loading'[x.list]
      /\ \A l \in Lists : l # x.list => loading'[l] = loading[l]
      /\ NoStuckSpinner'
  BY <1>1, <1>2, SettledKeeps DEF ListFails
<1>4. RegistrySound' /\ OwnRequests' /\ ListsPlausible'
  BY <1>1, <1>2 DEF RegistrySound, OwnRequests, ListsPlausible
<1>5. "servers" \in Lists /\ servers \in Beats /\ loading \in [Lists -> BOOLEAN]
  BY <1>1 DEF ListTypeOK, Lists
<1>6. \/ x.list = "servers" /\ chips' = Status(servers)
      \/ chips' = chips /\ (x.list = "servers" => ~loading["servers"])
  <2>1. CASE x.list = "servers" /\ loading'["servers"] # loading["servers"]
    BY <2>1 DEF ListFails, Render
  <2>2. CASE ~(x.list = "servers" /\ loading'["servers"] # loading["servers"])
    <3>1. chips' = chips
      BY <2>2 DEF ListFails, Render
    <3> QED BY <1>3, <1>5, <2>2, <3>1
  <2> QED BY <2>1, <2>2
<1>7. ListTypeOK'
  <2>1. chips' \in [Servers -> {"absent", "online", "offline"}]
    BY <1>1, <1>5, <1>6, StatusShows DEF ListTypeOK
  <2> QED BY <1>1, <1>2, <1>3, <2>1 DEF ListTypeOK
<1>8. OfflineSince'
  BY <1>1, <1>2, <1>5, <1>6, StatusShows DEF OfflineSince
<1>9. OnlineSince'
  <2> SUFFICES ASSUME NEW s \in Servers, chips'[s] = "online"
               PROVE  /\ page = "server" /\ servers[s] # Absent
                      /\ IF loading'["servers"]
                           THEN \E r \in requests' :
                                   r.list = "servers" /\ servers[s] <= OfflineTicks + r.age
                           ELSE servers[s] <= OfflineTicks + (IF due THEN 1 ELSE 0)
    BY <1>2 DEF OnlineSince
  <2>1. CASE x.list # "servers"
    <3>1. chips[s] = "online" /\ loading'["servers"] = loading["servers"]
      BY <1>3, <1>5, <1>6, <2>1
    <3>2. CASE loading["servers"]
      <4>1. PICK r \in requests : r.list = "servers" /\ servers[s] <= OfflineTicks + r.age
        BY <1>1, <3>1, <3>2 DEF OnlineSince
      <4> QED BY <1>1, <1>2, <2>1, <3>1, <3>2, <4>1 DEF OnlineSince
    <3>3. CASE ~loading["servers"]
      BY <1>1, <3>1, <3>3 DEF OnlineSince
    <3> QED BY <3>2, <3>3
  <2>2. CASE x.list = "servers" /\ chips' = chips /\ ~loading["servers"]
    BY <1>1, <1>2, <1>3, <2>2 DEF OnlineSince
  <2>3. CASE x.list = "servers" /\ chips' = Status(servers)
    <3>1. servers[s] # Absent /\ servers[s] <= OfflineTicks
      BY <1>5, <2>3, StatusShows
    <3>2. servers[s] \in Ages
      BY <1>5, <3>1 DEF Beats
    <3>3. servers[s] <= OfflineTicks + 0 /\ servers[s] <= OfflineTicks + 1
      BY <3>1, <3>2, Bounds DEF Ages
    <3>4. page = "server" /\ ~loading'["servers"]
      BY <1>1, <1>3, <2>3 DEF OwnRequests
    <3> QED BY <3>1, <3>3, <3>4, Zenon
  <2> QED BY <1>6, <2>1, <2>2, <2>3
<1> QED BY <1>3, <1>4, <1>7, <1>8, <1>9 DEF ListsIInv

LEMMA ListsStart == InitLists => ListsIInv
<1> SUFFICES ASSUME InitLists PROVE ListsIInv
  OBVIOUS
<1>1. /\ process = [s \in Servers |-> "new"] /\ silent = [s \in Servers |-> 0] /\ nodes = {}
      /\ page = "elsewhere" /\ due = FALSE /\ requests = {}
      /\ loading = [l \in Lists |-> FALSE]
      /\ servers = NoServers /\ listAge = 0 /\ chips = Nothing
  BY DEF InitLists
<1>2. 0 \in Ages /\ NoServers \in Beats
  BY Bounds DEF Ages, NoServers, Beats
<1>3. due \in BOOLEAN /\ ~due /\ loading \in [Lists -> BOOLEAN] /\ \A l \in Lists : ~loading[l]
  BY <1>1
<1>4. ListTypeOK
  BY <1>1, <1>2, <1>3 DEF ListTypeOK, Nothing
<1>5. RegistrySound
  BY <1>1 DEF RegistrySound
<1>6. ListsPlausible
  BY <1>1, Bounds DEF ListsPlausible, Plausible, NoServers, Absent
<1>7. OfflineSince /\ OnlineSince
  BY <1>1 DEF OfflineSince, OnlineSince, Nothing
<1>8. OwnRequests /\ NoStuckSpinner
  BY <1>1, <1>3 DEF OwnRequests, NoStuckSpinner
<1> QED BY <1>4, <1>5, <1>6, <1>7, <1>8 DEF ListsIInv

LEMMA ListsInductive == SpecLists => []ListsIInv
<1>1. ListsIInv /\ [NextLists]_listVars => ListsIInv'
  <2> SUFFICES ASSUME ListsIInv, [NextLists]_listVars PROVE ListsIInv'
    OBVIOUS
  <2>1. ASSUME NEW s \in Servers, Beat(s) \/ Fall(s) \/ Forget(s) PROVE ListsIInv'
    BY <2>1, BeatKeeps, FallKeeps, ForgetKeeps
  <2>2. ASSUME NEW p \in {"queue", "server", "elsewhere"}, Open(p) PROVE ListsIInv'
    BY <2>2, OpenKeeps
  <2>3. CASE Refresh
    BY <2>3, RefreshKeeps
  <2>4. ASSUME NEW r \in requests, ServeList(r) \/ ListArrives(r) \/ ListFails(r) PROVE ListsIInv'
    BY <2>4, ServeKeeps, ArrivesKeeps, FailsKeeps
  <2>5. CASE Tick
    BY <2>5, TickKeeps
  <2>6. CASE UNCHANGED listVars
    BY <2>6 DEF listVars, registryVars, browserVars, ListsIInv, ListTypeOK, RegistrySound,
                ListsPlausible, OfflineSince, OnlineSince, OwnRequests, NoStuckSpinner
  <2> QED BY <2>1, <2>2, <2>3, <2>4, <2>5, <2>6 DEF NextLists
<1> QED BY <1>1, ListsStart, PTL DEF SpecLists

-----------------------------------------------------------------------------

(***************************************************************************)
(* Whatever loads overlap and fail, no spinner turns for nothing.          *)
(***************************************************************************)
THEOREM SpinnersEnd == SpecLists => []NoStuckSpinner
<1>1. ListsIInv => NoStuckSpinner
  BY DEF ListsIInv
<1> QED BY <1>1, ListsInductive, PTL

(***************************************************************************)
(* A server that beats in time is not called offline on a list younger     *)
(* than what the threshold of 30 s leaves beyond the period of 20 s.       *)
(***************************************************************************)
THEOREM AlarmsJustified == SpecLists => []NoFalseAlarm
<1>1. ListsIInv => NoFalseAlarm
  <2> SUFFICES ASSUME ListsIInv, NEW s \in Servers, process[s] = "up", chips[s] = "offline"
               PROVE  listAge > OfflineTicks - BeatTicks
    BY DEF NoFalseAlarm
  <2>1. servers[s] > OfflineTicks
    BY DEF ListsIInv, OfflineSince
  <2>2. servers[s] <= BeatTicks + listAge \/ listAge = MaxAge
    BY DEF ListsIInv, ListsPlausible, Plausible
  <2>3. listAge \in Ages /\ (servers[s] \in Ages \/ servers[s] = -1)
    BY DEF ListsIInv, ListTypeOK, Beats, Absent
  <2> QED BY <2>1, <2>2, <2>3, Bounds DEF Ages
<1> QED BY <1>1, ListsInductive, PTL

(***************************************************************************)
(* A server without heartbeats stops being shown as online when the        *)
(* threshold and the timeout of a request have passed.                     *)
(***************************************************************************)
THEOREM DeathNoticed == SpecLists => []DeadNoticed
<1>1. ListsIInv => DeadNoticed
  <2> SUFFICES ASSUME ListsIInv, NEW s \in Servers, chips[s] = "online"
               PROVE  silent[s] <= OfflineTicks + TimeoutTicks
    BY DEF DeadNoticed
  <2>1. silent[s] \in Ages /\ (servers[s] \in Ages \/ servers[s] = Absent)
    BY DEF ListsIInv, ListTypeOK, Beats
  <2>2. servers[s] # Absent /\ silent[s] <= servers[s]
    BY DEF ListsIInv, OnlineSince, ListsPlausible, Plausible
  <2>3. CASE loading["servers"]
    <3>1. PICK r \in requests : servers[s] <= OfflineTicks + r.age
      BY <2>3 DEF ListsIInv, OnlineSince
    <3>2. r.age \in 0 .. TimeoutTicks
      BY DEF ListsIInv, ListTypeOK, RequestRecord
    <3> QED BY <2>1, <2>2, <3>1, <3>2, Bounds DEF Ages
  <2>4. CASE ~loading["servers"]
    <3>1. servers[s] <= OfflineTicks + 0 \/ servers[s] <= OfflineTicks + 1
      BY <2>4 DEF ListsIInv, OnlineSince
    <3> QED BY <2>1, <2>2, <3>1, Bounds DEF Ages
  <2> QED BY <2>3, <2>4
<1> QED BY <1>1, ListsInductive, PTL
=============================================================================
