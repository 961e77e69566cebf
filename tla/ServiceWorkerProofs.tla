------------------------- MODULE ServiceWorkerProofs -------------------------
(***************************************************************************)
(* Theorems about Reconnect and about ServiceWorker, which lets requests   *)
(* and cookies depend on its connection: for any finite set of requests,   *)
(* any number of host processes, faults and late callbacks, for any two    *)
(* limits on the attempts, and whatever else the browser loads.            *)
(***************************************************************************)
EXTENDS ServiceWorker, FiniteSetTheorems, TLAPS

---------------------------------------------------------------------------
(***************************************************************************)
(* The connection.                                                         *)
(*                                                                         *)
(* OnePort and NeverStuck depend on each other's state only through the    *)
(* types.  OnlyThrowsSlowDown is about a step, and needs to know that the  *)
(* counter is zero as long as there is a port: that is the invariant       *)
(* FreshAttempts, which in its turn rests on OnePort, for a port that is   *)
(* reported closed must be the one that connect() has reset the counter    *)
(* for.                                                                    *)
(***************************************************************************)

(* As long as there is a port nothing has been counted since its launch. *)
FreshAttempts == nmPort # None => reconnectAttempts = 0

IInv ==
  /\ ConnectionTypeOK
  /\ OnePort
  /\ NeverStuck
  /\ FreshAttempts

(* The waits of setTimeout() are among three. *)
LEMMA DelayType ==
  ASSUME NEW n \in Nat
  PROVE  Delay(n) \in Waits
BY DEF Delay, Waits

(* A first attempt waits the shortest time. *)
LEMMA FirstDelay == Delay(1) = 200
BY LimitsAssumption DEF Delay

(* scheduleReconnect() leaves a retry pending and counts at most one. *)
LEMMA Scheduled ==
  ASSUME NEW n \in Nat,
         reconnectTimer \in Waits \cup {None},
         ScheduleReconnect(n)
  PROVE  /\ reconnectTimer' \in Waits
         /\ reconnectTimer' # None
         /\ reconnectAttempts' \in {n, n + 1}
<1>1. n + 1 \in Nat
  OBVIOUS
<1>2. CASE reconnectTimer # None /\ reconnectTimer' = reconnectTimer
           /\ reconnectAttempts' = n
  BY <1>2
<1>3. CASE reconnectTimer = None /\ reconnectTimer' = Delay(n + 1)
           /\ reconnectAttempts' = n + 1
  BY <1>1, <1>3, DelayType, NoneAssumption
<1>4. QED
  BY <1>2, <1>3 DEF ScheduleReconnect

(* connect() on a worker without a port: a port or a pending retry. *)
LEMMA Connected ==
  ASSUME IInv, Connect, awake' \in BOOLEAN, callbacks' \in 0 .. MaxCallbacks
  PROVE  IInv'
<1> USE NoneAssumption, LimitsAssumption
<1>1. CASE nmPort # None /\ UNCHANGED <<nmPort, ports, host, faults,
                                        reconnectTimer, reconnectAttempts>>
  BY <1>1 DEF IInv, ConnectionTypeOK, OnePort, NeverStuck, FreshAttempts
<1>2. ASSUME nmPort = None, NEW h \in Hosts, Launch(h)
      PROVE  IInv'
  <2>1. /\ nmPort' = h /\ nmPort' # None /\ ports' = ports \cup {h}
        /\ reconnectAttempts' = 0 /\ reconnectTimer' = reconnectTimer
        /\ ports = {}
    BY <1>2 DEF Launch, LaunchWith, IInv, OnePort, ConnectionTypeOK
  <2>2. faults' \in {faults, faults + 1} /\ faults' \in 0 .. MaxFaults
    BY <1>2 DEF Launch, LaunchWith, Fault, NoFault, IInv, ConnectionTypeOK
  <2>3. host' \in [Hosts -> HostStates]
    BY <1>2 DEF Launch, LaunchWith, Moves, IInv, ConnectionTypeOK, HostStates
  <2>4. ConnectionTypeOK'
    BY <2>1, <2>2, <2>3 DEF IInv, ConnectionTypeOK
  <2>5. OnePort' /\ NeverStuck' /\ FreshAttempts'
    BY <2>1 DEF OnePort, NeverStuck, FreshAttempts
  <2>6. QED
    BY <2>4, <2>5 DEF IInv
<1>3. ASSUME nmPort = None, ConnectThrows
      PROVE  IInv'
  <2>1. reconnectAttempts \in Nat /\ reconnectAttempts + 1 \in Nat
    BY DEF IInv, ConnectionTypeOK
  <2>2. /\ reconnectTimer' \in Waits
        /\ reconnectTimer' # None
        /\ reconnectAttempts' \in {reconnectAttempts + 1, reconnectAttempts + 2}
    BY <1>3, <2>1, Scheduled DEF ConnectThrows, IInv, ConnectionTypeOK
  <2>3. /\ faults' = faults + 1 /\ faults' \in 0 .. MaxFaults
        /\ nmPort' = None /\ ports' = ports /\ host' = host
    BY <1>3 DEF ConnectThrows, Fault, IInv, ConnectionTypeOK
  <2>4. reconnectAttempts' \in Nat
    BY <2>1, <2>2
  <2>5. QED
    BY <1>3, <2>2, <2>3, <2>4 DEF IInv, ConnectionTypeOK, OnePort, NeverStuck,
                                  FreshAttempts
<1>4. QED
  BY <1>1, <1>2, <1>3 DEF Connect

(* The script has not run yet. *)
LEMMA InitInv == ConnectionInit => IInv
<1> SUFFICES ASSUME ConnectionInit PROVE IInv
  OBVIOUS
<1>1. faults \in 0 .. MaxFaults /\ callbacks \in 0 .. MaxCallbacks
  BY LimitsAssumption DEF ConnectionInit
<1>2. host \in [Hosts -> HostStates]
  BY DEF ConnectionInit, HostStates
<1>3. ConnectionTypeOK
  <2>1. awake \in BOOLEAN
    BY DEF ConnectionInit
  <2>2. /\ nmPort \in Hosts \cup {None}
        /\ ports \subseteq Hosts
        /\ reconnectTimer \in Waits \cup {None}
        /\ reconnectAttempts \in Nat
    BY DEF ConnectionInit
  <2>3. QED
    BY <1>1, <1>2, <2>1, <2>2 DEF ConnectionTypeOK
<1>4. OnePort /\ NeverStuck /\ FreshAttempts
  BY DEF ConnectionInit, OnePort, NeverStuck, FreshAttempts
<1>5. QED
  BY <1>3, <1>4 DEF IInv

(* The steps of the host processes leave the worker alone. *)
LEMMA HostSteps ==
  ASSUME IInv, NEW h \in Hosts, \/ Bind(h) \/ SeesEof(h) \/ Crashes(h)
                                       \/ ClosesPort(h) \/ Exits(h)
  PROVE  IInv'
<1> USE LimitsAssumption
<1>1. UNCHANGED <<workerVars, ports>>
  BY DEF Bind, SeesEof, Crashes, ClosesPort, Exits
<1>2. host' \in [Hosts -> HostStates]
  BY DEF Bind, SeesEof, Crashes, ClosesPort, Exits, Moves, IInv, ConnectionTypeOK,
         HostStates
<1>3. faults' \in {faults, faults + 1} /\ faults' \in 0 .. MaxFaults
  BY DEF Bind, SeesEof, Crashes, ClosesPort, Exits, Fault, IInv, ConnectionTypeOK
<1>4. ConnectionTypeOK'
  BY <1>1, <1>2, <1>3 DEF IInv, ConnectionTypeOK, workerVars
<1>5. OnePort' /\ NeverStuck' /\ FreshAttempts'
  BY <1>1 DEF IInv, OnePort, NeverStuck, FreshAttempts, workerVars
<1>6. QED
  BY <1>4, <1>5 DEF IInv

(* The port that is reported closed is the worker's own, and with a fresh  *)
(* counter.                                                                *)
LEMMA DisconnectStep ==
  ASSUME IInv, NEW h \in Hosts, OnDisconnect(h)
  PROVE  /\ IInv'
         /\ reconnectTimer' = IF reconnectTimer = None THEN 200 ELSE reconnectTimer
<1> USE NoneAssumption, LimitsAssumption
<1>1. nmPort = h /\ ports' = {} /\ reconnectAttempts = 0
  BY DEF OnDisconnect, IInv, OnePort, FreshAttempts
<1>2. /\ reconnectTimer' \in Waits
      /\ reconnectTimer' # None
      /\ reconnectAttempts' \in {0, 1}
  BY <1>1, Scheduled DEF OnDisconnect, IInv, ConnectionTypeOK
<1>3. reconnectTimer' = IF reconnectTimer = None THEN 200 ELSE reconnectTimer
  BY <1>1, FirstDelay DEF OnDisconnect, ScheduleReconnect
<1>4. IInv'
  BY <1>1, <1>2 DEF OnDisconnect, IInv, ConnectionTypeOK, OnePort, NeverStuck,
                    FreshAttempts
<1>5. QED
  BY <1>3, <1>4

(* A long wait begins with an exception and in no other way. *)
LEMMA LongWaits ==
  ASSUME IInv, [ConnectionNext]_connectionVars, reconnectTimer' \in {3000, 60000}
  PROVE  reconnectTimer' = reconnectTimer \/ ConnectThrows
<1>1. None \notin {3000, 60000}
  BY NoneAssumption DEF Waits
<1>2. ASSUME Connect PROVE reconnectTimer' = reconnectTimer \/ ConnectThrows
  BY <1>2 DEF Connect, Launch, LaunchWith
<1>3. CASE Wake \/ PlatformInfo \/ Online
  BY <1>2, <1>3 DEF Wake, PlatformInfo, Online
<1>4. CASE Sleep \/ TimerFires
  BY <1>1, <1>4 DEF Sleep, TimerFires
<1>5. ASSUME NEW h \in Hosts, OnDisconnect(h)
      PROVE  reconnectTimer' = reconnectTimer
  BY <1>5, DisconnectStep
<1>6. ASSUME NEW h \in Hosts,
             \/ Bind(h) \/ SeesEof(h) \/ Crashes(h) \/ ClosesPort(h) \/ Exits(h)
      PROVE  reconnectTimer' = reconnectTimer
  BY <1>6 DEF Bind, SeesEof, Crashes, ClosesPort, Exits, workerVars
<1>7. CASE UNCHANGED connectionVars
  BY <1>7 DEF connectionVars, workerVars
<1> QED
  BY <1>3, <1>4, <1>5, <1>6, <1>7 DEF ConnectionNext

(* Every step keeps the invariant. *)
LEMMA NextInv == IInv /\ [ConnectionNext]_connectionVars => IInv'
<1> USE NoneAssumption, LimitsAssumption
<1> SUFFICES ASSUME IInv, [ConnectionNext]_connectionVars
             PROVE  IInv'
  OBVIOUS
<1>1. CASE Wake
  <2>1. Connect /\ awake' = TRUE /\ callbacks' = callbacks /\ ~awake
    BY <1>1 DEF Wake
  <2>2. QED
    BY <2>1, Connected DEF IInv, ConnectionTypeOK
<1>2. CASE Sleep
  <2>1. callbacks' \in 0 .. MaxCallbacks /\ faults' \in 0 .. MaxFaults
    BY <1>2 DEF Sleep, Fault, IInv, ConnectionTypeOK
  <2>2. ConnectionTypeOK'
    <3>1. awake' \in BOOLEAN
      BY <1>2, Zenon DEF Sleep
    <3>2. /\ nmPort' \in Hosts \cup {None}
          /\ ports' \subseteq Hosts
          /\ reconnectTimer' \in Waits \cup {None}
          /\ reconnectAttempts' \in Nat
      BY <1>2 DEF Sleep
    <3>3. host' \in [Hosts -> HostStates]
      BY <1>2 DEF Sleep, IInv, ConnectionTypeOK
    <3>4. QED
      BY <2>1, <3>1, <3>2, <3>3 DEF ConnectionTypeOK
  <2>3. OnePort' /\ NeverStuck' /\ FreshAttempts'
    BY <1>2, <2>1 DEF Sleep, OnePort, NeverStuck, FreshAttempts
  <2>4. QED
    BY <2>2, <2>3 DEF IInv
<1>3. CASE TimerFires
  BY <1>3 DEF TimerFires, IInv, ConnectionTypeOK, OnePort, NeverStuck,
              FreshAttempts
<1>4. CASE PlatformInfo
  <2>1. Connect /\ awake' = awake /\ callbacks' \in 0 .. MaxCallbacks
    BY <1>4 DEF PlatformInfo, IInv, ConnectionTypeOK
  <2>2. QED
    BY <2>1, Connected DEF IInv, ConnectionTypeOK
<1>5. CASE Online
  <2>1. Connect /\ awake' = awake /\ callbacks' = callbacks
    BY <1>5 DEF Online
  <2>2. QED
    BY <2>1, Connected DEF IInv, ConnectionTypeOK
<1>6. ASSUME NEW h \in Hosts, OnDisconnect(h) PROVE IInv'
  BY <1>6, DisconnectStep
<1>7. ASSUME NEW h \in Hosts, \/ Bind(h) \/ SeesEof(h) \/ Crashes(h)
                                       \/ ClosesPort(h) \/ Exits(h)
      PROVE  IInv'
  BY <1>7, HostSteps
<1>8. CASE UNCHANGED connectionVars
  BY <1>8 DEF connectionVars, workerVars, IInv, ConnectionTypeOK, OnePort,
              NeverStuck, FreshAttempts
<1>9. QED
  BY <1>1, <1>2, <1>3, <1>4, <1>5, <1>6, <1>7, <1>8 DEF ConnectionNext

(***************************************************************************)
(* The inductive invariant: types, one port, a retry pending, and a counter *)
(* that is fresh as long as there is a port.                                *)
(***************************************************************************)
THEOREM ConnectionInvariant == ConnectionSpec => []IInv
<1>1. ConnectionInit => IInv
  BY InitInv
<1>2. IInv /\ [ConnectionNext]_connectionVars => IInv'
  BY NextInv
<1>3. QED
  BY <1>1, <1>2, PTL DEF ConnectionSpec

(* Every variable of the worker and of the host processes keeps its type. *)
THEOREM ConnectionTypeCorrect == ConnectionSpec => []ConnectionTypeOK
<1>1. IInv => ConnectionTypeOK
  BY DEF IInv
<1>2. QED
  BY <1>1, ConnectionInvariant, PTL

(* The worker never holds two ports, hence never two host processes. *)
THEOREM OnlyOnePort == ConnectionSpec => []OnePort
<1>1. IInv => OnePort
  BY DEF IInv
<1>2. QED
  BY <1>1, ConnectionInvariant, PTL

(* A running worker without a port always has a retry pending. *)
THEOREM AlwaysRetrying == ConnectionSpec => []NeverStuck
<1>1. IInv => NeverStuck
  BY DEF IInv
<1>2. QED
  BY <1>1, ConnectionInvariant, PTL

(* Only exceptions of connectNative() begin a long wait; a disconnection   *)
(* begins one of 200 ms, or keeps the wait that is under way.              *)
THEOREM LongWaitsAreThrows == ConnectionSpec => OnlyThrowsSlowDown
<1> DEFINE Waited ==
      /\ \A h \in Hosts :
           OnDisconnect(h) =>
             reconnectTimer' = IF reconnectTimer = None THEN 200 ELSE reconnectTimer
      /\ reconnectTimer' \in {3000, 60000} =>
           reconnectTimer' = reconnectTimer \/ ConnectThrows
<1>1. IInv /\ [ConnectionNext]_connectionVars => [Waited]_connectionVars
  BY DisconnectStep, LongWaits
<1>2. QED
  BY <1>1, ConnectionInvariant, PTL DEF ConnectionSpec, OnlyThrowsSlowDown

---------------------------------------------------------------------------
(***************************************************************************)
(* Requests and cookies across the lives of the connection.                *)
(*                                                                         *)
(* The worker answers to the process that is connected, so that ids keep   *)
(* answers apart only as long as one process serves at a time: OneServing  *)
(* is what bind() gives, PendingServed and PendingIds what follows for the *)
(* handlers.  The proof about cookies follows a response from the event to *)
(* the cache to the head (CookiesFollowed).  The connection's own steps    *)
(* are covered by IInv.                                                    *)
(***************************************************************************)

(* Host processes that have the TCP port. *)
Taken == {"serving", "crashed", "stopping"}

OneServing ==
  \A g, h \in Hosts : host[g] \in Taken /\ host[h] \in Taken => g = h

(* A registered handler belongs to a process that is there, and its id is  *)
(* one that the process has given.                                         *)
PendingServed ==
  \A c \in Calls :
    handler[c] = "pending" =>
      /\ at[c] \in Hosts /\ host[at[c]] \in {"serving", "crashed"}
      /\ id[c] < counter[at[c]]

(* No two handlers that are registered have the same id. *)
PendingIds ==
  \A c, d \in Calls :
    handler[c] = "pending" /\ handler[d] = "pending" /\ id[c] = id[d] => c = d

BegunCalls == {c \in Calls : handler[c] # "new"}

(* Ids are given one at a time. *)
Counted == \A h \in Hosts : counter[h] <= 1 + Cardinality(BegunCalls)

(* Messages come from calls that have begun; the last one of a call leaves *)
(* no fetch behind, and nobody unregisters without a last one.             *)
Begun ==
  /\ \A c \in Calls : handler[c] = "new" => stage[c] = "none" /\ given[c] = {}
  /\ \A c \in Calls : \A m \in given[c] : handler[m.from] # "new"
  /\ \A c \in Calls : \A m \in given[c] :
       m.type \in {"end", "error"} => stage[m.from] = "none"
  /\ \A c \in Calls :
       handler[c] = "popped" => \E m \in given[c] : m.type \in {"end", "error"}

(* The cookies of a response are nowhere until the listener hears of them, *)
(* then in the cache under the key it was told, then with one request.     *)
CookiesFollowed ==
  /\ \A c \in unheard : handler[c] # "new"
  /\ \A c \in Calls :
       handler[c] = "new" \/ c \in unheard =>
         /\ \A k \in Keys : c \notin setCookieCache[k]
         /\ \A d \in Calls : c \notin cookies[d]
  /\ \A c \in Calls, k \in Keys :
       c \in setCookieCache[k] =>
         k = Key(Reported[c]) /\ \A d \in Calls : c \notin cookies[d]

(* What the cache holds for a call that looks it up undisturbed. *)
Undisturbed ==
  \A c \in Calls \ disturbed :
    stage[c] = "fetching" =>
      setCookieCache[Key(Resource[c])] =
        IF c \in unheard \/ Reported[c] # Resource[c] THEN {} ELSE {c} \cap Setters

WorkerInv ==
  /\ TypeOK
  /\ IInv
  /\ OneServing
  /\ PendingServed
  /\ PendingIds
  /\ Counted
  /\ Begun
  /\ OnlyAbandonedStray
  /\ CookiesFollowed
  /\ CookiesGoOnce
  /\ Undisturbed

---------------------------------------------------------------------------
(* Types. *)

Handlers == {"new", "pending", "lost", "popped"}
Stages == {"none", "fetching", "body"}
Messages == [from : Calls, type : {"response", "end", "error"}]

(* The types of the requests, the counters left aside. *)
LEMMA Types ==
  ASSUME TypeOK
  PROVE  /\ setCookieCache \in [Keys -> SUBSET Origins]
         /\ handler \in [Calls -> Handlers]
         /\ at \in [Calls -> Hosts \cup {None}]
         /\ id \in [Calls -> Nat]
         /\ counter \in [Hosts -> Nat]
         /\ stage \in [Calls -> Stages]
         /\ unheard \subseteq Calls
         /\ cookies \in [Calls -> SUBSET Origins]
         /\ \A c \in Calls : given[c] \subseteq Messages
         /\ disturbed \subseteq Calls
         /\ host \in [Hosts -> HostStates]
         /\ nmPort \in Hosts \cup {None}
         /\ awake \in BOOLEAN
<1>1. Cardinality(Calls) \in Nat
  BY CallsAssumption, FS_CardinalityType
<1>2. id \in [Calls -> Nat] /\ counter \in [Hosts -> Nat]
  BY <1>1 DEF TypeOK
<1> QED
  BY <1>2 DEF TypeOK, ConnectionTypeOK, Handlers, Stages, Messages

(* The keys of the resources. *)
LEMMA KeyType ==
  /\ \A c \in Calls : /\ Resource[c] \in Resources /\ Key(Resource[c]) \in Keys
                       /\ Reported[c] \in Resources /\ Key(Reported[c]) \in Keys
  /\ \A r \in Elsewhere : r \in Resources /\ Key(r) \in Keys
BY DEF Resources, Keys

(* Two resources with the same key are the same. *)
LEMMA KeyInjective ==
  ASSUME NEW r \in Resources, NEW s \in Resources, Key(r) = Key(s)
  PROVE  r = s
<1>1. r.method = s.method /\ r.url = s.url
  BY DEF Key
<1> QED
  BY <1>1, ResourceAssumption

(* A process has an id left for a call that has not begun. *)
LEMMA IdLeft ==
  ASSUME TypeOK, Counted, NEW c \in Calls, handler[c] = "new", NEW h \in Hosts
  PROVE  /\ Cardinality(Calls) \in Nat
         /\ counter[h] \in 1 .. Cardinality(Calls)
<1>1. BegunCalls \in SUBSET Calls /\ BegunCalls # Calls
  BY DEF BegunCalls
<1>2. /\ Cardinality(Calls) \in Nat /\ IsFiniteSet(BegunCalls)
      /\ Cardinality(BegunCalls) \in Nat
      /\ Cardinality(BegunCalls) <= Cardinality(Calls)
      /\ Cardinality(BegunCalls) # Cardinality(Calls)
  BY <1>1, CallsAssumption, FS_CardinalityType, FS_Subset
<1>3. counter[h] \in 1 .. Cardinality(Calls) + 1
  BY DEF TypeOK
<1>4. counter[h] <= 1 + Cardinality(BegunCalls)
  BY DEF Counted
<1> QED
  BY <1>2, <1>3, <1>4

---------------------------------------------------------------------------
(* Steps of the connection. *)

(* Only a process that was not there starts, and only one that finds the   *)
(* TCP port free serves.                                                   *)
LEMMA HostMoves ==
  ASSUME TypeOK, OneServing, ConnectionNext
  PROVE  /\ OneServing'
         /\ \A h \in Hosts : host'[h] = "starting" => host[h] \in {"none", "starting"}
<1>0. host \in [Hosts -> HostStates]
  BY Types
<1>1. ASSUME Connect \/ UNCHANGED host
      PROVE  \/ host' = host
             \/ \E h \in Hosts : host[h] = "none" /\ host' = [host EXCEPT ![h] = "starting"]
  BY <1>1 DEF Connect, Launch, LaunchWith, Moves, ConnectThrows
<1>2. CASE host' = host
  BY <1>2 DEF OneServing
<1>3. ASSUME NEW h \in Hosts, host[h] = "none", host' = [host EXCEPT ![h] = "starting"]
      PROVE  /\ OneServing'
             /\ \A g \in Hosts : host'[g] = "starting" => host[g] \in {"none", "starting"}
  BY <1>0, <1>3 DEF OneServing, Taken
<1>4. ASSUME NEW h \in Hosts, Bind(h)
      PROVE  /\ OneServing'
             /\ \A g \in Hosts : host'[g] = "starting" => host[g] \in {"none", "starting"}
  BY <1>0, <1>4 DEF Bind, Moves, PortTaken, OneServing, Taken
<1>5. ASSUME NEW h \in Hosts, SeesEof(h) \/ Crashes(h) \/ ClosesPort(h) \/ Exits(h)
      PROVE  /\ OneServing'
             /\ \A g \in Hosts : host'[g] = "starting" => host[g] \in {"none", "starting"}
  BY <1>0, <1>5 DEF SeesEof, Crashes, ClosesPort, Exits, Moves, OneServing, Taken
<1>6. CASE Wake \/ Sleep \/ TimerFires \/ PlatformInfo \/ Online
           \/ \E h \in Hosts : OnDisconnect(h)
  <2>1. Connect \/ UNCHANGED host
    BY <1>6 DEF Wake, Sleep, TimerFires, PlatformInfo, Online, OnDisconnect
  <2> QED
    BY <1>1, <1>2, <1>3, <2>1
<1> QED
  BY <1>4, <1>5, <1>6 DEF ConnectionNext

(* What a step of the connection does to the requests. *)
LEMMA FollowsMeans ==
  ASSUME TypeOK, Follows
  PROVE  /\ \A c \in Calls : handler'[c] = "new" <=> handler[c] = "new"
         /\ \A c \in Calls : handler'[c] = "popped" <=> handler[c] = "popped"
         /\ \A c \in Calls : handler[c] = "lost" => handler'[c] = "lost"
         /\ \A c \in Calls :
              handler'[c] = "pending" =>
                handler[c] = "pending" /\ host'[at[c]] \notin {"stopping", "leaving", "none"}
         /\ handler' \in [Calls -> Handlers]
         /\ BegunCalls' = BegunCalls
         /\ \A h \in Hosts : counter'[h] = IF host'[h] = "none" THEN 1 ELSE counter[h]
         /\ \/ stage' = stage /\ setCookieCache' = setCookieCache
            \/ stage' = NoFetch /\ setCookieCache' = NoCookies
         /\ UNCHANGED <<at, id, unheard, cookies, given, disturbed>>
<1>0. handler \in [Calls -> Handlers]
  BY Types
<1>1. handler' = [c \in Calls |->
                    IF handler[c] = "pending" /\ host'[at[c]] \in {"stopping", "leaving", "none"}
                    THEN "lost" ELSE handler[c]]
  BY DEF Follows
<1>2. handler' \in [Calls -> Handlers]
  BY <1>0, <1>1 DEF Handlers
<1>3. /\ \A c \in Calls : handler'[c] = "new" <=> handler[c] = "new"
      /\ \A c \in Calls : handler'[c] = "popped" <=> handler[c] = "popped"
      /\ \A c \in Calls : handler[c] = "lost" => handler'[c] = "lost"
      /\ \A c \in Calls :
           handler'[c] = "pending" =>
             handler[c] = "pending" /\ host'[at[c]] \notin {"stopping", "leaving", "none"}
  BY <1>1
<1>4. BegunCalls' = BegunCalls
  BY <1>3 DEF BegunCalls
<1>5. \A h \in Hosts : counter'[h] = IF host'[h] = "none" THEN 1 ELSE counter[h]
  BY DEF Follows
<1>6. /\ \/ stage' = stage /\ setCookieCache' = setCookieCache
         \/ stage' = NoFetch /\ setCookieCache' = NoCookies
      /\ UNCHANGED <<at, id, unheard, cookies, given, disturbed>>
  BY DEF Follows
<1> QED
  BY <1>2, <1>3, <1>4, <1>5, <1>6

(* A step of the connection loses handlers with their process and the      *)
(* fetches with the worker, and keeps the rest in order.                   *)
LEMMA ConnectionStep ==
  ASSUME WorkerInv, ConnectionNext, Follows
  PROVE  WorkerInv'
<1>0. /\ handler \in [Calls -> Handlers] /\ at \in [Calls -> Hosts \cup {None}]
      /\ host \in [Hosts -> HostStates] /\ counter \in [Hosts -> Nat]
      /\ TypeOK /\ OneServing
  BY Types DEF WorkerInv
<1>1. IInv'
  BY NextInv DEF WorkerInv
<1>2. OneServing'
  BY <1>0, HostMoves
<1>3. /\ \A c \in Calls : handler'[c] = "new" <=> handler[c] = "new"
      /\ \A c \in Calls : handler'[c] = "popped" <=> handler[c] = "popped"
      /\ \A c \in Calls : handler[c] = "lost" => handler'[c] = "lost"
      /\ \A c \in Calls :
           handler'[c] = "pending" =>
             handler[c] = "pending" /\ host'[at[c]] \notin {"stopping", "leaving", "none"}
      /\ handler' \in [Calls -> Handlers]
      /\ BegunCalls' = BegunCalls
      /\ \A h \in Hosts : counter'[h] = IF host'[h] = "none" THEN 1 ELSE counter[h]
      /\ \/ stage' = stage /\ setCookieCache' = setCookieCache
         \/ stage' = NoFetch /\ setCookieCache' = NoCookies
      /\ UNCHANGED <<at, id, unheard, cookies, given, disturbed>>
  BY <1>0, FollowsMeans
<1>4. TypeOK'
  <2>1. Cardinality(Calls) \in Nat
    BY CallsAssumption, FS_CardinalityType
  <2>2. counter' \in [Hosts -> 1 .. Cardinality(Calls) + 1]
    BY <1>0, <2>1 DEF Follows, TypeOK
  <2>3. stage' \in [Calls -> Stages]
    BY <1>0, <1>3, Types DEF NoFetch, Stages
  <2>4. setCookieCache' \in [Keys -> SUBSET Origins]
    BY <1>0, <1>3, Types DEF NoCookies
  <2>5. handler' \in [Calls -> Handlers]
    BY <1>3
  <2>6. ConnectionTypeOK'
    BY <1>1 DEF IInv
  <2>7. /\ at' \in [Calls -> Hosts \cup {None}] /\ id' \in [Calls -> 0 .. Cardinality(Calls)]
        /\ cookies' \in [Calls -> SUBSET Origins]
        /\ unheard' \subseteq Calls /\ disturbed' \subseteq Calls
        /\ \A c \in Calls :
             given'[c] \subseteq [from : Calls, type : {"response", "end", "error"}]
    BY <1>0, <1>3 DEF TypeOK
  <2> QED
    BY <2>2, <2>3, <2>4, <2>5, <2>6, <2>7 DEF TypeOK, Handlers, Stages
<1>5. PendingServed'
  <2> SUFFICES ASSUME NEW c \in Calls, handler'[c] = "pending"
               PROVE  /\ at[c] \in Hosts /\ host'[at[c]] \in {"serving", "crashed"}
                      /\ id[c] < counter'[at[c]]
    BY <1>3 DEF PendingServed
  <2>1. /\ handler[c] = "pending" /\ host'[at[c]] \notin {"stopping", "leaving", "none"}
    BY <1>3
  <2>2. /\ at[c] \in Hosts /\ host[at[c]] \in {"serving", "crashed"} /\ id[c] < counter[at[c]]
    BY <2>1 DEF WorkerInv, PendingServed
  <2>3. host'[at[c]] \in HostStates
    BY <1>4, <2>2 DEF TypeOK, ConnectionTypeOK
  <2>4. host'[at[c]] # "starting"
    BY <1>0, <2>2, HostMoves
  <2> QED
    BY <1>3, <2>1, <2>2, <2>3, <2>4 DEF HostStates
<1>6. PendingIds'
  BY <1>3 DEF WorkerInv, PendingIds
<1>7. Counted'
  <2>1. IsFiniteSet(BegunCalls)
    BY CallsAssumption, FS_Subset DEF BegunCalls
  <2>2. Cardinality(BegunCalls) \in Nat
    BY <2>1, FS_CardinalityType
  <2>3. \A h \in Hosts : counter'[h] <= 1 + Cardinality(BegunCalls)
    BY <1>0, <1>3, <2>2 DEF WorkerInv, Counted
  <2> QED
    BY <1>3, <2>3 DEF Counted
<1>8. Begun'
  <2>1. \A c \in Calls : stage[c] = "none" => stage'[c] = "none"
    BY <1>3 DEF NoFetch
  <2>2. \A c \in Calls : \A m \in given[c] : m.from \in Calls
    BY <1>0, Types DEF Messages
  <2> QED
    BY <1>3, <2>1, <2>2 DEF WorkerInv, Begun
<1>9. OnlyAbandonedStray'
  <2>1. \A c \in Calls : Strays(c)' = Strays(c)
    BY <1>3 DEF Strays
  <2>2. \A c \in Calls : \A m \in Strays(c) : m.from \in Calls
    BY <1>0, Types DEF Messages, Strays
  <2> SUFFICES ASSUME NEW c \in Calls, NEW m \in Strays(c)
               PROVE  /\ \/ handler'[m.from] = "lost"
                         \/ handler'[m.from] = "popped" /\ Strays(m.from) # {}
                      /\ id[m.from] = id[c]
                      /\ handler'[c] # "new"
    BY <1>3, <2>1, <2>2 DEF OnlyAbandonedStray
  <2> QED
    BY <1>3, <2>2 DEF WorkerInv, OnlyAbandonedStray
<1>10. CookiesFollowed' /\ CookiesGoOnce'
  <2>0. unheard \subseteq Calls
    BY <1>0, Types
  <2>1. CASE stage' = stage /\ setCookieCache' = setCookieCache
    BY <1>3, <2>0, <2>1 DEF WorkerInv, CookiesFollowed, CookiesGoOnce
  <2>2. CASE stage' = NoFetch /\ setCookieCache' = NoCookies
    BY <1>3, <2>0, <2>2 DEF WorkerInv, CookiesFollowed, CookiesGoOnce, NoFetch, NoCookies
  <2> QED
    BY <1>3, <2>1, <2>2
<1>11. Undisturbed'
  <2>1. CASE stage' = stage /\ setCookieCache' = setCookieCache
    BY <1>3, <2>1 DEF WorkerInv, Undisturbed
  <2>2. CASE stage' = NoFetch
    BY <1>3, <2>2 DEF Undisturbed, NoFetch
  <2> QED
    BY <1>3, <2>1, <2>2
<1> QED
  BY <1>1, <1>2, <1>4, <1>5, <1>6, <1>7, <1>8, <1>9, <1>10, <1>11 DEF WorkerInv

---------------------------------------------------------------------------
(* Steps of the requests. *)

(* They leave the connection as it is. *)
LEMMA ConnectionKept ==
  ASSUME WorkerInv, UNCHANGED connectionVars
  PROVE  IInv' /\ ConnectionTypeOK' /\ OneServing' /\ UNCHANGED <<host, nmPort, awake>>
<1>1. IInv'
  BY NextInv DEF WorkerInv
<1>2. UNCHANGED <<host, nmPort, awake>>
  BY DEF connectionVars, workerVars
<1> QED
  BY <1>1, <1>2 DEF IInv, WorkerInv, OneServing

(* Most leave the handlers and the ids as they are. *)
LEMMA HandlersKept ==
  ASSUME WorkerInv, UNCHANGED <<connectionVars, handler, at, id, counter>>
  PROVE  PendingServed' /\ PendingIds' /\ Counted'
BY ConnectionKept DEF WorkerInv, PendingServed, PendingIds, Counted, BegunCalls

(* A fetch that goes on, and sends nothing. *)
LEMMA GivenKept ==
  ASSUME WorkerInv, UNCHANGED <<handler, id, given>>,
         \A c \in Calls : stage[c] = "none" => stage'[c] = "none"
  PROVE  Begun' /\ OnlyAbandonedStray'
<1>1. \A c \in Calls : Strays(c)' = Strays(c)
  BY DEF Strays
<1>2. \A c \in Calls : \A m \in given[c] : m.from \in Calls
  BY Types DEF WorkerInv, Messages
<1>3. Begun'
  BY <1>2 DEF WorkerInv, Begun
<1>4. OnlyAbandonedStray'
  BY <1>1, <1>2 DEF WorkerInv, OnlyAbandonedStray, Strays
<1> QED
  BY <1>3, <1>4

(* The cookies stay where they are. *)
LEMMA CookiesKept ==
  ASSUME WorkerInv, UNCHANGED <<setCookieCache, cookies>>,
         \A c \in Calls :
           handler'[c] = "new" \/ c \in unheard'
             => handler[c] = "new" \/ c \in unheard,
         \A c \in unheard' : handler'[c] # "new"
  PROVE  CookiesFollowed' /\ CookiesGoOnce'
BY DEF WorkerInv, CookiesFollowed, CookiesGoOnce

(* A client's request gets the next id of a process that is there. *)
LEMMA RequestStep ==
  ASSUME WorkerInv, NEW c \in Calls, NEW h \in Hosts, Request(c, h)
  PROVE  WorkerInv'
<1> DEFINE many == Cardinality(Calls)
<1>0. /\ handler \in [Calls -> Handlers] /\ at \in [Calls -> Hosts \cup {None}]
      /\ id \in [Calls -> 0 .. many] /\ counter \in [Hosts -> 1 .. many + 1]
      /\ stage \in [Calls -> Stages] /\ unheard \subseteq Calls /\ TypeOK /\ Counted
  BY Types DEF WorkerInv, TypeOK
<1>1. /\ handler[c] = "new" /\ host[h] \in {"serving", "crashed"}
      /\ handler' = [handler EXCEPT ![c] = "pending"]
      /\ at' = [at EXCEPT ![c] = h]
      /\ id' = [id EXCEPT ![c] = counter[h]]
      /\ counter' = [counter EXCEPT ![h] = counter[h] + 1]
      /\ stage' = [stage EXCEPT ![c] = "fetching"]
      /\ unheard' = unheard \cup {c}
      /\ UNCHANGED <<connectionVars, setCookieCache, cookies, given>>
  BY DEF Request, Takes
<1>2. many \in Nat /\ counter[h] \in 1 .. many
  BY <1>0, <1>1, IdLeft
<1>3. disturbed \subseteq disturbed' /\ disturbed' \subseteq Calls
      /\ (c \notin disturbed' => setCookieCache[Key(Resource[c])] = {})
  BY <1>0, Types DEF Request, Takes
<1>4. IInv' /\ ConnectionTypeOK' /\ OneServing' /\ host' = host
  BY <1>1, ConnectionKept
<1>5. TypeOK'
  <2>1. id' \in [Calls -> 0 .. many] /\ counter' \in [Hosts -> 1 .. many + 1]
    BY <1>0, <1>1, <1>2
  <2>2. /\ handler' \in [Calls -> Handlers] /\ at' \in [Calls -> Hosts \cup {None}]
        /\ stage' \in [Calls -> Stages] /\ unheard' \subseteq Calls
    BY <1>0, <1>1 DEF Handlers, Stages
  <2>3. /\ setCookieCache' \in [Keys -> SUBSET Origins]
        /\ cookies' \in [Calls -> SUBSET Origins]
        /\ \A d \in Calls :
             given'[d] \subseteq [from : Calls, type : {"response", "end", "error"}]
    BY <1>0, <1>1 DEF TypeOK
  <2> QED
    BY <1>3, <1>4, <2>1, <2>2, <2>3 DEF TypeOK, Handlers, Stages
<1>6. PendingServed'
  <2> SUFFICES ASSUME NEW d \in Calls, handler'[d] = "pending"
               PROVE  /\ at'[d] \in Hosts /\ host[at'[d]] \in {"serving", "crashed"}
                      /\ id'[d] < counter'[at'[d]]
    BY <1>4 DEF PendingServed
  <2>1. CASE d = c
    BY <1>0, <1>1, <1>2, <2>1
  <2>2. CASE d # c
    <3>1. /\ at'[d] = at[d] /\ id'[d] = id[d] /\ handler[d] = "pending"
      BY <1>0, <1>1, <2>2
    <3>2. /\ at[d] \in Hosts /\ host[at[d]] \in {"serving", "crashed"} /\ id[d] < counter[at[d]]
      BY <3>1 DEF WorkerInv, PendingServed
    <3>3. counter'[at[d]] \in {counter[at[d]], counter[at[d]] + 1}
      BY <1>0, <1>1, <3>2
    <3> QED
      BY <1>0, <3>1, <3>2, <3>3
  <2> QED
    BY <2>1, <2>2
<1>7. PendingIds'
  <2>1. ASSUME NEW d \in Calls, d # c, handler[d] = "pending"
        PROVE  id[d] # counter[h]
    <3>1. at[d] \in Hosts /\ host[at[d]] \in {"serving", "crashed"} /\ id[d] < counter[at[d]]
      BY <2>1 DEF WorkerInv, PendingServed
    <3>2. at[d] = h
      BY <1>1, <3>1 DEF WorkerInv, OneServing, Taken
    <3> QED
      BY <1>0, <1>2, <3>1, <3>2
  <2> QED
    BY <1>0, <1>1, <2>1 DEF WorkerInv, PendingIds
<1>8. Counted'
  <2>1. IsFiniteSet(BegunCalls) /\ Cardinality(BegunCalls) \in Nat
    BY CallsAssumption, FS_Subset, FS_CardinalityType DEF BegunCalls
  <2>2. BegunCalls' = BegunCalls \cup {c} /\ c \notin BegunCalls
    BY <1>0, <1>1 DEF BegunCalls
  <2>3. Cardinality(BegunCalls') = Cardinality(BegunCalls) + 1
    BY <2>1, <2>2, FS_AddElement
  <2>4. \A g \in Hosts : counter[g] \in Nat /\ counter[g] <= 1 + Cardinality(BegunCalls)
    BY <1>0, <1>2 DEF Counted
  <2>5. \A g \in Hosts : counter'[g] \in {counter[g], counter[g] + 1}
    BY <1>0, <1>1
  <2>6. \A g \in Hosts : counter'[g] <= 1 + (Cardinality(BegunCalls) + 1)
    BY <2>1, <2>4, <2>5
  <2> QED
    BY <2>3, <2>6 DEF Counted
<1>9. Begun' /\ OnlyAbandonedStray'
  <2>1. /\ \A d \in Calls : Strays(d)' = Strays(d)
        /\ \A d \in Calls : \A m \in given[d] : m.from \in Calls
        /\ \A d \in Calls : \A m \in given[d] : m.from # c
        /\ given[c] = {} /\ given' = given
    BY <1>0, <1>1, Types DEF Strays, Messages, WorkerInv, Begun
  <2>2. \A d \in Calls : d # c => /\ handler'[d] = handler[d] /\ stage'[d] = stage[d]
                                 /\ id'[d] = id[d]
    BY <1>0, <1>1
  <2>3. handler'[c] = "pending"
    BY <1>0, <1>1
  <2>4. Begun'
    BY <2>1, <2>2, <2>3 DEF WorkerInv, Begun
  <2>5. OnlyAbandonedStray'
    BY <2>1, <2>2, <2>3 DEF WorkerInv, OnlyAbandonedStray, Strays
  <2> QED
    BY <2>4, <2>5
<1>10. CookiesFollowed' /\ CookiesGoOnce'
  <2>1. \A d \in unheard' : handler'[d] # "new"
    BY <1>0, <1>1 DEF WorkerInv, CookiesFollowed
  <2> QED
    BY <1>0, <1>1, <2>1, CookiesKept
<1>11. Undisturbed'
  BY <1>0, <1>1, <1>3 DEF WorkerInv, Undisturbed
<1> QED
  BY <1>4, <1>5, <1>6, <1>7, <1>8, <1>9, <1>10, <1>11 DEF WorkerInv

(* A response that sets cookies puts them under the key that is reported,  *)
(* and disturbs whoever else is about to look there.                       *)
LEMMA HeadersReceivedStep ==
  ASSUME WorkerInv, NEW c \in Calls, HeadersReceived(c)
  PROVE  WorkerInv'
<1> DEFINE k == Key(Reported[c])
<1>0. /\ TypeOK /\ stage \in [Calls -> Stages] /\ k \in Keys /\ unheard \subseteq Calls
      /\ setCookieCache \in [Keys -> SUBSET Origins]
      /\ handler \in [Calls -> Handlers]
  BY Types, KeyType DEF WorkerInv
<1>1. /\ c \in unheard /\ unheard' = unheard \ {c}
      /\ UNCHANGED <<connectionVars, handler, at, id, counter, stage, cookies, given>>
      /\ \/ /\ c \in Setters
            /\ setCookieCache' = [setCookieCache EXCEPT ![k] = {c}]
            /\ disturbed' = disturbed \cup {d \in Looking \ {c} : Resource[d] = Reported[c]}
         \/ c \notin Setters /\ UNCHANGED <<setCookieCache, disturbed>>
  BY DEF HeadersReceived, Touches
<1>2. IInv' /\ ConnectionTypeOK' /\ OneServing'
  BY <1>1, ConnectionKept
<1>3. PendingServed' /\ PendingIds' /\ Counted'
  BY <1>1, HandlersKept
<1>4. Begun' /\ OnlyAbandonedStray'
  BY <1>1, GivenKept
<1>5. TypeOK'
  <2>1. unheard' \subseteq Calls
    BY <1>0, <1>1
  <2>2. disturbed' \subseteq Calls
    BY <1>1, Types DEF Looking, WorkerInv
  <2>3. setCookieCache' \in [Keys -> SUBSET Origins]
    BY <1>0, <1>1 DEF Origins
  <2>4. UNCHANGED <<handler, at, id, counter, stage, cookies, given>>
    BY <1>1
  <2> QED
    BY <1>0, <1>2, <2>1, <2>2, <2>3, <2>4 DEF TypeOK
<1>6. CookiesFollowed' /\ CookiesGoOnce'
  <2>1. /\ \A j \in Keys : c \notin setCookieCache[j]
        /\ \A d \in Calls : c \notin cookies[d]
        /\ handler[c] # "new"
    BY <1>1 DEF WorkerInv, CookiesFollowed
  <2>2. ASSUME NEW d \in Calls, NEW j \in Keys, d \in setCookieCache'[j]
        PROVE  d \in setCookieCache[j] \/ (d = c /\ j = k)
    BY <1>0, <1>1, <2>2
  <2>3. CookiesFollowed'
    <3>1. ASSUME NEW d \in Calls, handler[d] = "new" \/ d \in unheard'
          PROVE  /\ \A j \in Keys : d \notin setCookieCache'[j]
                 /\ \A e \in Calls : d \notin cookies[e]
      <4>1. d # c /\ (handler[d] = "new" \/ d \in unheard)
        BY <1>1, <2>1, <3>1
      <4> QED
        BY <2>2, <4>1 DEF WorkerInv, CookiesFollowed
    <3>2. ASSUME NEW d \in Calls, NEW j \in Keys, d \in setCookieCache'[j]
          PROVE  j = Key(Reported[d]) /\ \A e \in Calls : d \notin cookies[e]
      BY <2>1, <2>2, <3>2 DEF WorkerInv, CookiesFollowed
    <3>3. \A d \in unheard' : handler[d] # "new"
      BY <1>1 DEF WorkerInv, CookiesFollowed
    <3> QED
      BY <1>1, <3>1, <3>2, <3>3 DEF CookiesFollowed
  <2>4. CookiesGoOnce'
    BY <1>1 DEF WorkerInv, CookiesGoOnce
  <2> QED
    BY <2>3, <2>4
<1>7. Undisturbed'
  <2> SUFFICES ASSUME NEW d \in Calls, d \notin disturbed', stage[d] = "fetching"
               PROVE  setCookieCache'[Key(Resource[d])] =
                        IF d \in unheard' \/ Reported[d] # Resource[d] THEN {}
                        ELSE {d} \cap Setters
    BY <1>1 DEF Undisturbed
  <2>1. /\ d \notin disturbed /\ Key(Resource[d]) \in Keys
        /\ Resource[d] \in Resources /\ Reported[c] \in Resources
    BY <1>1, KeyType
  <2>2. setCookieCache[Key(Resource[d])] =
          IF d \in unheard \/ Reported[d] # Resource[d] THEN {} ELSE {d} \cap Setters
    BY <2>1 DEF WorkerInv, Undisturbed
  <2>3. CASE c \notin Setters
    <3>1. setCookieCache' = setCookieCache
      BY <1>1, <2>3
    <3>2. {c} \cap Setters = {}
      BY <2>3
    <3> QED
      BY <1>1, <2>2, <3>1, <3>2
  <2>4. CASE c \in Setters /\ Resource[d] = Reported[c]
    <3>1. d = c
      BY <1>1, <2>4 DEF Looking
    <3>2. setCookieCache'[k] = {c}
      BY <1>0, <1>1, <2>4
    <3> QED
      BY <1>1, <2>4, <3>1, <3>2
  <2>5. CASE c \in Setters /\ Resource[d] # Reported[c]
    <3>1. Key(Resource[d]) # k
      BY <2>1, <2>5, KeyInjective
    <3>2. setCookieCache'[Key(Resource[d])] = setCookieCache[Key(Resource[d])]
      BY <1>0, <1>1, <2>1, <2>5, <3>1
    <3>3. d = c => Reported[d] # Resource[d]
      BY <2>5
    <3> QED
      BY <1>1, <2>2, <3>2, <3>3
  <2> QED
    BY <2>3, <2>4, <2>5
<1> QED
  BY <1>2, <1>3, <1>4, <1>5, <1>6, <1>7 DEF WorkerInv

(* The same event for somebody else's load. *)
LEMMA OtherHeadersStep ==
  ASSUME WorkerInv, NEW r \in Elsewhere, OtherHeadersReceived(r)
  PROVE  WorkerInv'
<1>0. /\ TypeOK /\ stage \in [Calls -> Stages] /\ Key(r) \in Keys /\ r \in Resources
      /\ setCookieCache \in [Keys -> SUBSET Origins]
  BY Types, KeyType DEF WorkerInv
<1>1. /\ setCookieCache' = [setCookieCache EXCEPT ![Key(r)] = {Tab}]
      /\ disturbed' = disturbed \cup {d \in Looking : Resource[d] = r}
      /\ UNCHANGED <<connectionVars, handler, at, id, counter, stage, unheard, cookies,
                     given>>
  BY DEF OtherHeadersReceived
<1>2. IInv' /\ ConnectionTypeOK' /\ OneServing'
  BY <1>1, ConnectionKept
<1>3. PendingServed' /\ PendingIds' /\ Counted'
  BY <1>1, HandlersKept
<1>4. Begun' /\ OnlyAbandonedStray'
  BY <1>1, GivenKept
<1>5. TypeOK'
  <2>1. disturbed' \subseteq Calls
    BY <1>1, Types DEF Looking, WorkerInv
  <2>2. setCookieCache' \in [Keys -> SUBSET Origins]
    BY <1>0, <1>1 DEF Origins
  <2>3. UNCHANGED <<handler, at, id, counter, stage, unheard, cookies, given>>
    BY <1>1
  <2> QED
    BY <1>0, <1>2, <2>1, <2>2, <2>3 DEF TypeOK
<1>6. CookiesFollowed' /\ CookiesGoOnce'
  <2>1. ASSUME NEW d \in Calls, NEW j \in Keys, d \in setCookieCache'[j]
        PROVE  d \in setCookieCache[j]
    BY <1>0, <1>1, <2>1, CallsAssumption
  <2>2. unheard \subseteq Calls
    BY <1>0, Types
  <2> QED
    BY <1>1, <2>1, <2>2 DEF WorkerInv, CookiesFollowed, CookiesGoOnce
<1>7. Undisturbed'
  <2> SUFFICES ASSUME NEW d \in Calls, d \notin disturbed', stage[d] = "fetching"
               PROVE  setCookieCache'[Key(Resource[d])] = setCookieCache[Key(Resource[d])]
    BY <1>1 DEF WorkerInv, Undisturbed
  <2>1. Resource[d] # r
    BY <1>1 DEF Looking
  <2>2. Key(Resource[d]) # Key(r) /\ Key(Resource[d]) \in Keys
    BY <1>0, <2>1, KeyType, KeyInjective
  <2> QED
    BY <1>0, <1>1, <2>2
<1> QED
  BY <1>2, <1>3, <1>4, <1>5, <1>6, <1>7 DEF WorkerInv

(* An answer is added to what handlers were given that have its id and are *)
(* registered in the process that is connected.                            *)
LEMMA SentMeans ==
  ASSUME TypeOK, NEW c \in Calls, NEW type, SafeSend(c, type)
  PROVE  \A d \in Calls :
           /\ given[d] \subseteq given'[d]
           /\ \A m \in given'[d] :
                \/ m \in given[d]
                \/ /\ m = [from |-> c, type |-> type]
                   /\ handler[d] = "pending" /\ id[d] = id[c]
BY DEF SafeSend

(* Only the fetch of an abandoned call sends to a handler that is not its  *)
(* own.                                                                    *)
LEMMA SentStep ==
  ASSUME WorkerInv, NEW c \in Calls, NEW type \in {"response", "end", "error"},
         stage[c] # "none", SafeSend(c, type), UNCHANGED <<handler, id>>,
         \A d \in Calls : stage[d] = "none" => stage'[d] = "none",
         type \in {"end", "error"} => stage'[c] = "none"
  PROVE  /\ \A d \in Calls : given'[d] \subseteq Messages
         /\ Begun' /\ OnlyAbandonedStray'
<1> DEFINE new == [from |-> c, type |-> type]
<1>0. /\ handler \in [Calls -> Handlers] /\ TypeOK
      /\ \A d \in Calls : given[d] \subseteq Messages
  BY Types DEF WorkerInv
<1>1. \A d \in Calls :
        /\ given[d] \subseteq given'[d]
        /\ \A m \in given'[d] :
             m \in given[d] \/ (m = new /\ handler[d] = "pending" /\ id[d] = id[c])
  BY <1>0, SentMeans
<1>2. new.from = c /\ new.type = type /\ new \in Messages
  BY DEF Messages
<1> HIDE DEF new
<1>3. handler[c] # "new"
  BY DEF WorkerInv, Begun
<1>4. \A d \in Calls : given'[d] \subseteq Messages
  BY <1>0, <1>1, <1>2
<1>5. Begun'
  <2>1. \A d \in Calls : handler[d] = "new" => stage'[d] = "none" /\ given'[d] = {}
    BY <1>1 DEF WorkerInv, Begun
  <2>2. \A d \in Calls : \A m \in given'[d] : handler[m.from] # "new"
    BY <1>1, <1>2, <1>3 DEF WorkerInv, Begun
  <2>3. \A d \in Calls : \A m \in given'[d] :
          m.type \in {"end", "error"} => stage'[m.from] = "none"
    BY <1>0, <1>1, <1>2 DEF WorkerInv, Begun, Messages
  <2>4. \A d \in Calls :
          handler[d] = "popped" => \E m \in given'[d] : m.type \in {"end", "error"}
    BY <1>1 DEF WorkerInv, Begun
  <2> QED
    BY <2>1, <2>2, <2>3, <2>4 DEF Begun
<1>6. \A d \in Calls : Strays(d) \subseteq Strays(d)'
  BY <1>1 DEF Strays
<1>7. ASSUME NEW d \in Calls, d # c, handler[d] = "pending", id[d] = id[c]
      PROVE  \/ handler[c] = "lost"
             \/ handler[c] = "popped" /\ Strays(c) # {}
  <2>1. handler[c] # "pending"
    BY <1>7 DEF WorkerInv, PendingIds
  <2>2. ASSUME handler[c] = "popped"
        PROVE  Strays(c) # {}
    <3>1. PICK m \in given[c] : m.type \in {"end", "error"}
      BY <2>2 DEF WorkerInv, Begun
    <3>2. m.from # c
      BY <3>1 DEF WorkerInv, Begun
    <3> QED
      BY <3>1, <3>2 DEF Strays
  <2> QED
    BY <1>0, <1>3, <2>1, <2>2 DEF Handlers
<1>8. OnlyAbandonedStray'
  <2> SUFFICES ASSUME NEW d \in Calls, NEW m \in Strays(d)'
               PROVE  /\ \/ handler[m.from] = "lost"
                         \/ handler[m.from] = "popped" /\ Strays(m.from)' # {}
                      /\ id[m.from] = id[d]
                      /\ handler[d] # "new"
    BY DEF OnlyAbandonedStray
  <2>1. CASE m \in Strays(d)
    <3>1. m.from \in Calls
      BY <1>0, <2>1 DEF Strays, Messages
    <3> QED
      BY <1>6, <2>1, <3>1 DEF WorkerInv, OnlyAbandonedStray
  <2>2. CASE m \notin Strays(d)
    <3>1. m = new /\ handler[d] = "pending" /\ id[d] = id[c] /\ d # c
      BY <1>1, <1>2, <2>2 DEF Strays
    <3> QED
      BY <1>2, <1>6, <1>7, <3>1
  <2> QED
    BY <2>1, <2>2
<1> QED
  BY <1>4, <1>5, <1>8

(* fetch() resolves: the cookies leave the cache for one head.             *)
LEMMA FetchResolvesStep ==
  ASSUME WorkerInv, NEW c \in Calls, FetchResolves(c)
  PROVE  WorkerInv'
<1> DEFINE k == Key(Resource[c])
<1>0. /\ TypeOK /\ stage \in [Calls -> Stages] /\ k \in Keys
      /\ setCookieCache \in [Keys -> SUBSET Origins]
      /\ cookies \in [Calls -> SUBSET Origins]
  BY Types, KeyType DEF WorkerInv
<1>1. /\ stage[c] = "fetching" /\ stage' = [stage EXCEPT ![c] = "body"]
      /\ cookies' = [cookies EXCEPT ![c] = setCookieCache[k]]
      /\ setCookieCache' = [setCookieCache EXCEPT ![k] = {}]
      /\ disturbed' = disturbed \cup {d \in Looking \ {c} : Resource[d] = Resource[c]}
      /\ SafeSend(c, "response")
      /\ UNCHANGED <<connectionVars, handler, at, id, counter, unheard>>
  BY DEF FetchResolves, ResolvesLeaving, Touches
<1>2. IInv' /\ ConnectionTypeOK' /\ OneServing'
  BY <1>1, ConnectionKept
<1>3. PendingServed' /\ PendingIds' /\ Counted'
  BY <1>1, HandlersKept
<1>4. /\ \A d \in Calls : given'[d] \subseteq Messages
      /\ Begun' /\ OnlyAbandonedStray'
  <2>1. /\ stage[c] # "none" /\ UNCHANGED <<handler, id>>
        /\ \A d \in Calls : stage[d] = "none" => stage'[d] = "none"
    BY <1>0, <1>1
  <2> QED
    BY <1>1, <2>1, SentStep
<1>5. TypeOK'
  <2>1. stage' \in [Calls -> Stages]
    BY <1>0, <1>1 DEF Stages
  <2>2. disturbed' \subseteq Calls
    BY <1>1, Types DEF Looking, WorkerInv
  <2>3. /\ setCookieCache' \in [Keys -> SUBSET Origins]
        /\ cookies' \in [Calls -> SUBSET Origins]
    BY <1>0, <1>1
  <2>4. UNCHANGED <<handler, at, id, counter, unheard>>
    BY <1>1
  <2> QED
    BY <1>0, <1>2, <1>4, <2>1, <2>2, <2>3, <2>4 DEF TypeOK, Stages, Messages
<1>6. CookiesFollowed' /\ CookiesGoOnce'
  <2>1. ASSUME NEW d \in Calls, NEW j \in Keys, d \in setCookieCache'[j]
        PROVE  d \in setCookieCache[j] /\ j # k
    BY <1>0, <1>1, <2>1
  <2>2. ASSUME NEW d \in Calls, NEW e \in Calls, d \in cookies'[e]
        PROVE  IF e = c THEN d \in setCookieCache[k] ELSE d \in cookies[e]
    BY <1>0, <1>1, <2>2
  <2>3. CookiesFollowed'
    <3>1. ASSUME NEW d \in Calls, handler[d] = "new" \/ d \in unheard
          PROVE  /\ \A j \in Keys : d \notin setCookieCache'[j]
                 /\ \A e \in Calls : d \notin cookies'[e]
      BY <1>0, <2>1, <2>2, <3>1 DEF WorkerInv, CookiesFollowed
    <3>2. ASSUME NEW d \in Calls, NEW j \in Keys, d \in setCookieCache'[j]
          PROVE  j = Key(Reported[d]) /\ \A e \in Calls : d \notin cookies'[e]
      <4>1. d \in setCookieCache[j] /\ j # k
        BY <2>1, <3>2
      <4>2. j = Key(Reported[d]) /\ \A e \in Calls : d \notin cookies[e]
        BY <4>1 DEF WorkerInv, CookiesFollowed
      <4>3. d \notin setCookieCache[k]
        BY <1>0, <4>1, <4>2 DEF WorkerInv, CookiesFollowed
      <4> QED
        BY <2>2, <4>2, <4>3
    <3>3. \A d \in unheard : handler[d] # "new"
      BY DEF WorkerInv, CookiesFollowed
    <3> QED
      BY <1>1, <3>1, <3>2, <3>3 DEF CookiesFollowed
  <2>4. CookiesGoOnce'
    <3>1. ASSUME NEW d \in Calls, d \in setCookieCache[k]
          PROVE  \A e \in Calls : d \notin cookies[e]
      BY <1>0, <3>1 DEF WorkerInv, CookiesFollowed
    <3> QED
      BY <2>2, <3>1 DEF WorkerInv, CookiesGoOnce
  <2> QED
    BY <2>3, <2>4
<1>7. Undisturbed'
  <2> SUFFICES ASSUME NEW d \in Calls, d \notin disturbed', stage'[d] = "fetching"
               PROVE  /\ d \notin disturbed /\ stage[d] = "fetching"
                      /\ setCookieCache'[Key(Resource[d])] = setCookieCache[Key(Resource[d])]
    BY <1>1 DEF WorkerInv, Undisturbed
  <2>1. d \notin disturbed /\ d # c /\ stage[d] = "fetching"
    BY <1>0, <1>1
  <2>2. Resource[d] # Resource[c]
    BY <1>1, <2>1 DEF Looking
  <2>3. Key(Resource[d]) # k /\ Key(Resource[d]) \in Keys
    BY <2>2, KeyType, KeyInjective
  <2> QED
    BY <1>0, <1>1, <2>1, <2>3
<1> QED
  BY <1>2, <1>3, <1>4, <1>5, <1>6, <1>7 DEF WorkerInv

(* The last message of a fetch. *)
LEMMA FetchEndsStep ==
  ASSUME WorkerInv, NEW c \in Calls, FetchEnds(c)
  PROVE  WorkerInv'
<1>0. TypeOK /\ stage \in [Calls -> Stages]
  BY Types DEF WorkerInv
<1>1. /\ stage[c] # "none" /\ stage' = [stage EXCEPT ![c] = "none"]
      /\ UNCHANGED <<connectionVars, setCookieCache, handler, at, id, counter, unheard,
                     cookies, disturbed>>
      /\ SafeSend(c, "end") \/ SafeSend(c, "error")
  BY DEF FetchEnds
<1>2. IInv' /\ ConnectionTypeOK' /\ OneServing'
  BY <1>1, ConnectionKept
<1>3. PendingServed' /\ PendingIds' /\ Counted'
  BY <1>1, HandlersKept
<1>4. /\ \A d \in Calls : given'[d] \subseteq Messages
      /\ Begun' /\ OnlyAbandonedStray'
  <2>1. /\ UNCHANGED <<handler, id>> /\ stage'[c] = "none"
        /\ \A d \in Calls : stage[d] = "none" => stage'[d] = "none"
    BY <1>0, <1>1
  <2> QED
    BY <1>1, <2>1, SentStep
<1>5. TypeOK'
  <2>1. stage' \in [Calls -> Stages]
    BY <1>0, <1>1 DEF Stages
  <2>2. UNCHANGED <<setCookieCache, handler, at, id, counter, unheard, cookies, disturbed>>
    BY <1>1
  <2> QED
    BY <1>0, <1>2, <1>4, <2>1, <2>2 DEF TypeOK, Stages, Messages
<1>6. \A d \in Calls : stage'[d] \in {stage[d], "none"}
  BY <1>0, <1>1
<1>7. CookiesFollowed' /\ CookiesGoOnce'
  <2>1. \A d \in unheard : handler[d] # "new"
    BY DEF WorkerInv, CookiesFollowed
  <2> QED
    BY <1>1, <2>1, CookiesKept
<1>8. Undisturbed'
  BY <1>1, <1>6 DEF WorkerInv, Undisturbed
<1> QED
  BY <1>2, <1>3, <1>4, <1>5, <1>7, <1>8 DEF WorkerInv

(* A thread unregisters when it has an end. *)
LEMMA PopsStep ==
  ASSUME WorkerInv, NEW c \in Calls, Pops(c)
  PROVE  WorkerInv'
<1>0. TypeOK /\ handler \in [Calls -> Handlers]
  BY Types DEF WorkerInv
<1>1. /\ handler[c] = "pending" /\ handler' = [handler EXCEPT ![c] = "popped"]
      /\ UNCHANGED <<connectionVars, setCookieCache, at, id, counter, stage, unheard,
                     cookies, given, disturbed>>
      /\ \E m \in given[c] : m.type \in {"end", "error"}
  BY DEF Pops
<1>2. IInv' /\ ConnectionTypeOK' /\ OneServing' /\ host' = host
  BY <1>1, ConnectionKept
<1>3. /\ \A d \in Calls : d # c => handler'[d] = handler[d]
      /\ handler'[c] = "popped"
  BY <1>0, <1>1
<1>4. PendingServed' /\ PendingIds'
  BY <1>1, <1>2, <1>3 DEF WorkerInv, PendingServed, PendingIds
<1>5. Counted'
  <2>1. BegunCalls' = BegunCalls
    BY <1>1, <1>3 DEF BegunCalls
  <2> QED
    BY <1>1, <2>1 DEF WorkerInv, Counted
<1>6. \A d \in Calls : \A m \in given[d] : m.from \in Calls
  BY <1>0, Types DEF Messages
<1>7. Begun'
  BY <1>1, <1>3, <1>6 DEF WorkerInv, Begun
<1>8. OnlyAbandonedStray'
  BY <1>1, <1>3, <1>6 DEF WorkerInv, OnlyAbandonedStray, Strays
<1>9. TypeOK'
  <2>1. handler' \in [Calls -> Handlers]
    BY <1>0, <1>1 DEF Handlers
  <2> QED
    BY <1>0, <1>1, <1>2, <2>1 DEF TypeOK, Handlers
<1>10. CookiesFollowed' /\ CookiesGoOnce'
  <2>1. \A d \in unheard : handler'[d] # "new"
    BY <1>3, Types DEF WorkerInv, CookiesFollowed
  <2> QED
    BY <1>1, <1>3, <2>1, CookiesKept
<1>11. Undisturbed'
  BY <1>1 DEF WorkerInv, Undisturbed
<1> QED
  BY <1>2, <1>4, <1>5, <1>7, <1>8, <1>9, <1>10, <1>11 DEF WorkerInv

---------------------------------------------------------------------------
(* Before the browser has started nothing is registered. *)
LEMMA InitWorkerInv == Init => WorkerInv
<1> SUFFICES ASSUME Init PROVE WorkerInv
  OBVIOUS
<1>1. IInv /\ OneServing
  BY InitInv DEF Init, ConnectionInit, OneServing, Taken
<1>2. Cardinality(Calls) \in Nat
  BY CallsAssumption, FS_CardinalityType
<1>3. /\ \A c \in Calls : /\ handler[c] = "new" /\ stage[c] = "none" /\ given[c] = {}
                         /\ cookies[c] = {}
      /\ unheard = {} /\ \A k \in Keys : setCookieCache[k] = {}
      /\ \A h \in Hosts : counter[h] = 1
  BY DEF Init, NoFetch, NoCookies
<1>4. TypeOK
  BY <1>1, <1>2 DEF IInv, TypeOK, Init, NoFetch, NoCookies
<1>5. BegunCalls = {}
  BY <1>3 DEF BegunCalls
<1>6. Counted
  BY <1>3, <1>5, FS_EmptySet DEF Counted
<1>7. PendingServed /\ PendingIds /\ Begun /\ CookiesFollowed /\ CookiesGoOnce /\ Undisturbed
  BY <1>3 DEF PendingServed, PendingIds, Begun, CookiesFollowed, CookiesGoOnce, Undisturbed
<1>8. OnlyAbandonedStray
  BY <1>3 DEF OnlyAbandonedStray, Strays
<1> QED
  BY <1>1, <1>4, <1>6, <1>7, <1>8 DEF WorkerInv

(* WorkerInv is inductive. *)
LEMMA NextWorkerInv ==
  ASSUME WorkerInv, [Next]_vars
  PROVE  WorkerInv'
<1>1. ASSUME ConnectionNext /\ Follows PROVE WorkerInv'
  BY <1>1, ConnectionStep
<1>2. ASSUME NEW c \in Calls, NEW h \in Hosts, Request(c, h) PROVE WorkerInv'
  BY <1>2, RequestStep
<1>3. ASSUME NEW c \in Calls, HeadersReceived(c) PROVE WorkerInv'
  BY <1>3, HeadersReceivedStep
<1>4. ASSUME NEW c \in Calls, FetchResolves(c) PROVE WorkerInv'
  BY <1>4, FetchResolvesStep
<1>5. ASSUME NEW c \in Calls, FetchEnds(c) PROVE WorkerInv'
  BY <1>5, FetchEndsStep
<1>6. ASSUME NEW c \in Calls, Pops(c) PROVE WorkerInv'
  BY <1>6, PopsStep
<1>7. ASSUME NEW r \in Elsewhere, OtherHeadersReceived(r) PROVE WorkerInv'
  BY <1>7, OtherHeadersStep
<1>8. CASE UNCHANGED vars
  <2>1. UNCHANGED <<connectionVars, setCookieCache, handler, at, id, counter, stage, unheard,
                    cookies, given, disturbed>>
    BY <1>8 DEF vars, requestVars
  <2>2. IInv' /\ ConnectionTypeOK' /\ OneServing'
    BY <2>1, ConnectionKept
  <2>3. PendingServed' /\ PendingIds' /\ Counted'
    BY <2>1, HandlersKept
  <2>4. Begun' /\ OnlyAbandonedStray'
    BY <2>1, GivenKept
  <2>5. CookiesFollowed' /\ CookiesGoOnce'
    BY <2>1 DEF WorkerInv, CookiesFollowed, CookiesGoOnce
  <2>6. TypeOK' /\ Undisturbed'
    BY <2>1, <2>2 DEF WorkerInv, TypeOK, Undisturbed
  <2> QED
    BY <2>2, <2>3, <2>4, <2>5, <2>6 DEF WorkerInv
<1> QED
  BY <1>1, <1>2, <1>3, <1>4, <1>5, <1>6, <1>7, <1>8 DEF Next, RequestNext

---------------------------------------------------------------------------
(* The theorems. *)

(* Every reachable state satisfies WorkerInv. *)
THEOREM WorkerInvariant == Spec => []WorkerInv
<1> QED
  BY InitWorkerInv, NextWorkerInv, PTL DEF Spec

(* Every variable of the requests keeps its type, through every fault of   *)
(* the connection; in particular no process gives more ids than there are  *)
(* requests (upstream.py:87).                                              *)
THEOREM WorkerTypeCorrect == Spec => []TypeOK
<1>1. WorkerInv => TypeOK
  BY DEF WorkerInv
<1> QED
  BY <1>1, WorkerInvariant, PTL

(* safeSend() answers to whatever process is connected, and still the only *)
(* answers that go astray are those of abandoned requests and of requests  *)
(* that were themselves given such an answer.                              *)
THEOREM AnswersKeptApart == Spec => []OnlyAbandonedStray
<1>1. WorkerInv => OnlyAbandonedStray
  BY DEF WorkerInv
<1> QED
  BY <1>1, WorkerInvariant, PTL

(* setCookieCache never hands out the cookies of a response twice.         *)
THEOREM CookiesUsedOnce == Spec => []CookiesGoOnce
<1>1. WorkerInv => CookiesGoOnce
  BY DEF WorkerInv
<1> QED
  BY <1>1, WorkerInvariant, PTL

(* An undisturbed request takes its own cookies from the cache if the      *)
(* listener has put them there, and nobody's otherwise.                    *)
THEOREM CookiesAreOwn == Spec => OwnCookies
<1> DEFINE Own(c) ==
      setCookieCache[Key(Resource[c])] =
        IF c \in unheard \/ Reported[c] # Resource[c] THEN {} ELSE {c} \cap Setters
<1>1. ASSUME WorkerInv, NEW c \in Calls, FetchResolves(c), c \notin disturbed
      PROVE  Own(c)
  BY <1>1 DEF WorkerInv, Undisturbed, FetchResolves, ResolvesLeaving
<1>2. WorkerInv /\ [Next]_vars =>
        [\A c \in Calls : FetchResolves(c) /\ c \notin disturbed => Own(c)]_vars
  BY <1>1
<1> QED
  BY <1>2, WorkerInvariant, PTL DEF Spec, OwnCookies
=============================================================================
