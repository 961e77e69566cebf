------------------------------ MODULE Reconnect ------------------------------
(***************************************************************************)
(* The life of the connection between the service worker and the host:     *)
(* connect() and scheduleReconnect() of extension/background.js, the       *)
(* events that call them, and the host processes that come and go at the   *)
(* other end and compete for the proxy's TCP port (proxy.py, entry.py).    *)
(*                                                                         *)
(* A member of Hosts names a host process, the port that launched it and   *)
(* the children it forks for SOCKS5 tunnels: they inherit its pipes and    *)
(* its listening socket, so that for Chrome and for bind() the process is  *)
(* there as long as one of them is (proxy.py:185-192).  The name of a      *)
(* process that is gone is used again.  The flag connecting is FALSE       *)
(* between any two events and is left out.                                 *)
(***************************************************************************)
EXTENDS Naturals, FiniteSets

CONSTANTS
  Hosts,
  None,                 \* null
  MAX_FAST_RECONNECT,   \* attempts after which a retry waits 60 s
  SlowAfter,            \* attempts after which it waits 3 s: 5 in the code
  MaxFaults,            \* bound: faults in one behaviour
  MaxCallbacks          \* bound: pending answers of getPlatformInfo

Waits == {200, 3000, 60000}   \* ms

ASSUME NoneAssumption == None \notin Hosts \cup Waits

ASSUME LimitsAssumption ==
  /\ MAX_FAST_RECONNECT \in Nat \ {0}
  /\ SlowAfter \in Nat \ {0}
  /\ MaxFaults \in Nat
  /\ MaxCallbacks \in Nat

VARIABLES
  awake,               \* the service worker is running
  nmPort,
  ports,               \* ports that neither side has closed
  reconnectTimer,
  reconnectAttempts,
  callbacks,           \* calls of getPlatformInfo that will call connect()
  host,                \* state of each host process
  faults               \* faults so far

workerVars == <<awake, nmPort, reconnectTimer, reconnectAttempts, callbacks>>
connectionVars == <<workerVars, ports, host, faults>>

HostStates == {"none", "starting", "serving", "crashed", "stopping", "leaving"}

ConnectionTypeOK ==
  /\ awake \in BOOLEAN
  /\ nmPort \in Hosts \cup {None}
  /\ ports \subseteq Hosts
  /\ reconnectTimer \in Waits \cup {None}
  /\ reconnectAttempts \in Nat
  /\ callbacks \in 0 .. MaxCallbacks
  /\ host \in [Hosts -> HostStates]
  /\ faults \in 0 .. MaxFaults

ConnectionInit ==
  /\ awake = FALSE
  /\ nmPort = None
  /\ ports = {}
  /\ reconnectTimer = None
  /\ reconnectAttempts = 0
  /\ callbacks = 0
  /\ host = [h \in Hosts |-> "none"]
  /\ faults = 0

Fault == faults < MaxFaults /\ faults' = faults + 1
NoFault == faults' = faults

Moves(h, from, to) == host[h] = from /\ host' = [host EXCEPT ![h] = to]

---------------------------------------------------------------------------
(* connect() and scheduleReconnect() *)

(* Mutant of Delay: setTimeout() is given seconds. *)
DelayInSeconds(attempts) ==
  IF attempts > MAX_FAST_RECONNECT THEN 60 ELSE 3

Delay(attempts) ==
  IF attempts > MAX_FAST_RECONNECT THEN 60000
  ELSE IF attempts > SlowAfter THEN 3000 ELSE 200

(* scheduleReconnect(), called when reconnectAttempts is n. *)
ScheduleReconnect(n) ==
  \/ /\ reconnectTimer # None
     /\ reconnectTimer' = reconnectTimer
     /\ reconnectAttempts' = n
  \/ /\ reconnectTimer = None
     /\ reconnectTimer' = Delay(n + 1)
     /\ reconnectAttempts' = n + 1

(* connectNative() returns a port at once, also when the host that it names *)
(* cannot be started: then the port will report a disconnection.            *)
LaunchWith(h, attempts) ==
  /\ host[h] = "none"
  /\ h \notin ports
  /\ nmPort' = h
  /\ ports' = ports \cup {h}
  /\ \/ Moves(h, "none", "starting") /\ NoFault
     \/ host' = host /\ Fault
  /\ reconnectAttempts' = attempts
  /\ UNCHANGED reconnectTimer

(* Mutant of Launch: the counter is not reset. *)
LaunchCounts(h) == LaunchWith(h, reconnectAttempts + 1)

Launch(h) == LaunchWith(h, 0)

(* Mutant of ConnectThrows: the catch block only clears nmPort. *)
ConnectThrowsQuietly ==
  /\ Fault
  /\ nmPort' = None
  /\ reconnectAttempts' = reconnectAttempts + 1
  /\ UNCHANGED <<ports, host, reconnectTimer>>

ConnectThrows ==
  /\ Fault
  /\ nmPort' = None
  /\ ScheduleReconnect(reconnectAttempts + 1)
  /\ UNCHANGED <<ports, host>>

(* Mutant of Connect: an existing port is not looked at. *)
ConnectAgain == (\E h \in Hosts : Launch(h)) \/ ConnectThrows

Connect ==
  \/ nmPort # None /\ UNCHANGED <<nmPort, ports, host, faults,
                                  reconnectTimer, reconnectAttempts>>
  \/ nmPort = None /\ \E h \in Hosts : Launch(h)
  \/ nmPort = None /\ ConnectThrows

---------------------------------------------------------------------------
(* The events of the service worker. *)

(* The script is evaluated: Chrome starts, or an alarm wakes the worker.    *)
(* onStartup and onInstalled call connect() once more, to no effect.        *)
Wake ==
  /\ ~awake
  /\ awake' = TRUE
  /\ Connect
  /\ UNCHANGED callbacks

(* The worker ends, and with it its variables, timers and ports. *)
Sleep ==
  /\ awake
  /\ Fault
  /\ awake' = FALSE
  /\ nmPort' = None
  /\ ports' = {}
  /\ reconnectTimer' = None
  /\ reconnectAttempts' = 0
  /\ callbacks' = 0
  /\ UNCHANGED host

TimerFires ==
  /\ reconnectTimer # None
  /\ callbacks < MaxCallbacks
  /\ reconnectTimer' = None
  /\ callbacks' = callbacks + 1
  /\ UNCHANGED <<awake, nmPort, reconnectAttempts, ports, host, faults>>

(* getPlatformInfo calls back. *)
PlatformInfo ==
  /\ callbacks > 0
  /\ callbacks' = callbacks - 1
  /\ Connect
  /\ UNCHANGED awake

(* The 'online' event. *)
Online ==
  /\ awake
  /\ nmPort = None
  /\ Connect
  /\ UNCHANGED <<awake, callbacks>>

(* The listener clears nmPort, whichever port is reported. *)
OnDisconnect(h) ==
  /\ h \in ports
  /\ host[h] = "none"
  /\ ports' = ports \ {h}
  /\ nmPort' = None
  /\ ScheduleReconnect(reconnectAttempts)
  /\ UNCHANGED <<awake, callbacks, host, faults>>

---------------------------------------------------------------------------
(* The host processes. *)

PortTaken == \E g \in Hosts : host[g] \in {"serving", "crashed", "stopping"}

(* bind() succeeds, or the process leaves by os._exit(0). *)
Bind(h) ==
  /\ Moves(h, "starting", IF PortTaken THEN "none" ELSE "serving")
  /\ UNCHANGED <<workerVars, ports, faults>>

(* The reader thread finds the end of stdin, and the accept loop sees the   *)
(* event it sets, when it gets to look.                                     *)
SeesEof(h) ==
  /\ h \notin ports
  /\ Moves(h, "serving", "stopping")
  /\ UNCHANGED <<workerVars, ports, faults>>

(* An exception leaves the accept loop; the channel is still up. *)
Crashes(h) ==
  /\ Fault
  /\ Moves(h, "serving", "crashed")
  /\ UNCHANGED <<workerVars, ports>>

(* The listening socket is closed, by the process and by its children. *)
ClosesPort(h) ==
  /\ Moves(h, "stopping", "leaving")
  /\ UNCHANGED <<workerVars, ports, faults>>

(* The process is over, when its executor's threads are.  A crashed one may *)
(* leave a child with the listening socket.                                 *)
Exits(h) ==
  /\ \/ Moves(h, "leaving", "none")
     \/ Moves(h, "crashed", "none")
     \/ Moves(h, "crashed", "stopping")
  /\ UNCHANGED <<workerVars, ports, faults>>

ConnectionNext ==
  \/ Wake \/ Sleep \/ TimerFires \/ PlatformInfo \/ Online
  \/ \E h \in Hosts :
       \/ OnDisconnect(h) \/ Bind(h) \/ SeesEof(h)
       \/ Crashes(h) \/ ClosesPort(h) \/ Exits(h)

---------------------------------------------------------------------------
(***************************************************************************)
(* Chrome runs its events and timers, and the alarm of background.js:312   *)
(* wakes a suspended worker within a minute.  A process that starts comes  *)
(* to bind().  Nothing makes a process that has been told to stop do so:   *)
(* the accept loop may be blocked by a silent client (proxy.py:178), a     *)
(* child or a thread of the executor by a tunnel, which has no timeout.    *)
(***************************************************************************)
ConnectionSpec ==
  /\ ConnectionInit
  /\ [][ConnectionNext]_connectionVars
  /\ WF_connectionVars(Wake)
  /\ WF_connectionVars(TimerFires)
  /\ WF_connectionVars(PlatformInfo)
  /\ \A h \in Hosts :
       /\ WF_connectionVars(OnDisconnect(h))
       /\ WF_connectionVars(Bind(h))

---------------------------------------------------------------------------
(***************************************************************************)
(* The worker never holds two host processes at a time: connect() leaves   *)
(* an open port alone, and the listener of a port never clears a newer     *)
(* one (background.js:244-249, 267-272).                                   *)
(***************************************************************************)
OnePort == ports \subseteq {nmPort}

(***************************************************************************)
(* A running worker without a port will try again: a timer or a callback   *)
(* is pending, whatever happened before (background.js:282-302).           *)
(***************************************************************************)
NeverStuck ==
  awake /\ nmPort = None => reconnectTimer # None \/ callbacks > 0

(***************************************************************************)
(* Only exceptions of connectNative() begin a long wait.  A disconnection  *)
(* begins one of 200 ms, however many launches have failed in a row, for   *)
(* connectNative() does not throw for a host that is missing and its       *)
(* return resets reconnectAttempts (background.js:261): the 60 s are not   *)
(* for the host that is "likely not registered" (background.js:286).  A    *)
(* wait that is under way is kept, also a long one that exceptions began   *)
(* before the port was opened by another event (background.js:283).        *)
(***************************************************************************)
OnlyThrowsSlowDown ==
  [][/\ \A h \in Hosts :
          OnDisconnect(h) =>
            reconnectTimer' = IF reconnectTimer = None THEN 200 ELSE reconnectTimer
     /\ reconnectTimer' \in {3000, 60000} =>
          reconnectTimer' = reconnectTimer \/ ConnectThrows]_connectionVars

(* A process that should be gone is there, or a child of it. *)
Lingers(h) ==
  \/ host[h] \in {"crashed", "stopping", "leaving"}
  \/ host[h] = "serving" /\ h \notin ports

(***************************************************************************)
(* When the faults are over, a host process serves and stays, unless an    *)
(* old one lingers for good: the retries outlast a port that is still      *)
(* taken, a worker that is suspended, launches that fail and exceptions    *)
(* (background.js:267-302, proxy.py:152-163).                              *)
(***************************************************************************)
Recovers ==
  \/ <>[](nmPort # None /\ nmPort \in ports /\ host[nmPort] = "serving")
  \/ \E h \in Hosts : <>[]Lingers(h)
=============================================================================
