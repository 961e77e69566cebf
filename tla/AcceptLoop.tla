----------------------------- MODULE AcceptLoop -----------------------------
(***************************************************************************)
(* proxy.py's accept loop on the main thread, the executor and the         *)
(* semaphore behind it, the processes it forks for SOCKS5 tunnels, and the *)
(* end of the host process (entry.py).                                     *)
(*                                                                         *)
(* What a connection carries is abstracted to its first byte, which is all *)
(* the loop looks at.  A connection's own work is a state of conn[c].      *)
(* Sockets are followed through fork(): a child holds a copy of every      *)
(* descriptor its parent had, and a socket is closed for its peer when     *)
(* nobody holds it.                                                        *)
(***************************************************************************)
EXTENDS Naturals, Sequences, FiniteSets

CONSTANTS
  Conns,         \* client connections; c also names the child that serves c
  Proxy,         \* the host process
  MaxInflight,   \* MAX_INFLIGHT
  MaxWorkers     \* MAX_WORKERS

ASSUME LimitsAssumption ==
  /\ MaxInflight \in Nat \ {0}
  /\ MaxWorkers \in Nat \ {0}
  /\ MaxInflight <= MaxWorkers     \* 200 and 200 in the code

ASSUME ConnsAssumption == IsFiniteSet(Conns) /\ Proxy \notin Conns

VARIABLES
  hasFork,        \* hasattr(os, 'fork'): not on Windows
  hasSocks5,      \* import socks5 succeeds: not in every installed copy
  main,           \* where the main thread is
  current,        \* {client_sock} while the loop looks at it, else {}
  backlog,        \* connections the kernel holds for accept()
  conn,           \* what has become of each connection
  first,          \* what each client has done first
  tasks,          \* the work queue of proxy_executor
  permits,        \* value of inflight_semaphore
  shutdown,       \* shutdown_evt
  listenHolders,  \* processes with a descriptor of the listening socket
  connHolders     \* processes with a descriptor of each connection

platform == <<hasFork, hasSocks5>>
clients == <<platform, first, shutdown>>   \* what the host does not decide
work == <<tasks, permits>>
holders == <<listenHolders, connHolders>>

vars == <<clients, main, current, backlog, conn, work, holders>>

Processes == Conns \cup {Proxy}

MainStates == {"checking", "accepting", "peeking", "closing", "crashed", "exiting",
               "gone"}

ConnStates == {"none", "backlog", "accepted", "admitted", "handled", "closed",
               "waiting", "tunnel", "rejected", "done"}

TypeOK ==
  /\ hasFork \in BOOLEAN
  /\ hasSocks5 \in BOOLEAN
  /\ main \in MainStates
  /\ current \subseteq Conns
  /\ backlog \in Seq(Conns)
  /\ conn \in [Conns -> ConnStates]
  /\ first \in [Conns -> {"nothing", "http", "socks5", "eof", "reset"}]
  /\ tasks \in Seq(Conns)
  /\ permits \in 0 .. MaxInflight
  /\ shutdown \in BOOLEAN
  /\ listenHolders \subseteq Processes
  /\ connHolders \in [Conns -> SUBSET Processes]

(* bind() and listen() have succeeded. *)
Init ==
  /\ hasFork \in BOOLEAN
  /\ hasSocks5 \in BOOLEAN
  /\ main = "checking"
  /\ current = {}
  /\ backlog = <<>>
  /\ conn = [c \in Conns |-> "none"]
  /\ first = [c \in Conns |-> "nothing"]
  /\ tasks = <<>>
  /\ permits = MaxInflight
  /\ shutdown = FALSE
  /\ listenHolders = {Proxy}
  /\ connHolders = [c \in Conns |-> {}]

In(states) == {c \in Conns : conn[c] \in states}

(* Threads of the executor that are occupied. *)
Busy == Cardinality(In({"handled", "closed"}))
          + (IF hasFork THEN 0 ELSE Cardinality(In({"tunnel"})))

Becomes(c, state) == conn' = [conn EXCEPT ![c] = state]

Drops(p, c) == connHolders' = [connHolders EXCEPT ![c] = @ \ {p}]

---------------------------------------------------------------------------
(* The clients and the end of Chrome. *)

Connect(c) ==
  /\ conn[c] = "none"
  /\ listenHolders # {}
  /\ backlog' = Append(backlog, c)
  /\ Becomes(c, "backlog")
  /\ UNCHANGED <<clients, main, current, work, holders>>

(* The first byte, an orderly close without one, or a reset. *)
Speak(c) ==
  /\ conn[c] # "none"
  /\ first[c] = "nothing"
  /\ \E what \in {"http", "socks5", "eof", "reset"} :
       first' = [first EXCEPT ![c] = what]
  /\ UNCHANGED <<platform, main, current, backlog, conn, work, shutdown, holders>>

(* nm.py's reader thread sets the event. *)
ShutdownSet ==
  /\ ~shutdown
  /\ shutdown' = TRUE
  /\ UNCHANGED <<platform, main, current, backlog, conn, first, work, holders>>

---------------------------------------------------------------------------
(* The accept loop. *)

CheckShutdown ==
  /\ main = "checking"
  /\ main' = IF shutdown THEN "closing" ELSE "accepting"
  /\ UNCHANGED <<clients, current, backlog, conn, work, holders>>

(* Mutant of AcceptTimesOut: the listening socket has no timeout. *)
AcceptBlocks == FALSE /\ main' = "checking"

(* accept() times out after a second without a connection. *)
AcceptTimesOut ==
  /\ main = "accepting"
  /\ backlog = <<>>
  /\ main' = "checking"
  /\ UNCHANGED <<clients, current, backlog, conn, work, holders>>

(* accept() raises another OSError, as without descriptors left: the loop   *)
(* goes on, and the connection waits where it is.                           *)
AcceptFails ==
  /\ main = "accepting"
  /\ backlog # <<>>
  /\ main' = "checking"
  /\ UNCHANGED <<clients, current, backlog, conn, work, holders>>

Accept ==
  /\ main = "accepting"
  /\ backlog # <<>>
  /\ LET c == Head(backlog)
     IN  /\ current' = {c}
         /\ Becomes(c, "accepted")
         /\ connHolders' = [connHolders EXCEPT ![c] = {Proxy}]
  /\ backlog' = Tail(backlog)
  /\ main' = "peeking"
  /\ UNCHANGED <<clients, work, listenHolders>>

(* recv(1, MSG_PEEK) on a blocking socket returns: the client has spoken. *)
Peeks(c, what) ==
  /\ main = "peeking"
  /\ c \in current
  /\ first[c] \in what
  /\ current' = {}
  /\ main' = "checking"
  /\ UNCHANGED <<clients, backlog>>

(* Mutant of Admit: the loop waits for a byte, also from a closed client. *)
AdmitOnlyData(c) ==
  /\ Peeks(c, {"http"})
  /\ permits > 0
  /\ permits' = permits - 1
  /\ tasks' = Append(tasks, c)
  /\ Becomes(c, "admitted")
  /\ UNCHANGED holders

(* A permit is free: the connection goes to the executor. *)
Admit(c) ==
  /\ Peeks(c, {"http", "eof"})
  /\ permits > 0
  /\ permits' = permits - 1
  /\ tasks' = Append(tasks, c)
  /\ Becomes(c, "admitted")
  /\ UNCHANGED holders

(* _reject_connection: 503 and close. *)
Reject(c) ==
  /\ \/ Peeks(c, {"http", "eof"}) /\ permits = 0
     \/ Peeks(c, {"socks5"}) /\ ~hasSocks5
  /\ Becomes(c, "rejected")
  /\ Drops(Proxy, c)
  /\ UNCHANGED <<work, listenHolders>>

(* Mutant of ForkTunnel: the parent does not close its copy. *)
ForkTunnelKept(c) ==
  /\ Peeks(c, {"socks5"})
  /\ hasSocks5
  /\ hasFork
  /\ Becomes(c, "tunnel")
  /\ listenHolders' = listenHolders \cup {c}
  /\ connHolders' = [connHolders EXCEPT ![c] = {Proxy, c}]
  /\ UNCHANGED work

(* The child gets a copy of every descriptor; the parent closes its own of  *)
(* this connection.                                                         *)
ForkTunnel(c) ==
  /\ Peeks(c, {"socks5"})
  /\ hasSocks5
  /\ hasFork
  /\ Becomes(c, "tunnel")
  /\ listenHolders' = IF Proxy \in listenHolders
                      THEN listenHolders \cup {c} ELSE listenHolders
  /\ connHolders' = [d \in Conns |->
                       IF d = c THEN {c}
                       ELSE IF Proxy \in connHolders[d]
                            THEN connHolders[d] \cup {c} ELSE connHolders[d]]
  /\ UNCHANGED work

(* Without fork the tunnel becomes a task of the executor, with no permit. *)
SubmitTunnel(c) ==
  /\ Peeks(c, {"socks5"})
  /\ hasSocks5
  /\ ~hasFork
  /\ tasks' = Append(tasks, c)
  /\ Becomes(c, "waiting")
  /\ UNCHANGED <<permits, holders>>

(* A reset makes the peek raise and fork() may fail: neither is caught in   *)
(* the loop, and entry.py takes it for fatal.                               *)
Crash(c) ==
  /\ main = "peeking"
  /\ c \in current
  /\ \/ first[c] = "reset"
     \/ first[c] = "socks5" /\ hasSocks5 /\ hasFork
  /\ main' = "crashed"
  /\ UNCHANGED <<clients, current, backlog, conn, work, holders>>

---------------------------------------------------------------------------
(* The end of the host process. *)

(* A process gives up the listening socket; with the last descriptor the    *)
(* connections that nobody has accepted are reset.                          *)
GiveUpListener(p) ==
  /\ listenHolders' = listenHolders \ {p}
  /\ backlog' = IF listenHolders' = {} THEN <<>> ELSE backlog

Orphans == IF listenHolders' = {} THEN In({"backlog"}) ELSE {}

(* Mutant of CloseListener: shutdown(wait=False, cancel_futures=True). *)
CloseListenerCancels ==
  /\ main = "closing"
  /\ GiveUpListener(Proxy)
  /\ conn' = [c \in Conns |-> IF c \in Orphans THEN "done" ELSE conn[c]]
  /\ tasks' = <<>>
  /\ main' = "exiting"
  /\ UNCHANGED <<clients, current, permits, connHolders>>

(* server_sock.close(), proxy_executor.shutdown(wait=False), and sys.exit() *)
(* on the way back through entry.py.                                        *)
CloseListener ==
  /\ main = "closing"
  /\ GiveUpListener(Proxy)
  /\ conn' = [c \in Conns |-> IF c \in Orphans THEN "done" ELSE conn[c]]
  /\ main' = "exiting"
  /\ UNCHANGED <<clients, current, work, connHolders>>

(* entry.py's handler sleeps and calls sys.exit(1); with the frames of the  *)
(* loop go its two sockets.                                                 *)
CrashExits ==
  /\ main = "crashed"
  /\ GiveUpListener(Proxy)
  /\ conn' = [c \in Conns |-> IF c \in Orphans \cup current THEN "done"
                              ELSE conn[c]]
  /\ connHolders' = [c \in Conns |-> IF c \in current
                                     THEN connHolders[c] \ {Proxy}
                                     ELSE connHolders[c]]
  /\ current' = {}
  /\ main' = "exiting"
  /\ UNCHANGED <<clients, work>>

(* The interpreter waits for the executor's threads, then ends. *)
ProcessEnds ==
  /\ main = "exiting"
  /\ tasks = <<>>
  /\ Busy = 0
  /\ main' = "gone"
  /\ connHolders' = [c \in Conns |-> connHolders[c] \ {Proxy}]
  /\ UNCHANGED <<clients, current, backlog, conn, work, listenHolders>>

---------------------------------------------------------------------------
(* The executor and the tunnels. *)

(* A free thread takes the next task. *)
TakeTask ==
  /\ tasks # <<>>
  /\ Busy < MaxWorkers
  /\ LET c == Head(tasks)
     IN  Becomes(c, IF conn[c] = "admitted" THEN "handled" ELSE "tunnel")
  /\ tasks' = Tail(tasks)
  /\ UNCHANGED <<clients, main, current, backlog, permits, holders>>

(* Mutant of HandleClient: the permit is released here too. *)
HandleClientReleases(c) ==
  /\ conn[c] = "handled"
  /\ Becomes(c, "closed")
  /\ Drops(Proxy, c)
  /\ permits' = permits + 1
  /\ UNCHANGED <<clients, main, current, backlog, tasks, listenHolders>>

(* handle_client returns or raises: its finally clause closes. *)
HandleClient(c) ==
  /\ conn[c] = "handled"
  /\ Becomes(c, "closed")
  /\ Drops(Proxy, c)
  /\ UNCHANGED <<clients, main, current, backlog, work, listenHolders>>

(* Mutant of ReleasePermit: only after a request, not in a finally clause. *)
ReleaseAfterRequest(c) ==
  /\ conn[c] = "closed"
  /\ permits' = IF first[c] = "http" THEN permits + 1 ELSE permits
  /\ Becomes(c, "done")
  /\ UNCHANGED <<clients, main, current, backlog, tasks, holders>>

(* The finally clause of _guarded_handle. *)
ReleasePermit(c) ==
  /\ conn[c] = "closed"
  /\ permits' = permits + 1
  /\ Becomes(c, "done")
  /\ UNCHANGED <<clients, main, current, backlog, tasks, holders>>

(* socks5.handle_connection returns; a forked child exits. *)
TunnelEnds(c) ==
  /\ conn[c] = "tunnel"
  /\ IF hasFork
     THEN /\ GiveUpListener(c)
          /\ connHolders' = [d \in Conns |-> connHolders[d] \ {c}]
     ELSE /\ Drops(Proxy, c)
          /\ UNCHANGED <<listenHolders, backlog>>
  /\ conn' = [d \in Conns |-> IF d \in Orphans \cup {c} THEN "done" ELSE conn[d]]
  /\ UNCHANGED <<clients, main, current, work>>

Route(c) ==
  Admit(c) \/ Reject(c) \/ ForkTunnel(c) \/ SubmitTunnel(c) \/ Crash(c)

MainStep ==
  \/ CheckShutdown \/ AcceptTimesOut \/ AcceptFails \/ Accept
  \/ \E c \in current : Route(c)
  \/ CloseListener \/ CrashExits \/ ProcessEnds

Next ==
  \/ \E c \in Conns : Connect(c) \/ Speak(c)
  \/ ShutdownSet
  \/ MainStep
  \/ TakeTask
  \/ \E c \in Conns : HandleClient(c) \/ ReleasePermit(c) \/ TunnelEnds(c)

(***************************************************************************)
(* The threads run, and every HTTP client is done with some time: each     *)
(* read and write of it has a timeout of 300 s, and a connection serves at *)
(* most 100 requests.  A tunnel has no timeout, and neither has the peek.  *)
(***************************************************************************)
Spec ==
  /\ Init
  /\ [][Next]_vars
  /\ WF_vars(MainStep)
  /\ WF_vars(TakeTask)
  /\ \A c \in Conns : WF_vars(HandleClient(c)) /\ WF_vars(ReleasePermit(c))

---------------------------------------------------------------------------
(***************************************************************************)
(* No permit is lost and none is given out twice: the semaphore always     *)
(* accounts for exactly the admitted connections that are not finished     *)
(* (proxy.py:197-203).                                                     *)
(***************************************************************************)
PermitsConserved ==
  permits + Cardinality(In({"admitted", "handled", "closed"})) = MaxInflight

(* The processes that were forked and have not exited. *)
Children == IF hasFork THEN In({"tunnel"}) ELSE {}

(* The host process has something to do for c. *)
HostNeeds(c) ==
  /\ main # "gone"
  /\ \/ conn[c] \in {"accepted", "admitted", "handled", "waiting"}
     \/ conn[c] = "tunnel" /\ ~hasFork

(* No tunnel ever runs on a thread of the executor. *)
NoTunnelThreads == hasFork \/ ~hasSocks5

(***************************************************************************)
(* Who holds a descriptor has a use for it, or is a tunnel that was forked *)
(* while its parent had one: the host process holds connections exactly as *)
(* long as it does something for them, and the port and connections it has *)
(* given up stay open only in children that relay (proxy.py:185-192).      *)
(***************************************************************************)
HeldByTheLiving ==
  /\ listenHolders \subseteq Children \cup {Proxy}
  /\ \A c \in Conns :
       /\ connHolders[c] \subseteq Children \cup {Proxy}
       /\ Proxy \in connHolders[c] <=> HostNeeds(c)

(***************************************************************************)
(* Every admitted request is handled to the end, through shutdown and      *)
(* crash of the main thread, and gives its permit back - again only where  *)
(* no tunnel can take its thread.                                          *)
(***************************************************************************)
AdmittedFinishes ==
  \A c \in Conns : NoTunnelThreads /\ conn[c] = "admitted" ~> conn[c] = "done"

(* The peek has no timeout: one client that never says anything stops the  *)
(* loop for good (proxy.py:178).                                           *)
StoppedBySilence == \E c \in current : first[c] = "nothing"

(***************************************************************************)
(* A connection in the backlog is looked at while the loop is alive, no    *)
(* silent client stops it and accept() does not fail for ever.             *)
(***************************************************************************)
Accepted ==
  \/ []<><<AcceptFails>>_vars
  \/ \A c \in Conns :
       [](conn[c] = "backlog" =>
            <>(\/ conn[c] # "backlog"
               \/ main \in {"crashed", "exiting", "gone"}
               \/ []StoppedBySilence))

(***************************************************************************)
(* entry.py:58: the loop "Exits when shutdown_evt.set()", and by then the  *)
(* host process has given up the port, also while requests and tunnels     *)
(* still run on its threads - unless a silent client stops it.             *)
(***************************************************************************)
ShutdownEndsLoop ==
  [](shutdown =>
       <>(\/ main \in {"exiting", "gone"} /\ Proxy \notin listenHolders
          \/ []StoppedBySilence))
=============================================================================
