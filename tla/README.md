# Proxy Bridge: specification and verification

Proxy Bridge is a local HTTP/HTTPS proxy that sends its clients' requests
through Chrome: a Python process accepts connections on port 60130, ends TLS
with certificates of its own CA, hands each request over Native Messaging to a
Chrome extension, and streams what the extension's `fetch()` returns back to
the client. This directory holds TLA+ models of it, their TLC runs, and proofs.

## 1. The system

| part | state | operations | works with |
|---|---|---|---|
| `nm.py`, Native Messaging transport | `nm_send_queue`, `nm_request_counter`, `nm_pending_requests`, `CHROME_CONNECTED`, `shutdown_event` | `nm_send_request`, `nm_dispatch`, writer thread, reader thread with its disconnection path | `upstream.py` (handlers called from the reader thread), the extension (two pipes), `proxy.py` (the event) |
| `upstream.py`, one `forward()` per request | `rid`, `chunk_queue`, `header_evt`, deadline | allocate, register, send, wait for the head (120 s), stream (600 s), terminate, 502; urllib fallback | `nm.py`, the client's connection |
| `extension/background.js`, requests | `pendingRequests`, running `handleRequest` calls | assemble start/chunk/end, fetch, `safeSend` of response/chunk/end/error | the pipes, Chrome's network |
| `extension/background.js`, connection | `nmPort`, `connecting`, `reconnectTimer`, `reconnectAttempts` | `connect`, `scheduleReconnect`, onDisconnect, online, alarms | Chrome, which starts and ends the Python process |
| `extension/background.js`, cookies | `setCookieCache` | capture in webRequest, consume in `handleRequest` | requests to the same URL |
| `proxy.py`, accept loop | listening socket, `proxy_executor`, `inflight_semaphore`, `shutdown_evt` | accept, peek, admit, reject, fork a tunnel, shut down | workers, forked children, `entry.py` |
| `proxy.py`, request handling | per connection | `handle_client`, CONNECT, `_run_mitm`, `_mitm_loop` (100 requests) | `http_parser.py`, `certs.py`, `upstream.py` |
| `http_parser.py` | bytes read so far | `read_request`, chunked and Content-Length bodies, building responses | `connection.py` |
| `connection.py` | raw and TLS socket, `_closed` | `recv`, `sendall`, `close` | sockets |
| `certs.py` | files of the CA and of each host | `get_ca`, `get_cert_for_host` | any number of worker threads |
| `socks5.py` | two sockets of a tunnel | handshake, connect, relay | runs in a forked child, or on a worker without fork |
| `entry.py`, `utils.py` | configuration | start, end of the process | all |
| `AutoSetup.py`, `.spec`, popup, CI | - | installation, display, build | - |

What is hard about it, and what would make it correct:

* **Many requests, one channel.** Uploads interleave on one queue and pipe,
  answers on the other; ids and two dictionaries keep them apart. Correct: each
  client gets the answer to its own request, in order, closed at most once; each
  upload arrives whole.
* **Chrome leaves.** The reader sees the end of file, tells the waiting calls,
  clears the table and stops the proxy. Correct: nobody waits for ever, streams
  end at once, the port is released.
* **Failures in the middle.** A fetch, a client or a timer ends a call half way
  through a chunked body. Correct: the client can tell, nothing keeps
  buffering, no handler is left behind.
* **Accepting.** One thread accepts, peeks, forks; 200 workers and a semaphore
  serve. Correct: permits are conserved, an admitted request has a thread, a
  living loop looks at every connection, descriptors are closed.
* **Certificates made on demand** by threads that share files without a lock.
  Correct: what a client sees is signed by the CA it trusts, and a finished
  certificate is kept.
* **The connection comes back.** A worker that may be suspended at any time, a
  host that may be missing, crash, or still hold the TCP port its successor
  needs. Correct: one port at a time, always a retry pending, in the end a host
  serves, and no answer of the last host's requests reaches the next one's.
* **Bytes in pieces.** A request arrives in any number of segments, stops in the
  middle or never comes. Correct: what is forwarded is what was sent, the thread
  comes free, a client that behaves is answered.
* **Two streams, one thread.** The SOCKS5 relay reads either socket and then
  blocks in a write to the other. Correct: no byte is lost, reordered or let
  through before the verdict; the session ends when a side does.

The list of hazards, each at its line with the properties that watch over it, is
in `PROJECT.json`.

## 2. The modules

```
StreamContract          what a client may receive (abstract)
      ^ implemented by
    Bridge              one host process and the extension, composed
     /   \
NmHost   Extension      upstream.py + nm.py;  background.js (requests)
     \   /
   NmChannel            the two pipes and the port
BridgeProofs            types, ids, whose message is whose; a request on its
                        way into a fetch
BridgeStreamProofs      an answer on its way to the client; the contract

Reconnect               background.js: connect, scheduleReconnect; the hosts
      ^ extended by
ServiceWorker           requests and cookies across lives of the connection
ServiceWorkerProofs     theorems about both

AcceptLoop              proxy.py, entry.py: accept loop, workers, fork, shutdown
AcceptLoopProofs        theorems about AcceptLoop
CertCache               certs.py: files of the CA and of the hosts
CertCacheProofs         theorems about CertCache

HttpReader              http_parser.py: read_request over Connection.recv
      ^ extended by
ClientConn              proxy.py: one connection, from first byte to close
HttpReaderProofs        lemmas: what a request is made of, and how it is cut out
ClientConnProofs        theorems about ClientConn

TunnelContract          what a SOCKS5 session promises (abstract)
      ^ implemented by
    Socks5              socks5.py: handshake, connect, relay
Socks5Proofs            theorems about Socks5; the contract
```

`MCBridge`, `MCServiceWorker`, `MCClientConn` and `MCSocks5` are the instances
that TLC checks; the other modules need model values only. Together the modules
cut the system at the places where its parts are only loosely coupled: a step
`HandleClient` of AcceptLoop is a whole behaviour of ClientConn, a tunnel there a
behaviour of Socks5; a step `Forwards` of ClientConn is a call of Bridge; a
`Handshake` of ClientConn a connection of CertCache; Bridge is one life of the
connection whose lives ServiceWorker strings together.

**NmChannel.** `stdout` and `stdin` are FIFO sequences of whole messages; the
length prefix and JSON are abstracted. A message has the wire's `type` and `id`,
and two fields only the properties read: `origin` (whose payload it is) and `k`
(which slice). `PortCloses` is Chrome closing the port: what the extension has
not read is lost, what it has written can still be read.

**NmHost.** One value of `pc[c]` per point of `forward()` between which other
threads act: `Alloc` (under `nm_lock`), `Register`, one `SendNext` per `put` of
`nm_send_request`, `HeaderTimeout`, `StartResponse`, `StreamData`,
`StreamBreaks`, `GetTimesOut`, `Overdue` (the deadline passed during a write:
the next `get` raises), `Terminate`, `Pop`, `Except`, `Urllib`. A handler that
is given a head does two things that other threads can see, the `put` of
`upstream.py:98` (`Handler`) and the `set` of line 99 (`SetEvent`); `waking` is
the call between the two, and the reader thread does nothing else before.
`pending` is
`nm_pending_requests`: a set of calls, keyed by `rid`, so that registering a
used id replaces its holder, as a dictionary does. The writer thread is
`WriterStep` and `WriterFails` (it leaves its loop on any error, also while the
port is open, and tells nobody). The reader
thread is `ReaderStart`, `Dispatch`, and for the end of file `ReaderStops`
(clears `CHROME_CONNECTED`, lists the keys), one `Notify` per key, and
`ReaderClears`; other threads act between any two of them. A client's `sendall`
may fail instead of succeeding (a partial write counts as a failure).

**Extension.** `assembling` is `pendingRequests`; `fetches` are the running
`handleRequest` calls, which interleave at every `await`. `safeSend` drops a
message when the port is closed.

**StreamContract.** The promise to a client: the head of the answer to its own
request, the slices of the body in order without a gap, at most one end; a 502
may take the place of the rest at any point before the end, because the code
does not remember that the head has gone out. `Bridge!ImplementsContract` says
that `Bridge` implements it.

**Reconnect.** A member of `Hosts` is a host process together with the port that
launched it and the children it has forked for SOCKS5 tunnels. The worker's globals `nmPort`, `reconnectTimer` (`None` or the wait
it was set to) and `reconnectAttempts` are variables; `callbacks` counts the
pending answers of `getPlatformInfo` that will call `connect()`. Each event of
the worker is an action: the evaluation of the script (`Wake`), the loss of the
worker with everything in it (`Sleep`), the timer, the callback, `Online`,
`OnDisconnect`. A host process binds the TCP port or leaves with `os._exit(0)`
(`Bind`), finds the end of its input and stops its accept loop (`SeesEof`),
closes its listening socket (`ClosesPort`), crashes while the channel is still up
(`Crashes`), and is over (`Exits`): with everything gone, or as a crashed process
that leaves a child which still has the port. None of these need ever happen.
`Fault` marks the steps that a bound limits.

**ServiceWorker** adds the requests: `Follows` says what each step of the
connection does to them (the worker's maps go with the worker, a host's handlers
with the host, a new process numbers from 1). A request and an answer cross the
channel in one step. `handler`, `at`, `id` and `counter` are the host's table,
`stage` is where `handleRequest` is, `setCookieCache` and `cookies` say whose
cookies are stored under a `[method, url]` and went out with a head.
`unheard` are the calls whose answer the webRequest listener has not been told
of: `HeadersReceived` may come before or after `fetch()` resolves, also in a
later life of the worker, and stores under the url the listener is told
(`Reported`), which a redirect or Chrome's normalisation makes another one than
the request's. `disturbed` is a history variable: calls whose cache entry somebody
else has touched. An error in a body leaves with the head already answered, or before it.

**HttpReader** and **ClientConn.** A token stands for a run of bytes that the
parser treats as a whole; `wire` is what was sent and not received, `recv`
returns all of it or, in a body of known length, no more than is missing.
`stage` is the loop of `read_request` that runs, `data` its local buffer - bytes
that are left in it when it returns are gone, as in the code. `RecvNothing` is
every way in which `Connection.recv` gives an empty result: end of stream,
error, timeout. A head that is cut or preceded by other bytes is accepted or
refused nondeterministically, since whether it is depends on blanks in it; `junk`
is any head that is refused, a wrong one or one of more than `HEADER_TOO_LARGE`
bytes. ClientConn adds the client, who has a `plan`, may pipeline, may be slower
than the timeouts, may close, and the thread's way through `handle_client`, the
CONNECT answer, the handshake and at most `MaxRequests` rounds of `_mitm_loop`.
`Forwards` is a call of `forward()` that returns, `ForwardRaises` one that does
not: on the direct path `resp.read()` (`upstream.py:206`) is outside the `try`,
and the connection is then closed without an answer.

**TunnelContract** and **Socks5.** A client is told one verdict, and bytes pass
only after "ok", in order and without a gap. Socks5 reads the handshake field by
field, as `_recv_exact` does, and relays with one thread: `select`, the client
first and then the target (`targetToo`: `select` had reported it too), and a
write that goes on piece by piece when the receiver has room, during which
nobody else is served. `from` and `to` are the kernel's buffers of `Cap` pieces.
`HandshakeRaises` is the timeout of 30 s and every other exception there.

**AcceptLoop.** `main` is the main thread's place in the loop and on its way out,
`conn[c]` what has become of a connection (`backlog`, `accepted`, then
`admitted`, `handled`, `closed`, `done`; or `waiting`/`tunnel`; or `rejected`).
`listenHolders` and `connHolders` record which process holds a descriptor of
which socket: `fork()` copies all of them, `close()` gives up one, and a socket
is closed for its peer when nobody holds it. `AcceptFails` is an error of
`accept()` that leaves the connection where it is (`proxy.py:172`). `hasFork` and `hasSocks5` are the
platform, chosen initially: Windows has no fork, and the installer's list of
files (`AutoSetup.py:131`) leaves `socks5.py` out. What a worker does for its
connection is one step, `HandleClient`.

**CertCache.** A file is missing, truncated (opened for writing, the buffer not
yet written) or holds what one connection wrote. The steps of `get_ca`,
`get_cert_for_host` and `load_cert_chain` are the single checks, opens, writes
and reads. `Restart` ends the process at any point and keeps the files.
`caDisturbed` and `disturbed` are history variables: they record that two
makings of the CA (of a host's certificate) overlapped, or that a process ended
while a key file was truncated; the code has no such variables and no guard
reads them.

Operators whose comment says "Mutant of" are faulty variants of the definition
that follows them; no specification uses them. They show for each property a
plausible mistake that would break it.

## 3. The runs

| run | question | result |
|---|---|---|
| `bridge_safety` | Are requests, answers and streams kept apart and in order under every fault? | holds |
| `bridge_returns` | Does every call return, whatever Chrome, fetches and clocks do? | holds |
| `bridge_delivers` | Without faults, is every answer delivered whole? | holds |
| `bridge_truncates` | Does a closed body mean a whole body? | no: `upstream.py:158` |
| `accept_loop` | Do semaphore, executor, descriptors and shutdown agree? | holds |
| `cert_cache` | Are certificates good unless their making was disturbed? | holds |
| `reconnect` | Does the connection come back after every fault, with one port? | holds |
| `service_worker` | Are answers and cookies kept apart within and across host processes? | holds, with the exception it states |
| `stale_answers` | Is every answer the answer to the request it is given for? | no: `background.js:76` |
| `client_conn` | Is what was sent forwarded, and is the thread free in the end? | holds |
| `chunked_stall` | Is a request without trailers read without waiting? | no: `http_parser.py:144` |
| `socks5` | Do bytes pass after success only, whole and in order, and does it end? | holds |

The properties, beyond the type invariants:

* `BodyAssembled`: a fetch goes out with exactly its client's upload.
* `OwnResponse`: nothing of another's answer reaches a call or its client.
* `HeaderEvtAccurate`: when `header_evt` is set, or the reader thread is between
  the `put` and the `set`, the head is first in the queue, so the check of
  `upstream.py:117` never rejects anything; at any other time only errors are in
  the queue. So the timeout of line 113 loses errors, or an answer whose head had
  been queued and was not yet announced. An error that comes before the head does
  not set the event (`upstream.py:106`), so such a call waits for the whole 120 s
  and then reports a timeout; the property allows that, since the code does it.
* `StreamsTold`: once the reader is gone every streaming call has an item that
  ends its loop. A call that registers after the keys were listed is *not* told;
  it waits for the head until its 120 s are over, and `CallReturns` relies on
  that timer for it.
* `EndMeansWhole`: a body closed because of an `end` message is whole. The
  corresponding statement for every closed body is false (`bridge_truncates`).
* A call that ends by an exception leaves its handler registered
  (`upstream.py:159` is not in a `finally` clause), and what still arrives for it
  is buffered for nobody; the model has this, and no property denies it.
* `ImplementsContract` (Bridge), `CallReturns`, `Delivered`: see above. None of
  them says that a request goes through Chrome: one that finds it not connected
  goes past it (`upstream.py:49`), which the contract allows and `Delivered` does
  not speak of. `CallReturns` is satisfied by a call that sits out its 120 s.
* `PermitsConserved`: the semaphore accounts for exactly the admitted
  connections that are not finished.
* `HeldByTheLiving`: the host process holds a descriptor exactly as long as it
  has something to do for the connection, and what it has given up stays open
  only in forked children that relay. That exception is real: a child inherits
  the port and every connection open at the fork, so a port is not free and a
  closed connection not closed for its client as long as a tunnel lasts. The
  property states that, it does not object to it.
* `AdmittedFinishes`: stated where no tunnel runs on the executor
  (`NoTunnelThreads`). With `socks5.py` and without fork it fails: a tunnel takes
  a thread and no permit (`proxy.py:194`). It rests on requests that are done some
  time (`ClientConn!Ends`).
* `Accepted`, `ShutdownEndsLoop`: a living loop looks at every connection, and
  after the shutdown event it ends and gives up the port - unless a client that
  never says anything stops it for good in the blocking peek (`proxy.py:178`,
  `StoppedBySilence`). The model has such clients, so nothing stronger is true.
  `Accepted` also excepts an `accept()` that fails again and again. A child that
  keeps the port after the loop has ended is not excluded.
* `SignedByCAIfCalm`, `FailsOnlyDisturbed`, `FinishedIsKept`: a restart anywhere
  but in the writing of a key file is repaired by the next connection, and
  nothing goes wrong for a host or the CA while one thread at a time makes it.
  Two threads that find no CA (`certs.py:37`) may leave the certificate of one
  and the key of the other. The races are thus the stated exceptions of these
  properties, and what is shown is that there are no others.
* `OnePort`, `NeverStuck`: the worker never drives two host processes, and
  without a port it always has a timer or a callback pending.
* `OnlyThrowsSlowDown`: a wait of 3 s or 60 s is begun by an exception of
  `connectNative` only, never by a disconnection, which begins one of 200 ms
  however many launches have failed in a row. `connectNative` returns a port also
  for a host that is missing, and `connect()` resets the counter then
  (`background.js:261`), so the long waits are not for a host that is not
  registered, as the comment at `background.js:286` has it. A wait that is
  pending is kept (`background.js:283`): after three exceptions, a launch by the
  online event and its disconnection, the retry comes when the 3 s are over.
* `Recovers`: when the faults are over, a host serves and stays, unless an old one
  lingers for good (`Lingers`): its accept loop stopped by a silent client, its
  exit held up by tunnels on the executor, or a forked child that keeps the port
  for a tunnel. Nothing in the code bounds any of the three.
* `OnlyAbandonedStray`: a handler is given a foreign answer only if the foreign
  request has the same id and was abandoned by a host process that is gone, or
  was itself given such an answer and taken for finished while its own fetch went
  on. `stale_answers` shows that the first happens. The second needs three
  requests and two faults, more than the run has. The proof met it: the property
  without it is not an invariant, and TLC finds a behaviour of 21 states in an
  instance of that size.
* `CookiesGoOnce`, `OwnCookies`: the cookies of one response go out at most
  once, and an undisturbed request never gets those of another: it finds those of
  its own response, if the listener has been told of it by then and under the same
  url, and otherwise none. Nothing orders the listener before the `await` of
  `background.js:96`, so an undisturbed request can miss its own cookies; they
  stay in the cache, and a later request of that url is given them.
* `Faithful`: what a well-behaved client (well-formed, waits for answers, never
  late) has forwarded is what it sent, in order, each body whole.
* `OwnBody`: what is forwarded belongs to a request of the plan, and a body with
  a length or chunks holds no bytes of another request and has no gap, for *any*
  client, well-formed or not, pipelining or not. A body without a length is
  whatever came behind the head; that it, too, is its own needs a client that
  waits for answers, as long as no request was taken from the middle of another
  (`clean`). That can happen: what a slow client sends of a request that was cut
  short is read as a request of its own and answered. From then on the client is
  an answer ahead, does not wait any more, and a body without a length takes what
  follows it. The property without that condition is not an invariant; TLC finds
  a behaviour of 33 states with a chunked request, two more behind it and
  `MaxRequests` 3. A client that pipelines may lose the bytes that came with the
  end of a request: they are left in `data`.
* `WaitsForTheMissing`: a reader that sits out its timeout in a body misses
  something, or is in the case of `chunked_stall`, whatever the client has sent
  before and sends behind it.
* `Ends`: the thread comes free from a client with finitely much to send,
  whatever it does otherwise. The code bounds each wait, not the length of a
  chunked body (`http_parser.py:122`): who sends chunks for ever keeps the thread.
* `Answered`: a well-behaved client is answered up to `Connection: close`, the
  limit, or the request that `forward()` raises for. It says nothing of how long
  that takes: the client of `chunked_stall` is answered, too.
* `NothingLost`, `ImplementsContract` (Socks5): what a side sent is with its
  reader, in a buffer or in the relay's hands, unless it is cut off (`CutOff`: a
  side is gone, the receiver has ended its stream, or the proxy closes with
  unread bytes, to which the kernel answers with a reset).
* `Arrives`, `SessionEnds`: under the condition that both sides read what comes.
  Two sides that write before they read make the relay wait for one of them for
  ever, which the model contains (`stubborn`) and the properties exclude.

### Bounds

* `MCBridge`: two calls. Every hazard of the bridge is between two calls, or
  between one call and a thread of the host. `bridge_safety` gives one of them a
  slice to upload and two to receive (order, truncation), the other none of
  either (the zero of both lengths); `bridge_delivers` has longer bodies of both
  because it has no faults; the liveness run under faults has shorter ones.
  `Faults` bounds what the environment does; a run names the members it leaves
  out.
* `AcceptLoop`: three connections, one permit, one worker: one is served, one
  is admitted or rejected because of it, one tunnels or crashes the loop.
  `MaxInflight = MaxWorkers`, as in the code (200 each). The length of the
  listen queue (512) is not modelled.
* `CertCache`: two threads, two hosts, three connections: two that meet, and one
  that finds what they have left. `MaxConns` bounds the connections.
* `Reconnect`: the constants of the code (`MAX_FAST_RECONNECT` 10, `SlowAfter`
  5), three host processes (one that leaves, one that holds the port, one that
  finds it taken), `MaxFaults` 6, which is enough for every wait to be used since
  an exception counts twice, and `MaxCallbacks` 2 pending callbacks.
* `MCServiceWorker`: two requests for one resource, the second of them
  redirected, two host processes, one fault between them, and pages that load the
  same resource and another of the same url. The waits are scaled to 3 and 1
  attempts: only one fault can occur. The hosts are symmetric in `service_worker`,
  which checks no liveness.
* `MCClientConn`: 37 plans with every framing, well-formed and not, as the only
  request, as the first of two through a tunnel, and before two and three others;
  `MaxRequests` 3 lets a fourth request meet the limit. Each is cut into pieces at
  every token boundary.
* `MCSocks5`: one opening of each kind; `MaxData` 3 pieces each way through
  buffers of `Cap` 2, so that a write blocks with data in hand.

`CHECK_DEADLOCK FALSE` is set where every behaviour comes to rest: calls return,
the process or the session ends, the faults are used up, the bound on
connections is reached. `ServiceWorker` never rests, and its runs check deadlock.

### Fairness

* `Bridge!Spec`: weak fairness for each call's thread, the writer and the reader
  thread. A call's timers are steps of its thread, so a call that can do nothing
  else has its timer expire; that is what `wait(timeout=120)` and the 600 s
  deadline are for. Nothing is assumed of clients, fetches or Chrome. The one
  exception is `Urllib`, a single step: `read()` has a timeout for each piece and
  none for the whole, and a server that drips for ever would hold the call.
* `HealthySpec` adds that the service worker goes on with what it has begun; it
  is used with no faults only.
* `AcceptLoop!Spec`: the main thread and the executor run, and an HTTP client is
  done with some time, since each read and write has a timeout of 300 s
  (`ClientConn!Ends` is the statement for the reads). Tunnels and the peek have
  no timeout, hence no fairness, clients need never speak, and `accept()` may fail
  any number of times.
* `ConnectionSpec`: Chrome delivers events and timers, and the alarm of
  `background.js:312` wakes a suspended worker; a new host process binds or
  leaves. That an old one finds the end of its input, closes its port and is gone
  is *not* assumed, because a silent client or a tunnel can prevent each. Faults
  have no fairness, and the bound on them is what "when the faults are over" means.
* `ClientConn!Spec`: the worker thread runs and its timeouts expire; a `prompt`
  client sends what it has to send, nothing is assumed of another one.
* `Socks5!Spec`: the handshake (with its timeout) and the relay run, and the two
  sides read, as long as they are not stubborn. Nobody need send or end anything.

## 4. The proofs

Each is of the form `Init => IInv`, `IInv /\ [Next]_vars => IInv'`, `IInv => P`,
for an inductive invariant that TLC has checked first.

**BridgeProofs**, for every set of calls, all lengths and every set of faults
(assumption: `LengthsAssumption`, the lengths are natural numbers):
`TypeCorrect`, `IdsFollowed` (`Spec => []IInv`), `NeverMixedUp`
(`Spec => []OwnResponse`). `OwnResponse` is not inductive: whether a message is
put in the right queue depends on the id it carries, and that on every step
before. `IInv` follows the id: ids are handed out once and are smaller than the
counter (`IdsUnique`); a call has one from `Alloc` on, and only calls with an id
register or send (`IdsAllocated`); every message in the send queue, on both
pipes, under assembly and in a running fetch carries the id of the call its
payload belongs to (`MessagesTagged`). Then the handler a message is dispatched
to is that of the call it belongs to. `Alloc` is the delicate step: it changes
`rid`, which all tags refer to, and is harmless only because no message of that
call exists yet.

Its second part is about requests: `BodiesWhole` (`Spec => []BodyAssembled`), from
`RequestsFollowed`. Send queue and pipe are one sequence, `Requests`.
`RequestInv` says that the messages of a call are increasing in it and none is
missing between them (`RequestsInOrder`, as long as the port is open: with it a
suffix is lost, and nothing is assembled any more; a writer that has left its
loop only keeps the rest in the queue), that its first one is the
next that its entry in `pendingRequests` waits for, and that `nm_send_request`
has put what it counts (`SentInStep`). The writer moves the head of one sequence
to the end of the other, so that `Requests` stays the same.

**BridgeStreamProofs**, from the same assumption: `HeadAnnounced`
(`HeaderEvtAccurate`), `NobodyForgotten` (`StreamsTold`), `EndIsTheEnd`
(`EndMeansWhole`), and `ContractKept`: `Spec => ImplementsContract`. `AnswerInv`
is about four parts of one numbered sequence: what the client has, what is in
its queue, what is on the pipe and what the fetch sends next. The parts continue
one another (`OutInOrder`, `QueueInOrder`, `AnswersInOrder`, `FetchesInOrder`);
an answer begins only when the whole request has gone (`AskedFirst`), so that no
two fetches of one call ever run; and a call that reads from its queue is in the
table or has been told (`TableHolds`). The queue is special in that errors can
join it at any moment, before the head and after the end, and the end of an
answer may be followed by nothing else. Whether a head has been given to a call
is `told`: the event is set or about to be, so that `Handler` announces and
`SetEvent` changes nothing the invariant sees. In the refinement each step of a call's
thread that writes is a step of StreamContract, and every other step changes
nothing that a client sees.

**AcceptLoopProofs**, for every finite set of connections and any limits with
`MaxInflight <= MaxWorkers` (`LimitsAssumption`, `ConnsAssumption`), with and
without fork: `TypeCorrect`, `PermitsNeverLost` (`PermitsConserved`),
`NoDescriptorLost` (`HeldByTheLiving`), all from `LoopInvariant`. What a step does
to permits and descriptors depends on the state of the connection it takes from
the backlog, the work queue or `current`, which the properties say nothing
about: `Queues` does, and it needs the entries of a queue to be distinct in order
to survive `Tail`. The permits are counted with the cardinality lemmas of
`FiniteSetTheorems` (`PermitsKept`, `PermitsTaken`, `PermitsGiven`, one for each
way a connection can move). `TypeCorrect` is a consequence of the account:
`permits <= MaxInflight` holds because the rest of the sum is a cardinality.

**ServiceWorkerProofs** begins with Reconnect, for any number of hosts, faults
and callbacks and any positive limits (`NoneAssumption`, `LimitsAssumption`):
`ConnectionTypeCorrect`,
`OnlyOnePort`, `AlwaysRetrying` and `LongWaitsAreThrows`, which state
`ConnectionTypeOK`, `OnePort`, `NeverStuck` and `OnlyThrowsSlowDown`.
`LongWaitsAreThrows` says something of one step, but needs to know that the attempts
are 0 whenever a port is open (`FreshAttempts`). That holds because `Launch`
resets them and nothing counts before the port closes; that a port which closes
is the one that was launched last is `OnePort`. With two ports open, the first
to close would leave a count for the second to find.

Its second part is about requests and cookies, for any finite set of requests
(`CallsAssumption`; a page is not a request), any resources
(`ResourceAssumption`: a resource is its method and its url), any number of
hosts, faults and callbacks:
`WorkerTypeCorrect`, `AnswersKeptApart` (`OnlyAbandonedStray`), `CookiesUsedOnce`
(`CookiesGoOnce`), `CookiesAreOwn` (`OwnCookies`), from `WorkerInvariant`. The
invariant of the first part is a part of it, since requests depend on the
connection and not the reverse. Ids keep answers apart only within one process;
that there is never a second one is `OneServing`, which rests on the TCP port.
`Begun` says what messages a call can have been given by its stage: this is where
the chain of stray answers of section 3 came from. `CookiesFollowed` and
`Undisturbed` say where the cookies of a response are before the event, between
the event and the head, and after it, in whatever order event and `fetch()` come.

**CertCacheProofs**, for any threads, hosts and number of connections
(`BoundAssumption`): `TypesCorrect`, `SignedByTheCA` (`SignedByCAIfCalm`),
`CalmNeverFails` (`FailsOnlyDisturbed`), `FinishedStays` (`FinishedIsKept`), from
`IInvAlways`. What a thread does depends on what it finds in a file, so the
invariant says of each file when it is what. As long as nothing has disturbed
the CA, at most one thread makes it, its key file is missing until that thread
opens it and truncated until it is written (`CaMadeOnce`), and whoever uses the
CA, or has a certificate signed by it, finds both files in place (`CaShared`);
`MadeOnce` is the same for one host. Both rest on the order of the code, which
writes the key last and looks at the key first.

**Socks5Proofs**, for any openings (`OpeningsAssumption`), any number of pieces
and any size of the buffers (`BoundsAssumption`): `TypesCorrect`, `NothingIsLost`
(`NothingLost`) and `ContractKept`, `Spec => ImplementsContract`, from
`TunnelInvariant`. What a side has sent is spread over what the other has read,
the buffer before it, the hands of the relay and the buffer before the proxy.
Put together they are a sequence without data at first and then with all pieces
in their order (`Flows`); every step of the relay moves a head, or a whole
buffer, from one part to the next. `Flows` ends with the session, and two facts
remain: what has come through is a beginning of what was sent (`Arrived`), and
what is missing belongs to a side that is cut off (`ClosedWhole`). The
refinement follows from `Arrived`: what a side reads is the next piece or no data.

**HttpReaderProofs** and **ClientConnProofs**, for any set of plans of any
requests (`PlansAssumption`: they have the shape of requests), any limit of the
loop (`MaxRequestsAssumption`), and every way to cut the bytes: `TypeCorrect`,
`NoOtherWait` (`WaitsForTheMissing`), `BodiesAreOwn` (`OwnBody`) and
`WellBehavedIsServed` (`Faithful`), from `ConnectionFollowed`. The difficulty is
that the parser sees a piece of the stream at a time, so that what it finds at
the front of its buffer (a blank line, a line end, enough bytes) has to be
shown to be what the client put there. The first module is about sequences of
tokens and has no behaviours. `Contiguous` says that behind every header in the
stream there is the rest of its request and nothing else, up to where the client
is; `InLength` and `InChunks`, that what has been read of a body is a beginning
of it and what follows is the rest; and there is one lemma for each loop of the
reader (`HeaderRead`, `SizeLineRead`, `ChunkRead`) and each way to leave it
(`LengthDone`, `ChunksDone`). What is left of a body behind n chunks is the next
chunk and what is left behind n + 1, so that every round of the loop is the same
step. `NothingMissing` is the core of `NoOtherWait`.

The second module carries this through the steps, in two layers. `ReadInv` holds
of every client: the stream is numbered and contiguous (`Unread`), the body that
is read is its own (`BodyRead`), and nobody is answered ahead (`Unanswered`). That
suffices for bodies with a length or chunks, since the stream alone says where
they end. `Paced` and `WellRead` are about a client that waits: as long as no rest
of a request was taken for one, the reader is at the request that is awaited,
with only rests before it (`RestBefore`), and when nothing goes wrong with
nothing before it. They depend on each other over the loop: the client sends the
next request only when it is answered (`NextIsAwaited`), and it is answered only
when its request was read to the end.

The invariants of all these modules were run by TLC on the instances of section
3 before they were proved, that of ServiceWorker also, by simulation, with three
requests.

Model-checked only: the liveness properties (`CallReturns`, `Delivered`,
`Accepted`, `AdmittedFinishes`, `ShutdownEndsLoop`, `Recovers`, `Ends`,
`Answered`, `Arrives`, `SessionEnds`), which need fairness and are out of the
prover's reach; and the three statements that are expected to fail, of which
TLC's counterexample is the whole result. Every invariant and every safety
property of a step that a passing run checks is a theorem. The prover has no
induction over data: for that reason nothing that is proved about is computed
by `FlattenSeq` or `SelectSeq`. `Data`, `Told` and `Verdict` of Socks5 and
`Chunks` of HttpReader name positions instead.

## 5. Not modelled

* Contents of headers, urls, gzip, wording of responses (`build_response_head`);
  framing of Native Messaging (the oversize branch of `nm.py:111` cannot be
  reached by 256 KB chunks); negative chunk sizes and lengths.
* A partial write that is followed by a failure counts as a failure.
* `Connection.close()` may wait up to 300 s in `unwrap()`: it is part of the step
  that closes.
* The exit status of forked children is never collected (`proxy.py:185`): they
  stay in the process table until the host ends, and hold nothing.
* The responses on the way of a redirect are loads of their urls by somebody else;
  its last one is reported under the url it ends at (`Reported`).
* A client that ends its lines with a bare LF: `http_parser.py:144` and `:234` take
  that for a line end, `:124` does not, so its chunked body stalls in the loop of
  sizes. A line end of the model is CR LF.
* A body of a client, or an answer on the direct path, that never ends: the code
  has no limit on their size or total time.
* Certificate expiry: time is not modelled. Installing the CA (`certs.py`,
  `entry.py` options) is a sequence of system commands.
* `utils.py`, the popup, the installer, CI: no concurrent or persistent state
  that the rest depends on.

## 6. Plan

1. (done) NmChannel, NmHost, Extension, Bridge, StreamContract; AcceptLoop;
   CertCache; Reconnect and ServiceWorker; HttpReader and ClientConn; Socks5 and
   TunnelContract; the theorems of section 4.
2. (done) Proofs about Bridge: `BodyAssembled`, `HeaderEvtAccurate`,
   `StreamsTold`, `EndMeansWhole`, `ImplementsContract`.
3. (done) Proofs about CertCache, ServiceWorker and Socks5.
4. (done) Proofs about HttpReader and ClientConn.
5. Open: `Delivered` and the other liveness properties are checked on instances
   only. The safety half of `Delivered` is `ContractKept` together with
   `EndIsTheEnd`.
