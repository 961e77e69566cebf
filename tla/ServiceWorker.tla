---------------------------- MODULE ServiceWorker ----------------------------
(***************************************************************************)
(* Requests and cookies across the lives of the connection.  The service   *)
(* worker fetches for whichever host process asks, and safeSend() answers  *)
(* to whichever is connected by then.  Each host process numbers its       *)
(* requests from 1 again (nm.py).                                          *)
(*                                                                         *)
(* A request and an answer cross the channel in one step here; what can    *)
(* happen in between is the subject of module Bridge.                      *)
(***************************************************************************)
EXTENDS Reconnect

CONSTANTS
  Calls,      \* requests of clients
  Resource,   \* Resource[c]: [method, url] of c, as the client wrote it
  Reported,   \* Reported[c]: [method, url] that Chrome reports for its response:
              \* another one after a redirect, or if url was not normalised
  Setters,    \* the calls whose response sets cookies
  Elsewhere   \* [method, url] of what other pages, or redirects, load

Tab == "tab"
Origins == Calls \cup {Tab}
Resources ==
  Elsewhere \cup {Resource[c] : c \in Calls} \cup {Reported[c] : c \in Calls}

ASSUME CallsAssumption == IsFiniteSet(Calls) /\ Tab \notin Calls

(* A resource is its method and its url. *)
ASSUME ResourceAssumption ==
  \A r \in Resources : r = [method |-> r.method, url |-> r.url]

VARIABLES
  setCookieCache,   \* whose cookies are kept under each key
  handler,          \* registration of each call in nm_pending_requests
  at,               \* host process of each call
  id,               \* rid of each call
  counter,          \* nm_request_counter of each host process
  stage,            \* where handleRequest is for each call
  unheard,          \* calls whose onHeadersReceived is still to come
  cookies,          \* whose cookies went out with each head
  given,            \* messages that the handler of each call was given
  disturbed         \* calls whose cache entry others have touched

requestVars == <<setCookieCache, handler, at, id, counter, stage, unheard,
                 cookies, given, disturbed>>
vars == <<connectionVars, requestVars>>

(* Mutant of Key: the method is left out. *)
KeyByUrl(r) == r.url

Key(r) == <<r.method, r.url>>

Keys == {Key(r) : r \in Resources}

TypeOK ==
  /\ ConnectionTypeOK
  /\ setCookieCache \in [Keys -> SUBSET Origins]
  /\ handler \in [Calls -> {"new", "pending", "lost", "popped"}]
  /\ at \in [Calls -> Hosts \cup {None}]
  /\ id \in [Calls -> 0 .. Cardinality(Calls)]
  /\ counter \in [Hosts -> 1 .. Cardinality(Calls) + 1]
  /\ stage \in [Calls -> {"none", "fetching", "body"}]
  /\ unheard \subseteq Calls
  /\ cookies \in [Calls -> SUBSET Origins]
  /\ \A c \in Calls :
       given[c] \subseteq [from : Calls, type : {"response", "end", "error"}]
  /\ disturbed \subseteq Calls

NoCookies == [k \in Keys |-> {}]
NoFetch == [c \in Calls |-> "none"]

Init ==
  /\ ConnectionInit
  /\ setCookieCache = NoCookies
  /\ handler = [c \in Calls |-> "new"]
  /\ at = [c \in Calls |-> None]
  /\ id = [c \in Calls |-> 0]
  /\ counter = [h \in Hosts |-> 1]
  /\ stage = NoFetch
  /\ unheard = {}
  /\ cookies = [c \in Calls |-> {}]
  /\ given = [c \in Calls |-> {}]
  /\ disturbed = {}

---------------------------------------------------------------------------
(* What a step of the connection does to the requests. *)

(* The worker's variables go with it.  A host process that finds the end of *)
(* stdin clears its handlers, and a new process counts from 1.              *)
Follows ==
  /\ stage' = IF awake' THEN stage ELSE NoFetch
  /\ setCookieCache' = IF awake' THEN setCookieCache ELSE NoCookies
  /\ handler' = [c \in Calls |->
                   IF handler[c] = "pending"
                        /\ host'[at[c]] \in {"stopping", "leaving", "none"}
                   THEN "lost" ELSE handler[c]]
  /\ counter' = [h \in Hosts |-> IF host'[h] = "none" THEN 1 ELSE counter[h]]
  /\ UNCHANGED <<at, id, unheard, cookies, given, disturbed>>

---------------------------------------------------------------------------
(* Requests. *)

(* Calls in handleRequest that have not looked at the cache yet. *)
Looking == {c \in Calls : stage[c] = "fetching"}

Touches(r, c) ==
  disturbed' = disturbed \cup {d \in Looking \ {c} : Resource[d] = r}

Takes(c, h, n) ==
  /\ handler[c] = "new"
  /\ host[h] \in {"serving", "crashed"}
  /\ h \in ports
  /\ handler' = [handler EXCEPT ![c] = "pending"]
  /\ at' = [at EXCEPT ![c] = h]
  /\ id' = [id EXCEPT ![c] = counter[h]]
  /\ counter' = [counter EXCEPT ![h] = n]
  /\ stage' = [stage EXCEPT ![c] = "fetching"]
  /\ unheard' = unheard \cup {c}
  /\ disturbed' = IF setCookieCache[Key(Resource[c])] = {} THEN disturbed
                  ELSE disturbed \cup {c}
  /\ UNCHANGED <<connectionVars, setCookieCache, cookies, given>>

(* Mutant of Request: every request of a process has the same id. *)
RequestSameId(c, h) == Takes(c, h, counter[h])

(* Mutant of Request: the counter grows for each message. *)
RequestSkipsIds(c, h) == Takes(c, h, counter[h] + 2)

(* A client asks, the host registers a handler and sends, fetch() begins. *)
Request(c, h) == Takes(c, h, counter[h] + 1)

(* onHeadersReceived, whose listener nothing waits for: before the fetch    *)
(* resolves, after it, or in the next life of the worker.  Only a response  *)
(* that sets cookies is remembered, in the place of what was there.         *)
HeadersReceived(c) ==
  /\ awake
  /\ c \in unheard
  /\ unheard' = unheard \ {c}
  /\ \/ /\ c \in Setters
        /\ setCookieCache' = [setCookieCache EXCEPT ![Key(Reported[c])] = {c}]
        /\ Touches(Reported[c], c)
     \/ /\ c \notin Setters
        /\ UNCHANGED <<setCookieCache, disturbed>>
  /\ UNCHANGED <<connectionVars, handler, at, id, counter, stage, cookies, given>>

(* The same event for a load of another page, or for a redirect. *)
OtherHeadersReceived(r) ==
  /\ awake
  /\ setCookieCache' = [setCookieCache EXCEPT ![Key(r)] = {Tab}]
  /\ disturbed' = disturbed \cup {d \in Looking : Resource[d] = r}
  /\ UNCHANGED <<connectionVars, handler, at, id, counter, stage, unheard,
                 cookies, given>>

(* safeSend and nm_dispatch: the handler is found by the id alone. *)
SafeSend(c, type) ==
  given' = [d \in Calls |->
              IF nmPort # None /\ at[d] = nmPort /\ handler[d] = "pending"
                   /\ id[d] = id[c]
              THEN given[d] \cup {[from |-> c, type |-> type]} ELSE given[d]]

ResolvesLeaving(c, left) ==
  /\ stage[c] = "fetching"
  /\ stage' = [stage EXCEPT ![c] = "body"]
  /\ cookies' = [cookies EXCEPT ![c] = setCookieCache[Key(Resource[c])]]
  /\ setCookieCache' = [setCookieCache EXCEPT ![Key(Resource[c])] = left]
  /\ Touches(Resource[c], c)
  /\ SafeSend(c, "response")
  /\ UNCHANGED <<connectionVars, handler, at, id, counter, unheard>>

(* Mutant of FetchResolves: the entry is not deleted. *)
FetchResolvesKeeps(c) == ResolvesLeaving(c, setCookieCache[Key(Resource[c])])

(* fetch() resolves: the cookies found in the cache go out with the head. *)
FetchResolves(c) == ResolvesLeaving(c, {})

(* The body is finished, or the fetch fails where it is. *)
FetchEnds(c) ==
  /\ \/ stage[c] = "body" /\ SafeSend(c, "end")
     \/ stage[c] # "none" /\ SafeSend(c, "error")
  /\ stage' = [stage EXCEPT ![c] = "none"]
  /\ UNCHANGED <<connectionVars, setCookieCache, handler, at, id, counter,
                 unheard, cookies, disturbed>>

(* The thread of c has seen a head and an end, and unregisters. *)
Pops(c) ==
  /\ handler[c] = "pending"
  /\ \E m, n \in given[c] : m.type = "response" /\ n.type \in {"end", "error"}
  /\ handler' = [handler EXCEPT ![c] = "popped"]
  /\ UNCHANGED <<connectionVars, setCookieCache, at, id, counter, stage,
                 unheard, cookies, given, disturbed>>

RequestNext ==
  \/ \E c \in Calls :
       \/ \E h \in Hosts : Request(c, h)
       \/ HeadersReceived(c) \/ FetchResolves(c) \/ FetchEnds(c) \/ Pops(c)
  \/ \E r \in Elsewhere : OtherHeadersReceived(r)

Next == (ConnectionNext /\ Follows) \/ RequestNext

Spec == Init /\ [][Next]_vars

---------------------------------------------------------------------------
Strays(c) == {m \in given[c] : m.from # c}

(***************************************************************************)
(* A handler is given the answer to another request only if that request   *)
(* was abandoned by a host process that is gone, while its fetch went on   *)
(* in a worker that survived, or was itself given the answer to such a     *)
(* request and taken for finished: within one process ids keep answers     *)
(* apart (upstream.py:87).                                                 *)
(***************************************************************************)
OnlyAbandonedStray ==
  \A c \in Calls : \A m \in Strays(c) :
    /\ \/ handler[m.from] = "lost"
       \/ handler[m.from] = "popped" /\ Strays(m.from) # {}
    /\ id[m.from] = id[c]
    /\ handler[c] # "new"

(***************************************************************************)
(* The cookies of one response go to one request at most: the entry is     *)
(* deleted when it is used (background.js:112).                            *)
(***************************************************************************)
CookiesGoOnce ==
  \A c, d, e \in Calls : c \in cookies[d] /\ c \in cookies[e] => d = e

(***************************************************************************)
(* A request that shares its method and url with nothing else while it is  *)
(* fetched, and finds the cache empty, gets the cookies of its own         *)
(* response if the listener has heard of it in time and under the same     *)
(* url, and otherwise none: what is loaded under other keys, or answered   *)
(* late to other requests, makes no difference (background.js:7-8, 22,     *)
(* 108).                                                                   *)
(***************************************************************************)
OwnCookies ==
  [][\A c \in Calls :
       FetchResolves(c) /\ c \notin disturbed =>
         setCookieCache[Key(Resource[c])] =
           IF c \in unheard \/ Reported[c] # Resource[c] THEN {}
           ELSE {c} \cap Setters]_vars

---------------------------------------------------------------------------
(***************************************************************************)
(* nm.py:60: nm_dispatch is to "Route an NM message to the registered      *)
(* handler by id": the handler of a call is given the answer to that call. *)
(***************************************************************************)
AnswerIsOwn == \A c \in Calls : Strays(c) = {}
=============================================================================
