--------------------------- MODULE AcceptLoopProofs ---------------------------
(***************************************************************************)
(* The accounts of the accept loop, for any finite set of connections, any *)
(* limits with MaxInflight <= MaxWorkers, with and without fork.           *)
(*                                                                         *)
(* Neither property is inductive: a step takes the head of a queue, or the *)
(* connection that is being looked at, and what this does to permits and   *)
(* descriptors depends on the state that connection is in.  Queues says    *)
(* which it is; that no connection is queued twice makes it survive.       *)
(***************************************************************************)
EXTENDS AcceptLoop, FiniteSetTheorems, TLAPS

Distinct(s) == \A i, j \in DOMAIN s : s[i] = s[j] => i = j

Queues ==
  /\ Distinct(backlog)
  /\ \A c \in Range(backlog) : conn[c] = "backlog"
  /\ listenHolders = {} => backlog = <<>>
  /\ Distinct(tasks)
  /\ \A c \in Range(tasks) : conn[c] \in {"admitted", "waiting"}
  /\ \A c \in current : conn[c] = "accepted"
  /\ \A c \in Conns : conn[c] = "waiting" => ~hasFork

(* The types of what the host decides, and of what it does not. *)
LoopType ==
  /\ main \in MainStates
  /\ current \subseteq Conns
  /\ backlog \in Seq(Conns)
  /\ conn \in [Conns -> ConnStates]
  /\ tasks \in Seq(Conns)
  /\ listenHolders \subseteq Processes
  /\ connHolders \in [Conns -> SUBSET Processes]

ClientsType ==
  /\ hasFork \in BOOLEAN
  /\ hasSocks5 \in BOOLEAN
  /\ first \in [Conns -> {"nothing", "http", "socks5", "eof", "reset"}]
  /\ shutdown \in BOOLEAN

PermitsType == permits \in Nat

LoopInv == LoopType /\ PermitsType /\ PermitsConserved /\ HeldByTheLiving /\ Queues

IInv == ClientsType /\ LoopInv

---------------------------------------------------------------------------
(* What the queues hold. *)

(* Nothing is in an empty queue. *)
LEMMA EmptyHolds == \A S : <<>> \in Seq(S) /\ Range(<<>>) = {} /\ Distinct(<<>>)
BY DEF Range, Distinct

(* Append adds one element, and no second copy of a new one. *)
LEMMA AppendHolds ==
  ASSUME NEW S, NEW s \in Seq(S), NEW e \in S
  PROVE  /\ Append(s, e) \in Seq(S)
         /\ Range(Append(s, e)) = Range(s) \cup {e}
         /\ Distinct(s) /\ e \notin Range(s) => Distinct(Append(s, e))
<1>1. /\ Append(s, e) \in Seq(S)
      /\ DOMAIN s = 1 .. Len(s)
      /\ Len(s) \in Nat
      /\ DOMAIN Append(s, e) = 1 .. Len(s) + 1
      /\ Append(s, e)[Len(s) + 1] = e
      /\ \A i \in DOMAIN s : Append(s, e)[i] = s[i]
  OBVIOUS
<1>2. Range(Append(s, e)) = Range(s) \cup {e}
  <2>1. \A x \in Range(Append(s, e)) : x \in Range(s) \cup {e}
    <3> TAKE x \in Range(Append(s, e))
    <3>1. PICK i \in 1 .. Len(s) + 1 : x = Append(s, e)[i]
      BY <1>1 DEF Range
    <3>2. CASE i \in DOMAIN s
      BY <1>1, <3>1, <3>2 DEF Range
    <3>3. CASE i = Len(s) + 1
      BY <1>1, <3>1, <3>3
    <3>4. QED
      BY <1>1, <3>1, <3>2, <3>3
  <2>2. \A i \in DOMAIN s : s[i] \in Range(Append(s, e))
    <3> TAKE i \in DOMAIN s
    <3>1. i \in DOMAIN Append(s, e) /\ Append(s, e)[i] = s[i]
      BY <1>1
    <3>2. QED
      BY <3>1 DEF Range
  <2>3. e \in Range(Append(s, e))
    <3>1. Len(s) + 1 \in DOMAIN Append(s, e)
      BY <1>1
    <3>2. QED
      BY <1>1, <3>1 DEF Range
  <2>4. QED
    BY <2>1, <2>2, <2>3 DEF Range
<1>3. ASSUME Distinct(s), e \notin Range(s)
      PROVE  Distinct(Append(s, e))
  <2> SUFFICES ASSUME NEW i \in 1 .. Len(s) + 1, NEW j \in 1 .. Len(s) + 1,
                      Append(s, e)[i] = Append(s, e)[j]
               PROVE  i = j
    BY <1>1 DEF Distinct
  <2>1. \A k \in DOMAIN s : Append(s, e)[k] # e
    BY <1>1, <1>3 DEF Range
  <2>2. CASE i \in DOMAIN s /\ j \in DOMAIN s
    BY <1>1, <1>3, <2>2 DEF Distinct
  <2>3. CASE i = Len(s) + 1 \/ j = Len(s) + 1
    BY <1>1, <2>1, <2>3
  <2>4. QED
    BY <1>1, <2>2, <2>3
<1>4. QED
  BY <1>1, <1>2, <1>3

(* Tail takes the head out of a queue that holds it once. *)
LEMMA TailHolds ==
  ASSUME NEW S, NEW s \in Seq(S), s # <<>>, Distinct(s)
  PROVE  /\ Head(s) \in S
         /\ Head(s) \in Range(s)
         /\ Tail(s) \in Seq(S)
         /\ Distinct(Tail(s))
         /\ Range(Tail(s)) = Range(s) \ {Head(s)}
<1>1. /\ Len(s) \in Nat \ {0}
      /\ DOMAIN s = 1 .. Len(s)
      /\ Head(s) = s[1]
      /\ Head(s) \in S
      /\ Tail(s) \in Seq(S)
      /\ DOMAIN Tail(s) = 1 .. Len(s) - 1
      /\ \A i \in 1 .. Len(s) - 1 : Tail(s)[i] = s[i + 1]
  OBVIOUS
<1>2. Head(s) \in Range(s)
  BY <1>1 DEF Range
<1>3. Distinct(Tail(s))
  <2> SUFFICES ASSUME NEW i \in 1 .. Len(s) - 1, NEW j \in 1 .. Len(s) - 1,
                      Tail(s)[i] = Tail(s)[j]
               PROVE  i = j
    BY <1>1 DEF Distinct
  <2>1. i + 1 \in DOMAIN s /\ j + 1 \in DOMAIN s /\ s[i + 1] = s[j + 1]
    BY <1>1
  <2>2. i + 1 = j + 1
    BY <2>1 DEF Distinct
  <2>3. QED
    BY <2>2
<1>4. \A x \in Range(Tail(s)) : x \in Range(s) \ {Head(s)}
  <2> TAKE x \in Range(Tail(s))
  <2>1. PICK i \in 1 .. Len(s) - 1 : x = Tail(s)[i]
    BY <1>1 DEF Range
  <2>2. i + 1 \in DOMAIN s /\ 1 \in DOMAIN s /\ x = s[i + 1] /\ i + 1 # 1
    BY <1>1, <2>1
  <2>3. x # s[1]
    BY <2>2 DEF Distinct
  <2>4. QED
    BY <1>1, <2>2, <2>3 DEF Range
<1>5. \A x \in Range(s) \ {Head(s)} : x \in Range(Tail(s))
  <2> TAKE x \in Range(s) \ {Head(s)}
  <2>1. PICK i \in 1 .. Len(s) : x = s[i]
    BY <1>1 DEF Range
  <2>2. i # 1 /\ i - 1 \in DOMAIN Tail(s) /\ (i - 1) + 1 = i
    BY <1>1, <2>1
  <2>3. Tail(s)[i - 1] = x
    BY <1>1, <2>1, <2>2
  <2>4. QED
    BY <2>2, <2>3 DEF Range
<1>6. QED
  BY <1>1, <1>2, <1>3, <1>4, <1>5

---------------------------------------------------------------------------
(* What moving a connection to another state does to the permits. *)

ServedStates == {"admitted", "handled", "closed"}

(* The connections that hold a permit can be counted. *)
LEMMA ServedFinite == IsFiniteSet(In(ServedStates)) /\ Cardinality(In(ServedStates)) \in Nat
<1>1. In(ServedStates) \in SUBSET Conns
  BY DEF In
<1>2. IsFiniteSet(In(ServedStates))
  BY <1>1, ConnsAssumption, FS_Subset
<1>3. QED
  BY <1>2, FS_CardinalityType

(* It stays on its side. *)
LEMMA PermitsKept ==
  ASSUME PermitsType, PermitsConserved, permits' = permits,
         \A d \in Conns : conn'[d] \in ServedStates <=> conn[d] \in ServedStates
  PROVE  PermitsType' /\ PermitsConserved'
<1>1. In(ServedStates)' = In(ServedStates)
  BY DEF In, ServedStates
<1>2. QED
  BY <1>1 DEF PermitsType, PermitsConserved, ServedStates

(* It is given a permit. *)
LEMMA PermitsTaken ==
  ASSUME PermitsType, PermitsConserved, NEW c \in Conns,
         permits > 0, permits' = permits - 1,
         conn[c] \notin ServedStates, conn'[c] \in ServedStates,
         \A d \in Conns \ {c} : conn'[d] = conn[d]
  PROVE  PermitsType' /\ PermitsConserved'
<1>1. In(ServedStates)' = In(ServedStates) \cup {c} /\ c \notin In(ServedStates)
  BY DEF In, ServedStates
<1>2. Cardinality(In(ServedStates)') = Cardinality(In(ServedStates)) + 1
  BY <1>1, ServedFinite, FS_AddElement
<1>3. QED
  BY <1>2, ServedFinite DEF PermitsType, PermitsConserved, ServedStates

(* It gives its permit back. *)
LEMMA PermitsGiven ==
  ASSUME PermitsType, PermitsConserved, NEW c \in Conns,
         permits' = permits + 1,
         conn[c] \in ServedStates, conn'[c] \notin ServedStates,
         \A d \in Conns \ {c} : conn'[d] = conn[d]
  PROVE  PermitsType' /\ PermitsConserved'
<1>1. In(ServedStates)' = In(ServedStates) \ {c} /\ c \in In(ServedStates)
  BY DEF In, ServedStates
<1>2. Cardinality(In(ServedStates)') = Cardinality(In(ServedStates)) - 1
  BY <1>1, ServedFinite, FS_RemoveElement
<1>3. QED
  BY <1>2, ServedFinite DEF PermitsType, PermitsConserved, ServedStates

(* Becomes, read as a fact about every connection. *)
LEMMA BecomesHolds ==
  ASSUME LoopType, NEW c \in Conns, NEW state \in ConnStates, Becomes(c, state)
  PROVE  /\ conn' \in [Conns -> ConnStates]
         /\ conn'[c] = state
         /\ \A d \in Conns \ {c} : conn'[d] = conn[d]
BY DEF LoopType, Becomes

(* Drops, likewise. *)
LEMMA DropsHolds ==
  ASSUME LoopType, NEW c \in Conns, Drops(Proxy, c)
  PROVE  /\ connHolders' \in [Conns -> SUBSET Processes]
         /\ connHolders'[c] = connHolders[c] \ {Proxy}
         /\ \A d \in Conns \ {c} : connHolders'[d] = connHolders[d]
BY DEF LoopType, Drops

---------------------------------------------------------------------------
(* The steps that move no connection. *)
LEMMA StillSteps ==
  ASSUME LoopInv, UNCHANGED <<platform, conn, tasks, permits, listenHolders, backlog>>,
         current' = current, main' \in MainStates,
         \/ connHolders' = connHolders /\ (main = "gone" <=> main' = "gone")
         \/ main' = "gone" /\ connHolders' = [c \in Conns |-> connHolders[c] \ {Proxy}]
  PROVE  LoopInv'
<1>1. LoopType'
  BY DEF LoopInv, LoopType
<1>2. PermitsType' /\ PermitsConserved'
  BY PermitsKept DEF LoopInv
<1>3. Children' = Children
  BY DEF Children, In, platform
<1>4. HeldByTheLiving'
  <2>1. CASE connHolders' = connHolders /\ (main = "gone" <=> main' = "gone")
    BY <1>3, <2>1 DEF LoopInv, HeldByTheLiving, HostNeeds, platform
  <2>2. CASE main' = "gone"
             /\ connHolders' = [c \in Conns |-> connHolders[c] \ {Proxy}]
    BY <1>3, <2>2 DEF LoopInv, HeldByTheLiving, HostNeeds, platform
  <2>3. QED
    BY <2>1, <2>2
<1>5. Queues'
  BY DEF LoopInv, Queues, platform
<1>6. QED
  BY <1>1, <1>2, <1>4, <1>5 DEF LoopInv

(* What each of the steps below leaves of HeldByTheLiving to be shown, when *)
(* it moves c and neither begins nor ends a forked tunnel.                  *)
LEMMA HeldAfter ==
  ASSUME LoopInv, NEW c \in Conns, UNCHANGED <<platform, listenHolders>>,
         main = "gone" <=> main' = "gone",
         \A d \in Conns \ {c} : conn'[d] = conn[d] /\ connHolders'[d] = connHolders[d],
         hasFork => conn[c] # "tunnel" /\ conn'[c] # "tunnel",
         connHolders'[c] \subseteq connHolders[c] \cup {Proxy},
         Proxy \in connHolders'[c] <=> HostNeeds(c)'
  PROVE  HeldByTheLiving'
<1>1. Children' = Children
  BY DEF Children, In, platform
<1>2. \A d \in Conns \ {c} : HostNeeds(d)' <=> HostNeeds(d)
  BY DEF HostNeeds, platform
<1>3. QED
  BY <1>1, <1>2 DEF LoopInv, HeldByTheLiving

(* What each of the steps below leaves of Queues to be shown, when it moves *)
(* c or puts it into a queue.                                               *)
LEMMA QueuesAfter ==
  ASSUME LoopInv, NEW c \in Conns, hasFork' = hasFork,
         \A d \in Conns \ {c} : conn'[d] = conn[d],
         Distinct(backlog'),
         Range(backlog') \subseteq Range(backlog) \cup {c},
         c \in Range(backlog') => conn'[c] = "backlog",
         listenHolders' = {} => backlog' = <<>>,
         Distinct(tasks'),
         Range(tasks') \subseteq Range(tasks) \cup {c},
         c \in Range(tasks') => conn'[c] \in {"admitted", "waiting"},
         current' \subseteq current \cup {c},
         c \in current' => conn'[c] = "accepted",
         conn'[c] = "waiting" => ~hasFork
  PROVE  Queues'
<1>1. Range(backlog) \subseteq Conns /\ Range(tasks) \subseteq Conns
  BY DEF LoopInv, LoopType, Range
<1>2. \A d \in Range(backlog') : conn'[d] = "backlog"
  BY <1>1 DEF LoopInv, Queues
<1>3. \A d \in Range(tasks') : conn'[d] \in {"admitted", "waiting"}
  BY <1>1 DEF LoopInv, Queues
<1>4. \A d \in current' : conn'[d] = "accepted"
  BY DEF LoopInv, LoopType, Queues
<1>5. \A d \in Conns : conn'[d] = "waiting" => ~hasFork'
  BY DEF LoopInv, Queues
<1>6. QED
  BY <1>2, <1>3, <1>4, <1>5 DEF Queues

(* A client that connects joins the backlog. *)
LEMMA ConnectStep ==
  ASSUME LoopInv, NEW c \in Conns, Connect(c)
  PROVE  LoopInv'
<1>1. /\ conn' \in [Conns -> ConnStates]
      /\ conn[c] = "none" /\ conn'[c] = "backlog"
      /\ \A d \in Conns \ {c} : conn'[d] = conn[d]
  BY BecomesHolds DEF LoopInv, Connect, ConnStates
<1>2. /\ backlog' \in Seq(Conns)
      /\ Range(backlog') = Range(backlog) \cup {c}
      /\ Distinct(backlog')
  BY <1>1, AppendHolds DEF LoopInv, LoopType, Queues, Connect
<1>3. /\ UNCHANGED <<main, current, tasks, permits, listenHolders, connHolders>>
      /\ UNCHANGED platform
      /\ listenHolders # {}
  BY DEF Connect, clients, work, holders
<1>4. LoopType'
  BY <1>1, <1>2, <1>3 DEF LoopInv, LoopType
<1>5. PermitsType' /\ PermitsConserved'
  BY <1>1, <1>3, PermitsKept DEF LoopInv, ServedStates
<1>6. HeldByTheLiving'
  <2>1. ~HostNeeds(c) /\ ~HostNeeds(c)'
    BY <1>1 DEF HostNeeds
  <2>2. Proxy \notin connHolders'[c]
    BY <1>3, <2>1 DEF LoopInv, HeldByTheLiving
  <2>3. QED
    BY <1>1, <1>3, <2>1, <2>2, HeldAfter
<1>7. Queues'
  BY <1>1, <1>2, <1>3, QueuesAfter DEF LoopInv, Queues, platform
<1>8. QED
  BY <1>4, <1>5, <1>6, <1>7 DEF LoopInv

(* accept() takes the first of the backlog. *)
LEMMA AcceptStep ==
  ASSUME LoopInv, Accept
  PROVE  LoopInv'
<1> PICK c : c = Head(backlog)
  OBVIOUS
<1>1. /\ c \in Conns /\ c \in Range(backlog)
      /\ backlog' \in Seq(Conns)
      /\ Range(backlog') = Range(backlog) \ {c}
      /\ Distinct(backlog')
  BY TailHolds DEF LoopInv, LoopType, Queues, Accept
<1>2. /\ conn' \in [Conns -> ConnStates]
      /\ conn[c] = "backlog" /\ conn'[c] = "accepted"
      /\ \A d \in Conns \ {c} : conn'[d] = conn[d]
  <2>1. Becomes(c, "accepted") /\ "accepted" \in ConnStates
    BY DEF Accept, ConnStates
  <2>2. QED
    BY <1>1, <2>1, BecomesHolds DEF LoopInv, Queues
<1>3. /\ UNCHANGED <<tasks, permits, listenHolders>>
      /\ UNCHANGED platform
      /\ current' = {c}
      /\ main = "accepting" /\ main' = "peeking"
      /\ connHolders' = [connHolders EXCEPT ![c] = {Proxy}]
      /\ backlog # <<>>
  BY DEF Accept, clients, work
<1>4. LoopType'
  BY <1>1, <1>2, <1>3 DEF LoopInv, LoopType, MainStates, Processes
<1>5. PermitsType' /\ PermitsConserved'
  BY <1>1, <1>2, <1>3, PermitsKept DEF LoopInv, ServedStates
<1>6. HeldByTheLiving'
  <2>1. HostNeeds(c)' /\ connHolders'[c] = {Proxy}
    BY <1>1, <1>2, <1>3 DEF HostNeeds, LoopInv, LoopType
  <2>2. \A d \in Conns \ {c} : connHolders'[d] = connHolders[d]
    BY <1>1, <1>3 DEF LoopInv, LoopType
  <2>3. QED
    BY <1>1, <1>2, <1>3, <2>1, <2>2, HeldAfter
<1>7. Queues'
  BY <1>1, <1>2, <1>3, QueuesAfter DEF LoopInv, Queues, platform
<1>8. QED
  BY <1>4, <1>5, <1>6, <1>7 DEF LoopInv

(* What the loop knows of a connection it has peeked at. *)
LEMMA PeeksHolds ==
  ASSUME LoopInv, NEW c \in Conns, NEW what, Peeks(c, what)
  PROVE  /\ conn[c] = "accepted"
         /\ c \notin Range(tasks) /\ c \notin Range(backlog)
         /\ main = "peeking" /\ main' = "checking" /\ main' \in MainStates
         /\ current' = {} /\ backlog' = backlog
         /\ UNCHANGED platform
BY DEF LoopInv, Queues, Peeks, MainStates, clients

(* A permit goes to the connection that is admitted. *)
LEMMA AdmitStep ==
  ASSUME LoopInv, NEW c \in Conns, Admit(c)
  PROVE  LoopInv'
<1>1. /\ conn[c] = "accepted"
      /\ c \notin Range(tasks) /\ c \notin Range(backlog)
      /\ main = "peeking" /\ main' = "checking" /\ main' \in MainStates
      /\ current' = {} /\ backlog' = backlog
      /\ UNCHANGED platform
  BY PeeksHolds DEF Admit
<1>2. /\ conn' \in [Conns -> ConnStates]
      /\ conn'[c] = "admitted"
      /\ \A d \in Conns \ {c} : conn'[d] = conn[d]
  BY BecomesHolds DEF LoopInv, Admit, ConnStates
<1>3. /\ tasks' \in Seq(Conns)
      /\ Range(tasks') = Range(tasks) \cup {c}
      /\ Distinct(tasks')
  BY <1>1, AppendHolds DEF LoopInv, LoopType, Queues, Admit
<1>4. UNCHANGED <<listenHolders, connHolders>>
  BY DEF Admit, holders
<1>5. LoopType'
  BY <1>1, <1>2, <1>3, <1>4 DEF LoopInv, LoopType
<1>6. PermitsType' /\ PermitsConserved'
  BY <1>1, <1>2, PermitsTaken DEF LoopInv, ServedStates, Admit
<1>7. HeldByTheLiving'
  <2>1. HostNeeds(c) /\ HostNeeds(c)'
    BY <1>1, <1>2 DEF HostNeeds
  <2>2. Proxy \in connHolders'[c]
    BY <1>4, <2>1 DEF LoopInv, HeldByTheLiving
  <2>3. QED
    BY <1>1, <1>2, <1>4, <2>1, <2>2, HeldAfter
<1>8. Queues'
  BY <1>1, <1>2, <1>3, <1>4, QueuesAfter DEF LoopInv, Queues, platform
<1>9. QED
  BY <1>5, <1>6, <1>7, <1>8 DEF LoopInv

(* A connection without one is answered and closed. *)
LEMMA RejectStep ==
  ASSUME LoopInv, NEW c \in Conns, Reject(c)
  PROVE  LoopInv'
<1>1. /\ conn[c] = "accepted"
      /\ c \notin Range(tasks) /\ c \notin Range(backlog)
      /\ main = "peeking" /\ main' = "checking" /\ main' \in MainStates
      /\ current' = {} /\ backlog' = backlog
      /\ UNCHANGED platform
  BY PeeksHolds DEF Reject
<1>2. /\ conn' \in [Conns -> ConnStates]
      /\ conn'[c] = "rejected"
      /\ \A d \in Conns \ {c} : conn'[d] = conn[d]
  BY BecomesHolds DEF LoopInv, Reject, ConnStates
<1>3. /\ connHolders' \in [Conns -> SUBSET Processes]
      /\ connHolders'[c] = connHolders[c] \ {Proxy}
      /\ \A d \in Conns \ {c} : connHolders'[d] = connHolders[d]
  BY DropsHolds DEF LoopInv, Reject
<1>4. UNCHANGED <<tasks, permits, listenHolders>>
  BY DEF Reject, work
<1>5. LoopType'
  BY <1>1, <1>2, <1>3, <1>4 DEF LoopInv, LoopType
<1>6. PermitsType' /\ PermitsConserved'
  BY <1>1, <1>2, <1>4, PermitsKept DEF LoopInv, ServedStates
<1>7. HeldByTheLiving'
  <2>1. ~HostNeeds(c)'
    BY <1>2 DEF HostNeeds
  <2>2. QED
    BY <1>1, <1>2, <1>3, <1>4, <2>1, HeldAfter
<1>8. Queues'
  BY <1>1, <1>2, <1>4, QueuesAfter DEF LoopInv, Queues, platform
<1>9. QED
  BY <1>5, <1>6, <1>7, <1>8 DEF LoopInv

(* Without fork a tunnel is a task as well, and one without a permit. *)
LEMMA SubmitStep ==
  ASSUME LoopInv, NEW c \in Conns, SubmitTunnel(c)
  PROVE  LoopInv'
<1>1. /\ conn[c] = "accepted"
      /\ c \notin Range(tasks) /\ c \notin Range(backlog)
      /\ main = "peeking" /\ main' = "checking" /\ main' \in MainStates
      /\ current' = {} /\ backlog' = backlog
      /\ UNCHANGED platform
  BY PeeksHolds DEF SubmitTunnel
<1>2. /\ conn' \in [Conns -> ConnStates]
      /\ conn'[c] = "waiting" /\ ~hasFork
      /\ \A d \in Conns \ {c} : conn'[d] = conn[d]
  BY BecomesHolds DEF LoopInv, SubmitTunnel, ConnStates
<1>3. /\ tasks' \in Seq(Conns)
      /\ Range(tasks') = Range(tasks) \cup {c}
      /\ Distinct(tasks')
  BY <1>1, AppendHolds DEF LoopInv, LoopType, Queues, SubmitTunnel
<1>4. UNCHANGED <<permits, listenHolders, connHolders>>
  BY DEF SubmitTunnel, holders
<1>5. LoopType'
  BY <1>1, <1>2, <1>3, <1>4 DEF LoopInv, LoopType
<1>6. PermitsType' /\ PermitsConserved'
  BY <1>1, <1>2, <1>4, PermitsKept DEF LoopInv, ServedStates
<1>7. HeldByTheLiving'
  <2>1. HostNeeds(c) /\ HostNeeds(c)'
    BY <1>1, <1>2 DEF HostNeeds
  <2>2. Proxy \in connHolders'[c]
    BY <1>4, <2>1 DEF LoopInv, HeldByTheLiving
  <2>3. QED
    BY <1>1, <1>2, <1>4, <2>1, <2>2, HeldAfter
<1>8. Queues'
  BY <1>1, <1>2, <1>3, <1>4, QueuesAfter DEF LoopInv, Queues, platform
<1>9. QED
  BY <1>5, <1>6, <1>7, <1>8 DEF LoopInv
(* The child holds this connection alone and shares what its parent has.    *)
LEMMA ForkStep ==
  ASSUME LoopInv, NEW c \in Conns, ForkTunnel(c)
  PROVE  LoopInv'
<1>1. /\ conn[c] = "accepted"
      /\ c \notin Range(tasks) /\ c \notin Range(backlog)
      /\ main = "peeking" /\ main' = "checking" /\ main' \in MainStates
      /\ current' = {} /\ backlog' = backlog
      /\ UNCHANGED platform
  BY PeeksHolds DEF ForkTunnel
<1>2. /\ conn' \in [Conns -> ConnStates]
      /\ conn'[c] = "tunnel" /\ hasFork
      /\ \A d \in Conns \ {c} : conn'[d] = conn[d]
  BY BecomesHolds DEF LoopInv, ForkTunnel, ConnStates
<1>3. /\ UNCHANGED <<tasks, permits>>
      /\ listenHolders' \subseteq listenHolders \cup {c}
      /\ listenHolders \subseteq listenHolders'
  BY DEF ForkTunnel, work
<1>4. /\ connHolders' \in [Conns -> SUBSET Processes]
      /\ connHolders'[c] = {c}
      /\ \A d \in Conns \ {c} : /\ connHolders'[d] \subseteq connHolders[d] \cup {c}
                                /\ connHolders[d] \subseteq connHolders'[d]
  <2>1. c \in Processes
    BY DEF Processes
  <2>2. connHolders' = [d \in Conns |->
                          IF d = c THEN {c}
                          ELSE IF Proxy \in connHolders[d]
                               THEN connHolders[d] \cup {c} ELSE connHolders[d]]
    BY DEF ForkTunnel
  <2>3. \A d \in Conns : connHolders'[d] \subseteq Processes
    BY <2>1, <2>2 DEF LoopInv, LoopType
  <2>4. QED
    BY <2>2, <2>3
<1>5. LoopType'
  BY <1>1, <1>2, <1>3, <1>4 DEF LoopInv, LoopType, Processes
<1>6. PermitsType' /\ PermitsConserved'
  BY <1>1, <1>2, <1>3, PermitsKept DEF LoopInv, ServedStates
<1>7. HeldByTheLiving'
  <2>1. Children' = Children \cup {c}
    BY <1>1, <1>2 DEF Children, In, platform
  <2>2. \A d \in Conns \ {c} : HostNeeds(d)' <=> HostNeeds(d)
    BY <1>1, <1>2 DEF HostNeeds, platform
  <2>3. ~HostNeeds(c)' /\ Proxy \notin connHolders'[c] /\ Proxy # c
    BY <1>1, <1>2, <1>4, ConnsAssumption DEF HostNeeds, platform
  <2>4. listenHolders' \subseteq Children' \cup {Proxy}
    BY <1>3, <2>1 DEF LoopInv, HeldByTheLiving
  <2>5. \A d \in Conns : connHolders'[d] \subseteq Children' \cup {Proxy}
    BY <1>4, <2>1 DEF LoopInv, HeldByTheLiving
  <2>6. \A d \in Conns \ {c} : Proxy \in connHolders'[d] <=> HostNeeds(d)'
    BY <1>4, <2>2, <2>3 DEF LoopInv, HeldByTheLiving
  <2>7. QED
    BY <2>3, <2>4, <2>5, <2>6 DEF HeldByTheLiving
<1>8. Queues'
  BY <1>1, <1>2, <1>3, QueuesAfter DEF LoopInv, Queues, platform
<1>9. QED
  BY <1>5, <1>6, <1>7, <1>8 DEF LoopInv

(* A worker of the pool takes the first task. *)
LEMMA TakeTaskStep ==
  ASSUME LoopInv, TakeTask
  PROVE  LoopInv'
<1> PICK c : c = Head(tasks)
  OBVIOUS
<1>1. /\ c \in Conns /\ c \in Range(tasks)
      /\ tasks' \in Seq(Conns)
      /\ Range(tasks') = Range(tasks) \ {c}
      /\ Distinct(tasks')
  BY TailHolds DEF LoopInv, LoopType, Queues, TakeTask
<1>2. /\ conn[c] \in {"admitted", "waiting"}
      /\ conn[c] = "waiting" => ~hasFork
  BY <1>1 DEF LoopInv, Queues
<1>3. /\ conn' \in [Conns -> ConnStates]
      /\ conn'[c] = IF conn[c] = "admitted" THEN "handled" ELSE "tunnel"
      /\ \A d \in Conns \ {c} : conn'[d] = conn[d]
  <2>1. Becomes(c, IF conn[c] = "admitted" THEN "handled" ELSE "tunnel")
    BY DEF TakeTask
  <2>2. "handled" \in ConnStates /\ "tunnel" \in ConnStates
    BY DEF ConnStates
  <2>3. CASE conn[c] = "admitted"
    BY <1>1, <2>1, <2>2, <2>3, BecomesHolds DEF LoopInv
  <2>4. CASE conn[c] # "admitted"
    BY <1>1, <2>1, <2>2, <2>4, BecomesHolds DEF LoopInv
  <2>5. QED
    BY <2>3, <2>4
<1>4. /\ UNCHANGED <<main, current, backlog, permits, listenHolders, connHolders>>
      /\ UNCHANGED platform
  BY DEF TakeTask, clients, holders
<1>5. LoopType'
  BY <1>1, <1>3, <1>4 DEF LoopInv, LoopType
<1>6. PermitsType' /\ PermitsConserved'
  BY <1>1, <1>2, <1>3, <1>4, PermitsKept DEF LoopInv, ServedStates
<1>7. HeldByTheLiving'
  <2>1. HostNeeds(c)' <=> HostNeeds(c)
    BY <1>2, <1>3, <1>4 DEF HostNeeds, platform
  <2>2. Proxy \in connHolders'[c] <=> HostNeeds(c)'
    BY <1>1, <1>4, <2>1 DEF LoopInv, HeldByTheLiving
  <2>3. hasFork => conn[c] # "tunnel" /\ conn'[c] # "tunnel"
    BY <1>2, <1>3
  <2>4. QED
    BY <1>1, <1>3, <1>4, <2>2, <2>3, HeldAfter
<1>8. Queues'
  <2>1. c \notin Range(backlog) /\ c \notin current
    BY <1>2 DEF LoopInv, Queues
  <2>2. QED
    BY <1>1, <1>2, <1>3, <1>4, <2>1, QueuesAfter DEF LoopInv, Queues, platform
<1>9. QED
  BY <1>5, <1>6, <1>7, <1>8 DEF LoopInv

(* A client that was served still has its permit. *)
LEMMA HandleClientStep ==
  ASSUME LoopInv, NEW c \in Conns, HandleClient(c)
  PROVE  LoopInv'
<1>1. /\ conn' \in [Conns -> ConnStates]
      /\ conn[c] = "handled" /\ conn'[c] = "closed"
      /\ \A d \in Conns \ {c} : conn'[d] = conn[d]
  BY BecomesHolds DEF LoopInv, HandleClient, ConnStates
<1>2. /\ connHolders' \in [Conns -> SUBSET Processes]
      /\ connHolders'[c] = connHolders[c] \ {Proxy}
      /\ \A d \in Conns \ {c} : connHolders'[d] = connHolders[d]
  BY DropsHolds DEF LoopInv, HandleClient
<1>3. /\ UNCHANGED <<main, current, backlog, tasks, permits, listenHolders>>
      /\ UNCHANGED platform
  BY DEF HandleClient, clients, work
<1>4. LoopType'
  BY <1>1, <1>2, <1>3 DEF LoopInv, LoopType
<1>5. PermitsType' /\ PermitsConserved'
  BY <1>1, <1>3, PermitsKept DEF LoopInv, ServedStates
<1>6. HeldByTheLiving'
  <2>1. ~HostNeeds(c)'
    BY <1>1 DEF HostNeeds
  <2>2. QED
    BY <1>1, <1>2, <1>3, <2>1, HeldAfter
<1>7. Queues'
  BY <1>1, <1>3, QueuesAfter DEF LoopInv, Queues, platform
<1>8. QED
  BY <1>4, <1>5, <1>6, <1>7 DEF LoopInv

(* The permit comes back when the work is done. *)
LEMMA ReleasePermitStep ==
  ASSUME LoopInv, NEW c \in Conns, ReleasePermit(c)
  PROVE  LoopInv'
<1>1. /\ conn' \in [Conns -> ConnStates]
      /\ conn[c] = "closed" /\ conn'[c] = "done"
      /\ \A d \in Conns \ {c} : conn'[d] = conn[d]
  BY BecomesHolds DEF LoopInv, ReleasePermit, ConnStates
<1>2. /\ UNCHANGED <<main, current, backlog, tasks, listenHolders, connHolders>>
      /\ UNCHANGED platform
      /\ permits' = permits + 1
  BY DEF ReleasePermit, clients, holders
<1>3. LoopType'
  BY <1>1, <1>2 DEF LoopInv, LoopType
<1>4. PermitsType' /\ PermitsConserved'
  BY <1>1, <1>2, PermitsGiven DEF LoopInv, ServedStates
<1>5. HeldByTheLiving'
  <2>1. ~HostNeeds(c) /\ ~HostNeeds(c)'
    BY <1>1 DEF HostNeeds
  <2>2. Proxy \notin connHolders'[c]
    BY <1>2, <2>1 DEF LoopInv, HeldByTheLiving
  <2>3. QED
    BY <1>1, <1>2, <2>1, <2>2, HeldAfter
<1>6. Queues'
  BY <1>1, <1>2, QueuesAfter DEF LoopInv, Queues, platform
<1>7. QED
  BY <1>3, <1>4, <1>5, <1>6 DEF LoopInv

---------------------------------------------------------------------------
(* The steps that end something. *)

(* Who gives up the listener leaves nobody in a backlog without one. *)
LEMMA GivesUpHolds ==
  ASSUME LoopInv, NEW p, GiveUpListener(p)
  PROVE  /\ backlog' \in Seq(Conns)
         /\ Distinct(backlog')
         /\ Range(backlog') \subseteq Range(backlog)
         /\ listenHolders' = listenHolders \ {p}
         /\ listenHolders' = {} => backlog' = <<>>
         /\ Orphans \subseteq In({"backlog"})
         /\ Orphans \cap Range(backlog') = {}
<1>1. CASE listenHolders' = {}
  BY <1>1, EmptyHolds DEF LoopInv, LoopType, Queues, GiveUpListener, Orphans
<1>2. CASE listenHolders' # {}
  BY <1>2 DEF LoopInv, LoopType, Queues, GiveUpListener, Orphans
<1>3. QED
  BY <1>1, <1>2

(* The connections of D are over. *)
LEMMA EndsHold ==
  ASSUME LoopInv, NEW D \in SUBSET Conns,
         conn' = [d \in Conns |-> IF d \in D THEN "done" ELSE conn[d]],
         \A d \in D : conn[d] \in {"backlog", "accepted", "tunnel"},
         UNCHANGED <<platform, tasks, permits>>,
         backlog' \in Seq(Conns), Distinct(backlog'),
         Range(backlog') \subseteq Range(backlog), D \cap Range(backlog') = {},
         listenHolders' = {} => backlog' = <<>>,
         current' \subseteq current, D \cap current' = {}
  PROVE  /\ conn' \in [Conns -> ConnStates]
         /\ PermitsType' /\ PermitsConserved'
         /\ Queues'
<1>1. conn' \in [Conns -> ConnStates]
  BY DEF LoopInv, LoopType, ConnStates
<1>2. PermitsType' /\ PermitsConserved'
  BY PermitsKept DEF LoopInv, ServedStates
<1>3. Range(backlog) \subseteq Conns /\ Range(tasks) \subseteq Conns
  BY DEF LoopInv, LoopType, Range
<1>4. D \cap Range(tasks) = {}
  BY DEF LoopInv, Queues
<1>5. \A d \in Range(backlog') : conn'[d] = "backlog"
  BY <1>3 DEF LoopInv, Queues
<1>6. \A d \in Range(tasks') : conn'[d] \in {"admitted", "waiting"}
  BY <1>3, <1>4 DEF LoopInv, Queues
<1>7. \A d \in current' : conn'[d] = "accepted"
  BY DEF LoopInv, LoopType, Queues
<1>8. \A d \in Conns : conn'[d] = "waiting" => ~hasFork'
  BY DEF LoopInv, Queues, platform
<1>9. Distinct(tasks')
  BY DEF LoopInv, Queues
<1>10. QED
  BY <1>1, <1>2, <1>5, <1>6, <1>7, <1>8, <1>9 DEF Queues

(* The loop closes the listener. *)
LEMMA CloseListenerStep ==
  ASSUME LoopInv, CloseListener
  PROVE  LoopInv'
<1> PICK D : D = Orphans
  OBVIOUS
<1>1. /\ backlog' \in Seq(Conns) /\ Distinct(backlog')
      /\ Range(backlog') \subseteq Range(backlog)
      /\ listenHolders' = listenHolders \ {Proxy}
      /\ listenHolders' = {} => backlog' = <<>>
      /\ D \subseteq In({"backlog"}) /\ D \cap Range(backlog') = {}
  BY GivesUpHolds DEF CloseListener
<1>2. /\ UNCHANGED <<current, tasks, permits, connHolders>>
      /\ UNCHANGED platform
      /\ conn' = [c \in Conns |-> IF c \in D THEN "done" ELSE conn[c]]
      /\ main = "closing" /\ main' = "exiting"
  BY DEF CloseListener, clients, work
<1>3. D \in SUBSET Conns /\ (\A d \in D : conn[d] = "backlog") /\ D \cap current' = {}
  BY <1>1, <1>2 DEF In, LoopInv, Queues
<1>4. conn' \in [Conns -> ConnStates] /\ PermitsType' /\ PermitsConserved' /\ Queues'
  BY <1>1, <1>2, <1>3, EndsHold
<1>5. LoopType'
  BY <1>1, <1>2, <1>4 DEF LoopInv, LoopType, MainStates
<1>6. HeldByTheLiving'
  <2>1. Children' = Children
    BY <1>2, <1>3 DEF Children, In, platform
  <2>2. \A d \in Conns : HostNeeds(d)' <=> HostNeeds(d)
    BY <1>2, <1>3 DEF HostNeeds, platform
  <2>3. QED
    BY <1>1, <1>2, <2>1, <2>2 DEF LoopInv, HeldByTheLiving
<1>7. QED
  BY <1>4, <1>5, <1>6 DEF LoopInv

(* A crash drops the listener and the connection just accepted. *)
LEMMA CrashExitsStep ==
  ASSUME LoopInv, CrashExits
  PROVE  LoopInv'
<1> PICK D : D = Orphans \cup current
  OBVIOUS
<1>1. /\ backlog' \in Seq(Conns) /\ Distinct(backlog')
      /\ Range(backlog') \subseteq Range(backlog)
      /\ listenHolders' = listenHolders \ {Proxy}
      /\ listenHolders' = {} => backlog' = <<>>
      /\ Orphans \subseteq In({"backlog"}) /\ Orphans \cap Range(backlog') = {}
  BY GivesUpHolds DEF CrashExits
<1>2. /\ UNCHANGED <<tasks, permits>>
      /\ UNCHANGED platform
      /\ conn' = [c \in Conns |-> IF c \in D THEN "done" ELSE conn[c]]
      /\ connHolders' = [c \in Conns |-> IF c \in current
                                         THEN connHolders[c] \ {Proxy}
                                         ELSE connHolders[c]]
      /\ current' = {}
      /\ main = "crashed" /\ main' = "exiting"
  BY DEF CrashExits, clients, work
<1>3. /\ D \in SUBSET Conns
      /\ \A d \in D : conn[d] \in {"backlog", "accepted"}
      /\ \A d \in D \ current : conn[d] = "backlog"
      /\ D \cap Range(backlog') = {} /\ current \subseteq D
  BY <1>1 DEF In, LoopInv, LoopType, Queues
<1>4. conn' \in [Conns -> ConnStates] /\ PermitsType' /\ PermitsConserved' /\ Queues'
  BY <1>1, <1>2, <1>3, EndsHold
<1>5. LoopType'
  <2>1. connHolders' \in [Conns -> SUBSET Processes]
    BY <1>2 DEF LoopInv, LoopType
  <2>2. QED
    BY <1>1, <1>2, <1>4, <2>1 DEF LoopInv, LoopType, MainStates
<1>6. HeldByTheLiving'
  <2>1. Children' = Children
    BY <1>2, <1>3 DEF Children, In, platform
  <2>2. \A d \in Conns : HostNeeds(d)' <=> HostNeeds(d) /\ d \notin current
    BY <1>2, <1>3 DEF HostNeeds, platform
  <2>3. \A d \in Conns : Proxy \in connHolders'[d] <=> HostNeeds(d)'
    BY <1>2, <2>2 DEF LoopInv, HeldByTheLiving
  <2>4. \A d \in Conns : connHolders'[d] \subseteq connHolders[d]
    BY <1>2
  <2>5. QED
    BY <1>1, <2>1, <2>3, <2>4 DEF LoopInv, HeldByTheLiving
<1>7. QED
  BY <1>4, <1>5, <1>6 DEF LoopInv

(* A tunnel ends, and with it the sockets of a forked child. *)
LEMMA TunnelEndsStep ==
  ASSUME LoopInv, NEW c \in Conns, TunnelEnds(c)
  PROVE  LoopInv'
<1> PICK D : D = Orphans \cup {c}
  OBVIOUS
<1>1. /\ conn[c] = "tunnel"
      /\ UNCHANGED <<main, current, tasks, permits>>
      /\ UNCHANGED platform
      /\ conn' = [d \in Conns |-> IF d \in D THEN "done" ELSE conn[d]]
  BY DEF TunnelEnds, clients, work
<1>2. c \notin Range(backlog) /\ c \notin current
  BY <1>1 DEF LoopInv, Queues
<1>3. /\ backlog' \in Seq(Conns) /\ Distinct(backlog')
      /\ Range(backlog') \subseteq Range(backlog)
      /\ listenHolders' = {} => backlog' = <<>>
      /\ Orphans \subseteq In({"backlog"}) /\ Orphans \cap Range(backlog') = {}
      /\ listenHolders' = IF hasFork THEN listenHolders \ {c} ELSE listenHolders
  <2>1. CASE hasFork
    BY <2>1, GivesUpHolds DEF TunnelEnds
  <2>2. CASE ~hasFork
    <3>1. UNCHANGED <<listenHolders, backlog>>
      BY <2>2 DEF TunnelEnds
    <3>2. listenHolders = {} => In({"backlog"}) \cap Range(backlog') = {}
      BY <3>1, EmptyHolds DEF LoopInv, Queues
    <3>3. QED
      BY <2>2, <3>1, <3>2 DEF Orphans, LoopInv, LoopType, Queues
  <2>3. QED
    BY <2>1, <2>2
<1>4. /\ D \in SUBSET Conns
      /\ \A d \in D : conn[d] \in {"backlog", "tunnel"}
      /\ \A d \in D \ {c} : conn[d] = "backlog"
      /\ D \cap Range(backlog') = {} /\ D \cap current' = {} /\ c \in D
  BY <1>1, <1>2, <1>3 DEF In, LoopInv, Queues
<1>5. conn' \in [Conns -> ConnStates] /\ PermitsType' /\ PermitsConserved' /\ Queues'
  BY <1>1, <1>3, <1>4, EndsHold
<1>6. /\ connHolders' \in [Conns -> SUBSET Processes]
      /\ \A d \in Conns : connHolders'[d] \subseteq connHolders[d]
      /\ hasFork => \A d \in Conns : connHolders'[d] = connHolders[d] \ {c}
      /\ ~hasFork => /\ connHolders'[c] = connHolders[c] \ {Proxy}
                     /\ \A d \in Conns \ {c} : connHolders'[d] = connHolders[d]
  <2>1. CASE hasFork
    BY <2>1 DEF TunnelEnds, LoopInv, LoopType
  <2>2. CASE ~hasFork
    BY <2>2, DropsHolds DEF TunnelEnds, LoopInv
  <2>3. QED
    BY <2>1, <2>2
<1>7. LoopType'
  BY <1>1, <1>3, <1>5, <1>6 DEF LoopInv, LoopType
<1>8. HeldByTheLiving'
  <2>1. Children' = Children \ {c}
    BY <1>1, <1>4 DEF Children, In, platform
  <2>2. \A d \in Conns : HostNeeds(d)' <=> HostNeeds(d) /\ d # c
    BY <1>1, <1>4 DEF HostNeeds, platform
  <2>3. \A d \in Conns : Proxy \in connHolders'[d] <=> HostNeeds(d)'
    <3>1. CASE hasFork
      <4>1. ~HostNeeds(c) /\ Proxy # c
        BY <1>1, <3>1, ConnsAssumption DEF HostNeeds
      <4>2. QED
        BY <1>6, <2>2, <3>1, <4>1 DEF LoopInv, HeldByTheLiving
    <3>2. CASE ~hasFork
      BY <1>6, <2>2, <3>2 DEF LoopInv, HeldByTheLiving
    <3>3. QED
      BY <3>1, <3>2
  <2>4. /\ listenHolders' \subseteq Children' \cup {Proxy}
        /\ \A d \in Conns : connHolders'[d] \subseteq Children' \cup {Proxy}
    <3>1. CASE hasFork
      BY <1>3, <1>6, <2>1, <3>1 DEF LoopInv, HeldByTheLiving
    <3>2. CASE ~hasFork
      <4>1. Children = {} /\ Children' = {}
        BY <2>1, <3>2 DEF Children
      <4>2. QED
        BY <1>3, <1>6, <3>2, <4>1 DEF LoopInv, HeldByTheLiving
    <3>3. QED
      BY <3>1, <3>2
  <2>5. QED
    BY <2>3, <2>4 DEF HeldByTheLiving
<1>9. QED
  BY <1>5, <1>7, <1>8 DEF LoopInv
---------------------------------------------------------------------------
(* The initial states, and every step. *)

(* The invariant holds at the start. *)
LEMMA InitInv == Init => IInv
<1> SUFFICES ASSUME Init PROVE IInv
  OBVIOUS
<1>1. ClientsType
  BY DEF Init, ClientsType
<1>2. LoopType
  BY EmptyHolds DEF Init, LoopType, MainStates, ConnStates, Processes
<1>3. PermitsType /\ PermitsConserved
  <2>1. In(ServedStates) = {}
    BY DEF Init, In, ServedStates
  <2>2. Cardinality(In(ServedStates)) = 0
    BY <2>1, FS_EmptySet
  <2>3. permits = MaxInflight /\ MaxInflight \in Nat
    BY LimitsAssumption DEF Init
  <2>4. QED
    BY <2>2, <2>3 DEF PermitsType, PermitsConserved, ServedStates
<1>4. HeldByTheLiving
  <2>1. \A c \in Conns : connHolders[c] = {} /\ ~HostNeeds(c)
    BY DEF Init, HostNeeds
  <2>2. QED
    BY <2>1 DEF Init, HeldByTheLiving
<1>5. Queues
  BY EmptyHolds DEF Init, Queues
<1>6. QED
  BY <1>1, <1>2, <1>3, <1>4, <1>5 DEF IInv, LoopInv

(* The mode and what the clients have done keep their types. *)
LEMMA ClientsStep ==
  ASSUME ClientsType, [Next]_vars
  PROVE  ClientsType'
<1>1. CASE \E c \in Conns : Speak(c)
  <2>1. PICK c \in Conns : Speak(c)
    BY <1>1
  <2>2. first' \in [Conns -> {"nothing", "http", "socks5", "eof", "reset"}]
    BY <2>1 DEF Speak, ClientsType
  <2>3. QED
    BY <2>1, <2>2 DEF Speak, ClientsType, platform
<1>2. CASE ShutdownSet
  <2>1. UNCHANGED <<hasFork, hasSocks5, first>> /\ shutdown' = TRUE
    BY <1>2 DEF ShutdownSet, platform
  <2>2. shutdown' \in BOOLEAN
    BY <2>1, Zenon
  <2>3. QED
    BY <2>1, <2>2 DEF ClientsType
<1>3. CASE UNCHANGED clients
  BY <1>3 DEF ClientsType, clients, platform
<1>4. QED
  BY <1>1, <1>2, <1>3
     DEF Next, vars, MainStep, Route, Connect, CheckShutdown, AcceptTimesOut, AcceptFails, Accept,
         Peeks, Admit, Reject, ForkTunnel, SubmitTunnel, Crash, CloseListener,
         CrashExits, ProcessEnds, TakeTask, HandleClient, ReleasePermit, TunnelEnds

(* No decision on an accepted connection breaks the invariant. *)
LEMMA RouteStep ==
  ASSUME LoopInv, NEW c \in Conns, Route(c)
  PROVE  LoopInv'
<1>1. CASE Admit(c)
  BY <1>1, AdmitStep
<1>2. CASE Reject(c)
  BY <1>2, RejectStep
<1>3. CASE ForkTunnel(c)
  BY <1>3, ForkStep
<1>4. CASE SubmitTunnel(c)
  BY <1>4, SubmitStep
<1>5. CASE Crash(c)
  BY <1>5, StillSteps DEF Crash, MainStates, clients, work, holders
<1>6. QED
  BY <1>1, <1>2, <1>3, <1>4, <1>5 DEF Route

(* No step of the loop does. *)
LEMMA MainStepStep ==
  ASSUME LoopInv, MainStep
  PROVE  LoopInv'
<1>1. CASE CheckShutdown
  BY <1>1, StillSteps DEF CheckShutdown, MainStates, clients, work, holders
<1>2. CASE AcceptTimesOut \/ AcceptFails
  BY <1>2, StillSteps DEF AcceptTimesOut, AcceptFails, MainStates, clients, work, holders
<1>3. CASE Accept
  BY <1>3, AcceptStep
<1>4. CASE \E c \in current : Route(c)
  BY <1>4, RouteStep DEF LoopInv, LoopType
<1>5. CASE CloseListener
  BY <1>5, CloseListenerStep
<1>6. CASE CrashExits
  BY <1>6, CrashExitsStep
<1>7. CASE ProcessEnds
  BY <1>7, StillSteps DEF ProcessEnds, MainStates, clients, work
<1>8. QED
  BY <1>1, <1>2, <1>3, <1>4, <1>5, <1>6, <1>7 DEF MainStep

(* Every step keeps the invariant. *)
LEMMA NextInv == IInv /\ [Next]_vars => IInv'
<1> SUFFICES ASSUME IInv, [Next]_vars PROVE IInv'
  OBVIOUS
<1>1. ClientsType'
  BY ClientsStep DEF IInv
<1>2. LoopInv'
  <2> USE DEF IInv
  <2>1. CASE \E c \in Conns : Connect(c)
    BY <2>1, ConnectStep
  <2>2. CASE \E c \in Conns : Speak(c)
    BY <2>2, StillSteps DEF Speak, LoopInv, LoopType, work, holders
  <2>3. CASE ShutdownSet
    BY <2>3, StillSteps DEF ShutdownSet, LoopInv, LoopType, work, holders
  <2>4. CASE MainStep
    BY <2>4, MainStepStep
  <2>5. CASE TakeTask
    BY <2>5, TakeTaskStep
  <2>6. CASE \E c \in Conns : HandleClient(c)
    BY <2>6, HandleClientStep
  <2>7. CASE \E c \in Conns : ReleasePermit(c)
    BY <2>7, ReleasePermitStep
  <2>8. CASE \E c \in Conns : TunnelEnds(c)
    BY <2>8, TunnelEndsStep
  <2>9. CASE UNCHANGED vars
    BY <2>9, StillSteps DEF vars, clients, work, holders, LoopInv, LoopType
  <2>10. QED
    BY <2>1, <2>2, <2>3, <2>4, <2>5, <2>6, <2>7, <2>8, <2>9 DEF Next
<1>3. QED
  BY <1>1, <1>2 DEF IInv

---------------------------------------------------------------------------
(* Accounts, descriptors and queues agree in every reachable state. *)
THEOREM LoopInvariant == Spec => []IInv
BY InitInv, NextInv, PTL DEF Spec

(***************************************************************************)
(* Each variable of the loop keeps its type; for the semaphore this says   *)
(* that release() is never called once too often, and for the queues that  *)
(* only connections get into them (proxy.py:163-205).                      *)
(***************************************************************************)
THEOREM TypeCorrect == Spec => []TypeOK
<1>1. IInv => TypeOK
  <2> SUFFICES ASSUME IInv PROVE TypeOK
    OBVIOUS
  <2>1. permits \in 0 .. MaxInflight
    BY ServedFinite, LimitsAssumption
       DEF IInv, LoopInv, PermitsType, PermitsConserved, ServedStates
  <2>2. QED
    BY <2>1 DEF IInv, LoopInv, LoopType, ClientsType, TypeOK
<1>2. QED
  BY <1>1, LoopInvariant, PTL

(***************************************************************************)
(* The semaphore accounts for exactly the admitted connections that are    *)
(* not finished, whatever the limits, through shutdown and through a crash *)
(* of the main thread (proxy.py:197-203).                                  *)
(***************************************************************************)
THEOREM PermitsNeverLost == Spec => []PermitsConserved
BY LoopInvariant, PTL DEF IInv, LoopInv

(***************************************************************************)
(* No descriptor outlives its use, with any number of forked children that *)
(* inherited each other's (proxy.py:185-192).                              *)
(***************************************************************************)
THEOREM NoDescriptorLost == Spec => []HeldByTheLiving
BY LoopInvariant, PTL DEF IInv, LoopInv
=============================================================================
