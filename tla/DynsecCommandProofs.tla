-------------------------- MODULE DynsecCommandProofs --------------------------
(***************************************************************************)
(* Proofs about DynsecCommand: for any number of calls on the one response *)
(* topic and any number of connections, a call implements ControlCall, its *)
(* executions are bounded, its answer reaches it, and its counters stay    *)
(* within the bounds of their types.                                       *)
(*                                                                         *)
(* The invariant is a conjunction over the calls.  A connection goes       *)
(* through CONNECT, CONNACK, SUBSCRIBE and SUBACK, one of which is under   *)
(* way at a time and before everything else; after them there are only     *)
(* messages, answers and acknowledgements.  So the messages under way are  *)
(* counted by the lengths of the queues, and the publications a connection *)
(* still owes by how far it is.                                            *)
(***************************************************************************)
EXTENDS DynsecCommand, FiniteSetTheorems, TLAPS

-------------------------------------------------------------------------------
(* The invariant. *)

Typed ==
    /\ pc \in [Calls -> Pc]
    /\ event \in [Calls -> BOOLEAN]
    /\ error \in [Calls -> {"none", "rejected", "invalid"}]
    /\ response \in [Calls -> Verdicts \cup {"none"}]
    /\ outcome \in [Calls -> Outcomes]
    /\ link \in [Calls -> {"none", "up", "down", "closed"}]
    /\ connects \in [Calls -> Nat]
    /\ toBroker \in [Calls -> Seq(ToBroker)]
    /\ toClient \in [Calls -> Seq(ToClient)]
    /\ unacked \in [Calls -> Int]
    /\ subscribed \in [Calls -> BOOLEAN]
    /\ denied \in [Calls -> BOOLEAN]
    /\ effects \in [Calls -> Nat]
    /\ refusals \in [Calls -> Nat]
    /\ budget \in Budgets

First(c, packet) == toBroker[c] # <<>> /\ toBroker[c][1] = packet

Has(s, packet) == \E i \in 1 .. Len(s) : s[i] = packet
Contains(c, packet) == Has(toClient[c], packet)

Connecting(c) == First(c, "connect") \/ Contains(c, Accepted)
Subscribing(c) == First(c, "subscribe") \/ Contains(c, Suback)

\* What may be under way together.
Shape(c) ==
    /\ \A i \in 1 .. Len(toBroker[c]) : i > 1 => toBroker[c][i] = "publish"
    /\ First(c, "connect") => Len(toBroker[c]) = 1
    /\ First(c, "connect") \/ First(c, "subscribe") => toClient[c] = <<>> /\ ~subscribed[c]
    /\ Contains(c, Accepted) \/ Contains(c, Rejected) =>
           Len(toClient[c]) = 1 /\ toBroker[c] = <<>> /\ ~subscribed[c]
    /\ \A i, j \in 1 .. Len(toClient[c]) :
           toClient[c][i] = Suback /\ toClient[c][j] = Suback => i = j
    /\ link[c] # "up" => toClient[c] = <<>>
    /\ link[c] \in {"none", "down"} => toBroker[c] = <<>>

\* Publications on their way, and those that this connection still owes.
Queued(c) ==
    IF toBroker[c] = <<>> \/ First(c, "connect") THEN 0
    ELSE IF First(c, "subscribe") THEN Len(toBroker[c]) - 1
    ELSE Len(toBroker[c])

Positive(n) == IF n < 0 THEN 0 ELSE n

Owed(c) ==
    IF Connecting(c) THEN Positive(unacked[c]) + 1
    ELSE IF Subscribing(c) THEN 1
    ELSE 0

Triangle(n) == (n * (n + 1)) \div 2

Counted(c) ==
    /\ connects[c] <= budget[c]
    /\ effects[c] + refusals[c] + Queued(c) + Owed(c) <= Triangle(connects[c])
    /\ unacked[c] <= connects[c]
    /\ Connecting(c) \/ Subscribing(c) => unacked[c] + 1 <= connects[c]

\* Answers are about executions.
Done(c, verdict) == IF verdict = "ok" THEN effects[c] > 0 ELSE refusals[c] > 0

Answers(c) ==
    \A verdict \in Verdicts :
        /\ response[c] = verdict => Done(c, verdict)
        /\ outcome[c] = verdict => Done(c, verdict)
        /\ \A payload \in Payloads : Contains(c, Response(c, verdict, payload)) => Done(c, verdict)

\* The caller and what it has been told.
Told(c) ==
    /\ pc[c] \in {"idle", "start"} => link[c] = "none" /\ connects[c] = 0
    /\ outcome[c] = "none" <=> pc[c] \notin {"close", "done"}
    /\ event[c] /\ error[c] = "none" => response[c] # "none"
    /\ pc[c] = "check" => event[c]
    /\ pc[c] = "read" => response[c] # "none"

\* The first connection publishes after its subscription was granted.
Granted(c) ==
    /\ connects[c] = 1 /\ link[c] = "up" /\ ~denied[c]
    /\ Queued(c) > 0 \/ Contains(c, Suback) \/ effects[c] + refusals[c] > 0
    => subscribed[c]

Arrives(c) ==
    /\ effects[c] + refusals[c] > 0
    /\ connects[c] = 1 /\ link[c] = "up" /\ ~denied[c]
    => \/ event[c]
       \/ \E v \in Verdicts, p \in Payloads : Contains(c, Response(c, v, p))

CallInv(c) ==
    Shape(c) /\ Counted(c) /\ Answers(c) /\ Told(c) /\ Granted(c) /\ Arrives(c)

IInv == Typed /\ \A c \in Calls : CallInv(c)

-------------------------------------------------------------------------------
(* Packets and queues. *)

LEMMA Packets ==
    /\ {Accepted, Rejected, Suback, Puback} \subseteq ToClient
    /\ Accepted # Rejected /\ Accepted # Suback /\ Accepted # Puback
    /\ Rejected # Suback /\ Rejected # Puback /\ Suback # Puback
    /\ \A c \in Calls, v \in Verdicts, p \in Payloads :
           /\ Response(c, v, p) \in ToClient
           /\ Response(c, v, p) \notin {Accepted, Rejected, Suback, Puback}
           /\ \A d \in Calls, w \in Verdicts, x \in Payloads :
                  Response(c, v, p) = Response(d, w, x) => c = d /\ v = w /\ p = x
<1>1. Accepted.type = "connack" /\ Rejected.type = "connack" /\ Suback.type = "suback"
      /\ Puback.type = "puback" /\ Accepted.accepted /\ ~Rejected.accepted
  BY DEF Accepted, Rejected, Suback, Puback
<1>2. \A c \in Calls, v \in Verdicts, p \in Payloads :
          /\ Response(c, v, p).type = "response"
          /\ Response(c, v, p).call = c
          /\ Response(c, v, p).verdict = v
          /\ Response(c, v, p).payload = p
  BY DEF Response
<1>3. {Accepted, Rejected, Suback, Puback} \subseteq ToClient
  BY DEF ToClient
<1>4. \A c \in Calls, v \in Verdicts, p \in Payloads : Response(c, v, p) \in ToClient
  BY DEF ToClient
<1> QED
  BY <1>1, <1>2, <1>3, <1>4

LEMMA TailOf ==
    ASSUME NEW S, NEW s \in Seq(S), s # <<>>
    PROVE  /\ Tail(s) \in Seq(S)
           /\ Len(s) \in Nat /\ Len(s) >= 1 /\ Len(Tail(s)) = Len(s) - 1
           /\ \A i \in 1 .. Len(s) - 1 : Tail(s)[i] = s[i + 1]
           /\ Head(s) = s[1] /\ s[1] \in S
OBVIOUS

LEMMA JoinOf ==
    ASSUME NEW S, NEW s \in Seq(S), NEW t \in Seq(S)
    PROVE  /\ s \o t \in Seq(S)
           /\ Len(s) \in Nat /\ Len(t) \in Nat /\ Len(s \o t) = Len(s) + Len(t)
           /\ \A i \in 1 .. Len(s) : (s \o t)[i] = s[i]
           /\ \A i \in 1 .. Len(t) : (s \o t)[Len(s) + i] = t[i]
OBVIOUS

LEMMA TailHas ==
    ASSUME NEW S, NEW s \in Seq(S), s # <<>>
    PROVE  \A packet : /\ Has(Tail(s), packet) => Has(s, packet)
                       /\ Has(s, packet) => packet = s[1] \/ Has(Tail(s), packet)
<1>1. \A i \in 1 .. Len(s) - 1 : Tail(s)[i] = s[i + 1]
  BY TailOf
<1>2. Len(s) \in Nat /\ Len(s) >= 1 /\ Len(Tail(s)) = Len(s) - 1
  BY TailOf
<1>3. \A i \in 1 .. Len(s) : i = 1 \/ (i - 1 \in 1 .. Len(s) - 1 /\ s[i] = Tail(s)[i - 1])
  BY <1>1, <1>2
<1> QED
  BY <1>1, <1>2, <1>3 DEF Has

LEMMA JoinHas ==
    ASSUME NEW S, NEW s \in Seq(S), NEW t \in Seq(S)
    PROVE  \A packet : Has(s \o t, packet) <=> Has(s, packet) \/ Has(t, packet)
<1>1. /\ Len(s) \in Nat /\ Len(t) \in Nat /\ Len(s \o t) = Len(s) + Len(t)
      /\ \A i \in 1 .. Len(s) : (s \o t)[i] = s[i]
      /\ \A i \in 1 .. Len(t) : (s \o t)[Len(s) + i] = t[i]
  BY JoinOf
<1>2. \A i \in 1 .. Len(s) + Len(t) :
          \/ i \in 1 .. Len(s)
          \/ i - Len(s) \in 1 .. Len(t) /\ (s \o t)[i] = t[i - Len(s)]
  BY <1>1
<1>3. \A i \in 1 .. Len(s) : i \in 1 .. Len(s \o t)
  BY <1>1
<1>4. \A i \in 1 .. Len(t) : Len(s) + i \in 1 .. Len(s \o t)
  BY <1>1
<1> QED
  BY <1>1, <1>2, <1>3, <1>4 DEF Has

\* What the library sends again.
Again(n) == [i \in 1 .. n |-> "publish"]

LEMMA Repeated ==
    ASSUME NEW n \in Int
    PROVE  /\ Again(n) \in Seq(ToBroker)
           /\ Len(Again(n)) = Positive(n) /\ Positive(n) \in Nat
           /\ \A i \in 1 .. Len(Again(n)) : Again(n)[i] = "publish"
<1>1. CASE n <= 0
  <2>1. 1 .. n = {}
    BY <1>1
  <2>2. Again(n) = <<>>
    BY <2>1 DEF Again
  <2>3. Positive(n) = 0
    BY <1>1 DEF Positive
  <2> QED
    BY <2>2, <2>3
<1>2. CASE n > 0
  <2>1. n \in Nat /\ "publish" \in ToBroker
    BY <1>2 DEF ToBroker
  <2>2. Again(n) \in [1 .. n -> ToBroker]
    BY <2>1 DEF Again
  <2>3. Again(n) \in Seq(ToBroker) /\ Len(Again(n)) = n
    BY <2>1, <2>2
  <2>4. Positive(n) = n
    BY <1>2 DEF Positive
  <2>5. \A i \in 1 .. n : Again(n)[i] = "publish"
    BY DEF Again
  <2> QED
    BY <2>1, <2>3, <2>4, <2>5
<1> QED
  BY <1>1, <1>2

LEMMA TriangleStep ==
    ASSUME NEW n \in Nat
    PROVE  Triangle(n) \in Nat /\ Triangle(n + 1) = Triangle(n) + n + 1
<1> DEFINE a == n * (n + 1)
           b == (n + 1) * ((n + 1) + 1)
<1>1. a \in Nat /\ b \in Nat /\ b = a + 2 * (n + 1)
  OBVIOUS
<1>2. Triangle(n) = a \div 2 /\ Triangle(n + 1) = b \div 2
  BY DEF Triangle
<1> HIDE DEF a, b
<1>3. a \div 2 \in Nat /\ b \div 2 = a \div 2 + n + 1
  BY <1>1
<1> QED
  BY <1>2, <1>3

LEMMA TriangleGrows ==
    ASSUME NEW n \in Nat, NEW m \in Nat, n <= m
    PROVE  Triangle(n) \in Nat /\ Triangle(m) \in Nat /\ Triangle(n) <= Triangle(m)
<1> DEFINE a == n * (n + 1)
           b == m * (m + 1)
<1>1. a \in Nat /\ b \in Nat
  OBVIOUS
<1>2. a <= b
  <2>1. n * n <= m * m
    OBVIOUS
  <2>2. a = n * n + n /\ b = m * m + m
    OBVIOUS
  <2> QED
    BY <2>1, <2>2
<1>3. Triangle(n) = a \div 2 /\ Triangle(m) = b \div 2
  BY DEF Triangle
<1> HIDE DEF a, b
<1> QED
  BY <1>1, <1>2, <1>3

-------------------------------------------------------------------------------
(* Types. *)

\* One value of a function replaced by one of its range.
LEMMA Replaced ==
    ASSUME NEW S, NEW D, NEW f \in [D -> S], NEW c \in D, NEW x \in S
    PROVE  /\ [f EXCEPT ![c] = x] \in [D -> S]
           /\ [f EXCEPT ![c] = x][c] = x
           /\ \A d \in D : d # c => [f EXCEPT ![c] = x][d] = f[d]
OBVIOUS

\* The per-call view of an unchanged call.
Same(d) ==
    /\ pc'[d] = pc[d] /\ outcome'[d] = outcome[d]
    /\ event'[d] = event[d] /\ error'[d] = error[d] /\ response'[d] = response[d]
    /\ link'[d] = link[d] /\ connects'[d] = connects[d] /\ toBroker'[d] = toBroker[d]
    /\ unacked'[d] = unacked[d]
    /\ subscribed'[d] = subscribed[d] /\ denied'[d] = denied[d]
    /\ effects'[d] = effects[d] /\ refusals'[d] = refusals[d]

USE DEF Typed

LEMMA FrameShape ==
    ASSUME NEW d, Shape(d), toBroker'[d] = toBroker[d], toClient'[d] = toClient[d],
           subscribed'[d] = subscribed[d], link'[d] = link[d]
    PROVE  Shape(d)'
BY DEF Shape, First, Contains, Has

LEMMA FrameCounted ==
    ASSUME NEW d, Counted(d), toBroker'[d] = toBroker[d], toClient'[d] = toClient[d],
           unacked'[d] = unacked[d], connects'[d] = connects[d],
           effects'[d] = effects[d], refusals'[d] = refusals[d], budget' = budget
    PROVE  Counted(d)'
BY DEF Counted, Queued, Owed, Connecting, Subscribing, First, Contains, Has, Positive, Triangle

LEMMA FrameAnswers ==
    ASSUME NEW d, Answers(d), response'[d] = response[d], outcome'[d] = outcome[d],
           toClient'[d] = toClient[d], effects'[d] = effects[d], refusals'[d] = refusals[d]
    PROVE  Answers(d)'
BY DEF Answers, Done, Contains, Has

LEMMA FrameArrives ==
    ASSUME NEW d, Granted(d), Arrives(d), connects'[d] = connects[d], link'[d] = link[d],
           denied'[d] = denied[d], toBroker'[d] = toBroker[d], toClient'[d] = toClient[d],
           effects'[d] = effects[d], refusals'[d] = refusals[d],
           subscribed'[d] = subscribed[d], event'[d] = event[d]
    PROVE  Granted(d)' /\ Arrives(d)'
BY DEF Granted, Arrives, Queued, First, Contains, Has

LEMMA Frame ==
    ASSUME NEW d, CallInv(d), Same(d), toClient'[d] = toClient[d], budget' = budget
    PROVE  CallInv(d)'
<1>1. Told(d)'
  BY DEF Same, CallInv, Told
<1> QED
  BY <1>1, FrameShape, FrameCounted, FrameAnswers, FrameArrives DEF Same, CallInv

\* A step of the caller that touches its own variables only.
LEMMA CallerFrame ==
    ASSUME NEW c, CallInv(c), UNCHANGED <<resultVars, netVars, brokerVars, budget>>
    PROVE  /\ Shape(c)' /\ Counted(c)' /\ Granted(c)' /\ Arrives(c)'
           /\ outcome'[c] = outcome[c] => Answers(c)'
BY FrameShape, FrameCounted, FrameAnswers, FrameArrives
   DEF CallInv, resultVars, netVars, brokerVars

\* The packet a callback takes from the front.
LEMMA Taken ==
    ASSUME Typed, NEW c \in Calls, NEW packet, Receives(c, packet)
    PROVE  /\ link[c] = "up" /\ toClient[c] # <<>> /\ toClient[c][1] = packet
           /\ Contains(c, packet)
           /\ toClient' \in [Calls -> Seq(ToClient)]
           /\ toClient'[c] = Tail(toClient[c])
           /\ \A d \in Calls : d # c => toClient'[d] = toClient[d]
           /\ Len(toClient[c]) \in Nat /\ Len(toClient[c]) >= 1
           /\ Len(toClient'[c]) = Len(toClient[c]) - 1
           /\ \A i \in 1 .. Len(toClient'[c]) : toClient'[c][i] = toClient[c][i + 1]
           /\ \A q : Contains(c, q)' => Contains(c, q)
           /\ \A q : Contains(c, q) => q = packet \/ Contains(c, q)'
<1>1. /\ link[c] = "up" /\ toClient[c] # <<>> /\ Head(toClient[c]) = packet
      /\ toClient' = [toClient EXCEPT ![c] = Tail(@)]
      /\ toClient[c] \in Seq(ToClient)
  BY DEF Receives, Running
<1>2. /\ Tail(toClient[c]) \in Seq(ToClient)
      /\ Len(toClient[c]) \in Nat /\ Len(toClient[c]) >= 1
      /\ Len(Tail(toClient[c])) = Len(toClient[c]) - 1
      /\ \A i \in 1 .. Len(toClient[c]) - 1 : Tail(toClient[c])[i] = toClient[c][i + 1]
      /\ toClient[c][1] = packet
  BY <1>1, TailOf
<1>3. /\ toClient' \in [Calls -> Seq(ToClient)]
      /\ toClient'[c] = Tail(toClient[c])
      /\ \A d \in Calls : d # c => toClient'[d] = toClient[d]
  BY <1>1, <1>2, Replaced
<1>4. \A q : /\ Has(toClient'[c], q) => Has(toClient[c], q)
             /\ Has(toClient[c], q) => q = packet \/ Has(toClient'[c], q)
  BY <1>1, <1>2, <1>3, TailHas
<1>5. Has(toClient[c], packet)
  BY <1>2 DEF Has
<1> QED
  BY <1>1, <1>2, <1>3, <1>4, <1>5 DEF Contains

\* The packet the broker takes from the front.
LEMMA Handled ==
    ASSUME Typed, NEW c \in Calls, NEW packet, Handles(c, packet)
    PROVE  /\ First(c, packet)
           /\ toBroker' \in [Calls -> Seq(ToBroker)]
           /\ \A d \in Calls : d # c => toBroker'[d] = toBroker[d]
           /\ Len(toBroker[c]) \in Nat /\ Len(toBroker[c]) >= 1
           /\ Len(toBroker'[c]) = Len(toBroker[c]) - 1
           /\ \A i \in 1 .. Len(toBroker'[c]) : toBroker'[c][i] = toBroker[c][i + 1]
           /\ UNCHANGED <<callerVars, resultVars, link, connects, unacked>>
<1>1. /\ toBroker[c] # <<>> /\ Head(toBroker[c]) = packet
      /\ toBroker' = [toBroker EXCEPT ![c] = Tail(@)]
      /\ toBroker[c] \in Seq(ToBroker)
  BY DEF Handles
<1>2. /\ Tail(toBroker[c]) \in Seq(ToBroker)
      /\ Len(toBroker[c]) \in Nat /\ Len(toBroker[c]) >= 1
      /\ Len(Tail(toBroker[c])) = Len(toBroker[c]) - 1
      /\ \A i \in 1 .. Len(toBroker[c]) - 1 : Tail(toBroker[c])[i] = toBroker[c][i + 1]
      /\ toBroker[c][1] = packet
  BY <1>1, TailOf
<1>3. /\ toBroker' \in [Calls -> Seq(ToBroker)]
      /\ toBroker'[c] = Tail(toBroker[c])
      /\ \A d \in Calls : d # c => toBroker'[d] = toBroker[d]
  BY <1>1, <1>2, Replaced
<1> QED
  BY <1>1, <1>2, <1>3 DEF First, Handles

\* What the broker sends, taken by the packets it can be.
LEMMA Delivered ==
    ASSUME Typed, NEW c \in Calls, NEW s \in Seq(ToClient)
    PROVE  /\ Sent(c, s) \in Seq(ToClient)
           /\ \A q : Has(Sent(c, s), q) => Contains(c, q) \/ Has(s, q)
           /\ link[c] = "up" => \A q : Contains(c, q) \/ Has(s, q) => Has(Sent(c, s), q)
<1>1. toClient[c] \in Seq(ToClient) /\ <<>> \in Seq(ToClient)
  OBVIOUS
<1>2. toClient[c] \o s \in Seq(ToClient)
  BY <1>1, JoinOf
<1>3. \A q : Has(toClient[c] \o s, q) <=> Has(toClient[c], q) \/ Has(s, q)
  BY <1>1, JoinHas
<1>4. \A q : ~Has(<<>>, q)
  BY DEF Has
<1> QED
  BY <1>1, <1>2, <1>3, <1>4 DEF Sent, Contains

LEMMA Single ==
    ASSUME NEW S, NEW p \in S
    PROVE  /\ <<p>> \in Seq(S) /\ Len(<<p>>) = 1 /\ <<p>>[1] = p
           /\ \A q : Has(<<p>>, q) <=> q = p
<1>1. <<p>> \in Seq(S) /\ Len(<<p>>) = 1 /\ <<p>>[1] = p
  OBVIOUS
<1> QED
  BY <1>1 DEF Has

LEMMA TypedCaller ==
    ASSUME Typed, NEW c \in Calls, Call(c) \/ Caller(c), budget' = budget
    PROVE  Typed'
<1>1. CASE Connect(c)
  <2>1. connects[c] + 1 \in Nat /\ <<"connect">> \in Seq(ToBroker)
        /\ <<>> \in Seq(ToClient)
    BY DEF ToBroker
  <2> QED
    BY <1>1, <2>1 DEF Connect, Dial, resultVars, Pc
<1>2. CASE Close(c)
  BY <1>2 DEF Close, resultVars, brokerVars, Pc
<1>3. CASE Call(c) \/ Wake(c)
  BY <1>3 DEF Call, Wake, resultVars, netVars, brokerVars, Pc
<1>4. CASE ConnectFails(c) \/ Timeout(c) \/ ReadResponse(c)
  BY <1>4 DEF ConnectFails, Timeout, ReadResponse, Decide, resultVars, netVars,
              brokerVars, Pc, Outcomes
<1>5. CASE CheckError(c)
  <2>1. error[c] \in Outcomes /\ "close" \in Pc /\ "read" \in Pc
    BY DEF Outcomes, Pc
  <2>2. pc' \in [Calls -> Pc] /\ outcome' \in [Calls -> Outcomes]
    BY <1>5, <2>1 DEF CheckError, Decide
  <2> QED
    BY <1>5, <2>2 DEF CheckError, resultVars, netVars, brokerVars
<1> QED
  BY <1>1, <1>2, <1>3, <1>4, <1>5 DEF Caller

LEMMA TypedLoop ==
    ASSUME Typed, NEW c \in Calls, Loop(c), budget' = budget
    PROVE  Typed'
<1>1. CASE OnConnect(c)
  <2>1. toClient' \in [Calls -> Seq(ToClient)]
    BY <1>1, Taken DEF OnConnect
  <2>2. <<"subscribe">> \in Seq(ToBroker) /\ toBroker[c] \in Seq(ToBroker)
    BY DEF ToBroker
  <2>3. Again(unacked[c]) \in Seq(ToBroker)
    BY Repeated
  <2>4. toBroker[c] \o <<"subscribe">> \o Again(unacked[c]) \in Seq(ToBroker)
    BY <2>2, <2>3
  <2>5. toBroker' = [toBroker EXCEPT ![c] = toBroker[c] \o <<"subscribe">> \o Again(unacked[c])]
    BY <1>1 DEF OnConnect, Again
  <2>6. toBroker' \in [Calls -> Seq(ToBroker)]
    BY <2>4, <2>5, Replaced
  <2> QED
    BY <1>1, <2>1, <2>6 DEF OnConnect, callerVars, resultVars, brokerVars
<1>2. CASE OnRejected(c)
  <2>1. toClient' \in [Calls -> Seq(ToClient)]
    BY <1>2, Taken DEF OnRejected
  <2> QED
    BY <1>2, <2>1 DEF OnRejected, callerVars, brokerVars
<1>3. CASE OnSubscribe(c)
  <2>1. toClient' \in [Calls -> Seq(ToClient)]
    BY <1>3, Taken DEF OnSubscribe
  <2>2. Append(toBroker[c], "publish") \in Seq(ToBroker)
    BY DEF ToBroker
  <2>3. toBroker' \in [Calls -> Seq(ToBroker)]
    BY <1>3, <2>2, Replaced DEF OnSubscribe
  <2>4. unacked' \in [Calls -> Int]
    BY <1>3 DEF OnSubscribe
  <2> QED
    BY <1>3, <2>1, <2>3, <2>4 DEF OnSubscribe, callerVars, resultVars, brokerVars
<1>4. CASE OnPuback(c)
  <2>1. toClient' \in [Calls -> Seq(ToClient)]
    BY <1>4, Taken DEF OnPuback
  <2>2. unacked' \in [Calls -> Int]
    BY <1>4 DEF OnPuback
  <2> QED
    BY <1>4, <2>1, <2>2 DEF OnPuback, callerVars, resultVars, brokerVars
<1>5. CASE OnMessage(c)
  <2>1. PICK d \in Calls, v \in Verdicts :
            /\ Receives(c, Response(d, v, "readable"))
            /\ IF d = c
               THEN /\ response' = [response EXCEPT ![c] = v]
                    /\ event' = [event EXCEPT ![c] = TRUE]
               ELSE UNCHANGED <<response, event>>
            /\ UNCHANGED <<callerVars, error, link, connects, toBroker, unacked, brokerVars>>
    BY <1>5 DEF OnMessage
  <2>2. toClient' \in [Calls -> Seq(ToClient)]
    BY <2>1, Taken
  <2> QED
    BY <2>1, <2>2 DEF callerVars, brokerVars
<1>6. CASE OnInvalidMessage(c)
  <2>1. PICK d \in Calls, v \in Verdicts : Receives(c, Response(d, v, "unreadable"))
    BY <1>6 DEF OnInvalidMessage
  <2>2. toClient' \in [Calls -> Seq(ToClient)]
    BY <2>1, Taken
  <2> QED
    BY <1>6, <2>2 DEF OnInvalidMessage, callerVars, brokerVars
<1>7. CASE LoseConnection(c)
  <2>1. <<>> \in Seq(ToBroker) /\ <<>> \in Seq(ToClient)
    OBVIOUS
  <2> QED
    BY <1>7, <2>1 DEF LoseConnection, callerVars, resultVars
<1>8. CASE Reconnect(c)
  <2>1. connects[c] + 1 \in Nat /\ <<"connect">> \in Seq(ToBroker)
        /\ <<>> \in Seq(ToClient)
    BY DEF ToBroker
  <2> QED
    BY <1>8, <2>1 DEF Reconnect, Dial, resultVars, callerVars
<1> QED
  BY <1>1, <1>2, <1>3, <1>4, <1>5, <1>6, <1>7, <1>8 DEF Loop

\* What BrokerExecute adds for d.
News(c, d, verdict, payload) ==
    (IF subscribed[d] THEN <<Response(c, verdict, payload)>> ELSE <<>>)
        \o (IF d = c THEN <<Puback>> ELSE <<>>)

LEMMA NewsOf ==
    ASSUME NEW c \in Calls, NEW d \in Calls, NEW v \in Verdicts, NEW p \in Payloads
    PROVE  /\ News(c, d, v, p) \in Seq(ToClient)
           /\ \A q : Has(News(c, d, v, p), q) <=>
                         \/ subscribed[d] /\ q = Response(c, v, p)
                         \/ d = c /\ q = Puback
<1> DEFINE first == IF subscribed[d] THEN <<Response(c, v, p)>> ELSE <<>>
           second == IF d = c THEN <<Puback>> ELSE <<>>
<1>1. Response(c, v, p) \in ToClient /\ Puback \in ToClient
  BY Packets
<1>2. \A q : ~Has(<<>>, q)
  BY DEF Has
<1>3. first \in Seq(ToClient) /\ \A q : Has(first, q) <=> subscribed[d] /\ q = Response(c, v, p)
  BY <1>1, <1>2, Single
<1>4. second \in Seq(ToClient) /\ \A q : Has(second, q) <=> d = c /\ q = Puback
  BY <1>1, <1>2, Single
<1> HIDE DEF first, second
<1>5. first \o second \in Seq(ToClient)
      /\ \A q : Has(first \o second, q) <=> Has(first, q) \/ Has(second, q)
  BY <1>3, <1>4, JoinOf, JoinHas
<1>6. News(c, d, v, p) = first \o second
  BY DEF News, first, second
<1> QED
  BY <1>3, <1>4, <1>5, <1>6

LEMMA TypedBroker ==
    ASSUME Typed, NEW c \in Calls, Broker(c), budget' = budget
    PROVE  Typed'
<1>1. CASE BrokerConnect(c)
  <2>1. PICK packet \in {Accepted, Rejected} :
            toClient' = [toClient EXCEPT ![c] = Sent(c, <<packet>>)]
    BY <1>1 DEF BrokerConnect
  <2>2. packet \in ToClient
    BY Packets
  <2>3. <<packet>> \in Seq(ToClient)
    BY <2>2, Single
  <2>4. Sent(c, <<packet>>) \in Seq(ToClient)
    BY <2>3, Delivered
  <2>5. toClient' \in [Calls -> Seq(ToClient)]
    BY <2>1, <2>4
  <2>6. toBroker' \in [Calls -> Seq(ToBroker)]
        /\ UNCHANGED <<callerVars, resultVars, link, connects, unacked>>
    BY <1>1, Handled DEF BrokerConnect
  <2> QED
    BY <1>1, <2>5, <2>6 DEF BrokerConnect, callerVars, resultVars, brokerVars
<1>2. CASE BrokerSubscribe(c)
  <2>1. <<Suback>> \in Seq(ToClient)
    BY Packets, Single
  <2>2. Sent(c, <<Suback>>) \in Seq(ToClient)
    BY <2>1, Delivered
  <2>3. toClient' \in [Calls -> Seq(ToClient)]
    BY <1>2, <2>2 DEF BrokerSubscribe
  <2>4. toBroker' \in [Calls -> Seq(ToBroker)]
        /\ UNCHANGED <<callerVars, resultVars, link, connects, unacked>>
    BY <1>2, Handled DEF BrokerSubscribe
  <2> QED
    BY <1>2, <2>3, <2>4 DEF BrokerSubscribe, callerVars, resultVars
<1>3. CASE BrokerExecute(c)
  <2>1. PICK v \in Verdicts, p \in Payloads :
            /\ toClient' = [d \in Calls |-> Sent(d, News(c, d, v, p))]
            /\ IF v = "ok"
               THEN effects' = [effects EXCEPT ![c] = @ + 1] /\ UNCHANGED refusals
               ELSE refusals' = [refusals EXCEPT ![c] = @ + 1] /\ UNCHANGED effects
    BY <1>3 DEF BrokerExecute, News
  <2>2. toClient' \in [Calls -> Seq(ToClient)]
    BY <2>1, NewsOf, Delivered
  <2>3. toBroker' \in [Calls -> Seq(ToBroker)]
        /\ UNCHANGED <<callerVars, resultVars, link, connects, unacked>>
    BY <1>3, Handled DEF BrokerExecute
  <2>4. effects' \in [Calls -> Nat] /\ refusals' \in [Calls -> Nat]
    <3>1. \/ effects' = [effects EXCEPT ![c] = effects[c] + 1] /\ refusals' = refusals
          \/ refusals' = [refusals EXCEPT ![c] = refusals[c] + 1] /\ effects' = effects
      BY <2>1
    <3>2. effects[c] + 1 \in Nat /\ refusals[c] + 1 \in Nat
      OBVIOUS
    <3>3. [effects EXCEPT ![c] = effects[c] + 1] \in [Calls -> Nat]
      BY <3>2
    <3>4. [refusals EXCEPT ![c] = refusals[c] + 1] \in [Calls -> Nat]
      BY <3>2
    <3> QED
      BY <3>1, <3>3, <3>4
  <2>5. UNCHANGED <<subscribed, denied>>
    BY <1>3 DEF BrokerExecute
  <2> QED
    BY <2>2, <2>3, <2>4, <2>5 DEF callerVars, resultVars
<1> QED
  BY <1>1, <1>2, <1>3 DEF Broker

-------------------------------------------------------------------------------
(* The steps of a call preserve its invariant: the caller. *)

LEMMA CallerSteps ==
    ASSUME Typed, NEW c \in Calls, CallInv(c), budget' = budget,
           \/ Call(c) \/ ConnectFails(c) \/ Wake(c) \/ Timeout(c)
           \/ CheckError(c) \/ ReadResponse(c)
    PROVE  CallInv(c)'
<1>1. UNCHANGED <<resultVars, netVars, brokerVars, budget>>
  BY DEF Call, ConnectFails, Wake, Timeout, CheckError, ReadResponse
<1>2. Shape(c)' /\ Counted(c)' /\ Granted(c)' /\ Arrives(c)'
      /\ (outcome'[c] = outcome[c] => Answers(c)')
  BY <1>1, CallerFrame
<1>3. Told(c) /\ Answers(c)
  BY DEF CallInv
<1>4. \/ outcome'[c] \notin Verdicts
      \/ outcome'[c] \in Verdicts /\ Done(c, outcome'[c])
      => Answers(c)'
  BY <1>1, <1>3 DEF Answers, Done, Contains, Has, resultVars, netVars, brokerVars
<1>5. Told(c)' /\ Answers(c)'
  <2>1. CASE Call(c)
    BY <2>1, <1>1, <1>2, <1>3 DEF Call, Told, resultVars, netVars
  <2>2. CASE ConnectFails(c) \/ Timeout(c)
    <3>1. outcome'[c] \in {"unavailable", "timeout"} /\ pc'[c] = "close"
      BY <2>2 DEF ConnectFails, Timeout, Decide
    <3>2. Told(c)'
      BY <3>1, <1>1, <1>3 DEF Told, resultVars, netVars
    <3> QED
      BY <3>1, <3>2, <1>4 DEF Verdicts
  <2>3. CASE Wake(c)
    BY <2>3, <1>1, <1>2, <1>3 DEF Wake, Told, resultVars, netVars
  <2>4. CASE CheckError(c)
    <3>1. CASE error[c] = "none"
      BY <2>4, <3>1, <1>1, <1>2, <1>3 DEF CheckError, Told, resultVars, netVars
    <3>2. CASE error[c] # "none"
      <4>1. outcome'[c] \in {"rejected", "invalid"} /\ pc'[c] = "close"
        BY <2>4, <3>2 DEF CheckError, Decide
      <4>2. Told(c)'
        BY <4>1, <1>1, <1>3 DEF Told, resultVars, netVars
      <4> QED
        BY <4>1, <4>2, <1>4 DEF Verdicts
    <3> QED
      BY <3>1, <3>2
  <2>5. CASE ReadResponse(c)
    <3>1. pc[c] = "read" /\ pc'[c] = "close"
          /\ outcome'[c] = IF response[c] = "refused" THEN "refused" ELSE "ok"
      BY <2>5 DEF ReadResponse, Decide
    <3>2. response[c] \in Verdicts
      BY <3>1, <1>3 DEF Told
    <3>3. outcome'[c] = response[c]
      BY <3>1, <3>2 DEF Verdicts
    <3>4. Done(c, response[c])
      BY <3>2, <1>3 DEF Answers
    <3>5. Told(c)'
      BY <3>1, <3>2, <3>3, <1>1, <1>3 DEF Told, resultVars, netVars, Verdicts
    <3> QED
      BY <1>4, <3>2, <3>3, <3>4, <3>5
  <2> QED
    BY <2>1, <2>2, <2>3, <2>4, <2>5
<1> QED
  BY <1>2, <1>5 DEF CallInv

\* Nothing is under way between two connections.
LEMMA DialStep ==
    ASSUME Typed, NEW c \in Calls, CallInv(c), budget' = budget, Dial(c),
           \/ Connect(c)
           \/ link[c] = "down" /\ UNCHANGED callerVars
    PROVE  CallInv(c)'
<1>1. link[c] \in {"none", "down"} /\ link'[c] = "up" /\ outcome' = outcome
      /\ \/ pc'[c] = pc[c] /\ link[c] = "down"
         \/ pc'[c] = "wait" /\ pc[c] = "start"
  <2>1. link'[c] = "up"
    BY DEF Dial
  <2>2. CASE Connect(c)
    BY <2>1, <2>2 DEF Connect, CallInv, Told, Pc
  <2>3. CASE link[c] = "down" /\ UNCHANGED callerVars
    <3>1. pc' = pc /\ outcome' = outcome
      BY <2>3 DEF callerVars
    <3> QED
      BY <2>1, <2>3, <3>1
  <2> QED
    BY <2>2, <2>3
<1>2. /\ connects[c] < budget[c] /\ connects'[c] = connects[c] + 1
      /\ toBroker'[c] = <<"connect">> /\ toClient'[c] = <<>> /\ ~subscribed'[c]
      /\ UNCHANGED <<unacked, event, error, response, denied, effects, refusals>>
  BY DEF Dial, resultVars
<1>3. toBroker[c] = <<>> /\ toClient[c] = <<>>
  BY <1>1 DEF CallInv, Shape
<1>4. connects[c] \in Nat /\ unacked[c] \in Int /\ effects[c] \in Nat /\ refusals[c] \in Nat
      /\ budget[c] \in Int
  BY BudgetsAssumption
<1>5. First(c, "connect")' /\ ~First(c, "subscribe")' /\ \A q : ~Contains(c, q)'
  BY <1>2 DEF First, Contains, Has
<1>6. ~First(c, "connect") /\ ~First(c, "subscribe") /\ \A q : ~Contains(c, q)
  BY <1>3 DEF First, Contains, Has
<1>7. Queued(c) = 0 /\ Owed(c) = 0 /\ Queued(c)' = 0 /\ Owed(c)' = Positive(unacked[c]) + 1
  BY <1>2, <1>3, <1>5, <1>6 DEF Queued, Owed, Connecting, Subscribing, Positive
<1>8. effects[c] + refusals[c] <= Triangle(connects[c]) /\ unacked[c] <= connects[c]
  BY <1>4, <1>7 DEF CallInv, Counted
<1>9. Triangle(connects[c]) \in Nat
      /\ Triangle(connects[c] + 1) = Triangle(connects[c]) + connects[c] + 1
  BY <1>4, TriangleStep
<1>10. Positive(unacked[c]) <= connects[c] /\ Positive(unacked[c]) \in Nat
  BY <1>4, <1>8 DEF Positive
<1>11. Shape(c)'
  BY <1>1, <1>2, <1>5 DEF Shape, Contains
<1>12. Counted(c)'
  <2>1. (effects[c] + refusals[c] + Queued(c) + Owed(c))'
            = effects[c] + refusals[c] + (Positive(unacked[c]) + 1)
    BY <1>2, <1>4, <1>7
  <2>2. Triangle(connects[c])' = Triangle(connects[c]) + connects[c] + 1
    BY <1>2, <1>9 DEF Triangle
  <2>3. (effects[c] + refusals[c] + Queued(c) + Owed(c))' <= Triangle(connects[c])'
    BY <2>1, <2>2, <1>4, <1>8, <1>9, <1>10
  <2> QED
    BY <2>3, <1>2, <1>4, <1>8 DEF Counted
<1>13. Answers(c)'
  BY <1>1, <1>2, <1>5 DEF CallInv, Answers, Done
<1>14. Told(c)'
  BY <1>1, <1>2 DEF CallInv, Told
<1>15. connects'[c] = 1 => effects'[c] + refusals'[c] = 0
  BY <1>2, <1>4, <1>8 DEF Triangle
<1>16. Granted(c)' /\ Arrives(c)'
  BY <1>5, <1>7, <1>15 DEF Granted, Arrives
<1> QED
  BY <1>11, <1>12, <1>13, <1>14, <1>16 DEF CallInv

\* A connection that is gone takes what it owes with it.
LEMMA Gone ==
    ASSUME Typed, NEW c \in Calls, CallInv(c), budget' = budget,
           link'[c] # "up", toClient'[c] = <<>>,
           \/ toBroker'[c] = <<>>
           \/ toBroker'[c] = toBroker[c] /\ subscribed'[c] = subscribed[c] /\ link'[c] = "closed",
           connects'[c] = connects[c], unacked'[c] = unacked[c],
           effects'[c] = effects[c], refusals'[c] = refusals[c],
           response'[c] = response[c], outcome'[c] = outcome[c]
    PROVE  Shape(c)' /\ Counted(c)' /\ Answers(c)' /\ Granted(c)' /\ Arrives(c)'
<1>1. \A q : ~Contains(c, q)'
  BY DEF Contains, Has
<1>2. First(c, "connect")' => First(c, "connect")
  BY DEF First
<1>3. First(c, "subscribe")' => First(c, "subscribe")
  BY DEF First
<1>4. connects[c] \in Nat /\ unacked[c] \in Int /\ effects[c] \in Nat /\ refusals[c] \in Nat
      /\ Len(toBroker[c]) \in Nat /\ (toBroker[c] # <<>> => Len(toBroker[c]) >= 1)
  OBVIOUS
<1>5. Queued(c) \in Nat /\ Owed(c) \in Nat /\ Queued(c)' \in Nat /\ Queued(c)' <= Queued(c)
  BY <1>4 DEF Queued, Owed, Positive, First
<1>6. Owed(c)' \in Nat /\ Owed(c)' <= Owed(c)
  BY <1>1, <1>2, <1>3, <1>4 DEF Owed, Positive, Connecting, Subscribing
<1>7. Shape(c)'
  BY <1>1, <1>2, <1>3 DEF CallInv, Shape, First
<1>8. Triangle(connects[c])' = Triangle(connects[c]) /\ Triangle(connects[c]) \in Nat
  BY <1>4, TriangleStep DEF Triangle
<1>9. (Connecting(c) \/ Subscribing(c))' => Connecting(c) \/ Subscribing(c)
  BY <1>1, <1>2, <1>3 DEF Connecting, Subscribing
<1>10. Counted(c)'
  BY <1>4, <1>5, <1>6, <1>8, <1>9 DEF CallInv, Counted
<1>11. Answers(c)'
  BY <1>1 DEF CallInv, Answers, Done
<1> QED
  BY <1>7, <1>10, <1>11 DEF Granted, Arrives

LEMMA CloseStep ==
    ASSUME Typed, NEW c \in Calls, CallInv(c), budget' = budget, Close(c)
    PROVE  CallInv(c)'
<1>1. /\ pc[c] = "close" /\ pc'[c] = "done" /\ link'[c] = "closed" /\ toClient'[c] = <<>>
      /\ UNCHANGED <<outcome, event, error, response, connects, toBroker, unacked,
                     subscribed, denied, effects, refusals>>
  BY DEF Close, resultVars, brokerVars
<1>2. Shape(c)' /\ Counted(c)' /\ Answers(c)' /\ Granted(c)' /\ Arrives(c)'
  BY <1>1, Gone
<1>3. Told(c)'
  BY <1>1 DEF CallInv, Told
<1> QED
  BY <1>2, <1>3 DEF CallInv

LEMMA LoseStep ==
    ASSUME Typed, NEW c \in Calls, CallInv(c), budget' = budget, LoseConnection(c)
    PROVE  CallInv(c)'
<1>1. /\ link[c] \in {"up", "closed"} /\ link'[c] \in {"down", "closed"}
      /\ toClient'[c] = <<>> /\ toBroker'[c] = <<>>
      /\ UNCHANGED <<pc, outcome, event, error, response, connects, unacked,
                     denied, effects, refusals>>
  BY DEF LoseConnection, resultVars, callerVars
<1>2. Shape(c)' /\ Counted(c)' /\ Answers(c)' /\ Granted(c)' /\ Arrives(c)'
  BY <1>1, Gone
<1>3. Told(c)'
  BY <1>1 DEF CallInv, Told
<1> QED
  BY <1>2, <1>3 DEF CallInv

-------------------------------------------------------------------------------
(* The callbacks. *)

\* With a packet on its way to the client other than CONNACK, the connection
\* is past its handshake.
LEMMA PastConnack ==
    ASSUME Typed, NEW c \in Calls, CallInv(c), NEW packet, Receives(c, packet),
           packet \notin {Accepted, Rejected}
    PROVE  /\ ~First(c, "connect") /\ ~First(c, "subscribe")
           /\ ~Contains(c, Accepted) /\ ~Contains(c, Rejected)
           /\ ~Contains(c, Accepted)' /\ ~Contains(c, Rejected)'
           /\ Queued(c) = Len(toBroker[c]) /\ Len(toBroker[c]) \in Nat
           /\ Owed(c) = IF Contains(c, Suback) THEN 1 ELSE 0
           /\ pc[c] \notin {"idle", "start"}
           /\ \A i, j \in 1 .. Len(toClient'[c]) :
                  toClient'[c][i] = Suback /\ toClient'[c][j] = Suback => i = j
           /\ packet = Suback => ~Contains(c, Suback)'
           /\ effects[c] \in Nat /\ refusals[c] \in Nat /\ connects[c] \in Nat
           /\ unacked[c] \in Int
           /\ Triangle(connects[c]) \in Nat
<1>1. /\ toClient[c] # <<>> /\ toClient[c][1] = packet /\ link[c] = "up"
      /\ Len(toClient[c]) \in Nat /\ Len(toClient[c]) >= 1
      /\ Len(toClient'[c]) = Len(toClient[c]) - 1
      /\ \A i \in 1 .. Len(toClient'[c]) : toClient'[c][i] = toClient[c][i + 1]
      /\ \A q : Contains(c, q)' => Contains(c, q)
  BY Taken
<1>2. Shape(c) /\ Told(c)
  BY DEF CallInv
<1>3. ~First(c, "connect") /\ ~First(c, "subscribe")
  BY <1>1, <1>2 DEF Shape
<1>4. ~Contains(c, Accepted) /\ ~Contains(c, Rejected)
  BY <1>1, <1>2 DEF Shape, Contains, Has
<1>5. Queued(c) = Len(toBroker[c]) /\ Len(toBroker[c]) \in Nat
  BY <1>3 DEF Queued
<1>6. Owed(c) = IF Contains(c, Suback) THEN 1 ELSE 0
  BY <1>3, <1>4 DEF Owed, Connecting, Subscribing
<1>7. \A i, j \in 1 .. Len(toClient'[c]) :
          toClient'[c][i] = Suback /\ toClient'[c][j] = Suback => i = j
  <2> SUFFICES ASSUME NEW i \in 1 .. Len(toClient'[c]), NEW j \in 1 .. Len(toClient'[c]),
                      toClient'[c][i] = Suback, toClient'[c][j] = Suback
               PROVE  i = j
    OBVIOUS
  <2>1. i + 1 \in 1 .. Len(toClient[c]) /\ j + 1 \in 1 .. Len(toClient[c])
    BY <1>1
  <2>2. toClient[c][i + 1] = Suback /\ toClient[c][j + 1] = Suback
    BY <1>1
  <2>3. i + 1 = j + 1
    BY <2>1, <2>2, <1>2 DEF Shape
  <2> QED
    BY <2>3
<1>8. packet = Suback => ~Contains(c, Suback)'
  <2> SUFFICES ASSUME packet = Suback, NEW i \in 1 .. Len(toClient'[c]),
                      toClient'[c][i] = Suback
               PROVE  FALSE
    BY DEF Contains, Has
  <2>1. i + 1 \in 1 .. Len(toClient[c]) /\ 1 \in 1 .. Len(toClient[c])
    BY <1>1
  <2>2. toClient[c][i + 1] = Suback /\ toClient[c][1] = Suback
    BY <1>1
  <2>3. i + 1 = 1
    BY <2>1, <2>2, <1>2 DEF Shape
  <2> QED
    BY <2>3
<1>9. pc[c] \notin {"idle", "start"}
  BY <1>1, <1>2 DEF Told
<1>10. Triangle(connects[c]) \in Nat
  <2>1. connects[c] \in Nat
    OBVIOUS
  <2> QED
    BY <2>1, TriangleStep
<1> QED
  BY <1>1, <1>3, <1>4, <1>5, <1>6, <1>7, <1>8, <1>9, <1>10

LEMMA OnConnectStep ==
    ASSUME Typed, NEW c \in Calls, CallInv(c), budget' = budget, OnConnect(c)
    PROVE  CallInv(c)'
<1>1. Receives(c, Accepted)
      /\ UNCHANGED <<pc, outcome, event, error, response, link, connects, unacked,
                     subscribed, denied, effects, refusals>>
  BY DEF OnConnect, callerVars, resultVars, brokerVars
<1>2. link[c] = "up" /\ Contains(c, Accepted) /\ Len(toClient'[c]) = Len(toClient[c]) - 1
      /\ toClient' \in [Calls -> Seq(ToClient)]
      /\ \A q : Contains(c, q) => q = Accepted \/ Contains(c, q)'
  BY <1>1, Taken
<1>3. Len(toClient[c]) = 1 /\ toBroker[c] = <<>> /\ ~subscribed[c]
  BY <1>2 DEF CallInv, Shape
<1>4. toClient'[c] = <<>> /\ \A q : ~Contains(c, q)'
  BY <1>2, <1>3 DEF Contains, Has
<1>5. \A q : Contains(c, q) => q = Accepted
  BY <1>2, <1>4
<1>6. unacked[c] \in Int /\ connects[c] \in Nat /\ effects[c] \in Nat /\ refusals[c] \in Nat
  OBVIOUS
<1> DEFINE again == Again(unacked[c])
           n == Positive(unacked[c])
<1>7. /\ again \in Seq(ToBroker) /\ Len(again) = n /\ n \in Nat
      /\ \A i \in 1 .. Len(again) : again[i] = "publish"
  BY <1>6, Repeated
<1>8. <<"subscribe">> \in Seq(ToBroker) /\ Len(<<"subscribe">>) = 1
      /\ <<"subscribe">>[1] = "subscribe"
  BY Single DEF ToBroker
<1>9. toBroker'[c] = <<"subscribe">> \o again
  <2>1. toBroker' = [toBroker EXCEPT ![c] = (toBroker[c] \o <<"subscribe">>) \o again]
    BY DEF OnConnect, Again
  <2>2. toBroker[c] \o <<"subscribe">> = <<"subscribe">>
    BY <1>3
  <2> QED
    BY <2>1, <2>2
<1> HIDE DEF again, n
<1>10. /\ Len(toBroker'[c]) = n + 1 /\ toBroker'[c][1] = "subscribe"
       /\ \A i \in 1 .. n : toBroker'[c][1 + i] = "publish"
       /\ toBroker'[c] # <<>>
  <2>1. /\ Len(<<"subscribe">> \o again) = 1 + Len(again)
        /\ (<<"subscribe">> \o again)[1] = "subscribe"
        /\ \A i \in 1 .. Len(again) : (<<"subscribe">> \o again)[1 + i] = again[i]
        /\ <<"subscribe">> \o again \in Seq(ToBroker)
    BY <1>7, <1>8, JoinOf
  <2>2. /\ Len(toBroker'[c]) = n + 1 /\ toBroker'[c][1] = "subscribe"
        /\ \A i \in 1 .. n : toBroker'[c][1 + i] = "publish"
    BY <1>7, <1>9, <2>1
  <2>3. Len(toBroker'[c]) # 0 /\ Len(<<>>) = 0
    BY <1>7, <2>2
  <2> QED
    BY <2>2, <2>3
<1>11. First(c, "subscribe")' /\ ~First(c, "connect")'
  BY <1>10 DEF First
<1>12. Queued(c)' = n /\ Owed(c)' = 1
  BY <1>4, <1>7, <1>10, <1>11 DEF Queued, Owed, Connecting, Subscribing
<1>13. Queued(c) = 0 /\ Owed(c) = n + 1
  BY <1>2, <1>3 DEF Queued, Owed, Connecting, n
<1>14. Shape(c)'
  <2>1. \A i \in 1 .. Len(toBroker'[c]) : i > 1 => toBroker'[c][i] = "publish"
    <3> SUFFICES ASSUME NEW i \in 1 .. Len(toBroker'[c]), i > 1
                 PROVE  toBroker'[c][i] = "publish"
      OBVIOUS
    <3>1. i - 1 \in 1 .. n /\ 1 + (i - 1) = i
      BY <1>7, <1>10
    <3> QED
      BY <3>1, <1>10
  <2> QED
    BY <2>1, <1>1, <1>2, <1>3, <1>4, <1>11 DEF Shape, Contains, Has
<1>15. Triangle(connects[c])' = Triangle(connects[c]) /\ Triangle(connects[c]) \in Nat
  BY <1>1, <1>6, TriangleStep DEF Triangle
<1>16. Counted(c)'
  <2>1. unacked[c] + 1 <= connects[c] /\ connects[c] <= budget[c]
        /\ effects[c] + refusals[c] + Queued(c) + Owed(c) <= Triangle(connects[c])
    BY <1>2 DEF CallInv, Counted, Connecting
  <2>2. (effects[c] + refusals[c] + Queued(c) + Owed(c))' <= Triangle(connects[c])'
    BY <2>1, <1>1, <1>6, <1>7, <1>12, <1>13, <1>15
  <2> QED
    BY <2>1, <2>2, <1>1, <1>6 DEF Counted
<1>17. Answers(c)'
  BY <1>1, <1>4 DEF CallInv, Answers, Done
<1>18. Told(c)'
  BY <1>1 DEF CallInv, Told
<1>19. ~(effects[c] + refusals[c] > 0 /\ connects[c] = 1 /\ link[c] = "up" /\ ~denied[c])
  BY <1>3 DEF CallInv, Granted
<1>20. connects[c] = 1 => n = 0
  BY <1>2, <1>6 DEF CallInv, Counted, Connecting, n, Positive
<1>21. Granted(c)' /\ Arrives(c)'
  BY <1>1, <1>4, <1>12, <1>19, <1>20 DEF Granted, Arrives
<1> QED
  BY <1>14, <1>16, <1>17, <1>18, <1>21 DEF CallInv

LEMMA OnRejectedStep ==
    ASSUME Typed, NEW c \in Calls, CallInv(c), budget' = budget, OnRejected(c)
    PROVE  CallInv(c)'
<1>1. Receives(c, Rejected) /\ error'[c] = "rejected" /\ event'[c] /\ link'[c] = "down"
      /\ UNCHANGED <<pc, outcome, response, connects, toBroker, unacked,
                     subscribed, denied, effects, refusals>>
  BY DEF OnRejected, callerVars, brokerVars
<1>2. link[c] = "up" /\ Contains(c, Rejected) /\ Len(toClient'[c]) = Len(toClient[c]) - 1
      /\ toClient' \in [Calls -> Seq(ToClient)]
  BY <1>1, Taken
<1>3. Len(toClient[c]) = 1 /\ toBroker[c] = <<>>
  BY <1>2 DEF CallInv, Shape
<1>4. toClient'[c] = <<>>
  BY <1>2, <1>3
<1>5. Shape(c)' /\ Counted(c)' /\ Answers(c)' /\ Granted(c)' /\ Arrives(c)'
  BY <1>1, <1>3, <1>4, Gone
<1>6. Told(c)'
  BY <1>1, <1>2 DEF CallInv, Told
<1> QED
  BY <1>5, <1>6 DEF CallInv

LEMMA OnSubscribeStep ==
    ASSUME Typed, NEW c \in Calls, CallInv(c), budget' = budget, OnSubscribe(c)
    PROVE  CallInv(c)'
<1>1. Receives(c, Suback) /\ toBroker'[c] = Append(toBroker[c], "publish")
      /\ unacked'[c] = unacked[c] + 1
      /\ UNCHANGED <<pc, outcome, event, error, response, link, connects,
                     subscribed, denied, effects, refusals>>
  BY DEF OnSubscribe, callerVars, resultVars, brokerVars
<1>2. /\ link[c] = "up" /\ Contains(c, Suback) /\ toClient'[c] \in Seq(ToClient)
      /\ \A q : Contains(c, q)' => Contains(c, q)
      /\ \A q : Contains(c, q) => q = Suback \/ Contains(c, q)'
  BY <1>1, Taken
<1>3. Suback \notin {Accepted, Rejected}
  BY Packets
<1>4. /\ ~First(c, "connect") /\ ~First(c, "subscribe")
      /\ ~Contains(c, Accepted)' /\ ~Contains(c, Rejected)' /\ ~Contains(c, Suback)'
      /\ Queued(c) = Len(toBroker[c]) /\ Len(toBroker[c]) \in Nat
      /\ Owed(c) = IF Contains(c, Suback) THEN 1 ELSE 0
      /\ effects[c] \in Nat /\ refusals[c] \in Nat /\ connects[c] \in Nat
      /\ unacked[c] \in Int /\ Triangle(connects[c]) \in Nat
  BY <1>1, <1>3, PastConnack
<1>5. /\ toBroker'[c] # <<>> /\ Len(toBroker'[c]) = Len(toBroker[c]) + 1
      /\ \A i \in 1 .. Len(toBroker[c]) : toBroker'[c][i] = toBroker[c][i]
      /\ toBroker'[c][Len(toBroker[c]) + 1] = "publish"
  BY <1>1
<1>6. \A i \in 1 .. Len(toBroker'[c]) : i > 1 => toBroker'[c][i] = "publish"
  <2> SUFFICES ASSUME NEW i \in 1 .. Len(toBroker'[c]), i > 1
               PROVE  toBroker'[c][i] = "publish"
    OBVIOUS
  <2>1. i \in 1 .. Len(toBroker[c]) \/ i = Len(toBroker[c]) + 1
    BY <1>4, <1>5
  <2> QED
    BY <2>1, <1>5 DEF CallInv, Shape
<1>7. ~First(c, "connect")' /\ ~First(c, "subscribe")'
  <2>1. CASE toBroker[c] = <<>>
    BY <2>1, <1>5 DEF First
  <2>2. CASE toBroker[c] # <<>>
    BY <2>2, <1>4, <1>5 DEF First
  <2> QED
    BY <2>1, <2>2
<1>8. Queued(c)' = Len(toBroker[c]) + 1 /\ Owed(c)' = 0
  BY <1>4, <1>5, <1>7 DEF Queued, Owed, Connecting, Subscribing
<1>9. Shape(c)'
  BY <1>1, <1>2, <1>4, <1>6, <1>7 DEF Shape, Contains, Has
<1>10. Counted(c)'
  <2>1. unacked[c] + 1 <= connects[c] /\ connects[c] <= budget[c]
        /\ effects[c] + refusals[c] + Queued(c) + Owed(c) <= Triangle(connects[c])
    BY <1>2 DEF CallInv, Counted, Subscribing
  <2>2. Triangle(connects[c])' = Triangle(connects[c])
    BY <1>1 DEF Triangle
  <2>3. (effects[c] + refusals[c] + Queued(c) + Owed(c))' <= Triangle(connects[c])'
    BY <2>1, <2>2, <1>1, <1>2, <1>4, <1>8
  <2> QED
    BY <2>1, <2>3, <1>1, <1>4, <1>7 DEF Counted, Connecting, Subscribing
<1>11. Answers(c)'
  BY <1>1, <1>2 DEF CallInv, Answers, Done
<1>12. Told(c)'
  BY <1>1 DEF CallInv, Told
<1>13. Granted(c)'
  BY <1>1, <1>2 DEF CallInv, Granted
<1>14. Arrives(c)'
  BY <1>1, <1>2, Packets DEF CallInv, Arrives
<1> QED
  BY <1>9, <1>10, <1>11, <1>12, <1>13, <1>14 DEF CallInv

\* A callback that only removes a packet and may set the event.
LEMMA Dropped ==
    ASSUME Typed, NEW c \in Calls, CallInv(c), budget' = budget,
           NEW packet, Receives(c, packet), packet \notin {Accepted, Rejected, Suback},
           outcome' = outcome, link' = link, connects' = connects, toBroker' = toBroker,
           subscribed' = subscribed, denied' = denied, effects' = effects,
           refusals' = refusals,
           unacked'[c] \in Int, unacked'[c] <= unacked[c],
           \/ response'[c] = response[c]
           \/ response'[c] \in Verdicts /\ Done(c, response'[c]),
           \/ event'[c]
           \/ /\ event'[c] = event[c]
              /\ \A v \in Verdicts, p \in Payloads : packet # Response(c, v, p)
    PROVE  Shape(c)' /\ Counted(c)' /\ Answers(c)' /\ Granted(c)' /\ Arrives(c)'
<1>1. /\ link[c] = "up" /\ toClient'[c] \in Seq(ToClient)
      /\ \A q : Contains(c, q)' => Contains(c, q)
      /\ \A q : Contains(c, q) => q = packet \/ Contains(c, q)'
  BY Taken
<1>2. /\ ~First(c, "connect") /\ ~First(c, "subscribe")
      /\ ~Contains(c, Accepted)' /\ ~Contains(c, Rejected)'
      /\ Queued(c) = Len(toBroker[c]) /\ Len(toBroker[c]) \in Nat
      /\ Owed(c) = IF Contains(c, Suback) THEN 1 ELSE 0
      /\ \A i, j \in 1 .. Len(toClient'[c]) :
             toClient'[c][i] = Suback /\ toClient'[c][j] = Suback => i = j
      /\ effects[c] \in Nat /\ refusals[c] \in Nat /\ connects[c] \in Nat
      /\ unacked[c] \in Int /\ Triangle(connects[c]) \in Nat
  BY PastConnack
<1>3. ~First(c, "connect")' /\ ~First(c, "subscribe")'
  BY <1>2 DEF First
<1>4. Contains(c, Suback)' <=> Contains(c, Suback)
  BY <1>1
<1>5. Queued(c)' = Queued(c)
  BY <1>2, <1>3 DEF Queued
<1>6. Owed(c)' = Owed(c)
  BY <1>2, <1>3, <1>4 DEF Owed, Connecting, Subscribing
<1>7. Shape(c)'
  BY <1>1, <1>2, <1>3 DEF CallInv, Shape
<1>8. Counted(c)'
  <2>1. (effects[c] + refusals[c] + Queued(c) + Owed(c))' <= Triangle(connects[c])'
    BY <1>5, <1>6 DEF CallInv, Counted, Triangle
  <2>2. (Connecting(c) \/ Subscribing(c))' => Subscribing(c)
    BY <1>2, <1>3, <1>4 DEF Connecting, Subscribing
  <2>3. connects'[c] <= budget'[c] /\ unacked'[c] <= connects'[c]
        /\ (Subscribing(c) => unacked'[c] + 1 <= connects'[c])
    BY <1>2 DEF CallInv, Counted
  <2> QED
    BY <2>1, <2>2, <2>3 DEF Counted
<1>9. Answers(c)'
  BY <1>1 DEF CallInv, Answers, Done
<1>10. Granted(c)'
  BY <1>4, <1>5 DEF CallInv, Granted
<1>11. Arrives(c)'
  BY <1>1 DEF CallInv, Arrives
<1> QED
  BY <1>7, <1>8, <1>9, <1>10, <1>11

LEMMA OnPubackStep ==
    ASSUME Typed, NEW c \in Calls, CallInv(c), budget' = budget, OnPuback(c)
    PROVE  CallInv(c)'
<1>1. Receives(c, Puback) /\ unacked'[c] = unacked[c] - 1
      /\ UNCHANGED <<pc, outcome, event, error, response, link, connects, toBroker,
                     subscribed, denied, effects, refusals>>
  BY DEF OnPuback, callerVars, resultVars, brokerVars
<1>2. unacked'[c] \in Int /\ unacked'[c] <= unacked[c]
  BY <1>1
<1>3. Puback \notin {Accepted, Rejected, Suback}
      /\ \A v \in Verdicts, p \in Payloads : Puback # Response(c, v, p)
  BY Packets
<1>4. Shape(c)' /\ Counted(c)' /\ Answers(c)' /\ Granted(c)' /\ Arrives(c)'
  BY <1>1, <1>2, <1>3, Dropped
<1>5. Told(c)'
  BY <1>1 DEF CallInv, Told
<1> QED
  BY <1>4, <1>5 DEF CallInv

\* The response that is read is one the broker has sent.
LEMMA Read ==
    ASSUME Typed, NEW c \in Calls, CallInv(c), NEW d \in Calls, NEW v \in Verdicts,
           NEW p, Receives(c, Response(d, v, p))
    PROVE  /\ Response(d, v, p) \notin {Accepted, Rejected, Suback}
           /\ d = c => Done(c, v)
           /\ d # c => \A w \in Verdicts, x \in Payloads : Response(d, v, p) # Response(c, w, x)
<1>1. Contains(c, Response(d, v, p)) /\ toClient[c][1] = Response(d, v, p)
      /\ toClient[c] # <<>>
  BY Taken
<1>2. Response(d, v, p) \in ToClient
  BY <1>1
<1>3. /\ Response(d, v, p).type = "response" /\ Response(d, v, p).payload = p
      /\ Response(d, v, p).call = d
  BY DEF Response
<1>4. Accepted.type = "connack" /\ Rejected.type = "connack"
      /\ Suback.type = "suback" /\ Puback.type = "puback"
  BY DEF Accepted, Rejected, Suback, Puback
<1>5. Response(d, v, p) \notin {Accepted, Rejected, Suback, Puback}
  BY <1>3, <1>4
<1>6. PICK e \in Calls, w \in Verdicts, x \in Payloads : Response(d, v, p) = Response(e, w, x)
  BY <1>2, <1>5 DEF ToClient
<1>7. Response(e, w, x).payload = x
  BY DEF Response
<1>8. p \in Payloads
  BY <1>3, <1>6, <1>7
<1>9. d = c => Done(c, v)
  BY <1>1, <1>8 DEF CallInv, Answers
<1>10. \A y \in Verdicts, z \in Payloads : Response(c, y, z).call = c
  BY DEF Response
<1> QED
  BY <1>3, <1>5, <1>9, <1>10

LEMMA OnMessageStep ==
    ASSUME Typed, NEW c \in Calls, CallInv(c), budget' = budget, OnMessage(c)
    PROVE  CallInv(c)'
<1>1. PICK d \in Calls, v \in Verdicts :
          /\ Receives(c, Response(d, v, "readable"))
          /\ IF d = c
             THEN /\ response' = [response EXCEPT ![c] = v]
                  /\ event' = [event EXCEPT ![c] = TRUE]
             ELSE UNCHANGED <<response, event>>
          /\ UNCHANGED <<callerVars, error, link, connects, toBroker, unacked, brokerVars>>
  BY DEF OnMessage
<1>2. UNCHANGED <<pc, outcome, error, link, connects, toBroker, unacked, subscribed, denied,
                  effects, refusals>>
  BY <1>1 DEF callerVars, brokerVars
<1>3. /\ Response(d, v, "readable") \notin {Accepted, Rejected, Suback}
      /\ d = c => Done(c, v)
      /\ d # c => \A w \in Verdicts, x \in Payloads : Response(d, v, "readable") # Response(c, w, x)
  BY <1>1, Read
<1>4. unacked'[c] \in Int /\ unacked'[c] <= unacked[c]
  BY <1>2
<1>5. \/ d = c /\ response'[c] = v /\ event'[c]
      \/ d # c /\ response'[c] = response[c] /\ event'[c] = event[c]
  BY <1>1
<1>6. response'[c] = response[c] \/ (response'[c] \in Verdicts /\ Done(c, response'[c]))
  BY <1>3, <1>5
<1>7. \/ event'[c]
      \/ /\ event'[c] = event[c]
         /\ \A w \in Verdicts, x \in Payloads : Response(d, v, "readable") # Response(c, w, x)
  BY <1>3, <1>5
<1>8. Shape(c)' /\ Counted(c)' /\ Answers(c)' /\ Granted(c)' /\ Arrives(c)'
  BY <1>1, <1>2, <1>3, <1>4, <1>6, <1>7, Dropped
<1>9. Told(c)'
  <2>1. link[c] = "up"
    BY <1>1, Taken
  <2> QED
    BY <2>1, <1>2, <1>5 DEF CallInv, Told, Verdicts
<1> QED
  BY <1>8, <1>9 DEF CallInv

LEMMA OnInvalidMessageStep ==
    ASSUME Typed, NEW c \in Calls, CallInv(c), budget' = budget, OnInvalidMessage(c)
    PROVE  CallInv(c)'
<1>1. PICK d \in Calls, v \in Verdicts : Receives(c, Response(d, v, "unreadable"))
  BY DEF OnInvalidMessage
<1>2. error'[c] = "invalid" /\ event'[c]
      /\ UNCHANGED <<pc, outcome, response, link, connects, toBroker, unacked,
                     subscribed, denied, effects, refusals>>
  BY DEF OnInvalidMessage, callerVars, brokerVars
<1>3. Response(d, v, "unreadable") \notin {Accepted, Rejected, Suback}
  BY <1>1, Read
<1>4. unacked'[c] \in Int /\ unacked'[c] <= unacked[c]
  BY <1>2
<1>5. Shape(c)' /\ Counted(c)' /\ Answers(c)' /\ Granted(c)' /\ Arrives(c)'
  BY <1>1, <1>2, <1>3, <1>4, Dropped
<1>6. link[c] = "up"
  BY <1>1, Taken
<1>7. Told(c)'
  BY <1>2, <1>6 DEF CallInv, Told
<1> QED
  BY <1>5, <1>7 DEF CallInv

-------------------------------------------------------------------------------
(* The broker. *)

LEMMA BrokerConnectStep ==
    ASSUME Typed, NEW c \in Calls, CallInv(c), budget' = budget, BrokerConnect(c)
    PROVE  CallInv(c)'
<1>1. PICK packet \in {Accepted, Rejected} :
          toClient' = [toClient EXCEPT ![c] = Sent(c, <<packet>>)]
  BY DEF BrokerConnect
<1>2. /\ First(c, "connect") /\ Len(toBroker'[c]) = Len(toBroker[c]) - 1
      /\ toBroker' \in [Calls -> Seq(ToBroker)]
      /\ UNCHANGED <<pc, outcome, event, error, response, link, connects, unacked,
                     subscribed, denied, effects, refusals>>
  BY Handled DEF BrokerConnect, callerVars, resultVars, brokerVars
<1>3. Len(toBroker[c]) = 1 /\ toClient[c] = <<>> /\ ~subscribed[c]
  BY <1>2 DEF CallInv, Shape
<1>4. toBroker'[c] = <<>>
  BY <1>2, <1>3
<1>5. \/ link[c] = "up" /\ toClient'[c] = <<packet>>
      \/ link[c] # "up" /\ toClient'[c] = <<>>
  BY <1>1, <1>3 DEF Sent
<1>6. \A q : Contains(c, q)' => q = packet
  BY <1>5 DEF Contains, Has
<1>7. packet # Suback /\ \A v \in Verdicts, p \in Payloads : Response(c, v, p) # packet
  BY Packets
<1>8. \A q : ~Contains(c, q)
  BY <1>3 DEF Contains, Has
<1>9. /\ ~First(c, "connect")' /\ ~First(c, "subscribe")' /\ ~Contains(c, Suback)'
      /\ Queued(c)' = 0 /\ Queued(c) = 0
  BY <1>2, <1>4, <1>6, <1>7 DEF First, Queued
<1>10. unacked[c] \in Int /\ connects[c] \in Nat /\ effects[c] \in Nat /\ refusals[c] \in Nat
       /\ Triangle(connects[c]) \in Nat
  <2>1. unacked[c] \in Int /\ connects[c] \in Nat /\ effects[c] \in Nat /\ refusals[c] \in Nat
    OBVIOUS
  <2> QED
    BY <2>1, TriangleStep
<1>11. Owed(c) = Positive(unacked[c]) + 1 /\ Positive(unacked[c]) \in Nat
  BY <1>2, <1>10 DEF Owed, Connecting, Positive
<1>12. Owed(c)' \in {0, Positive(unacked[c]) + 1}
  BY <1>2, <1>9 DEF Owed, Connecting, Subscribing, Positive
<1>13. Shape(c)'
  <2>1. CASE toClient'[c] = <<>>
    BY <2>1, <1>2, <1>3, <1>4, <1>9 DEF CallInv, Shape, Contains, Has
  <2>2. CASE link[c] = "up" /\ toClient'[c] = <<packet>>
    <3>1. Len(<<packet>>) = 1
      OBVIOUS
    <3>2. \A i, j \in 1 .. Len(toClient'[c]) : i = j
      BY <2>2, <3>1
    <3> QED
      BY <2>2, <3>1, <3>2, <1>2, <1>3, <1>4, <1>9 DEF Shape
  <2> QED
    BY <2>1, <2>2, <1>5
<1>14. Counted(c)'
  <2>1. (effects[c] + refusals[c] + Queued(c) + Owed(c))' <= Triangle(connects[c])'
    BY <1>2, <1>9, <1>10, <1>11, <1>12 DEF CallInv, Counted, Triangle
  <2> QED
    BY <2>1, <1>2 DEF CallInv, Counted, Connecting
<1>15. Answers(c)'
  BY <1>2, <1>6, <1>7 DEF CallInv, Answers, Done
<1>16. Told(c)'
  BY <1>2 DEF CallInv, Told
<1>17. Granted(c)' /\ Arrives(c)'
  BY <1>2, <1>3, <1>8, <1>9 DEF CallInv, Granted, Arrives
<1> QED
  BY <1>13, <1>14, <1>15, <1>16, <1>17 DEF CallInv

\* What is left in front of the broker once it has taken a packet.
LEMMA Behind ==
    ASSUME Typed, NEW c \in Calls, CallInv(c), NEW packet, Handles(c, packet)
    PROVE  /\ \A i \in 1 .. Len(toBroker'[c]) : toBroker'[c][i] = "publish"
           /\ ~First(c, "connect")' /\ ~First(c, "subscribe")'
           /\ Queued(c)' = Len(toBroker[c]) - 1
<1>1. /\ Len(toBroker[c]) \in Nat /\ Len(toBroker[c]) >= 1
      /\ Len(toBroker'[c]) = Len(toBroker[c]) - 1
      /\ toBroker' \in [Calls -> Seq(ToBroker)]
      /\ \A i \in 1 .. Len(toBroker'[c]) : toBroker'[c][i] = toBroker[c][i + 1]
  BY Handled
<1>2. \A i \in 1 .. Len(toBroker'[c]) : toBroker'[c][i] = "publish"
  <2> SUFFICES ASSUME NEW i \in 1 .. Len(toBroker'[c])
               PROVE  toBroker[c][i + 1] = "publish"
    BY <1>1
  <2>1. i + 1 \in 1 .. Len(toBroker[c]) /\ i + 1 > 1
    BY <1>1
  <2> QED
    BY <2>1 DEF CallInv, Shape
<1>3. toBroker'[c] # <<>> => 1 \in 1 .. Len(toBroker'[c])
  BY <1>1
<1>4. ~First(c, "connect")' /\ ~First(c, "subscribe")'
  BY <1>2, <1>3 DEF First
<1>5. toBroker'[c] = <<>> => Len(toBroker'[c]) = 0
  OBVIOUS
<1> QED
  BY <1>1, <1>2, <1>4, <1>5 DEF Queued

LEMMA BrokerSubscribeStep ==
    ASSUME Typed, NEW c \in Calls, CallInv(c), budget' = budget, BrokerSubscribe(c)
    PROVE  CallInv(c)'
<1>1. /\ toClient' = [toClient EXCEPT ![c] = Sent(c, <<Suback>>)]
      /\ \/ subscribed'[c] /\ denied' = denied
         \/ denied'[c] /\ subscribed' = subscribed
      /\ Handles(c, "subscribe")
  BY DEF BrokerSubscribe
<1>2. /\ First(c, "subscribe") /\ Len(toBroker'[c]) = Len(toBroker[c]) - 1
      /\ toBroker' \in [Calls -> Seq(ToBroker)]
      /\ UNCHANGED <<pc, outcome, event, error, response, link, connects, unacked,
                     effects, refusals>>
  BY <1>1, Handled DEF BrokerSubscribe, callerVars, resultVars
<1>3. toClient[c] = <<>> /\ ~First(c, "connect")
  BY <1>2 DEF CallInv, Shape, First
<1>4. \/ link[c] = "up" /\ toClient'[c] = <<Suback>>
      \/ link[c] # "up" /\ toClient'[c] = <<>>
  BY <1>1, <1>3 DEF Sent
<1>5. \A q : Contains(c, q)' => q = Suback
  BY <1>4 DEF Contains, Has
<1>6. Suback # Accepted /\ Suback # Rejected
      /\ \A v \in Verdicts, p \in Payloads : Response(c, v, p) # Suback
  BY Packets
<1>7. \A q : ~Contains(c, q)
  BY <1>3 DEF Contains, Has
<1>8. /\ \A i \in 1 .. Len(toBroker'[c]) : toBroker'[c][i] = "publish"
      /\ ~First(c, "connect")' /\ ~First(c, "subscribe")'
      /\ Queued(c)' = Len(toBroker[c]) - 1
  BY <1>1, Behind
<1>9. Queued(c) = Len(toBroker[c]) - 1 /\ Owed(c) = 1 /\ Owed(c)' \in {0, 1}
  BY <1>2, <1>3, <1>5, <1>6, <1>7, <1>8
     DEF Queued, Owed, Connecting, Subscribing, First
<1>10. unacked[c] \in Int /\ connects[c] \in Nat /\ effects[c] \in Nat /\ refusals[c] \in Nat
       /\ Triangle(connects[c]) \in Nat /\ Len(toBroker[c]) \in Nat
  <2>1. connects[c] \in Nat /\ unacked[c] \in Int /\ effects[c] \in Nat /\ refusals[c] \in Nat
        /\ Len(toBroker[c]) \in Nat
    OBVIOUS
  <2> QED
    BY <2>1, TriangleStep
<1>11. Shape(c)'
  <2>1. \A i, j \in 1 .. Len(toClient'[c]) : i = j
    <3>1. Len(<<Suback>>) = 1 /\ Len(<<>>) = 0
      OBVIOUS
    <3>2. CASE Len(toClient'[c]) = 0
      BY <3>2
    <3>3. CASE Len(toClient'[c]) = 1
      BY <3>3
    <3> QED
      BY <1>4, <3>1, <3>2, <3>3
  <2>2. link'[c] # "up" => toClient'[c] = <<>>
    BY <1>2, <1>4
  <2>3. ~(link'[c] \in {"none", "down"})
    BY <1>2 DEF CallInv, Shape, First
  <2> QED
    BY <2>1, <2>2, <2>3, <1>5, <1>6, <1>8 DEF Shape
<1>12. Counted(c)'
  <2>1. (effects[c] + refusals[c] + Queued(c) + Owed(c))' <= Triangle(connects[c])'
    <3>1. effects[c] + refusals[c] + Queued(c) + Owed(c) <= Triangle(connects[c])
      BY DEF CallInv, Counted
    <3>2. /\ effects'[c] = effects[c] /\ refusals'[c] = refusals[c]
          /\ Triangle(connects[c])' = Triangle(connects[c])
      BY <1>2 DEF Triangle
    <3> QED
      BY <1>8, <1>9, <1>10, <3>1, <3>2
  <2> QED
    BY <2>1, <1>2 DEF CallInv, Counted, Subscribing
<1>13. Answers(c)'
  BY <1>2, <1>5, <1>6 DEF CallInv, Answers, Done
<1>14. Told(c)'
  BY <1>2 DEF CallInv, Told
<1>15. Granted(c)'
  <2> SUFFICES ASSUME connects'[c] = 1, link'[c] = "up", ~denied'[c]
               PROVE  subscribed'[c]
    BY DEF Granted
  <2> QED
    BY <1>1
<1>16. Arrives(c)'
  <2>1. ~(effects[c] + refusals[c] > 0 /\ connects[c] = 1 /\ link[c] = "up" /\ ~denied[c])
    BY <1>2 DEF CallInv, Granted, Shape
  <2>2. ~denied'[c] => ~denied[c]
    BY <1>1
  <2> QED
    BY <2>1, <2>2, <1>2 DEF Arrives
<1> QED
  BY <1>11, <1>12, <1>13, <1>14, <1>15, <1>16 DEF CallInv

\* The Suback stays alone when other packets join it.
OneSuback(s) == \A i, j \in 1 .. Len(s) : s[i] = Suback /\ s[j] = Suback => i = j

LEMMA StillOneSuback ==
    ASSUME NEW s \in Seq(ToClient), NEW t \in Seq(ToClient), ~Has(t, Suback), OneSuback(s)
    PROVE  OneSuback(s \o t)
<1>1. /\ Len(s) \in Nat /\ Len(t) \in Nat /\ Len(s \o t) = Len(s) + Len(t)
      /\ \A i \in 1 .. Len(s) : (s \o t)[i] = s[i]
      /\ \A i \in 1 .. Len(t) : (s \o t)[Len(s) + i] = t[i]
  BY JoinOf
<1>2. ASSUME NEW i \in 1 .. Len(s \o t), (s \o t)[i] = Suback
      PROVE  i \in 1 .. Len(s) /\ s[i] = Suback
  <2>1. CASE i \in 1 .. Len(s)
    BY <1>1, <1>2, <2>1
  <2>2. CASE i \notin 1 .. Len(s)
    <3>1. i - Len(s) \in 1 .. Len(t)
      BY <1>1, <2>2
    <3>2. Len(s) + (i - Len(s)) = i
      BY <1>1
    <3>3. t[i - Len(s)] = Suback
      BY <1>1, <1>2, <3>1, <3>2
    <3> QED
      BY <3>1, <3>3 DEF Has
  <2> QED
    BY <2>1, <2>2
<1> QED
  BY <1>2 DEF OneSuback

LEMMA BrokerExecuteStep ==
    ASSUME Typed, NEW c \in Calls, CallInv(c), budget' = budget, BrokerExecute(c)
    PROVE  CallInv(c)'
<1>1. PICK v \in Verdicts, p \in Payloads :
          /\ toClient' = [d \in Calls |-> Sent(d, News(c, d, v, p))]
          /\ IF v = "ok"
             THEN effects' = [effects EXCEPT ![c] = @ + 1] /\ UNCHANGED refusals
             ELSE refusals' = [refusals EXCEPT ![c] = @ + 1] /\ UNCHANGED effects
  BY DEF BrokerExecute, News
<1>2. Handles(c, "publish") /\ UNCHANGED <<subscribed, denied>>
  BY DEF BrokerExecute
<1>3. /\ First(c, "publish") /\ toBroker' \in [Calls -> Seq(ToBroker)]
      /\ Len(toBroker[c]) \in Nat /\ Len(toBroker[c]) >= 1
      /\ UNCHANGED <<pc, outcome, event, error, response, link, connects, unacked>>
  BY <1>2, Handled DEF callerVars, resultVars
<1>4. /\ ~First(c, "connect") /\ ~First(c, "subscribe") /\ toBroker[c] # <<>>
      /\ ~Contains(c, Accepted) /\ ~Contains(c, Rejected)
  BY <1>3 DEF CallInv, Shape, First
<1>5. /\ \A i \in 1 .. Len(toBroker'[c]) : toBroker'[c][i] = "publish"
      /\ ~First(c, "connect")' /\ ~First(c, "subscribe")'
      /\ Queued(c)' = Len(toBroker[c]) - 1
  BY <1>2, Behind
<1>6. unacked[c] \in Int /\ connects[c] \in Nat /\ effects[c] \in Nat /\ refusals[c] \in Nat
      /\ Triangle(connects[c]) \in Nat /\ Len(toBroker[c]) \in Nat /\ Len(toBroker[c]) >= 1
  BY <1>3, TriangleStep
<1>7. Queued(c) = Len(toBroker[c]) /\ Queued(c) > 0
  BY <1>4, <1>6 DEF Queued
<1>8. \/ v = "ok" /\ effects'[c] = effects[c] + 1 /\ refusals'[c] = refusals[c]
      \/ v = "refused" /\ refusals'[c] = refusals[c] + 1 /\ effects'[c] = effects[c]
  <2>1. CASE v = "ok"
    BY <1>1, <2>1
  <2>2. CASE v = "refused"
    BY <1>1, <2>2
  <2> QED
    BY <2>1, <2>2 DEF Verdicts
<1>9. toClient'[c] = Sent(c, News(c, c, v, p))
  BY <1>1
<1>10. /\ News(c, c, v, p) \in Seq(ToClient)
       /\ \A q : Has(News(c, c, v, p), q) <=>
                     (subscribed[c] /\ q = Response(c, v, p)) \/ q = Puback
  BY NewsOf
<1>11. /\ \A q : Contains(c, q)' =>
                     Contains(c, q) \/ q = Response(c, v, p) \/ q = Puback
       /\ link[c] = "up" =>
              \A q : Contains(c, q) \/ (subscribed[c] /\ q = Response(c, v, p))
                     => Contains(c, q)'
  BY <1>9, <1>10, Delivered DEF Contains
<1>12. ~Contains(c, Accepted)' /\ ~Contains(c, Rejected)'
       /\ (Contains(c, Suback)' => Contains(c, Suback))
  BY <1>4, <1>11, Packets
<1>13. Owed(c) \in {0, 1} /\ Owed(c)' \in {0, 1} /\ Owed(c)' <= Owed(c)
  BY <1>4, <1>5, <1>12 DEF Owed, Connecting, Subscribing
<1>14. Shape(c)'
  <2>1. \A i, j \in 1 .. Len(toClient'[c]) :
            toClient'[c][i] = Suback /\ toClient'[c][j] = Suback => i = j
    <3>1. CASE link[c] = "up"
      <4>1. toClient'[c] = toClient[c] \o News(c, c, v, p)
        BY <3>1, <1>9 DEF Sent
      <4>2. ~Has(News(c, c, v, p), Suback)
        BY <1>10, Packets
      <4>3. toClient[c] \in Seq(ToClient) /\ OneSuback(toClient[c])
        BY DEF CallInv, Shape, OneSuback
      <4>4. OneSuback(toClient[c] \o News(c, c, v, p))
        BY <4>2, <4>3, <1>10, StillOneSuback
      <4> QED
        BY <4>1, <4>4 DEF OneSuback
    <3>2. CASE link[c] # "up"
      <4>1. toClient'[c] = <<>> /\ Len(<<>>) = 0
        BY <3>2, <1>9 DEF Sent
      <4> QED
        BY <4>1
    <3> QED
      BY <3>1, <3>2
  <2>2. link'[c] # "up" => toClient'[c] = <<>>
    BY <1>3, <1>9 DEF Sent
  <2>3. ~(link'[c] \in {"none", "down"})
    BY <1>3, <1>4 DEF CallInv, Shape
  <2> QED
    BY <2>1, <2>2, <2>3, <1>5, <1>12 DEF Shape
<1>15. Counted(c)'
  <2>1. effects'[c] + refusals'[c] = effects[c] + refusals[c] + 1
    BY <1>6, <1>8
  <2>2. effects[c] + refusals[c] + Queued(c) + Owed(c) <= Triangle(connects[c])
        /\ Triangle(connects[c])' = Triangle(connects[c])
    BY <1>3 DEF CallInv, Counted, Triangle
  <2>3. (effects[c] + refusals[c] + Queued(c) + Owed(c))' <= Triangle(connects[c])'
    BY <2>1, <2>2, <1>5, <1>6, <1>7, <1>13
  <2>4. (Connecting(c) \/ Subscribing(c))' => Subscribing(c)
    BY <1>5, <1>12 DEF Connecting, Subscribing
  <2> QED
    BY <2>3, <2>4, <1>3 DEF CallInv, Counted
<1>16. Answers(c)'
  <2>1. \A w \in Verdicts : (Done(c, w) => Done(c, w)') /\ Done(c, v)'
    BY <1>6, <1>8 DEF Done
  <2>2. ASSUME NEW w \in Verdicts, NEW x \in Payloads, Contains(c, Response(c, w, x))'
        PROVE  Done(c, w)'
    <3>1. Contains(c, Response(c, w, x)) \/ Response(c, w, x) = Response(c, v, p)
      BY <2>2, <1>11, Packets
    <3>2. Contains(c, Response(c, w, x)) \/ w = v
      BY <3>1, Packets
    <3> QED
      BY <3>2, <2>1 DEF CallInv, Answers
  <2> QED
    BY <2>1, <2>2, <1>3 DEF CallInv, Answers
<1>17. Told(c)'
  BY <1>3 DEF CallInv, Told
<1>18. Granted(c)'
  BY <1>2, <1>3, <1>7 DEF CallInv, Granted
<1>19. Arrives(c)'
  <2> SUFFICES ASSUME connects'[c] = 1, link'[c] = "up", ~denied'[c]
               PROVE  Contains(c, Response(c, v, p))'
    BY DEF Arrives
  <2>1. subscribed[c]
    BY <1>2, <1>3, <1>7 DEF CallInv, Granted
  <2> QED
    BY <2>1, <1>3, <1>11
<1> QED
  BY <1>14, <1>15, <1>16, <1>17, <1>18, <1>19 DEF CallInv

-------------------------------------------------------------------------------
(* The other calls. *)

LEMMA OthersUntouched ==
    ASSUME Typed, NEW c \in Calls, NEW d \in Calls, d # c,
           Call(c) \/ Caller(c) \/ Loop(c) \/ BrokerConnect(c) \/ BrokerSubscribe(c)
    PROVE  Same(d) /\ toClient'[d] = toClient[d]
<1>1. CASE Call(c) \/ Caller(c)
  BY <1>1 DEF Call, Caller, Connect, Dial, ConnectFails, Wake, Timeout, CheckError,
              ReadResponse, Close, Decide, Same, resultVars, netVars, brokerVars
<1>2. CASE OnConnect(c) \/ OnRejected(c) \/ OnSubscribe(c) \/ OnPuback(c)
  BY <1>2 DEF OnConnect, OnRejected, OnSubscribe, OnPuback, Receives, Same,
              callerVars, resultVars, brokerVars
<1>3. CASE OnMessage(c) \/ OnInvalidMessage(c)
  BY <1>3 DEF OnMessage, OnInvalidMessage, Receives, Same, callerVars, brokerVars
<1>4. CASE LoseConnection(c) \/ Reconnect(c)
  BY <1>4 DEF LoseConnection, Reconnect, Dial, Same, callerVars, resultVars
<1>5. CASE BrokerConnect(c) \/ BrokerSubscribe(c)
  BY <1>5 DEF BrokerConnect, BrokerSubscribe, Handles, Same, callerVars, resultVars, brokerVars
<1> QED
  BY <1>1, <1>2, <1>3, <1>4, <1>5 DEF Loop

\* Every subscriber gets the response to somebody else's command.
LEMMA OthersHear ==
    ASSUME Typed, NEW c \in Calls, NEW d \in Calls, d # c, CallInv(d),
           BrokerExecute(c), budget' = budget
    PROVE  CallInv(d)'
<1>1. PICK v \in Verdicts, p \in Payloads :
          /\ toClient' = [e \in Calls |-> Sent(e, News(c, e, v, p))]
          /\ IF v = "ok"
             THEN effects' = [effects EXCEPT ![c] = @ + 1] /\ UNCHANGED refusals
             ELSE refusals' = [refusals EXCEPT ![c] = @ + 1] /\ UNCHANGED effects
  BY DEF BrokerExecute, News
<1>2. Handles(c, "publish") /\ UNCHANGED <<subscribed, denied>>
  BY DEF BrokerExecute
<1>3. effects'[d] = effects[d] /\ refusals'[d] = refusals[d]
  <2>1. CASE v = "ok"
    BY <1>1, <2>1
  <2>2. CASE v # "ok"
    BY <1>1, <2>2
  <2> QED
    BY <2>1, <2>2
<1>4. Same(d)
  BY <1>2, <1>3, Handled DEF callerVars, resultVars, Same
<1>5. toClient'[d] = Sent(d, News(c, d, v, p))
  BY <1>1
<1>6. CASE link[d] # "up"
  <2>1. toClient'[d] = toClient[d]
    BY <1>5, <1>6 DEF Sent, CallInv, Shape
  <2> QED
    BY <2>1, <1>4, Frame
<1>7. CASE link[d] = "up" /\ ~subscribed[d]
  <2>1. News(c, d, v, p) = <<>> \o <<>>
    BY <1>7 DEF News
  <2>2. News(c, d, v, p) = <<>>
    BY <2>1
  <2>3. toClient'[d] = toClient[d] \o <<>>
    BY <2>2, <1>5, <1>7 DEF Sent
  <2>4. toClient[d] \in Seq(ToClient)
    OBVIOUS
  <2>5. toClient'[d] = toClient[d]
    BY <2>3, <2>4
  <2> QED
    BY <2>5, <1>4, Frame
<1>8. CASE link[d] = "up" /\ subscribed[d]
  <2>1. /\ News(c, d, v, p) \in Seq(ToClient)
        /\ \A q : Has(News(c, d, v, p), q) <=> q = Response(c, v, p)
    BY <1>8, NewsOf
  <2>2. toClient'[d] = toClient[d] \o News(c, d, v, p) /\ toClient[d] \in Seq(ToClient)
    BY <1>5, <1>8 DEF Sent
  <2>3. \A q : Contains(d, q)' <=> Contains(d, q) \/ q = Response(c, v, p)
    BY <2>1, <2>2, JoinHas DEF Contains
  <2>4. /\ Response(c, v, p) \notin {Accepted, Rejected, Suback, Puback}
        /\ \A w \in Verdicts, x \in Payloads : Response(d, w, x) # Response(c, v, p)
    BY Packets
  <2>5. /\ Contains(d, Accepted)' <=> Contains(d, Accepted)
        /\ Contains(d, Rejected)' <=> Contains(d, Rejected)
        /\ Contains(d, Suback)' <=> Contains(d, Suback)
        /\ \A w \in Verdicts, x \in Payloads :
               Contains(d, Response(d, w, x))' <=> Contains(d, Response(d, w, x))
    BY <2>3, <2>4
  <2>6. /\ First(d, "connect")' <=> First(d, "connect")
        /\ First(d, "subscribe")' <=> First(d, "subscribe")
        /\ Queued(d)' = Queued(d)
    BY <1>4 DEF Same, First, Queued
  <2>7. Owed(d)' = Owed(d)
        /\ ((Connecting(d) \/ Subscribing(d))' <=> Connecting(d) \/ Subscribing(d))
    BY <2>5, <2>6, <1>4 DEF Same, Owed, Connecting, Subscribing, Positive
  <2>8. ~First(d, "connect") /\ ~First(d, "subscribe")
        /\ ~Contains(d, Accepted) /\ ~Contains(d, Rejected)
    BY <1>8 DEF CallInv, Shape
  <2>9. Shape(d)'
    <3>1. ~Has(News(c, d, v, p), Suback)
      BY <2>1, <2>4
    <3>2. OneSuback(toClient[d] \o News(c, d, v, p))
      <4>1. OneSuback(toClient[d])
        BY DEF CallInv, Shape, OneSuback
      <4> QED
        BY <3>1, <4>1, <2>1, <2>2, StillOneSuback
    <3>3. \A i, j \in 1 .. Len(toClient'[d]) :
              toClient'[d][i] = Suback /\ toClient'[d][j] = Suback => i = j
      BY <3>2, <2>2 DEF OneSuback
    <3>4. link'[d] = "up" /\ toBroker'[d] = toBroker[d]
      BY <1>4, <1>8 DEF Same
    <3>5. \A i \in 1 .. Len(toBroker'[d]) : i > 1 => toBroker'[d][i] = "publish"
      BY <3>4 DEF CallInv, Shape
    <3> QED
      BY <3>3, <3>4, <3>5, <2>5, <2>6, <2>8 DEF Shape
  <2>10. Counted(d)'
    BY <2>6, <2>7, <1>4 DEF Same, CallInv, Counted, Triangle
  <2>11. Answers(d)'
    BY <2>5, <1>4 DEF Same, CallInv, Answers, Done
  <2>12. Told(d)'
    BY <1>4 DEF Same, CallInv, Told
  <2>13. Granted(d)' /\ Arrives(d)'
    BY <2>5, <2>6, <1>4 DEF Same, CallInv, Granted, Arrives
  <2> QED
    BY <2>9, <2>10, <2>11, <2>12, <2>13 DEF CallInv
<1> QED
  BY <1>6, <1>7, <1>8

-------------------------------------------------------------------------------
(* The invariant holds. *)

LEMMA InitInv == Init => IInv
<1> SUFFICES ASSUME Init PROVE IInv
  OBVIOUS
<1>1. <<>> \in Seq(ToBroker) /\ <<>> \in Seq(ToClient)
  OBVIOUS
<1>2. Typed
  BY <1>1 DEF Init, Pc, Outcomes
<1>3. ASSUME NEW c \in Calls
      PROVE  CallInv(c)
  <2>1. /\ pc[c] = "idle" /\ ~event[c] /\ error[c] = "none" /\ response[c] = "none"
        /\ outcome[c] = "none" /\ link[c] = "none" /\ connects[c] = 0
        /\ toBroker[c] = <<>> /\ toClient[c] = <<>> /\ unacked[c] = 0
        /\ ~subscribed[c] /\ ~denied[c] /\ effects[c] = 0 /\ refusals[c] = 0
    BY DEF Init
  <2>2. Len(<<>>) = 0
    OBVIOUS
  <2>3. ~First(c, "connect") /\ ~First(c, "subscribe") /\ \A q : ~Contains(c, q)
    BY <2>1, <2>2 DEF First, Contains, Has
  <2>4. Shape(c)
    BY <2>1, <2>2, <2>3 DEF Shape
  <2>5. budget[c] \in Nat
    BY <1>2, BudgetsAssumption, ConnectsAssumption
  <2>6. Triangle(0) = 0
    BY DEF Triangle
  <2>7. Queued(c) = 0 /\ Owed(c) = 0
    BY <2>1, <2>3 DEF Queued, Owed, Connecting, Subscribing
  <2>8. Counted(c)
    BY <2>1, <2>3, <2>5, <2>6, <2>7 DEF Counted, Connecting, Subscribing
  <2>9. Answers(c)
    BY <2>1, <2>3 DEF Answers, Verdicts
  <2>10. Told(c)
    BY <2>1 DEF Told
  <2>11. Granted(c) /\ Arrives(c)
    BY <2>1 DEF Granted, Arrives
  <2> QED
    BY <2>4, <2>8, <2>9, <2>10, <2>11 DEF CallInv
<1> QED
  BY <1>2, <1>3 DEF IInv

LEMMA StepInv == IInv /\ [Next]_vars => IInv'
<1> SUFFICES ASSUME IInv, [Next]_vars PROVE IInv'
  OBVIOUS
<1> USE DEF IInv
<1>1. CASE UNCHANGED vars
  <2>1. UNCHANGED <<pc, outcome, event, error, response, link, connects, toBroker, toClient,
                    unacked, subscribed, denied, effects, refusals, budget>>
    BY <1>1 DEF vars, callerVars, resultVars, netVars, brokerVars
  <2>2. \A d \in Calls : Same(d)
    BY <2>1 DEF Same
  <2>3. \A d \in Calls : CallInv(d)'
    BY <2>1, <2>2, Frame
  <2> QED
    BY <2>1, <2>3
<1>2. CASE Next
  <2>1. PICK c \in Calls : Call(c) \/ Caller(c) \/ Loop(c) \/ Broker(c)
    BY <1>2 DEF Next
  <2>2. budget' = budget
    BY <1>2 DEF Next
  <2>3. Typed'
    BY <2>1, <2>2, TypedCaller, TypedLoop, TypedBroker
  <2>4. CallInv(c)'
    <3>1. CASE \/ Call(c) \/ ConnectFails(c) \/ Wake(c) \/ Timeout(c)
               \/ CheckError(c) \/ ReadResponse(c)
      BY <3>1, <2>2, CallerSteps
    <3>2. CASE Connect(c) \/ Reconnect(c)
      <4>1. Dial(c) /\ (Connect(c) \/ (link[c] = "down" /\ UNCHANGED callerVars))
        BY <3>2 DEF Connect, Reconnect
      <4> QED
        BY <4>1, <2>2, DialStep
    <3>3. CASE Close(c)
      BY <3>3, <2>2, CloseStep
    <3>4. CASE Loop(c)
      BY <3>2, <3>4, <2>2, OnConnectStep, OnRejectedStep, OnSubscribeStep, OnPubackStep,
         OnMessageStep, OnInvalidMessageStep, LoseStep DEF Loop
    <3>5. CASE Broker(c)
      BY <3>5, <2>2, BrokerConnectStep, BrokerSubscribeStep, BrokerExecuteStep DEF Broker
    <3> QED
      BY <2>1, <3>1, <3>2, <3>3, <3>4, <3>5 DEF Caller
  <2>5. ASSUME NEW d \in Calls, d # c
        PROVE  CallInv(d)'
    <3>1. CASE BrokerExecute(c)
      BY <3>1, <2>2, <2>5, OthersHear
    <3>2. CASE ~BrokerExecute(c)
      <4>1. Same(d) /\ toClient'[d] = toClient[d]
        BY <3>2, <2>1, <2>5, OthersUntouched DEF Broker
      <4> QED
        BY <4>1, <2>2, Frame
    <3> QED
      BY <3>1, <3>2
  <2> QED
    BY <2>3, <2>4, <2>5
<1> QED
  BY <1>1, <1>2

LEMMA Invariant == Spec => []IInv
BY InitInv, StepInv, PTL DEF Spec

-------------------------------------------------------------------------------
(* What follows from it. *)

LEMMA Tally ==
    ASSUME IInv, NEW c \in Calls
    PROVE  /\ effects[c] \in Nat /\ refusals[c] \in Nat /\ connects[c] \in Nat
           /\ Queued(c) \in Nat
           /\ effects[c] + refusals[c] + Queued(c) <= Triangle(connects[c])
           /\ Triangle(connects[c]) <= Triangle(MaxConnects)
           /\ Triangle(connects[c]) \in Nat /\ Triangle(MaxConnects) \in Nat
<1>1. Counted(c) /\ unacked[c] \in Int /\ connects[c] \in Nat
      /\ effects[c] \in Nat /\ refusals[c] \in Nat
  BY DEF IInv, CallInv
<1>2. toBroker[c] \in Seq(ToBroker)
  BY DEF IInv
<1>3. Len(toBroker[c]) \in Nat /\ (toBroker[c] # <<>> => Len(toBroker[c]) >= 1)
  BY <1>2
<1>4. Queued(c) \in Nat /\ Owed(c) \in Nat
  BY <1>1, <1>3 DEF Queued, Owed, Positive, First
<1>5. connects[c] <= MaxConnects /\ MaxConnects \in Nat
  <2>1. budget[c] \in 0 .. MaxConnects
    BY BudgetsAssumption DEF IInv
  <2> QED
    BY <2>1, <1>1, ConnectsAssumption DEF Counted
<1>6. Triangle(connects[c]) <= Triangle(MaxConnects)
      /\ Triangle(connects[c]) \in Nat /\ Triangle(MaxConnects) \in Nat
  BY <1>1, <1>5, TriangleGrows
<1> QED
  BY <1>1, <1>4, <1>6 DEF Counted

\* A command reaches the plugin at most once over each connection, repeated
\* publications included: broker.py:47-50 and the library's retransmissions.
THEOREM BoundOnExecutions == Spec => []ExecutionsBounded
<1>1. IInv => ExecutionsBounded
  BY Tally DEF ExecutionsBounded, Triangle
<1> QED
  BY <1>1, Invariant, PTL

\* With one connection, the refusal that broker.py:74-77 raises is the broker's
\* last word: nothing of the call was or will be applied.
THEOREM RefusalIsFinal == Spec => []RefusalMeansUntouched
<1>1. IInv => RefusalMeansUntouched
  <2> SUFFICES ASSUME IInv, NEW c \in Calls, outcome[c] = "refused", connects[c] = 1
               PROVE  effects[c] = 0
    BY DEF RefusalMeansUntouched
  <2>1. refusals[c] > 0
    BY DEF IInv, CallInv, Answers, Done, Verdicts
  <2>2. Triangle(1) = 1
    BY DEF Triangle
  <2> QED
    BY <2>1, <2>2, Tally
<1> QED
  BY <1>1, Invariant, PTL

\* broker.py:47-50 publishes only from on_subscribe, so that no answer passes
\* before somebody listens for it.
THEOREM NoAnswerIsMissed == Spec => []AnswerReachesCaller
<1>1. IInv => AnswerReachesCaller
  <2> SUFFICES ASSUME IInv, NEW c \in Calls, effects[c] + refusals[c] > 0,
                      connects[c] = 1, link[c] = "up", ~denied[c], ~event[c]
               PROVE  \E v \in Verdicts, p \in Payloads, i \in DOMAIN toClient[c] :
                          toClient[c][i] = Response(c, v, p)
    BY DEF AnswerReachesCaller
  <2>1. PICK v \in Verdicts, p \in Payloads : Contains(c, Response(c, v, p))
    BY DEF IInv, CallInv, Arrives
  <2>2. DOMAIN toClient[c] = 1 .. Len(toClient[c])
    BY DEF IInv
  <2> QED
    BY <2>1, <2>2 DEF Contains, Has
<1> QED
  BY <1>1, Invariant, PTL

-------------------------------------------------------------------------------
(* The types with their bounds.  No message is acknowledged that is not      *)
(* waiting for it: what is still to be published and what is acknowledged on *)
(* its way back are different messages of the library's queue.               *)

Pubacks(s) == {i \in 1 .. Len(s) : s[i] = Puback}
Acks(s) == Cardinality(Pubacks(s))

Acked(c) == Acks(toClient[c]) + Queued(c) <= unacked[c]

\* Every acknowledgement of a queue is counted, once.
LEMMA AcksJoin ==
    ASSUME NEW S, NEW s \in Seq(S), NEW t \in Seq(S)
    PROVE  Acks(s) \in Nat /\ Acks(t) \in Nat /\ Acks(s \o t) = Acks(s) + Acks(t)
<1> DEFINE n == Len(s)
           m == Len(t)
           A == Pubacks(s)
           B == Pubacks(t)
           C == {i \in n + 1 .. n + m : (s \o t)[i] = Puback}
           f == [i \in B |-> n + i]
<1>1. /\ n \in Nat /\ m \in Nat /\ Len(s \o t) = n + m
      /\ \A i \in 1 .. n : (s \o t)[i] = s[i]
      /\ \A i \in 1 .. m : (s \o t)[n + i] = t[i]
  BY JoinOf
<1>2. A \subseteq 1 .. n /\ B \subseteq 1 .. m /\ C \subseteq n + 1 .. n + m
  BY DEF Pubacks
<1>3. IsFiniteSet(A) /\ IsFiniteSet(B) /\ IsFiniteSet(C)
  <2>1. IsFiniteSet(1 .. n) /\ IsFiniteSet(1 .. m) /\ IsFiniteSet(n + 1 .. n + m)
    BY <1>1, FS_Interval
  <2> QED
    BY <2>1, <1>2, FS_Subset
<1>4. Pubacks(s \o t) = A \cup C
  <2>1. \A i : i \in 1 .. n + m <=> i \in 1 .. n \/ i \in n + 1 .. n + m
    BY <1>1
  <2> QED
    BY <2>1, <1>1 DEF Pubacks
<1>5. A \cap C = {}
  BY <1>1, <1>2
<1>6. Cardinality(C) = Cardinality(B)
  <2>1. \A i \in B : i \in Int /\ f[i] = n + i
    BY <1>2
  <2>2. \A i \in B : f[i] \in C
    BY <1>1, <1>2, <2>1 DEF Pubacks
  <2>3. f \in [B -> C]
    BY <2>2
  <2>4. \A i, j \in B : f[i] = f[j] => i = j
    BY <1>1, <2>1
  <2>5. ASSUME NEW k \in C
        PROVE  \E i \in B : f[i] = k
    <3>1. k - n \in 1 .. m /\ n + (k - n) = k
      BY <1>1, <1>2
    <3>2. k - n \in B
      BY <1>1, <3>1 DEF Pubacks
    <3> QED
      BY <3>1, <3>2
  <2>6. f \in Bijection(B, C)
    BY <2>3, <2>4, <2>5 DEF Bijection, Injection, Surjection, IsInjective
  <2>7. ExistsBijection(B, C)
    BY <2>6 DEF ExistsBijection
  <2> QED
    BY <2>7, <1>3, FS_Bijection
<1> HIDE DEF A, B, C
<1>7. Cardinality(A) \in Nat /\ Cardinality(B) \in Nat /\ Cardinality(C) \in Nat
  BY <1>3, FS_CardinalityType
<1>8. Cardinality(A \cup C) = Cardinality(A) + Cardinality(C) - 0
  BY <1>3, <1>5, FS_Union, FS_EmptySet
<1> QED
  BY <1>4, <1>6, <1>7, <1>8 DEF Acks, A, B

LEMMA AcksOf ==
    /\ Acks(<<>>) = 0
    /\ \A packet : Acks(<<packet>>) = IF packet = Puback THEN 1 ELSE 0
<1>1. Pubacks(<<>>) = {}
  BY DEF Pubacks
<1>2. \A packet : Pubacks(<<packet>>) = IF packet = Puback THEN {1} ELSE {}
  <2>1. \A packet : Len(<<packet>>) = 1 /\ <<packet>>[1] = packet
    OBVIOUS
  <2>2. 1 .. 1 = {1}
    OBVIOUS
  <2> QED
    BY <2>1, <2>2 DEF Pubacks
<1> QED
  BY <1>1, <1>2, FS_EmptySet, FS_Singleton DEF Acks

LEMMA FirstAndRest ==
    ASSUME NEW S, NEW s \in Seq(S), NEW h \in Seq(S), NEW r \in Seq(S)
    PROVE  /\ Len(h) = 1 /\ h[1] = s[1] /\ Len(s) = Len(r) + 1
           /\ \A i \in 1 .. Len(r) : r[i] = s[i + 1]
           => s = h \o r
<1>1. /\ h \o r \in Seq(S) /\ Len(r) \in Nat /\ Len(h \o r) = Len(h) + Len(r)
      /\ \A i \in 1 .. Len(h) : (h \o r)[i] = h[i]
      /\ \A i \in 1 .. Len(r) : (h \o r)[Len(h) + i] = r[i]
  BY JoinOf
<1> SUFFICES ASSUME Len(h) = 1, h[1] = s[1], Len(s) = Len(r) + 1,
                    \A i \in 1 .. Len(r) : r[i] = s[i + 1]
             PROVE  s = h \o r
  OBVIOUS
<1>2. /\ (h \o r)[1] = s[1] /\ Len(h \o r) = Len(s)
      /\ \A i \in 1 .. Len(r) : (h \o r)[1 + i] = s[i + 1]
  BY <1>1
<1>3. ASSUME NEW i \in 1 .. Len(s)
      PROVE  (h \o r)[i] = s[i]
  <2>1. CASE i = 1
    BY <2>1, <1>2
  <2>2. CASE i # 1
    <3>1. i - 1 \in 1 .. Len(r) /\ 1 + (i - 1) = i /\ (i - 1) + 1 = i
      BY <2>2, <1>1
    <3> QED
      BY <3>1, <1>2
  <2> QED
    BY <2>1, <2>2
<1> DEFINE t == h \o r
<1>4. t \in Seq(S) /\ Len(t) = Len(s) /\ \A i \in 1 .. Len(s) : t[i] = s[i]
  BY <1>1, <1>2, <1>3
<1> HIDE DEF t
<1>5. t = s
  BY <1>4
<1> QED
  BY <1>5 DEF t

\* The acknowledgement that is taken, or the other packet.
LEMMA AcksTaken ==
    ASSUME Typed, NEW c \in Calls, NEW packet, Receives(c, packet)
    PROVE  /\ Acks(toClient[c]) \in Nat /\ Acks(toClient'[c]) \in Nat
           /\ Acks(toClient'[c]) = Acks(toClient[c]) - (IF packet = Puback THEN 1 ELSE 0)
<1>1. /\ toClient[c] # <<>> /\ toClient[c][1] = packet /\ toClient'[c] = Tail(toClient[c])
      /\ toClient[c] \in Seq(ToClient)
  BY Taken
<1>2. packet \in ToClient /\ toClient'[c] \in Seq(ToClient)
  <2>1. Tail(toClient[c]) \in Seq(ToClient) /\ toClient[c][1] \in ToClient
    BY <1>1, TailOf
  <2> QED
    BY <2>1, <1>1
<1>3. <<packet>> \in Seq(ToClient) /\ Len(<<packet>>) = 1 /\ <<packet>>[1] = packet
  BY <1>2, Single
<1>4. toClient[c] = <<packet>> \o toClient'[c]
  <2>1. /\ Len(toClient[c]) = Len(toClient'[c]) + 1
        /\ \A i \in 1 .. Len(toClient'[c]) : toClient'[c][i] = toClient[c][i + 1]
    <3>1. Len(toClient[c]) \in Nat /\ Len(toClient'[c]) = Len(toClient[c]) - 1
          /\ \A i \in 1 .. Len(toClient'[c]) : toClient'[c][i] = toClient[c][i + 1]
      BY Taken
    <3> QED
      BY <3>1
  <2> QED
    BY <2>1, <1>1, <1>2, <1>3, FirstAndRest
<1>5. /\ Acks(<<packet>>) \in Nat /\ Acks(toClient'[c]) \in Nat
      /\ Acks(<<packet>> \o toClient'[c]) = Acks(<<packet>>) + Acks(toClient'[c])
  BY <1>2, <1>3, AcksJoin
<1> QED
  BY <1>4, <1>5, AcksOf

LEMMA AckedFrame ==
    ASSUME NEW d, Acked(d), toBroker'[d] = toBroker[d], toClient'[d] = toClient[d],
           unacked'[d] = unacked[d]
    PROVE  Acked(d)'
BY DEF Acked, Acks, Pubacks, Queued, First

LEMMA AcksTyped ==
    ASSUME Typed, NEW c \in Calls
    PROVE  Acks(toClient[c]) \in Nat /\ Queued(c) \in Nat /\ unacked[c] \in Int
<1>1. Acks(toClient[c]) \in Nat
  BY AcksJoin
<1>2. Len(toBroker[c]) \in Nat /\ (toBroker[c] # <<>> => Len(toBroker[c]) >= 1)
  OBVIOUS
<1> QED
  BY <1>1, <1>2 DEF Queued, First

\* Nothing left to acknowledge, or to publish, on a connection that is new or gone.
LEMMA AckedEmpty ==
    ASSUME Typed, NEW c \in Calls, Acked(c), toClient'[c] = <<>>, unacked'[c] = unacked[c],
           \/ toBroker'[c] \in {<<>>, <<"connect">>}
           \/ toBroker'[c] = toBroker[c]
    PROVE  Acked(c)'
<1>1. Acks(toClient'[c]) = 0
  BY AcksOf
<1>2. Queued(c)' = 0 \/ Queued(c)' = Queued(c)
  BY DEF Queued, First
<1> QED
  BY <1>1, <1>2, AcksTyped DEF Acked

LEMMA AckedCallback ==
    ASSUME Typed, NEW c \in Calls, CallInv(c), Acked(c),
           \/ OnConnect(c) \/ OnRejected(c) \/ OnSubscribe(c)
           \/ OnPuback(c) \/ OnMessage(c) \/ OnInvalidMessage(c)
    PROVE  Acked(c)'
<1>1. Acks(toClient[c]) \in Nat /\ Queued(c) \in Nat /\ unacked[c] \in Int
  BY AcksTyped
<1>2. CASE OnConnect(c)
  <2>1. Receives(c, Accepted) /\ unacked'[c] = unacked[c]
    BY <1>2 DEF OnConnect
  <2>2. Contains(c, Accepted) /\ Len(toClient'[c]) = Len(toClient[c]) - 1
        /\ toClient' \in [Calls -> Seq(ToClient)]
    BY <2>1, Taken
  <2>3. Len(toClient[c]) = 1 /\ toBroker[c] = <<>>
    BY <2>2 DEF CallInv, Shape
  <2>4. toClient'[c] = <<>>
    BY <2>2, <2>3
  <2>5. Acks(toClient'[c]) = 0
    BY <2>4, AcksOf
  <2>6. toBroker'[c] = <<"subscribe">> \o Again(unacked[c])
    <3>1. toBroker' = [toBroker EXCEPT ![c] = (toBroker[c] \o <<"subscribe">>) \o Again(unacked[c])]
      BY <1>2 DEF OnConnect, Again
    <3>2. toBroker[c] \o <<"subscribe">> = <<"subscribe">>
      BY <2>3
    <3> QED
      BY <3>1, <3>2
  <2>7. Again(unacked[c]) \in Seq(ToBroker) /\ Len(Again(unacked[c])) = Positive(unacked[c])
    BY <1>1, Repeated
  <2>8. <<"subscribe">> \in Seq(ToBroker) /\ Len(<<"subscribe">>) = 1
        /\ <<"subscribe">>[1] = "subscribe"
    BY Single DEF ToBroker
  <2>9. Len(toBroker'[c]) = Positive(unacked[c]) + 1 /\ toBroker'[c][1] = "subscribe"
    <3>1. /\ Len(<<"subscribe">> \o Again(unacked[c])) = 1 + Len(Again(unacked[c]))
          /\ (<<"subscribe">> \o Again(unacked[c]))[1] = "subscribe"
      BY <2>7, <2>8, JoinOf
    <3> QED
      BY <3>1, <2>6, <2>7, <1>1 DEF Positive
  <2>10. Queued(c)' \in {0, Positive(unacked[c])}
    BY <2>9, <1>1 DEF Queued, First, Positive
  <2>11. unacked[c] >= 0
    BY <1>1 DEF Acked
  <2> QED
    BY <1>1, <2>1, <2>5, <2>10, <2>11 DEF Acked, Positive
<1>3. CASE OnSubscribe(c)
  <2>1. /\ Receives(c, Suback) /\ toBroker'[c] = Append(toBroker[c], "publish")
        /\ unacked'[c] = unacked[c] + 1
    BY <1>3 DEF OnSubscribe
  <2>2. Suback \notin {Accepted, Rejected} /\ Suback # Puback
    BY Packets
  <2>3. ~First(c, "connect") /\ ~First(c, "subscribe")
        /\ Queued(c) = Len(toBroker[c]) /\ Len(toBroker[c]) \in Nat
    BY <2>1, <2>2, PastConnack
  <2>4. Len(toBroker'[c]) = Len(toBroker[c]) + 1
    BY <2>1
  <2>5. Queued(c)' <= Queued(c) + 1
    BY <2>3, <2>4 DEF Queued
  <2>6. Queued(c)' \in Int
    BY <2>3, <2>4 DEF Queued
  <2>7. Acks(toClient'[c]) = Acks(toClient[c])
    BY <2>1, <2>2, AcksTaken
  <2> QED
    BY <1>1, <2>1, <2>5, <2>6, <2>7 DEF Acked
<1>4. CASE OnPuback(c)
  <2>1. Receives(c, Puback) /\ unacked'[c] = unacked[c] - 1 /\ toBroker' = toBroker
    BY <1>4 DEF OnPuback
  <2>2. Acks(toClient'[c]) = Acks(toClient[c]) - 1
    BY <2>1, AcksTaken
  <2>3. Queued(c)' = Queued(c)
    BY <2>1 DEF Queued, First
  <2> QED
    BY <1>1, <2>1, <2>2, <2>3 DEF Acked
<1>5. CASE OnRejected(c) \/ OnMessage(c) \/ OnInvalidMessage(c)
  <2>1. toBroker' = toBroker /\ unacked' = unacked
    BY <1>5 DEF OnRejected, OnMessage, OnInvalidMessage
  <2>2. PICK packet : Receives(c, packet)
    BY <1>5 DEF OnRejected, OnMessage, OnInvalidMessage
  <2>3. Acks(toClient'[c]) \in Nat /\ Acks(toClient'[c]) <= Acks(toClient[c])
    <3>1. /\ Acks(toClient'[c]) \in Nat
          /\ Acks(toClient'[c]) = Acks(toClient[c]) - (IF packet = Puback THEN 1 ELSE 0)
      BY <2>2, AcksTaken
    <3> QED
      BY <1>1, <3>1
  <2>4. Queued(c)' = Queued(c)
    BY <2>1 DEF Queued, First
  <2> QED
    BY <1>1, <2>1, <2>3, <2>4 DEF Acked
<1> QED
  BY <1>2, <1>3, <1>4, <1>5

\* What BrokerExecute sends acknowledges to the call itself the one message
\* it has taken, and nothing to the others.
LEMMA AcksSent ==
    ASSUME Typed, NEW c \in Calls, NEW d \in Calls, NEW v \in Verdicts, NEW p \in Payloads
    PROVE  /\ Acks(Sent(d, News(c, d, v, p))) \in Nat
           /\ Acks(Sent(d, News(c, d, v, p)))
                  <= Acks(toClient[d]) + (IF d = c THEN 1 ELSE 0)
<1> DEFINE first == IF subscribed[d] THEN <<Response(c, v, p)>> ELSE <<>>
           second == IF d = c THEN <<Puback>> ELSE <<>>
<1>1. Response(c, v, p) \in ToClient /\ Puback \in ToClient /\ Response(c, v, p) # Puback
  BY Packets
<1>2. first \in Seq(ToClient) /\ Acks(first) = 0
  BY <1>1, AcksOf, Single
<1>3. second \in Seq(ToClient) /\ Acks(second) = IF d = c THEN 1 ELSE 0
  BY <1>1, AcksOf, Single
<1>4. News(c, d, v, p) = first \o second
  BY DEF News
<1> HIDE DEF first, second
<1>5. News(c, d, v, p) \in Seq(ToClient)
  BY NewsOf
<1>6. Acks(News(c, d, v, p)) = IF d = c THEN 1 ELSE 0
  <2>1. /\ Acks(first) \in Nat /\ Acks(second) \in Nat
        /\ Acks(first \o second) = Acks(first) + Acks(second)
    BY <1>2, <1>3, AcksJoin
  <2> QED
    BY <2>1, <1>2, <1>3, <1>4
<1>7. toClient[d] \in Seq(ToClient)
  OBVIOUS
<1>8. /\ Acks(toClient[d]) \in Nat
      /\ Acks(toClient[d] \o News(c, d, v, p)) = Acks(toClient[d]) + Acks(News(c, d, v, p))
  BY <1>5, <1>7, AcksJoin
<1> QED
  BY <1>6, <1>8, AcksOf DEF Sent

LEMMA AckedBroker ==
    ASSUME Typed, NEW c \in Calls, CallInv(c), Acked(c),
           BrokerConnect(c) \/ BrokerSubscribe(c) \/ BrokerExecute(c)
    PROVE  Acked(c)'
<1>1. Acks(toClient[c]) \in Nat /\ Queued(c) \in Nat /\ unacked[c] \in Int
      /\ Len(toBroker[c]) \in Nat
  BY AcksTyped
<1>2. CASE BrokerConnect(c) \/ BrokerSubscribe(c)
  <2>1. PICK reply \in {Accepted, Rejected, Suback} :
            toClient' = [toClient EXCEPT ![c] = Sent(c, <<reply>>)]
    BY <1>2 DEF BrokerConnect, BrokerSubscribe
  <2>2. PICK packet \in {"connect", "subscribe"} : Handles(c, packet)
    BY <1>2 DEF BrokerConnect, BrokerSubscribe
  <2>3. First(c, packet) /\ unacked' = unacked
    BY <2>2, Handled
  <2>4. toClient[c] = <<>>
    BY <2>3 DEF CallInv, Shape
  <2>5. toClient'[c] \in {<<>>, <<reply>>}
    BY <2>1, <2>4 DEF Sent
  <2>6. reply # Puback
    BY Packets
  <2>7. Acks(toClient'[c]) = 0
    BY <2>5, <2>6, AcksOf
  <2>8. Queued(c)' = Len(toBroker[c]) - 1
    BY <2>2, Behind
  <2>9. Queued(c)' <= Queued(c) /\ Queued(c)' \in Int
    <3>1. CASE packet = "connect"
      <4>1. Len(toBroker[c]) = 1
        BY <3>1, <2>3 DEF CallInv, Shape
      <4> QED
        BY <4>1, <2>8, <1>1
    <3>2. CASE packet = "subscribe"
      <4>1. Queued(c) = Len(toBroker[c]) - 1
        BY <3>2, <2>3 DEF Queued, First
      <4> QED
        BY <4>1, <2>8, <1>1
    <3> QED
      BY <3>1, <3>2
  <2> QED
    BY <1>1, <2>3, <2>7, <2>9 DEF Acked
<1>3. CASE BrokerExecute(c)
  <2>1. PICK v \in Verdicts, p \in Payloads :
            toClient' = [d \in Calls |-> Sent(d, News(c, d, v, p))]
    BY <1>3 DEF BrokerExecute, News
  <2>2. Handles(c, "publish")
    BY <1>3 DEF BrokerExecute
  <2>3. First(c, "publish") /\ unacked' = unacked
    BY <2>2, Handled
  <2>4. Queued(c) = Len(toBroker[c])
    BY <2>3 DEF Queued, First
  <2>5. Queued(c)' = Len(toBroker[c]) - 1
    BY <2>2, Behind
  <2>6. Acks(toClient'[c]) \in Nat /\ Acks(toClient'[c]) <= Acks(toClient[c]) + 1
    BY <2>1, <1>1, AcksSent
  <2> QED
    BY <1>1, <2>3, <2>4, <2>5, <2>6 DEF Acked
<1> QED
  BY <1>2, <1>3

LEMMA AckedStep ==
    IInv /\ (\A c \in Calls : Acked(c)) /\ [Next]_vars => \A c \in Calls : Acked(c)'
<1> SUFFICES ASSUME IInv, \A c \in Calls : Acked(c), [Next]_vars
             PROVE  \A c \in Calls : Acked(c)'
  OBVIOUS
<1> USE DEF IInv
<1>1. CASE UNCHANGED vars
  BY <1>1, AckedFrame DEF vars, netVars
<1>2. CASE Next
  <2>1. PICK c \in Calls : Call(c) \/ Caller(c) \/ Loop(c) \/ Broker(c)
    BY <1>2 DEF Next
  <2>2. Acked(c)'
    <3>1. CASE \/ Call(c) \/ ConnectFails(c) \/ Wake(c) \/ Timeout(c)
               \/ CheckError(c) \/ ReadResponse(c)
      <4>1. UNCHANGED netVars
        BY <3>1 DEF Call, ConnectFails, Wake, Timeout, CheckError, ReadResponse
      <4> QED
        BY <4>1, AckedFrame DEF netVars
    <3>2. CASE Connect(c) \/ Reconnect(c)
      <4>1. toClient'[c] = <<>> /\ unacked'[c] = unacked[c] /\ toBroker'[c] = <<"connect">>
        BY <3>2 DEF Connect, Reconnect, Dial
      <4> QED
        BY <4>1, AckedEmpty
    <3>3. CASE Close(c)
      <4>1. toClient'[c] = <<>> /\ unacked'[c] = unacked[c] /\ toBroker'[c] = toBroker[c]
        BY <3>3 DEF Close
      <4> QED
        BY <4>1, AckedEmpty
    <3>4. CASE LoseConnection(c)
      <4>1. toClient'[c] = <<>> /\ unacked'[c] = unacked[c] /\ toBroker'[c] = <<>>
        BY <3>4 DEF LoseConnection
      <4> QED
        BY <4>1, AckedEmpty
    <3>5. CASE \/ OnConnect(c) \/ OnRejected(c) \/ OnSubscribe(c)
               \/ OnPuback(c) \/ OnMessage(c) \/ OnInvalidMessage(c)
      BY <3>5, AckedCallback
    <3>6. CASE Broker(c)
      BY <3>6, AckedBroker DEF Broker
    <3> QED
      BY <2>1, <3>1, <3>2, <3>3, <3>4, <3>5, <3>6 DEF Caller, Loop
  <2>3. ASSUME NEW d \in Calls, d # c
        PROVE  Acked(d)'
    <3>1. CASE BrokerExecute(c)
      <4>1. PICK v \in Verdicts, p \in Payloads :
                toClient' = [e \in Calls |-> Sent(e, News(c, e, v, p))]
        BY <3>1 DEF BrokerExecute, News
      <4>2. Handles(c, "publish")
        BY <3>1 DEF BrokerExecute
      <4>3. toBroker'[d] = toBroker[d] /\ unacked' = unacked
        BY <4>2, <2>3, Handled
      <4>4. Queued(d)' = Queued(d)
        BY <4>3 DEF Queued, First
      <4>5. Acks(toClient[d]) \in Nat /\ Queued(d) \in Nat /\ unacked[d] \in Int
        BY AcksTyped
      <4>6. Acks(toClient'[d]) \in Nat /\ Acks(toClient'[d]) <= Acks(toClient[d])
        <5>1. /\ Acks(Sent(d, News(c, d, v, p))) \in Nat
              /\ Acks(Sent(d, News(c, d, v, p)))
                     <= Acks(toClient[d]) + (IF d = c THEN 1 ELSE 0)
          BY AcksSent
        <5>2. toClient'[d] = Sent(d, News(c, d, v, p))
          BY <4>1
        <5> QED
          BY <5>1, <5>2, <4>5, <2>3
      <4> QED
        BY <4>3, <4>4, <4>5, <4>6 DEF Acked
    <3>2. CASE ~BrokerExecute(c)
      <4>1. Same(d) /\ toClient'[d] = toClient[d]
        BY <3>2, <2>1, <2>3, OthersUntouched DEF Broker
      <4> QED
        BY <4>1, AckedFrame DEF Same
    <3> QED
      BY <3>1, <3>2
  <2> QED
    BY <2>2, <2>3
<1> QED
  BY <1>1, <1>2

\* Types and bounds of broker.py:31-79: MaxConnects connections bound what is
\* unacknowledged, and with it, over all connections, what is executed.
THEOREM TypeCorrect == Spec => []TypeOK
<1> DEFINE Both == IInv /\ \A c \in Calls : Acked(c)
<1>1. Init => Both
  <2> SUFFICES ASSUME Init PROVE Both
    OBVIOUS
  <2>1. IInv
    BY InitInv
  <2>2. ASSUME NEW c \in Calls PROVE Acked(c)
    <3>1. toClient[c] = <<>> /\ toBroker[c] = <<>> /\ unacked[c] = 0
      BY DEF Init
    <3>2. Acks(toClient[c]) = 0 /\ Queued(c) = 0
      BY <3>1, AcksOf DEF Queued
    <3> QED
      BY <3>1, <3>2 DEF Acked
  <2> QED
    BY <2>1, <2>2
<1>2. Both /\ [Next]_vars => Both'
  BY StepInv, AckedStep
<1>3. Both => TypeOK
  <2> SUFFICES ASSUME Both PROVE TypeOK
    OBVIOUS
  <2>1. Typed
    BY DEF IInv
  <2>2. ASSUME NEW c \in Calls
        PROVE  /\ connects[c] \in 0 .. MaxConnects
               /\ unacked[c] \in 0 .. MaxConnects
               /\ effects[c] \in 0 .. MaxExecutions
               /\ refusals[c] \in 0 .. MaxExecutions
    <3>1. /\ Acks(toClient[c]) \in Nat /\ Queued(c) \in Nat /\ unacked[c] \in Int
          /\ Acks(toClient[c]) + Queued(c) <= unacked[c]
      BY <2>1, AcksTyped DEF Acked
    <3>2. unacked[c] <= connects[c] /\ connects[c] <= budget[c]
      BY DEF IInv, CallInv, Counted
    <3>3. connects[c] \in Nat /\ budget[c] \in 0 .. MaxConnects
      BY <2>1, BudgetsAssumption
    <3>4. connects[c] \in 0 .. MaxConnects /\ unacked[c] \in 0 .. MaxConnects
      BY <3>1, <3>2, <3>3, ConnectsAssumption
    <3>5. /\ effects[c] \in Nat /\ refusals[c] \in Nat /\ Triangle(connects[c]) \in Nat
          /\ effects[c] + refusals[c] + Queued(c) <= Triangle(connects[c])
          /\ Triangle(connects[c]) <= MaxExecutions /\ MaxExecutions \in Nat
      BY Tally DEF Triangle, MaxExecutions
    <3>6. effects[c] \in 0 .. MaxExecutions /\ refusals[c] \in 0 .. MaxExecutions
      BY <3>1, <3>5
    <3> QED
      BY <3>4, <3>6
  <2> HIDE DEF Both
  <2>3. /\ connects \in [Calls -> 0 .. MaxConnects]
        /\ unacked \in [Calls -> 0 .. MaxConnects]
        /\ effects \in [Calls -> 0 .. MaxExecutions]
        /\ refusals \in [Calls -> 0 .. MaxExecutions]
    BY <2>1, <2>2
  <2> QED
    BY <2>1, <2>3 DEF TypeOK
<1> QED
  BY <1>1, <1>2, <1>3, PTL DEF Spec

-------------------------------------------------------------------------------
(* The abstract call. *)

LEMMA PhaseSame ==
    ASSUME NEW d, outcome'[d] = outcome[d], pc'[d] = "idle" <=> pc[d] = "idle"
    PROVE  Phase(d)' = Phase(d)
BY DEF Phase

LEMMA AbstractInit == Init => Abstract!Init
BY DEF Init, Abstract!Init, Phase

LEMMA AbstractStep ==
    ASSUME IInv, IInv', [Next]_vars
    PROVE  [Abstract!Next]_(Abstract!vars)
<1> DEFINE phase == [d \in Calls |-> Phase(d)]
<1>1. ASSUME outcome' = outcome, effects' = effects, refusals' = refusals,
             \A d \in Calls : pc'[d] = "idle" <=> pc[d] = "idle"
      PROVE  UNCHANGED Abstract!vars
  <2>1. \A d \in Calls : Phase(d)' = Phase(d)
    BY <1>1, PhaseSame
  <2> QED
    BY <1>1, <2>1 DEF Abstract!vars
<1>2. CASE UNCHANGED vars
  BY <1>1, <1>2 DEF vars, callerVars, brokerVars
<1>3. CASE Next
  <2>1. PICK c \in Calls : Call(c) \/ Caller(c) \/ Loop(c) \/ Broker(c)
    BY <1>3 DEF Next
  <2>2. CASE Loop(c) \/ BrokerConnect(c) \/ BrokerSubscribe(c)
    <3>1. UNCHANGED <<pc, outcome, effects, refusals>>
      BY <2>2 DEF Loop, OnConnect, OnRejected, OnSubscribe, OnPuback, OnMessage,
                  OnInvalidMessage, LoseConnection, Reconnect, Dial, BrokerConnect,
                  BrokerSubscribe, Handles, callerVars, brokerVars
    <3> QED
      BY <3>1, <1>1
  <2>3. CASE \/ Connect(c) \/ Wake(c) \/ Close(c)
             \/ CheckError(c) /\ error[c] = "none"
    <3>1. UNCHANGED <<outcome, effects, refusals>>
      BY <2>3 DEF Connect, Dial, Wake, Close, CheckError, brokerVars
    <3>2. \A d \in Calls : pc'[d] = "idle" <=> pc[d] = "idle"
      <4>1. pc \in [Calls -> Pc]
        BY DEF IInv
      <4>2. PICK where \in Pc \ {"idle"} : pc' = [pc EXCEPT ![c] = where] /\ pc[c] # "idle"
        BY <2>3 DEF Connect, Wake, Close, CheckError, Pc
      <4> QED
        BY <4>1, <4>2
    <3> QED
      BY <3>1, <3>2, <1>1
  <2>4. CASE Call(c)
    <3>1. /\ pc[c] = "idle" /\ pc' = [pc EXCEPT ![c] = "start"]
          /\ UNCHANGED <<outcome, effects, refusals>>
      BY <2>4 DEF Call, brokerVars
    <3>2. outcome[c] = "none" /\ pc \in [Calls -> Pc]
      BY <3>1 DEF IInv, CallInv, Told
    <3>3. Phase(c) = "idle" /\ Phase(c)' = "open"
      BY <3>1, <3>2 DEF Phase
    <3>4. \A d \in Calls : d # c => Phase(d)' = Phase(d)
      BY <3>1, <3>2, PhaseSame
    <3>5. phase' = [phase EXCEPT ![c] = "open"] /\ phase[c] = "idle"
      BY <3>3, <3>4
    <3>6. Abstract!Open(c)
      BY <3>1, <3>5 DEF Abstract!Open
    <3> QED
      BY <3>6 DEF Abstract!Next
  <2>5. CASE \/ ConnectFails(c) \/ Timeout(c) \/ ReadResponse(c)
             \/ CheckError(c) /\ error[c] # "none"
    <3>1. PICK what \in Outcomes \ {"none"} :
              /\ outcome' = [outcome EXCEPT ![c] = what]
              /\ pc' = [pc EXCEPT ![c] = "close"]
              /\ pc[c] \in {"start", "wait", "read", "check"}
              /\ UNCHANGED <<effects, refusals>>
      <4>1. error[c] # "none" => error[c] \in Outcomes \ {"none"}
        BY DEF IInv, Outcomes
      <4>2. {"unavailable", "timeout", "ok", "refused"} \subseteq Outcomes \ {"none"}
        BY DEF Outcomes
      <4> QED
        BY <2>5, <4>1, <4>2 DEF ConnectFails, Timeout, ReadResponse, CheckError, Decide,
                                brokerVars
    <3>2. outcome[c] = "none" /\ pc \in [Calls -> Pc] /\ outcome \in [Calls -> Outcomes]
      BY <3>1 DEF IInv, CallInv, Told
    <3> DEFINE answer == IF what \in {"ok", "refused"} THEN what ELSE "unknown"
    <3>3. Phase(c) = "open"
      BY <3>1, <3>2 DEF Phase
    <3>4. Phase(c)' = answer
      BY <3>1, <3>2 DEF Phase, Outcomes
    <3>5. \A d \in Calls : d # c => Phase(d)' = Phase(d)
      BY <3>1, <3>2, PhaseSame
    <3>6. phase' = [phase EXCEPT ![c] = answer] /\ phase[c] = "open"
      BY <3>3, <3>4, <3>5
    <3>7. (answer = "ok" => effects[c] > 0) /\ (answer = "refused" => refusals[c] > 0)
      <4>1. outcome'[c] = what
        BY <3>1, <3>2
      <4>2. /\ what = "ok" => effects'[c] > 0
            /\ what = "refused" => refusals'[c] > 0
        BY <4>1 DEF IInv, CallInv, Answers, Done, Verdicts
      <4> QED
        BY <4>2, <3>1
    <3>8. answer \in {"ok", "refused", "unknown"}
      OBVIOUS
    <3> HIDE DEF answer
    <3>9. Abstract!Answer(c, answer)
      BY <3>1, <3>6, <3>7 DEF Abstract!Answer, Abstract!MayAnswer
    <3> QED
      BY <3>8, <3>9 DEF Abstract!Next, Abstract!Answers
  <2>6. CASE BrokerExecute(c)
    <3>1. /\ UNCHANGED <<pc, outcome>> /\ Handles(c, "publish")
          /\ \/ effects' = [effects EXCEPT ![c] = @ + 1] /\ UNCHANGED refusals
             \/ refusals' = [refusals EXCEPT ![c] = @ + 1] /\ UNCHANGED effects
      BY <2>6 DEF BrokerExecute, Handles, callerVars
    <3>2. \A d \in Calls : Phase(d)' = Phase(d)
      BY <3>1, PhaseSame
    <3>3. UNCHANGED phase
      BY <3>2
    <3>4. First(c, "publish") /\ Len(toBroker[c]) \in Nat /\ Len(toBroker[c]) >= 1
      BY <3>1, Handled DEF IInv
    <3>5. Queued(c) >= 1
      BY <3>4 DEF Queued, First
    <3>6. effects[c] + refusals[c] < MaxExecutions
      BY <3>5, Tally DEF MaxExecutions, Triangle
    <3>7. phase[c] # "idle"
      <4>1. pc[c] # "idle"
        BY <3>4 DEF IInv, CallInv, Told, Shape, First
      <4> QED
        BY <4>1 DEF Phase
    <3>8. Abstract!MayExecute(c)
      BY <3>6, <3>7 DEF Abstract!MayExecute
    <3>9. Abstract!Apply(c) \/ Abstract!Refuse(c)
      BY <3>1, <3>3, <3>8 DEF Abstract!Apply, Abstract!Refuse
    <3> QED
      BY <3>9 DEF Abstract!Next
  <2> QED
    BY <2>1, <2>2, <2>3, <2>4, <2>5, <2>6 DEF Caller, Broker
<1> QED
  BY <1>2, <1>3

\* command() implements ControlCall: what it returns is what the broker did.
THEOREM CallImplements == Spec => ImplementsControlCall
<1>1. IInv /\ IInv' /\ [Next]_vars => [Abstract!Next]_(Abstract!vars)
  BY AbstractStep
<1> QED
  BY <1>1, AbstractInit, Invariant, PTL DEF ImplementsControlCall, Spec, Abstract!Spec

===============================================================================
