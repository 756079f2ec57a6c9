----------------------------- MODULE HttpProofs -----------------------------
(***************************************************************************)
(* The http server, for any number of requests and connections: types,     *)
(* completions, the chain of connections with its one receiver, and        *)
(* answers that belong to their request.                                   *)
(***************************************************************************)
EXTENDS HttpServer, FiniteSetTheorems, TLAPS

USE DEF Connections

(***************************************************************************)
(* The inductive invariant.  A connection's call is still pending, or its  *)
(* one completion is on the port; what that says depends on the operation. *)
(***************************************************************************)
Expecting(c, w) == waiting[c] = w /\ packets[c] = << >>
Holding(c, x) == waiting[c] = "nothing" /\ packets[c] = << x >>

(* The request left the queue: a connection got it, or its client left.    *)
Known(r) == request[r] \notin {"absent", "queued"}
TooBigCame == \E r \in Big : Known(r)

ReceiveResult(x) ==
  \/ x.ec = "ok" /\ x.req \in Requests
  \/ x.ec = "more" /\ x.req = NoRequest /\ TooBigCame

Receiving(c) ==
  Expecting(c, "request") \/ \E x \in Completion : Holding(c, x) /\ ReceiveResult(x)
Reading(c) ==
  /\ req[c] \in Requests
  /\ Expecting(c, req[c]) \/ \E x \in Completion : Holding(c, x) /\ x.len <= arrived[req[c]]
Sending(c) == req[c] \in Requests /\ \E x \in Completion : Holding(c, x)

OpInv(c) ==
  /\ op[c] = "none" => Expecting(c, "nothing")
  /\ op[c] = "receive" => Receiving(c)
  /\ op[c] = "body" => Reading(c)
  /\ op[c] = "send" => Sending(c)

(* A request has one connection, which got it from the queue, ...          *)
ServesInv(r) ==
  \A c \in Connections : Serves(c, r) =>
    Known(r) /\ \A d \in Connections : Serves(d, r) => d = c

(* ... and one answer at most.                                             *)
AnswerInv(r) ==
  IF request[r] = "answered"
    THEN \E a \in Answer : answers[r] = << a >> /\ a.req = r /\ a.len <= arrived[r]
    ELSE answers[r] = << >>

(* The chain: one connection receives or one is to be started; neither,    *)
(* only if the server does not run or a big request broke the chain.       *)
ChainInv ==
  /\ Receivers = {} \/ (spawning = {} /\ \E c \in Connections : Receivers = {c})
  /\ spawning = {} \/ \E c \in Connections : spawning = {c}
  /\ ~started => Receivers = {} /\ spawning = {}
  /\ started /\ Receivers = {} /\ spawning = {} => TooBigCame

HttpInv ==
  /\ TypeOK
  /\ \A c \in Connections : OpInv(c)
  /\ \A r \in Requests : ServesInv(r) /\ AnswerInv(r)
  /\ ChainInv

-----------------------------------------------------------------------------
(* The completion port.                                                    *)

Port == [Ops -> Seq(Completion)]

LEMMA ResultFacts ==
  ASSUME NEW e \in Error, NEW r \in Requests \cup {NoRequest}, NEW n \in Nat
  PROVE  /\ Result(e, r, n) \in Completion
         /\ Result(e, r, n).ec = e /\ Result(e, r, n).req = r /\ Result(e, r, n).len = n
BY DEF Result, Completion

LEMMA OneResult ==
  ASSUME NEW x \in Completion
  PROVE  /\ Append(<< >>, x) = << x >>
         /\ Tail(<< x >>) = << >> /\ Head(<< x >>) = x /\ << x >> # << >>
         /\ Len(<< x >>) = 1 /\ DOMAIN << x >> = {1} /\ << x >>[1] = x
         /\ << >> \in Seq(Completion) /\ << x >> \in Seq(Completion)
OBVIOUS

LEMMA PostedFacts ==
  ASSUME NEW port \in Port, NEW c \in Connections, NEW x \in Completion, port[c] = << >>
  PROVE  /\ Posted(port, c, x) \in Port
         /\ Posted(port, c, x)[c] = << x >>
         /\ \A d \in Connections \ {c} : Posted(port, c, x)[d] = port[d]
BY OneResult DEF Posted, Port

LEMMA TakenFacts ==
  ASSUME NEW port \in Port, NEW c \in Connections, NEW x \in Completion, port[c] = << x >>
  PROVE  /\ Taken(port, c) \in Port
         /\ Taken(port, c)[c] = << >>
         /\ \A d \in Connections \ {c} : Taken(port, c)[d] = port[d]
BY OneResult DEF Taken, Port

(* Which requests a connection serves, by its operation.                   *)
LEMMA ServesFacts ==
  ASSUME NEW c \in Connections, NEW r \in Requests
  PROVE  /\ op[c] = "none" => ~Serves(c, r)
         /\ op[c] = "receive" /\ packets[c] = << >> => ~Serves(c, r)
         /\ \A x \in Completion :
              op[c] = "receive" /\ packets[c] = << x >> => (Serves(c, r) <=> x.req = r)
         /\ op[c] \in {"body", "send"} => (Serves(c, r) <=> req[c] = r)
<1>1. packets[c] = << >> => DOMAIN packets[c] = {}
  OBVIOUS
<1>2. ASSUME NEW x \in Completion, packets[c] = << x >>
      PROVE  DOMAIN packets[c] = {1} /\ packets[c][1] = x
  BY <1>2, OneResult
<1> QED
  BY <1>1, <1>2 DEF Serves

-----------------------------------------------------------------------------
(* What a step leaves alone.                                               *)

(* Bodies only grow, and a request never returns to the queue.             *)
Progress == \A r \in Requests : arrived[r] <= arrived'[r] /\ (Known(r) => Known(r)')

SameConnection(c) ==
  /\ op'[c] = op[c] /\ req'[c] = req[c]
  /\ waiting'[c] = waiting[c] /\ packets'[c] = packets[c]

LEMMA FrameOp ==
  ASSUME TypeOK, TypeOK', Progress, NEW c \in Connections, OpInv(c), SameConnection(c)
  PROVE  OpInv(c)'
<1>1. Expecting(c, "nothing") => Expecting(c, "nothing")'
  BY DEF Expecting, SameConnection
<1>2. Receiving(c) => Receiving(c)'
  <2>1. TooBigCame => TooBigCame'
    BY KindsAssumption DEF TooBigCame, Progress
  <2> QED
    BY <2>1 DEF Receiving, ReceiveResult, Expecting, Holding, SameConnection
<1>3. Reading(c) => Reading(c)'
  <2>1. ASSUME req[c] \in Requests, NEW x \in Completion, x.len <= arrived[req[c]]
        PROVE  x.len <= arrived'[req[c]]
    BY <2>1 DEF Progress, Completion, TypeOK, HttpSysTypeOK
  <2> QED
    BY <2>1 DEF Reading, Expecting, Holding, SameConnection
<1>4. Sending(c) => Sending(c)'
  BY DEF Sending, Holding, SameConnection
<1> QED
  BY <1>1, <1>2, <1>3, <1>4 DEF OpInv, SameConnection

LEMMA FrameServes ==
  ASSUME NEW c \in Connections, NEW r \in Requests, SameConnection(c)
  PROVE  Serves(c, r)' <=> Serves(c, r)
BY DEF Serves, SameConnection

(* A step of one connection, which can only take a request from the queue. *)
LEMMA OneConnection ==
  ASSUME HttpInv, TypeOK', Progress,
         NEW c \in Connections, OpInv(c)',
         \A d \in Connections \ {c} : SameConnection(d),
         \A r \in Requests : Serves(c, r)' => Known(r)' /\ (Serves(c, r) \/ ~Known(r))
  PROVE  (\A d \in Connections : OpInv(d)') /\ (\A r \in Requests : ServesInv(r)')
<1>1. \A d \in Connections : OpInv(d)'
  BY FrameOp DEF HttpInv
<1>2. ASSUME NEW r \in Requests, NEW d \in Connections, Serves(d, r)',
             NEW e \in Connections, Serves(e, r)'
      PROVE  Known(r)' /\ d = e
  <2>1. ASSUME NEW b \in Connections \ {c}, Serves(b, r)'
        PROVE  Serves(b, r) /\ Known(r) /\ \A a \in Connections : Serves(a, r) => a = b
    BY <2>1, FrameServes DEF HttpInv, ServesInv
  <2> QED
    BY <1>2, <2>1 DEF Progress
<1>3. \A r \in Requests : ServesInv(r)'
  BY <1>2 DEF ServesInv
<1> QED
  BY <1>1, <1>3

LEMMA FrameAnswer ==
  ASSUME TypeOK, TypeOK', Progress, NEW r \in Requests, AnswerInv(r),
         answers'[r] = answers[r], request'[r] = "answered" <=> request[r] = "answered"
  PROVE  AnswerInv(r)'
<1>1. ASSUME NEW a \in Answer, a.len <= arrived[r] PROVE a.len <= arrived'[r]
  BY <1>1 DEF Progress, Answer, TypeOK, HttpSysTypeOK
<1> QED
  BY <1>1 DEF AnswerInv

LEMMA FrameChain ==
  ASSUME TypeOK, TypeOK', Progress, ChainInv,
         UNCHANGED <<spawning, started>>, Receivers' = Receivers
  PROVE  ChainInv'
BY KindsAssumption DEF ChainInv, TooBigCame, Progress

-----------------------------------------------------------------------------
(* The calls, made by a connection c that has nothing outstanding; `port'  *)
(* is the port without the packet its handler took.                        *)

Ready(c, port) == port \in Port /\ waiting[c] = "nothing" /\ port[c] = << >>
OthersKeep(c, port) ==
  \A d \in Connections \ {c} : waiting'[d] = waiting[d] /\ packets'[d] = port[d]

LEMMA ReceiveRequestCall ==
  ASSUME TypeOK, NEW c \in Connections, NEW port, Ready(c, port),
         async_recieve_request(c, port)
  PROVE  /\ HttpSysTypeOK' /\ Progress /\ OthersKeep(c, port)
         /\ UNCHANGED <<registered, arrived, answers>>
         /\ \/ Expecting(c, "request")' /\ UNCHANGED request
            \/ \E r \in Requests :
                 /\ request[r] = "queued"
                 /\ request' = [request EXCEPT ![r] = "held"]
                 /\ Received(r) \in Completion /\ Holding(c, Received(r))'
<1> USE DEF TypeOK, HttpSysTypeOK, Ready
<1>1. UNCHANGED <<registered, arrived, answers>>
  BY DEF async_recieve_request
<1>2. CASE \E r \in Requests :
             /\ request[r] = "queued" /\ request' = [request EXCEPT ![r] = "held"]
             /\ packets' = Posted(port, c, Received(r)) /\ UNCHANGED waiting
  <2>1. PICK r \in Requests :
             /\ request[r] = "queued" /\ request' = [request EXCEPT ![r] = "held"]
             /\ packets' = Posted(port, c, Received(r)) /\ UNCHANGED waiting
    BY <1>2
  <2>2. Received(r) \in Completion
    BY ResultFacts DEF Received, Error
  <2>3. /\ packets' \in Port /\ packets'[c] = << Received(r) >>
        /\ \A d \in Connections \ {c} : packets'[d] = port[d]
    BY <2>1, <2>2, PostedFacts
  <2>4. HttpSysTypeOK' /\ Progress
    BY <1>1, <2>1, <2>3 DEF RequestState, Progress, Known, Port
  <2> QED
    BY <1>1, <2>1, <2>2, <2>3, <2>4 DEF OthersKeep, Holding
<1>3. CASE Await(c, "request") /\ packets' = port /\ UNCHANGED request
  <2>1. HttpSysTypeOK' /\ Progress
    BY <1>1, <1>3 DEF Await, Wait, Progress, Known, Port
  <2> QED
    BY <1>1, <1>3, <2>1 DEF Await, OthersKeep, Expecting
<1> QED
  BY <1>2, <1>3 DEF async_recieve_request

LEMMA ReceiveBodyCall ==
  ASSUME TypeOK, NEW c \in Connections, NEW r \in Requests, NEW port, Ready(c, port),
         async_recieve_body(c, r, port)
  PROVE  /\ HttpSysTypeOK' /\ Progress /\ OthersKeep(c, port)
         /\ UNCHANGED <<registered, request, arrived, answers>>
         /\ \/ Expecting(c, r)'
            \/ \E x \in Completion : Holding(c, x)' /\ x.len <= arrived[r]
<1> USE DEF TypeOK, HttpSysTypeOK, Ready
<1>1. UNCHANGED <<registered, request, arrived, answers>> /\ Progress
  BY DEF async_recieve_body, Progress, Known
<1>2. ASSUME NEW x \in Completion, x.len <= arrived[r],
             packets' = Posted(port, c, x), UNCHANGED waiting
      PROVE  HttpSysTypeOK' /\ OthersKeep(c, port) /\ Holding(c, x)'
  BY <1>1, <1>2, PostedFacts DEF OthersKeep, Holding, Port
<1>3. CASE Await(c, r) /\ packets' = port
  BY <1>1, <1>3 DEF Await, Wait, OthersKeep, Expecting, Port
<1>4. CASE /\ arrived[r] > 0 \/ Ended(r)
           /\ packets' = Posted(port, c, Result("ok", r, IF Size[r] = 0 THEN 0 ELSE 1))
           /\ UNCHANGED waiting
  <2> DEFINE n == IF Size[r] = 0 THEN 0 ELSE 1
  <2>1. n \in Nat /\ n <= arrived[r]
    BY <1>4, SizeAssumption DEF Ended, Arrivals
  <2> HIDE DEF n
  <2>2. "ok" \in Error /\ r \in Requests \cup {NoRequest}
    BY DEF Error
  <2>3. Result("ok", r, n) \in Completion /\ Result("ok", r, n).len = n
    BY <2>1, <2>2, ResultFacts
  <2> QED
    BY <1>1, <1>2, <1>4, <2>1, <2>3 DEF n
<1>5. CASE packets' = Posted(port, c, Result("gone", r, 0)) /\ UNCHANGED waiting
  <2>1. "gone" \in Error /\ r \in Requests \cup {NoRequest} /\ 0 <= arrived[r]
    BY DEF Error
  <2>2. Result("gone", r, 0) \in Completion /\ Result("gone", r, 0).len = 0
    BY <2>1, ResultFacts
  <2> QED
    BY <1>1, <1>2, <1>5, <2>1, <2>2
<1> QED
  BY <1>3, <1>4, <1>5 DEF async_recieve_body

LEMMA SendResponseCall ==
  ASSUME TypeOK, NEW c \in Connections, NEW r \in Requests, NEW answer \in Answer,
         NEW port, Ready(c, port), AnswerInv(r),
         async_send_response(c, r, answer, port)
  PROVE  /\ HttpSysTypeOK' /\ Progress /\ OthersKeep(c, port)
         /\ UNCHANGED <<registered, arrived>>
         /\ \E x \in Completion : Holding(c, x)'
         /\ \/ UNCHANGED <<request, answers>>
            \/ /\ request[r] = "held"
               /\ request' = [request EXCEPT ![r] = "answered"]
               /\ answers' = [answers EXCEPT ![r] = << answer >>]
<1> USE DEF TypeOK, HttpSysTypeOK, Ready
<1>1. UNCHANGED <<registered, arrived, waiting>>
  BY DEF async_send_response
<1>2. \E e \in Error : packets' = Posted(port, c, Result(e, r, 0))
  BY DEF async_send_response, Error
<1>3. \E x \in Completion : packets' = Posted(port, c, x)
  BY <1>2, ResultFacts
<1>4. packets' \in Port /\ OthersKeep(c, port) /\ \E x \in Completion : Holding(c, x)'
  BY <1>1, <1>3, PostedFacts DEF OthersKeep, Holding
<1>5. CASE request[r] # "held" /\ UNCHANGED <<request, answers>>
  BY <1>1, <1>4, <1>5 DEF Progress, Known, Port
<1>6. CASE /\ request[r] = "held" /\ request' = [request EXCEPT ![r] = "answered"]
           /\ answers' = [answers EXCEPT ![r] = Append(@, answer)]
  <2>1. answers[r] = << >> /\ Append(<< >>, answer) = << answer >> /\ << answer >> \in Seq(Answer)
    BY <1>6 DEF AnswerInv
  <2>2. answers' = [answers EXCEPT ![r] = << answer >>]
    BY <1>6, <2>1
  <2>3. HttpSysTypeOK' /\ Progress
    BY <1>1, <1>4, <1>6, <2>1, <2>2 DEF Progress, Known, Port, RequestState
  <2> QED
    BY <1>1, <1>4, <1>6, <2>2, <2>3
<1> QED
  BY <1>5, <1>6 DEF async_send_response

-----------------------------------------------------------------------------
(* The initial states, and the steps of the program.                       *)

LEMMA InitHttpInv == Init => HttpInv
<1> SUFFICES ASSUME Init PROVE HttpInv
  OBVIOUS
<1> USE DEF Init, HttpSysInit
<1>1. TypeOK
  <2>1. << >> \in Seq(Completion) /\ << >> \in Seq(Answer)
    OBVIOUS
  <2> QED
    BY <2>1 DEF TypeOK, HttpSysTypeOK, Operation, RequestState, Wait
<1>2. \A c \in Connections : OpInv(c)
  BY DEF OpInv, Expecting
<1>3. \A r \in Requests : ServesInv(r) /\ AnswerInv(r)
  <2>1. \A r \in Requests, c \in Connections : op[c] = "none" /\ ~Serves(c, r)
    BY ServesFacts
  <2> QED
    BY <2>1 DEF ServesInv, AnswerInv
<1>4. ChainInv
  BY DEF ChainInv, Receivers
<1> QED
  BY <1>1, <1>2, <1>3, <1>4 DEF HttpInv

NewConnectionAt(c) ==
  /\ async_recieve_request(c, packets)
  /\ op' = [op EXCEPT ![c] = "receive"]
  /\ req' = [req EXCEPT ![c] = NoRequest]

LEMMA TakesFree == NewConnection => \E c \in Free : NewConnectionAt(c)
<1>1. Free # {} => (CHOOSE free \in Free : TRUE) \in Free
  OBVIOUS
<1> QED
  BY <1>1 DEF NewConnection, NewConnectionAt

(* What a handler finds: its operation ended with one result.              *)
LEMMA HandlerFacts ==
  ASSUME HttpInv, NEW c \in Connections, packets[c] # << >>, op[c] # "none"
  PROVE  /\ Ready(c, Taken(packets, c))
         /\ \A d \in Connections \ {c} : Taken(packets, c)[d] = packets[d]
         /\ \E x \in Completion :
              /\ packets[c] = << x >> /\ Head(packets[c]) = x
              /\ op[c] = "receive" => ReceiveResult(x)
              /\ op[c] = "body" => req[c] \in Requests /\ x.len <= arrived[req[c]]
              /\ op[c] = "send" => req[c] \in Requests
<1>1. OpInv(c) /\ op[c] \in Operation /\ packets \in Port
  BY DEF HttpInv, TypeOK, HttpSysTypeOK, Port
<1>2. PICK x \in Completion :
        /\ Holding(c, x)
        /\ op[c] = "receive" => ReceiveResult(x)
        /\ op[c] = "body" => req[c] \in Requests /\ x.len <= arrived[req[c]]
        /\ op[c] = "send" => req[c] \in Requests
  BY <1>1 DEF OpInv, Receiving, Reading, Sending, Expecting, Operation
<1> QED
  BY <1>1, <1>2, OneResult, TakenFacts DEF Holding, Ready

(* A new connection on a free block.                                       *)
LEMMA NewConnectionStep ==
  ASSUME HttpInv, NEW c \in Free, NewConnectionAt(c),
         spawning' \in SUBSET Connections, started' \in BOOLEAN
  PROVE  /\ TypeOK' /\ Progress
         /\ \A d \in Connections : OpInv(d)'
         /\ \A r \in Requests : ServesInv(r)' /\ AnswerInv(r)'
         /\ Receivers' = Receivers \cup {c}
         /\ \A d \in Connections \ {c} : SameConnection(d)
         /\ \/ UNCHANGED request /\ \A q \in Requests : ~Serves(c, q)'
            \/ \E r \in Requests :
                 /\ request[r] = "queued"
                 /\ request' = [request EXCEPT ![r] = "held"]
                 /\ \A q \in Requests : Serves(c, q)' <=> q = r /\ r \notin Big
<1>1. c \in Connections /\ op[c] = "none" /\ TypeOK /\ Expecting(c, "nothing")
  BY DEF Free, HttpInv, OpInv
<1>2. Ready(c, packets)
  BY <1>1 DEF Ready, Expecting, Port, TypeOK, HttpSysTypeOK
<1>3. /\ HttpSysTypeOK' /\ Progress /\ OthersKeep(c, packets)
      /\ UNCHANGED <<registered, arrived, answers>>
      /\ \/ Expecting(c, "request")' /\ UNCHANGED request
         \/ \E r \in Requests :
              /\ request[r] = "queued"
              /\ request' = [request EXCEPT ![r] = "held"]
              /\ Received(r) \in Completion /\ Holding(c, Received(r))'
  BY <1>1, <1>2, ReceiveRequestCall DEF NewConnectionAt
<1>4. /\ op'[c] = "receive" /\ \A d \in Connections \ {c} : SameConnection(d)
      /\ Receivers' = Receivers \cup {c}
  BY <1>1, <1>3 DEF NewConnectionAt, OthersKeep, SameConnection, Receivers, TypeOK
<1>5. TypeOK'
  BY <1>1, <1>3 DEF TypeOK, NewConnectionAt, Operation
<1>6. /\ OpInv(c)'
      /\ \/ UNCHANGED request /\ \A q \in Requests : ~Serves(c, q)'
         \/ \E r \in Requests :
              /\ request[r] = "queued" /\ request'[r] = "held"
              /\ request' = [request EXCEPT ![r] = "held"]
              /\ \A q \in Requests : Serves(c, q)' <=> q = r /\ r \notin Big
  <2>1. CASE Expecting(c, "request")' /\ UNCHANGED request
    <3>1. op'[c] = "receive" /\ packets'[c] = << >>
      BY <1>4, <2>1 DEF Expecting
    <3>2. \A r \in Requests : ~Serves(c, r)'
      BY <3>1 DEF Serves
    <3> QED
      BY <2>1, <3>1, <3>2 DEF OpInv, Receiving
  <2>2. ASSUME NEW r \in Requests, request[r] = "queued",
               request' = [request EXCEPT ![r] = "held"],
               Received(r) \in Completion, Holding(c, Received(r))'
        PROVE  /\ OpInv(c)' /\ request'[r] = "held"
               /\ \A q \in Requests : Serves(c, q)' <=> q = r /\ r \notin Big
    <3>1. request'[r] = "held"
      BY <1>1, <2>2 DEF TypeOK, HttpSysTypeOK
    <3>2. /\ r \in Big => Received(r).ec = "more" /\ Received(r).req = NoRequest
          /\ r \notin Big => Received(r).ec = "ok" /\ Received(r).req = r
      BY DEF Received, Result
    <3>3. OpInv(c)'
      BY <1>4, <2>2, <3>1, <3>2 DEF OpInv, Receiving, ReceiveResult, TooBigCame, Known
    <3>4. \A q \in Requests : Serves(c, q)' <=> Received(r).req = q
      <4>1. packets'[c] = << Received(r) >> /\ DOMAIN packets'[c] = {1}
            /\ packets'[c][1] = Received(r)
        BY <2>2, OneResult DEF Holding
      <4> QED
        BY <1>4, <4>1 DEF Serves
    <3> QED
      BY <3>1, <3>2, <3>3, <3>4, NoRequestAssumption
  <2> QED
    BY <1>3, <2>1, <2>2
<1>7. (\A d \in Connections : OpInv(d)') /\ (\A r \in Requests : ServesInv(r)')
  <2>1. \A q \in Requests : Serves(c, q)' => Known(q)' /\ ~Known(q)
    BY <1>6 DEF Known
  <2> QED
    BY <1>1, <1>3, <1>4, <1>5, <1>6, <2>1, OneConnection
<1>8. \A r \in Requests : request'[r] = "answered" <=> request[r] = "answered"
  BY <1>1, <1>3 DEF TypeOK, HttpSysTypeOK
<1>9. \A r \in Requests : AnswerInv(r)'
  BY <1>1, <1>3, <1>5, <1>8, FrameAnswer DEF HttpInv
<1> QED
  BY <1>3, <1>4, <1>5, <1>6, <1>7, <1>9

LEMMA StartInv == HttpInv /\ Start => HttpInv'
<1> SUFFICES ASSUME HttpInv, Start PROVE HttpInv'
  OBVIOUS
<1>1. PICK c \in Free : NewConnectionAt(c)
  BY TakesFree DEF Start
<1>2. spawning' = {} /\ started' = TRUE /\ Receivers = {}
  BY DEF Start, HttpInv, ChainInv
<1>3. c \in Connections /\ Receivers' = {c}
  BY <1>1, <1>2, NewConnectionStep DEF Free
<1>4. ChainInv'
  BY <1>2, <1>3 DEF ChainInv
<1> QED
  BY <1>1, <1>2, <1>4, NewConnectionStep DEF HttpInv

LEMMA StartNextInv ==
  ASSUME HttpInv, NEW c \in Connections, StartNext(c)
  PROVE  HttpInv'
<1>1. PICK d \in Free : NewConnectionAt(d)
  BY TakesFree DEF StartNext
<1>2. spawning = {c} /\ Receivers = {} /\ started
  BY DEF StartNext, HttpInv, ChainInv, TypeOK
<1>3. spawning' = {} /\ started' = TRUE
  BY <1>2 DEF StartNext, HttpInv, TypeOK
<1>4. d \in Connections /\ Receivers' = {d}
  BY <1>1, <1>2, <1>3, NewConnectionStep DEF Free
<1>5. ChainInv'
  BY <1>3, <1>4 DEF ChainInv
<1> QED
  BY <1>1, <1>3, <1>5, NewConnectionStep DEF HttpInv

-----------------------------------------------------------------------------
(* The completion handlers.                                                *)

(* self goes, and with it the block.                                       *)
LEMMA ReleaseStep ==
  ASSUME HttpInv, NEW c \in Connections, op[c] # "none", packets[c] # << >>, Release(c)
  PROVE  /\ TypeOK' /\ Progress
         /\ \A d \in Connections : OpInv(d)'
         /\ \A r \in Requests : ServesInv(r)' /\ AnswerInv(r)'
         /\ Receivers' = Receivers \ {c}
         /\ UNCHANGED request /\ \A r \in Requests : ~Serves(c, r)'
         /\ \A d \in Connections \ {c} : SameConnection(d)
<1>1. /\ Ready(c, Taken(packets, c)) /\ TypeOK
      /\ \A d \in Connections \ {c} : Taken(packets, c)[d] = packets[d]
  BY HandlerFacts DEF HttpInv
<1>2. /\ UNCHANGED <<registered, request, arrived, answers, waiting, req, spawning, started>>
      /\ op' = [op EXCEPT ![c] = "none"] /\ packets' \in Port /\ packets'[c] = << >>
      /\ \A d \in Connections \ {c} : packets'[d] = packets[d]
  BY <1>1 DEF Release, Ready
<1>3. TypeOK'
  BY <1>1, <1>2 DEF TypeOK, HttpSysTypeOK, Operation, Port
<1>4. Progress
  BY <1>1, <1>2 DEF Progress, Known, TypeOK, HttpSysTypeOK
<1>5. /\ op'[c] = "none" /\ \A d \in Connections \ {c} : SameConnection(d)
      /\ Receivers' = Receivers \ {c}
  BY <1>1, <1>2 DEF SameConnection, Receivers, TypeOK
<1>6. OpInv(c)'
  BY <1>1, <1>2, <1>5 DEF OpInv, Expecting, Ready
<1>7. \A r \in Requests : ~Serves(c, r)'
  BY <1>5 DEF Serves
<1>8. (\A d \in Connections : OpInv(d)') /\ (\A r \in Requests : ServesInv(r)')
  BY <1>3, <1>4, <1>5, <1>6, <1>7, OneConnection
<1>9. \A r \in Requests : AnswerInv(r)'
  BY <1>1, <1>2, <1>3, <1>4, FrameAnswer DEF HttpInv
<1> QED
  BY <1>2, <1>3, <1>4, <1>5, <1>7, <1>8, <1>9

LEMMA ReceiveHandlerStep ==
  ASSUME HttpInv, NEW c \in Connections, ReceiveHandler(c)
  PROVE  /\ HttpInv' /\ UNCHANGED request
         /\ \A d \in Connections, q \in Requests : Serves(d, q)' <=> Serves(d, q)
<1>1. op[c] = "receive" /\ packets[c] # << >> /\ TypeOK
  BY DEF ReceiveHandler, Completed, HttpInv
<1>2. PICK x \in Completion :
        packets[c] = << x >> /\ Head(packets[c]) = x /\ ReceiveResult(x)
  BY <1>1, HandlerFacts
<1>3. Receivers = {c} /\ spawning = {}
  BY <1>1 DEF HttpInv, ChainInv, Receivers
<1>4. CASE Ec(c) # "ok" /\ Release(c)
  <2>1. TooBigCame /\ Receivers' = {} /\ spawning' = {} /\ Progress
    BY <1>1, <1>2, <1>3, <1>4, ReleaseStep DEF Ec, ReceiveResult, Release
  <2>2. ChainInv'
    BY <2>1, KindsAssumption DEF ChainInv, TooBigCame, Progress
  <2>3. \A q \in Requests : ~Serves(c, q) /\ ~Serves(c, q)'
    BY <1>1, <1>2, <1>4, ReleaseStep, ServesFacts, NoRequestAssumption DEF Ec, ReceiveResult
  <2>4. \A d \in Connections, q \in Requests : Serves(d, q)' <=> Serves(d, q)
    BY <1>1, <1>4, <2>3, ReleaseStep, FrameServes
  <2> QED
    BY <1>1, <1>4, <2>2, <2>4, ReleaseStep DEF HttpInv
<1>5. CASE Ec(c) = "ok" /\ ~(Ec(c) # "ok" /\ Release(c))
  <2>1. PICK r \in Requests : x.req = r
    BY <1>2, <1>5 DEF Ec, ReceiveResult
  <2>2. /\ req' = [req EXCEPT ![c] = r] /\ op' = [op EXCEPT ![c] = "body"]
        /\ spawning' = {c} /\ UNCHANGED started
        /\ async_recieve_body(c, r, Taken(packets, c))
    BY <1>2, <1>3, <1>5, <2>1 DEF ReceiveHandler
  <2>3. /\ Ready(c, Taken(packets, c))
        /\ \A d \in Connections \ {c} : Taken(packets, c)[d] = packets[d]
    BY <1>1, HandlerFacts
  <2>4. /\ HttpSysTypeOK' /\ Progress /\ OthersKeep(c, Taken(packets, c))
        /\ UNCHANGED <<registered, request, arrived, answers>>
        /\ Expecting(c, r)' \/ \E y \in Completion : Holding(c, y)' /\ y.len <= arrived[r]
    BY <1>1, <2>2, <2>3, ReceiveBodyCall
  <2>5. /\ op'[c] = "body" /\ req'[c] = r /\ Receivers' = {}
        /\ \A d \in Connections \ {c} : SameConnection(d)
    BY <1>1, <1>3, <2>2, <2>3, <2>4 DEF OthersKeep, SameConnection, Receivers, TypeOK
  <2>6. TypeOK'
    BY <1>1, <2>2, <2>4 DEF TypeOK, Operation
  <2>7. OpInv(c)'
    BY <2>4, <2>5 DEF OpInv, Reading
  <2>8. Serves(c, r) /\ Known(r)'
    <3>1. Serves(c, r)
      BY <1>1, <1>2, <2>1, ServesFacts
    <3> QED
      BY <2>4, <3>1 DEF HttpInv, ServesInv, Known
  <2>9. \A q \in Requests : (Serves(c, q)' <=> q = r) /\ (Serves(c, q) <=> q = r)
    BY <1>1, <1>2, <2>1, <2>5, ServesFacts DEF Serves
  <2>10. (\A d \in Connections : OpInv(d)') /\ (\A q \in Requests : ServesInv(q)')
    BY <2>4, <2>5, <2>6, <2>7, <2>8, <2>9, OneConnection
  <2>11. \A q \in Requests : AnswerInv(q)'
    BY <1>1, <2>4, <2>6, FrameAnswer DEF HttpInv
  <2>12. ChainInv'
    BY <1>3, <2>2, <2>5 DEF ChainInv, HttpInv
  <2>13. \A d \in Connections, q \in Requests : Serves(d, q)' <=> Serves(d, q)
    BY <2>5, <2>9, FrameServes
  <2> QED
    BY <2>4, <2>6, <2>10, <2>11, <2>12, <2>13 DEF HttpInv
<1> QED
  BY <1>4, <1>5 DEF ReceiveHandler

(* The connection is done with its request.                                *)
Leaves(c) ==
  /\ op[c] \in {"body", "send"} /\ req[c] \in Requests
  /\ \A q \in Requests : ~Serves(c, q)'
  /\ \A d \in Connections \ {c} : SameConnection(d)
  /\ UNCHANGED request

LEMMA BodyHandlerStep ==
  ASSUME HttpInv, NEW c \in Connections, BodyHandler(c)
  PROVE  /\ HttpInv'
         /\ \/ Leaves(c)
            \/ /\ \A d \in Connections, q \in Requests : Serves(d, q)' <=> Serves(d, q)
               /\ \/ UNCHANGED request
                  \/ /\ req[c] \in Requests /\ Serves(c, req[c]) /\ request[req[c]] = "held"
                     /\ request' = [request EXCEPT ![req[c]] = "answered"]
<1>1. op[c] = "body" /\ packets[c] # << >> /\ TypeOK /\ ChainInv
      /\ req[c] \in Requests /\ Serves(c, req[c])
  BY DEF BodyHandler, Completed, HttpInv, TypeOK, Serves
<1>2. CASE Ec(c) # "ok" /\ Release(c)
  <2>1. Receivers' = Receivers /\ UNCHANGED <<spawning, started>>
    BY <1>1, <1>2, ReleaseStep DEF Receivers, Release
  <2>2. ChainInv'
    BY <1>1, <1>2, <2>1, ReleaseStep, FrameChain
  <2>3. Leaves(c)
    BY <1>1, <1>2, ReleaseStep DEF Leaves
  <2> QED
    BY <1>1, <1>2, <2>2, <2>3, ReleaseStep DEF HttpInv
<1>3. CASE Ec(c) = "ok" /\ ~(Ec(c) # "ok" /\ Release(c))
  <2> DEFINE r == req[c]
             answer == [req |-> r, len |-> Head(packets[c]).len]
  <2>1. /\ r \in Requests /\ Ready(c, Taken(packets, c))
        /\ \A d \in Connections \ {c} : Taken(packets, c)[d] = packets[d]
        /\ Head(packets[c]) \in Completion /\ Head(packets[c]).len <= arrived[r]
    BY <1>1, HandlerFacts
  <2>2. answer \in Answer /\ answer.req = r /\ answer.len <= arrived[r]
    BY <2>1 DEF Answer, Completion
  <2>3. /\ op' = [op EXCEPT ![c] = "send"] /\ UNCHANGED <<req, spawning, started>>
        /\ async_send_response(c, r, answer, Taken(packets, c))
    BY <1>3 DEF BodyHandler
  <2> HIDE DEF r, answer
  <2>4. /\ HttpSysTypeOK' /\ Progress /\ OthersKeep(c, Taken(packets, c))
        /\ UNCHANGED <<registered, arrived>>
        /\ \E x \in Completion : Holding(c, x)'
        /\ \/ UNCHANGED <<request, answers>>
           \/ /\ request[r] = "held"
              /\ request' = [request EXCEPT ![r] = "answered"]
              /\ answers' = [answers EXCEPT ![r] = << answer >>]
    BY <1>1, <2>1, <2>2, <2>3, SendResponseCall DEF HttpInv
  <2>5. /\ op'[c] = "send" /\ req'[c] = r /\ Receivers' = Receivers
        /\ \A d \in Connections \ {c} : SameConnection(d)
    BY <1>1, <2>1, <2>3, <2>4 DEF OthersKeep, SameConnection, Receivers, TypeOK, r
  <2>6. TypeOK'
    BY <1>1, <2>1, <2>3, <2>4 DEF TypeOK, Operation, r
  <2>7. OpInv(c)'
    BY <2>1, <2>4, <2>5 DEF OpInv, Sending
  <2>8. \A q \in Requests : (Serves(c, q)' <=> Serves(c, q)) /\ (Serves(c, q)' => Known(q)')
    <3>1. \A q \in Requests : Serves(c, q)' <=> Serves(c, q)
      BY <1>1, <2>5 DEF Serves, r
    <3> QED
      BY <2>4, <3>1 DEF HttpInv, ServesInv, Progress
  <2>9. (\A d \in Connections : OpInv(d)') /\ (\A q \in Requests : ServesInv(q)')
    BY <2>4, <2>5, <2>6, <2>7, <2>8, OneConnection
  <2>10. ASSUME NEW q \in Requests PROVE AnswerInv(q)'
    <3>1. CASE UNCHANGED <<request, answers>>
      BY <1>1, <2>4, <2>6, <3>1, FrameAnswer DEF HttpInv
    <3>2. CASE /\ request[r] = "held" /\ q = r
               /\ request' = [request EXCEPT ![r] = "answered"]
               /\ answers' = [answers EXCEPT ![r] = << answer >>]
      BY <1>1, <2>1, <2>2, <2>4, <3>2 DEF AnswerInv, TypeOK, HttpSysTypeOK
    <3>3. CASE /\ request[r] = "held" /\ q # r
               /\ request' = [request EXCEPT ![r] = "answered"]
               /\ answers' = [answers EXCEPT ![r] = << answer >>]
      <4>1. answers'[q] = answers[q] /\ request'[q] = request[q]
        BY <1>1, <3>3 DEF TypeOK, HttpSysTypeOK
      <4> QED
        BY <1>1, <2>4, <2>6, <4>1, FrameAnswer DEF HttpInv
    <3> QED
      BY <2>4, <3>1, <3>2, <3>3
  <2>11. ChainInv'
    BY <1>1, <2>3, <2>4, <2>5, <2>6, FrameChain
  <2>12. \A d \in Connections, q \in Requests : Serves(d, q)' <=> Serves(d, q)
    BY <2>5, <2>8, FrameServes
  <2> QED
    BY <1>1, <2>4, <2>6, <2>9, <2>10, <2>11, <2>12 DEF HttpInv, r
<1> QED
  BY <1>2, <1>3 DEF BodyHandler

LEMMA SendHandlerStep ==
  ASSUME HttpInv, NEW c \in Connections, SendHandler(c)
  PROVE  HttpInv' /\ Leaves(c)
<1>1. op[c] = "send" /\ packets[c] # << >> /\ TypeOK /\ ChainInv /\ Release(c)
      /\ req[c] \in Requests /\ Serves(c, req[c])
  BY DEF SendHandler, Completed, HttpInv, TypeOK, Serves
<1>2. Receivers' = Receivers /\ UNCHANGED <<spawning, started>>
  BY <1>1, ReleaseStep DEF Receivers, Release
<1>3. ChainInv'
  BY <1>1, <1>2, ReleaseStep, FrameChain
<1> QED
  BY <1>1, <1>3, ReleaseStep DEF HttpInv, Leaves

-----------------------------------------------------------------------------
(* The queue opens and closes, and the clients.                            *)

LEMMA NothingMoves ==
  ASSUME HttpInv, registered' \in BOOLEAN,
         UNCHANGED <<request, arrived, answers, waiting, packets, connVars>>
  PROVE  HttpInv'
<1>1. TypeOK /\ ChainInv /\ UNCHANGED <<op, req, spawning, started>>
  BY DEF connVars, HttpInv
<1>2. TypeOK'
  BY <1>1 DEF TypeOK, HttpSysTypeOK
<1>3. Progress /\ Receivers' = Receivers /\ \A c \in Connections : SameConnection(c)
  BY <1>1 DEF Progress, Known, Receivers, SameConnection, TypeOK, HttpSysTypeOK
<1>4. \A c \in Connections : OpInv(c)'
  BY <1>1, <1>2, <1>3, FrameOp DEF HttpInv
<1>5. \A r \in Requests : ServesInv(r)' /\ AnswerInv(r)'
  BY <1>1, <1>2, <1>3, FrameServes, FrameAnswer DEF HttpInv, ServesInv, Progress
<1>6. ChainInv'
  BY <1>1, <1>2, <1>3, FrameChain
<1> QED
  BY <1>2, <1>4, <1>5, <1>6 DEF HttpInv

LEMMA ShutdownInv == HttpInv /\ Shutdown => HttpInv'
<1> SUFFICES ASSUME HttpInv, Shutdown PROVE HttpInv'
  OBVIOUS
<1> USE DEF Shutdown, CloseQueue
<1>1. TypeOK /\ spawning = {} /\ UNCHANGED <<spawning, req, arrived, answers>>
  BY DEF HttpInv
<1>2. \A c \in Connections : op'[c] = "none" /\ waiting'[c] = "nothing" /\ packets'[c] = << >>
  OBVIOUS
<1>3. TypeOK'
  <2>1. << >> \in Seq(Completion)
    OBVIOUS
  <2> QED
    BY <1>1, <2>1 DEF TypeOK, HttpSysTypeOK, Operation, RequestState, Wait
<1>4. Progress /\ Receivers' = {}
  BY <1>1, <1>2 DEF Progress, Known, Receivers, TypeOK, HttpSysTypeOK
<1>5. \A c \in Connections : OpInv(c)'
  BY <1>2 DEF OpInv, Expecting
<1>6. \A r \in Requests : ServesInv(r)'
  BY <1>2 DEF ServesInv, Serves
<1>7. \A r \in Requests : request'[r] = "answered" <=> request[r] = "answered"
  BY <1>1 DEF TypeOK, HttpSysTypeOK
<1>8. \A r \in Requests : AnswerInv(r)'
  BY <1>1, <1>3, <1>4, <1>7, FrameAnswer DEF HttpInv
<1>9. ChainInv'
  BY <1>1, <1>4 DEF ChainInv
<1> QED
  BY <1>3, <1>5, <1>6, <1>8, <1>9 DEF HttpInv

(* A call that waits for something is the receive or the read of it.       *)
LEMMA WaitFacts ==
  ASSUME HttpInv, NEW c \in Connections
  PROVE  /\ waiting[c] = "request" => op[c] = "receive" /\ packets[c] = << >>
         /\ \A r \in Requests :
              waiting[c] = r => op[c] = "body" /\ req[c] = r /\ packets[c] = << >>
<1>1. OpInv(c) /\ op[c] \in Operation
  BY DEF HttpInv, TypeOK
<1> QED
  BY <1>1, WaitAssumption
  DEF OpInv, Operation, Receiving, Reading, Sending, Expecting, Holding

LEMMA ArriveStep ==
  ASSUME HttpInv, NEW r \in Requests, Arrive(r), UNCHANGED connVars
  PROVE  /\ HttpInv' /\ request[r] = "absent"
         /\ \/ /\ request' = [request EXCEPT ![r] = "queued"]
               /\ \A c \in Connections, q \in Requests : Serves(c, q)' <=> Serves(c, q)
            \/ /\ request' = [request EXCEPT ![r] = "held"]
               /\ \E c \in Connections :
                    /\ \A d \in Connections \ {c} : SameConnection(d)
                    /\ \A q \in Requests :
                         ~Serves(c, q) /\ (Serves(c, q)' <=> q = r /\ r \notin Big)
<1>1. /\ TypeOK /\ ChainInv /\ request[r] = "absent"
      /\ UNCHANGED <<registered, arrived, answers, op, req, spawning, started>>
  BY DEF Arrive, connVars, HttpInv
<1>2. Receivers' = Receivers
  BY <1>1 DEF Receivers
<1>3. CASE request' = [request EXCEPT ![r] = "queued"] /\ UNCHANGED <<waiting, packets>>
  <2>1. TypeOK' /\ Progress
    BY <1>1, <1>3 DEF TypeOK, HttpSysTypeOK, RequestState, Progress, Known
  <2>2. \A c \in Connections : SameConnection(c)
    BY <1>1, <1>3 DEF SameConnection
  <2>3. \A c \in Connections : OpInv(c)'
    BY <1>1, <2>1, <2>2, FrameOp DEF HttpInv
  <2>4. \A q \in Requests : ServesInv(q)'
    BY <2>1, <2>2, FrameServes DEF HttpInv, ServesInv, Progress
  <2>5. \A q \in Requests : request'[q] = "answered" <=> request[q] = "answered"
    BY <1>1, <1>3 DEF TypeOK, HttpSysTypeOK
  <2>6. \A q \in Requests : AnswerInv(q)'
    BY <1>1, <2>1, <2>5, FrameAnswer DEF HttpInv
  <2> QED
    BY <1>1, <1>2, <1>3, <2>1, <2>2, <2>3, <2>4, <2>6, FrameChain, FrameServes DEF HttpInv
<1>4. ASSUME NEW c \in Connections, waiting[c] = "request", Await(c, "nothing"),
             packets' = Posted(packets, c, Received(r)),
             request' = [request EXCEPT ![r] = "held"]
      PROVE  /\ HttpInv'
             /\ \A d \in Connections \ {c} : SameConnection(d)
             /\ \A q \in Requests :
                  ~Serves(c, q) /\ (Serves(c, q)' <=> q = r /\ r \notin Big)
  <2>1. op[c] = "receive" /\ packets[c] = << >> /\ packets \in Port
    BY <1>1, <1>4, WaitFacts DEF TypeOK, HttpSysTypeOK, Port
  <2>2. /\ Received(r) \in Completion
        /\ r \in Big => Received(r).ec = "more" /\ Received(r).req = NoRequest
        /\ r \notin Big => Received(r).ec = "ok" /\ Received(r).req = r
    BY DEF Received, Result, Completion, Error
  <2>3. /\ packets' \in Port /\ packets'[c] = << Received(r) >>
        /\ \A d \in Connections \ {c} : packets'[d] = packets[d]
    BY <1>4, <2>1, <2>2, PostedFacts
  <2>4. TypeOK' /\ Progress /\ request'[r] = "held" /\ waiting'[c] = "nothing"
    <3>1. request' \in [Requests -> RequestState] /\ request'[r] = "held"
      BY <1>1, <1>4 DEF TypeOK, HttpSysTypeOK, RequestState
    <3>2. waiting' \in [Ops -> Wait] /\ waiting'[c] = "nothing"
      BY <1>1, <1>4 DEF TypeOK, HttpSysTypeOK, Await, Wait
    <3>3. TypeOK'
      BY <1>1, <2>3, <3>1, <3>2 DEF TypeOK, HttpSysTypeOK, Port
    <3>4. Progress
      BY <1>1, <1>4, <3>1 DEF TypeOK, HttpSysTypeOK, Progress, Known
    <3> QED
      BY <3>1, <3>2, <3>3, <3>4
  <2>5. \A d \in Connections \ {c} : SameConnection(d)
    BY <1>1, <1>4, <2>3 DEF SameConnection, Await, TypeOK, HttpSysTypeOK
  <2>6. OpInv(c)'
    BY <1>1, <2>1, <2>2, <2>3, <2>4
    DEF OpInv, Receiving, ReceiveResult, TooBigCame, Known, Holding
  <2>7. \A q \in Requests : ~Serves(c, q) /\ (Serves(c, q)' <=> q = r /\ r \notin Big)
    <3>1. op'[c] = "receive" /\ DOMAIN packets'[c] = {1} /\ packets'[c][1] = Received(r)
      BY <1>1, <2>1, <2>2, <2>3, OneResult
    <3>2. \A q \in Requests : Serves(c, q)' <=> Received(r).req = q
      BY <3>1 DEF Serves
    <3>3. \A q \in Requests : ~Serves(c, q)
      BY <2>1, ServesFacts
    <3> QED
      BY <2>2, <3>2, <3>3, NoRequestAssumption
  <2>8. \A q \in Requests : Serves(c, q)' => Known(q)' /\ ~Known(q)
    BY <1>1, <2>4, <2>7 DEF Known
  <2>9. (\A d \in Connections : OpInv(d)') /\ (\A q \in Requests : ServesInv(q)')
    BY <2>4, <2>5, <2>6, <2>8, OneConnection
  <2>10. \A q \in Requests : request'[q] = "answered" <=> request[q] = "answered"
    BY <1>1, <1>4 DEF TypeOK, HttpSysTypeOK
  <2>11. \A q \in Requests : AnswerInv(q)'
    BY <1>1, <2>4, <2>10, FrameAnswer DEF HttpInv
  <2> QED
    BY <1>1, <1>2, <2>4, <2>5, <2>7, <2>9, <2>11, FrameChain DEF HttpInv
<1> QED
  BY <1>1, <1>3, <1>4 DEF Arrive

(* The reads of one body end together; who serves what stays.              *)
LEMMA WakeStep ==
  ASSUME HttpInv, NEW r \in Requests, NEW x \in Completion, Wake(r, x), UNCHANGED connVars,
         arrived' \in [Requests -> Nat], request' \in [Requests -> RequestState],
         UNCHANGED <<registered, answers>>, Progress, x.len <= arrived'[r],
         \A q \in Requests : request'[q] = "answered" <=> request[q] = "answered"
  PROVE  HttpInv' /\ \A c \in Connections, q \in Requests : Serves(c, q)' <=> Serves(c, q)
<1>1. TypeOK /\ ChainInv /\ UNCHANGED <<op, req, spawning, started>> /\ Receivers' = Receivers
  BY DEF connVars, HttpInv, Receivers
<1>2. ASSUME NEW c \in Connections, waiting[c] = r
      PROVE  /\ op[c] = "body" /\ req[c] = r
             /\ waiting'[c] = "nothing" /\ packets'[c] = << x >>
  BY <1>2, WaitFacts, OneResult DEF Wake
<1>3. ASSUME NEW c \in Connections, waiting[c] # r
      PROVE  SameConnection(c)
  BY <1>1, <1>3 DEF Wake, SameConnection
<1>4. TypeOK'
  <2>1. \A c \in Connections : packets'[c] \in Seq(Completion) /\ waiting'[c] \in Wait
    BY <1>1, <1>2, <1>3, OneResult DEF SameConnection, TypeOK, HttpSysTypeOK, Wait
  <2>2. packets' \in Port /\ waiting' \in [Ops -> Wait]
    BY <2>1 DEF Wake, Port
  <2> QED
    BY <1>1, <2>2 DEF TypeOK, HttpSysTypeOK, Port
<1>5. ASSUME NEW c \in Connections PROVE OpInv(c)'
  <2>1. CASE waiting[c] = r
    BY <1>1, <1>2, <2>1 DEF OpInv, Reading, Holding
  <2>2. CASE waiting[c] # r
    BY <1>1, <1>3, <1>4, <2>2, FrameOp DEF HttpInv
  <2> QED
    BY <2>1, <2>2
<1>6. ASSUME NEW c \in Connections, NEW q \in Requests PROVE Serves(c, q)' <=> Serves(c, q)
  <2>1. CASE waiting[c] = r
    BY <1>1, <1>2, <2>1 DEF Serves
  <2>2. CASE waiting[c] # r
    BY <1>3, <2>2, FrameServes
  <2> QED
    BY <2>1, <2>2
<1>7. \A q \in Requests : ServesInv(q)'
  BY <1>6 DEF HttpInv, ServesInv, Progress
<1>8. \A q \in Requests : AnswerInv(q)'
  BY <1>1, <1>4, FrameAnswer DEF HttpInv
<1>9. ChainInv'
  BY <1>1, <1>4, FrameChain
<1> QED
  BY <1>4, <1>5, <1>6, <1>7, <1>8, <1>9 DEF HttpInv

LEMMA BodyArrivesStep ==
  ASSUME HttpInv, NEW r \in Requests, BodyArrives(r), UNCHANGED connVars
  PROVE  /\ HttpInv' /\ UNCHANGED request
         /\ \A c \in Connections, q \in Requests : Serves(c, q)' <=> Serves(c, q)
<1>1. /\ TypeOK /\ UNCHANGED <<registered, request, answers>>
      /\ arrived' = [arrived EXCEPT ![r] = @ + 1]
  BY DEF BodyArrives, HttpInv
<1> DEFINE x == IF arrived[r] < Size[r] THEN Result("ok", r, 1) ELSE Result("eof", r, 0)
<1>2. Wake(r, x)
  BY DEF BodyArrives
<1>3. arrived' \in [Requests -> Nat] /\ 1 <= arrived'[r] /\ Progress
  BY <1>1 DEF TypeOK, HttpSysTypeOK, Progress, Known
<1>4. x \in Completion /\ x.len <= arrived'[r]
  <2>1. {"ok", "eof"} \subseteq Error /\ r \in Requests \cup {NoRequest} /\ arrived'[r] \in Nat
    BY <1>3 DEF Error
  <2>2. Result("ok", r, 1) \in Completion /\ Result("ok", r, 1).len = 1
    BY <2>1, ResultFacts
  <2>3. Result("eof", r, 0) \in Completion /\ Result("eof", r, 0).len = 0
    BY <2>1, ResultFacts
  <2> QED
    BY <1>3, <2>1, <2>2, <2>3
<1> HIDE DEF x
<1>5. request' \in [Requests -> RequestState]
  BY <1>1 DEF TypeOK, HttpSysTypeOK
<1> QED
  BY <1>1, <1>2, <1>3, <1>4, <1>5, WakeStep

LEMMA AbortStep ==
  ASSUME HttpInv, NEW r \in Requests, Abort(r), UNCHANGED connVars
  PROVE  HttpInv' /\ \A c \in Connections, q \in Requests : Serves(c, q)' <=> Serves(c, q)
<1>1. /\ TypeOK /\ UNCHANGED <<registered, arrived, answers>>
      /\ request[r] \in {"queued", "held"}
      /\ request' = [request EXCEPT ![r] = "aborted"] /\ Wake(r, Result("gone", r, 0))
  BY DEF Abort, HttpInv
<1>2. /\ request' \in [Requests -> RequestState] /\ arrived' \in [Requests -> Nat] /\ Progress
      /\ \A q \in Requests : request'[q] = "answered" <=> request[q] = "answered"
  BY <1>1 DEF TypeOK, HttpSysTypeOK, Progress, Known, RequestState
<1>3. Result("gone", r, 0) \in Completion /\ Result("gone", r, 0).len = 0
  <2>1. "gone" \in Error /\ r \in Requests \cup {NoRequest}
    BY DEF Error
  <2> QED
    BY <2>1, ResultFacts
<1>4. Result("gone", r, 0).len <= arrived'[r]
  BY <1>2, <1>3
<1> QED
  BY <1>1, <1>2, <1>3, <1>4, WakeStep

LEMMA NextHttpInv == HttpInv /\ [Next]_vars => HttpInv'
<1> SUFFICES ASSUME HttpInv, [Next]_vars PROVE HttpInv'
  OBVIOUS
<1>1. CASE OpenQueue \/ UNCHANGED vars
  BY <1>1, NothingMoves
  DEF OpenQueue, vars, httpSysVars, connVars, HttpInv, TypeOK, HttpSysTypeOK
<1>2. CASE \E c \in Connections : Handler(c)
  BY <1>2, ReceiveHandlerStep, StartNextInv, BodyHandlerStep, SendHandlerStep DEF Handler
<1>3. CASE \E r \in Requests : Client(r) /\ UNCHANGED connVars
  BY <1>3, ArriveStep, BodyArrivesStep, AbortStep DEF Client
<1>4. CASE Start \/ Shutdown
  BY <1>4, StartInv, ShutdownInv
<1> QED
  BY <1>1, <1>2, <1>3, <1>4 DEF Next

-----------------------------------------------------------------------------
(* No request is forgotten.                                                *)

(***************************************************************************)
(* What a connection must know of its request so as not to let it go: it   *)
(* waits for a body of which nothing has arrived, so that only the empty   *)
(* body of a chunked request ends with an error, and what it answered is   *)
(* not held any more.                                                      *)
(***************************************************************************)
BodyKept(c) ==
  /\ \A r \in Requests : waiting[c] = r => arrived[r] = 0 /\ ~Ended(r)
  /\ op[c] = "body" /\ packets[c] # << >> =>
       Ec(c) = "ok" \/ request[req[c]] # "held" \/ ~Fits(req[c])
  /\ op[c] = "send" => request[req[c]] # "held"

Kept == NoneForgotten /\ \A c \in Connections : BodyKept(c)

(* A request that was taken from the queue is not received again.          *)
Settles == \A q \in Requests : Known(q) /\ request'[q] = "held" => request[q] = "held"

LEMMA InitKept == Init => Kept
<1> SUFFICES ASSUME Init PROVE Kept
  OBVIOUS
<1> USE DEF Init, HttpSysInit
<1>1. NoneForgotten
  BY DEF NoneForgotten
<1>2. \A c \in Connections : BodyKept(c)
  BY WaitAssumption DEF BodyKept
<1> QED
  BY <1>1, <1>2 DEF Kept

LEMMA FrameKept ==
  ASSUME HttpInv, NEW c \in Connections, BodyKept(c), SameConnection(c), Settles,
         \A r \in Requests : waiting[c] = r => arrived'[r] = arrived[r]
  PROVE  BodyKept(c)'
<1>1. op[c] \in {"body", "send"} => req[c] \in Requests /\ Known(req[c])
  <2>1. op[c] \in {"body", "send"} => req[c] \in Requests
    BY DEF HttpInv, TypeOK
  <2> QED
    BY <2>1 DEF HttpInv, ServesInv, Serves
<1>2. \A r \in Requests : waiting'[c] = r => arrived'[r] = 0 /\ ~Ended(r)'
  BY DEF BodyKept, SameConnection, Ended, Arrivals
<1>3. op'[c] = "body" /\ packets'[c] # << >> =>
        Ec(c)' = "ok" \/ request'[req'[c]] # "held" \/ ~Fits(req'[c])
  BY <1>1 DEF BodyKept, SameConnection, Settles, Ec
<1>4. op'[c] = "send" => request'[req'[c]] # "held"
  BY <1>1 DEF BodyKept, SameConnection, Settles
<1> QED
  BY <1>2, <1>3, <1>4 DEF BodyKept

(* A request that stays held stays with its connection, unless that is the *)
(* one that moved.                                                         *)
LEMMA StaysServed ==
  ASSUME Kept, NEW c \in Connections, \A d \in Connections \ {c} : SameConnection(d),
         NEW q \in Requests, request[q] = "held", Fits(q), ~Serves(c, q) \/ Serves(c, q)'
  PROVE  \E d \in Connections : Serves(d, q)'
<1>1. PICK d \in Connections : Serves(d, q)
  BY DEF Kept, NoneForgotten
<1> QED
  BY <1>1, FrameServes

LEMMA NewConnectionKept ==
  ASSUME HttpInv, Kept, NEW c \in Free, NewConnectionAt(c),
         spawning' \in SUBSET Connections, started' \in BOOLEAN
  PROVE  Kept'
<1>1. c \in Connections /\ op[c] = "none" /\ waiting[c] = "nothing" /\ TypeOK
  BY DEF Free, HttpInv, OpInv, Expecting
<1>2. /\ UNCHANGED arrived /\ op'[c] = "receive"
      /\ \/ UNCHANGED waiting
         \/ waiting' = [waiting EXCEPT ![c] = "request"] /\ UNCHANGED request
            /\ \A r \in Requests : request[r] # "queued"
  BY <1>1 DEF NewConnectionAt, async_recieve_request, Await, TypeOK
<1>3. /\ \A d \in Connections \ {c} : SameConnection(d)
      /\ \/ UNCHANGED request /\ \A q \in Requests : ~Serves(c, q)'
         \/ \E r \in Requests :
              /\ request[r] = "queued"
              /\ request' = [request EXCEPT ![r] = "held"]
              /\ \A q \in Requests : Serves(c, q)' <=> q = r /\ r \notin Big
  BY NewConnectionStep
<1>4. \A q \in Requests : request'[q] = request[q] \/ (request[q] = "queued" /\ request'[q] = "held")
  BY <1>1, <1>3 DEF TypeOK, HttpSysTypeOK
<1>5. Settles
  BY <1>4 DEF Settles, Known
<1>6. ASSUME NEW d \in Connections PROVE BodyKept(d)'
  <2>1. CASE d = c
    <3>1. waiting'[c] \in {"nothing", "request"}
      BY <1>1, <1>2 DEF TypeOK, HttpSysTypeOK
    <3> QED
      BY <1>2, <2>1, <3>1, WaitAssumption DEF BodyKept
  <2>2. CASE d # c
    BY <1>2, <1>3, <1>5, <2>2, FrameKept DEF Kept
  <2> QED
    BY <2>1, <2>2
<1>7. ASSUME NEW q \in Requests, request'[q] = "queued", NEW d \in Connections
      PROVE  waiting'[d] # "request"
  BY <1>1, <1>2, <1>4, <1>7 DEF Kept, NoneForgotten
<1>8. ASSUME NEW q \in Requests, request'[q] = "held", Fits(q)
      PROVE  \E d \in Connections : Serves(d, q)'
  <2>1. CASE request[q] = "held"
    BY <1>1, <1>3, <1>8, <2>1, StaysServed, ServesFacts
  <2>2. CASE request[q] # "held"
    BY <1>1, <1>3, <1>8, <2>2 DEF TypeOK, HttpSysTypeOK, Fits
  <2> QED
    BY <2>1, <2>2
<1>9. NoneForgotten'
  BY <1>7, <1>8 DEF NoneForgotten, Fits
<1> QED
  BY <1>6, <1>9 DEF Kept

(* A connection goes with a request it need not keep.                      *)
LEMMA ReleaseKept ==
  ASSUME HttpInv, Kept, NEW c \in Connections, op[c] # "none", packets[c] # << >>, Release(c),
         \A q \in Requests : Serves(c, q) => request[q] # "held" \/ ~Fits(q)
  PROVE  Kept'
<1>1. /\ UNCHANGED <<request, arrived, waiting>> /\ op'[c] = "none" /\ TypeOK
      /\ \A d \in Connections \ {c} : SameConnection(d)
  BY ReleaseStep DEF Release, HttpInv, TypeOK
<1>2. ASSUME NEW d \in Connections PROVE BodyKept(d)'
  <2>1. CASE d = c
    BY <1>1, <2>1 DEF Kept, BodyKept, Ended, Arrivals
  <2>2. CASE d # c
    BY <1>1, <2>2, FrameKept DEF Kept, Settles
  <2> QED
    BY <2>1, <2>2
<1>3. ASSUME NEW q \in Requests, request[q] = "held", Fits(q)
      PROVE  \E d \in Connections : Serves(d, q)'
  BY <1>1, <1>3, StaysServed
<1>4. NoneForgotten'
  BY <1>1, <1>3 DEF Kept, NoneForgotten, Fits
<1> QED
  BY <1>2, <1>4 DEF Kept

LEMMA ReceiveHandlerKept ==
  ASSUME HttpInv, Kept, NEW c \in Connections, ReceiveHandler(c)
  PROVE  Kept'
<1>1. op[c] = "receive" /\ packets[c] # << >> /\ TypeOK
  BY DEF ReceiveHandler, Completed, HttpInv
<1>2. PICK x \in Completion :
        packets[c] = << x >> /\ Head(packets[c]) = x /\ ReceiveResult(x)
  BY <1>1, HandlerFacts
<1>3. CASE Ec(c) # "ok" /\ Release(c)
  <2>1. \A q \in Requests : ~Serves(c, q)
    BY <1>1, <1>2, <1>3, ServesFacts, NoRequestAssumption DEF Ec, ReceiveResult
  <2> QED
    BY <1>1, <1>3, <2>1, ReleaseKept
<1>4. CASE Ec(c) = "ok" /\ ~(Ec(c) # "ok" /\ Release(c))
  <2>1. PICK r \in Requests : x.req = r
    BY <1>2, <1>4 DEF Ec, ReceiveResult
  <2> DEFINE port == Taken(packets, c)
  <2>2. /\ op'[c] = "body" /\ req'[c] = r /\ \A d \in Connections \ {c} : op'[d] = op[d] /\ req'[d] = req[d]
        /\ async_recieve_body(c, r, port)
    BY <1>1, <1>2, <1>4, <2>1 DEF ReceiveHandler, TypeOK
  <2>3. port \in Port /\ waiting[c] = "nothing" /\ port[c] = << >>
        /\ \A d \in Connections \ {c} : port[d] = packets[d]
    BY <1>1, HandlerFacts DEF Ready
  <2> HIDE DEF port
  <2>4. \A d \in Connections \ {c} : SameConnection(d)
    BY <1>1, <2>2, <2>3, ReceiveBodyCall DEF Ready, OthersKeep, SameConnection
  <2>5. UNCHANGED <<request, arrived>>
    BY <2>2 DEF async_recieve_body
  <2>6. /\ \A q \in Requests : waiting'[c] = q => arrived[q] = 0 /\ ~Ended(q)
        /\ waiting'[c] # "request"
        /\ packets'[c] # << >> => Head(packets'[c]).ec = "ok" \/ request[r] # "held"
    <3>1. CASE /\ packets' = Posted(port, c, Result("ok", r, IF Size[r] = 0 THEN 0 ELSE 1))
               /\ UNCHANGED waiting
      <4>1. "ok" \in Error /\ r \in Requests \cup {NoRequest} /\ (IF Size[r] = 0 THEN 0 ELSE 1) \in Nat
        BY DEF Error
      <4>2. PICK y \in Completion : y = Result("ok", r, IF Size[r] = 0 THEN 0 ELSE 1) /\ y.ec = "ok"
        BY <4>1, ResultFacts
      <4>3. packets'[c] = << y >>
        BY <2>3, <3>1, <4>2, PostedFacts
      <4> QED
        BY <2>3, <3>1, <4>2, <4>3, OneResult, WaitAssumption
    <3>2. CASE arrived[r] = 0 /\ ~Ended(r) /\ packets' = port /\ Await(c, r)
      <4>1. waiting'[c] = r
        BY <1>1, <3>2 DEF Await, TypeOK, HttpSysTypeOK
      <4> QED
        BY <2>3, <3>2, <4>1, WaitAssumption
    <3>3. CASE request[r] # "held" /\ UNCHANGED waiting
      BY <2>3, <3>3, WaitAssumption
    <3> QED
      BY <2>2, <3>1, <3>2, <3>3 DEF async_recieve_body
  <2>7. ASSUME NEW d \in Connections PROVE BodyKept(d)'
    <3>1. CASE d = c
      BY <2>2, <2>5, <2>6, <3>1 DEF BodyKept, Ec, Ended, Arrivals
    <3>2. CASE d # c
      BY <2>4, <2>5, <3>2, FrameKept DEF Kept, Settles
    <3> QED
      BY <3>1, <3>2
  <2>8. NoneForgotten'
    <3>1. \A d \in Connections, q \in Requests : Serves(d, q)' <=> Serves(d, q)
      BY ReceiveHandlerStep
    <3> QED
      BY <2>4, <2>5, <2>6, <3>1 DEF Kept, NoneForgotten, SameConnection, Fits
  <2> QED
    BY <2>7, <2>8 DEF Kept
<1> QED
  BY <1>3, <1>4 DEF ReceiveHandler

LEMMA BodyHandlerKept ==
  ASSUME HttpInv, Kept, NEW c \in Connections, BodyHandler(c)
  PROVE  Kept'
<1>1. op[c] = "body" /\ packets[c] # << >> /\ TypeOK /\ req[c] \in Requests
  BY DEF BodyHandler, Completed, HttpInv, TypeOK
<1>2. CASE Ec(c) # "ok" /\ Release(c)
  <2>1. \A q \in Requests : Serves(c, q) => request[q] # "held" \/ ~Fits(q)
    BY <1>1, <1>2 DEF Kept, BodyKept, Serves
  <2> QED
    BY <1>1, <1>2, <2>1, ReleaseKept
<1>3. CASE Ec(c) = "ok" /\ ~(Ec(c) # "ok" /\ Release(c))
  <2>1. PICK r \in Requests : r = req[c]
    BY <1>1
  <2> DEFINE port == Taken(packets, c)
             answer == [req |-> r, len |-> Head(packets[c]).len]
  <2>2. /\ op' = [op EXCEPT ![c] = "send"] /\ UNCHANGED <<req, spawning, started>>
        /\ async_send_response(c, r, answer, port)
    BY <1>3, <2>1 DEF BodyHandler
  <2>3. Ready(c, port) /\ \A d \in Connections \ {c} : port[d] = packets[d]
    BY <1>1, HandlerFacts
  <2>4. /\ UNCHANGED <<arrived, waiting>>
        /\ \/ request[r] = "held" /\ request' = [request EXCEPT ![r] = "answered"]
           \/ request[r] # "held" /\ UNCHANGED request
        /\ \E e \in Error : packets' = Posted(port, c, Result(e, r, 0))
    BY <2>2 DEF async_send_response, Error
  <2> HIDE DEF port, answer
  <2>5. \A d \in Connections \ {c} : packets'[d] = packets[d]
    <3>1. PICK e \in Error : packets' = Posted(port, c, Result(e, r, 0))
      BY <2>4
    <3>2. Result(e, r, 0) \in Completion
      BY ResultFacts
    <3> QED
      BY <2>3, <3>1, <3>2, PostedFacts DEF Ready
  <2>6. /\ op'[c] = "send" /\ req'[c] = r /\ \A d \in Connections \ {c} : SameConnection(d)
        /\ request'[r] # "held"
        /\ \A q \in Requests : q # r => request'[q] = request[q]
    BY <1>1, <2>1, <2>2, <2>4, <2>5 DEF SameConnection, TypeOK, HttpSysTypeOK
  <2>7. ASSUME NEW d \in Connections PROVE BodyKept(d)'
    <3>1. CASE d = c
      BY <2>3, <2>4, <2>6, <3>1, WaitAssumption DEF Ready, BodyKept
    <3>2. CASE d # c
      BY <2>4, <2>6, <3>2, FrameKept DEF Kept, Settles
    <3> QED
      BY <3>1, <3>2
  <2>8. ASSUME NEW q \in Requests, request'[q] = "held", Fits(q)
        PROVE  \E d \in Connections : Serves(d, q)'
    <3>1. q # r /\ request[q] = "held"
      BY <2>6, <2>8
    <3>2. ~Serves(c, q)
      BY <1>1, <2>1, <3>1 DEF Serves
    <3> QED
      BY <2>6, <2>8, <3>1, <3>2, StaysServed
  <2>9. NoneForgotten'
    <3>1. \A q \in Requests : request'[q] = "queued" => request[q] = "queued"
      BY <1>1, <2>4 DEF TypeOK, HttpSysTypeOK
    <3> QED
      BY <2>4, <2>8, <3>1 DEF Kept, NoneForgotten, Fits
  <2> QED
    BY <2>7, <2>9 DEF Kept
<1> QED
  BY <1>2, <1>3 DEF BodyHandler

LEMMA SendHandlerKept ==
  ASSUME HttpInv, Kept, NEW c \in Connections, SendHandler(c)
  PROVE  Kept'
BY ReleaseKept DEF SendHandler, Completed, Kept, BodyKept, Serves

LEMMA ArriveKept ==
  ASSUME HttpInv, Kept, NEW r \in Requests, Arrive(r), UNCHANGED connVars
  PROVE  Kept'
<1>1. /\ TypeOK /\ request[r] = "absent" /\ UNCHANGED <<arrived, op, req>>
      /\ \A q \in Requests : q # r => request'[q] = request[q]
  BY DEF Arrive, connVars, HttpInv, TypeOK, HttpSysTypeOK
<1>2. Settles
  BY <1>1 DEF Settles, Known
<1>3. CASE /\ \A c \in Connections : waiting[c] # "request"
           /\ request' = [request EXCEPT ![r] = "queued"] /\ UNCHANGED <<waiting, packets>>
  <2>1. \A c \in Connections : SameConnection(c)
    BY <1>1, <1>3 DEF SameConnection
  <2>2. \A c \in Connections : BodyKept(c)'
    BY <1>1, <1>2, <2>1, FrameKept DEF Kept
  <2>3. \A q \in Requests : request'[q] = "held" => request[q] = "held"
    BY <1>1, <1>3 DEF TypeOK, HttpSysTypeOK
  <2>4. NoneForgotten'
    BY <1>3, <2>1, <2>3, FrameServes DEF Kept, NoneForgotten, Fits
  <2> QED
    BY <2>2, <2>4 DEF Kept
<1>4. ASSUME NEW c \in Connections, waiting[c] = "request", Await(c, "nothing"),
             packets' = Posted(packets, c, Received(r)),
             request' = [request EXCEPT ![r] = "held"]
      PROVE  Kept'
  <2>1. op[c] = "receive" /\ packets[c] = << >> /\ packets \in Port
    BY <1>1, <1>4, WaitFacts DEF TypeOK, HttpSysTypeOK, Port
  <2>2. Received(r) \in Completion /\ (r \notin Big => Received(r).req = r)
    BY DEF Received, Result, Completion, Error
  <2>3. /\ packets'[c] = << Received(r) >>
        /\ \A d \in Connections \ {c} : packets'[d] = packets[d]
    BY <1>4, <2>1, <2>2, PostedFacts
  <2>4. /\ waiting'[c] = "nothing" /\ request'[r] = "held"
        /\ \A d \in Connections \ {c} : SameConnection(d)
    BY <1>1, <1>4, <2>3 DEF SameConnection, Await, TypeOK, HttpSysTypeOK
  <2>5. ASSUME NEW d \in Connections PROVE BodyKept(d)'
    <3>1. CASE d = c
      BY <1>1, <2>1, <2>4, <3>1, WaitAssumption DEF BodyKept
    <3>2. CASE d # c
      BY <1>1, <1>2, <2>4, <3>2, FrameKept DEF Kept
    <3> QED
      BY <3>1, <3>2
  <2>6. r \notin Big => Serves(c, r)'
    BY <1>1, <2>1, <2>2, <2>3, OneResult DEF Serves
  <2>7. ASSUME NEW q \in Requests, request'[q] = "held", Fits(q)
        PROVE  \E d \in Connections : Serves(d, q)'
    <3>1. CASE q = r
      BY <2>6, <2>7, <3>1 DEF Fits
    <3>2. CASE q # r
      BY <1>1, <2>1, <2>4, <2>7, <3>2, StaysServed, ServesFacts
    <3> QED
      BY <3>1, <3>2
  <2>8. \A q \in Requests : request'[q] # "queued"
    BY <1>1, <1>4, <2>4 DEF Kept, NoneForgotten
  <2>9. NoneForgotten'
    BY <2>7, <2>8 DEF NoneForgotten, Fits
  <2> QED
    BY <2>5, <2>9 DEF Kept
<1> QED
  BY <1>3, <1>4 DEF Arrive

(* The reads of a body end with an error only if there is nothing to read, *)
(* or the client has left.                                                 *)
LEMMA WakeKept ==
  ASSUME HttpInv, Kept, NEW r \in Requests, NEW x \in Completion, Wake(r, x), UNCHANGED connVars,
         \A c \in Connections, q \in Requests : Serves(c, q)' <=> Serves(c, q),
         \A q \in Requests : request'[q] \in {"queued", "held"} => request'[q] = request[q],
         \A q \in Requests : q # r => arrived'[q] = arrived[q],
         arrived[r] = 0 /\ ~Ended(r) => x.ec = "ok" \/ request'[r] # "held" \/ ~Fits(r)
  PROVE  Kept'
<1>1. UNCHANGED <<op, req>>
  BY DEF connVars
<1>2. ASSUME NEW c \in Connections PROVE BodyKept(c)'
  <2>1. CASE waiting[c] = r
    <3>1. /\ op[c] = "body" /\ req[c] = r /\ waiting'[c] = "nothing" /\ packets'[c] = << x >>
      BY <2>1, WaitFacts, OneResult DEF Wake
    <3>2. arrived[r] = 0 /\ ~Ended(r)
      BY <2>1 DEF Kept, BodyKept
    <3>3. Ec(c)' = x.ec
      BY <3>1, OneResult DEF Ec
    <3> QED
      BY <1>1, <3>1, <3>2, <3>3, WaitAssumption DEF BodyKept
  <2>2. CASE waiting[c] # r
    <3>1. SameConnection(c)
      BY <1>1, <2>2 DEF Wake, SameConnection
    <3> QED
      BY <2>2, <3>1, FrameKept DEF Kept, Settles
  <2> QED
    BY <2>1, <2>2
<1>3. \A c \in Connections : waiting'[c] = "request" => waiting[c] = "request"
  BY DEF Wake
<1>4. NoneForgotten'
  BY <1>3 DEF Kept, NoneForgotten, Fits
<1> QED
  BY <1>2, <1>4 DEF Kept

LEMMA BodyArrivesKept ==
  ASSUME HttpInv, Kept, NEW r \in Requests, BodyArrives(r), UNCHANGED connVars
  PROVE  Kept'
<1> DEFINE x == IF arrived[r] < Size[r] THEN Result("ok", r, 1) ELSE Result("eof", r, 0)
<1>1. /\ Wake(r, x) /\ UNCHANGED request
      /\ \A q \in Requests : q # r => arrived'[q] = arrived[q]
      /\ \A c \in Connections, q \in Requests : Serves(c, q)' <=> Serves(c, q)
  BY BodyArrivesStep DEF BodyArrives, HttpInv, TypeOK, HttpSysTypeOK
<1>2. /\ x \in Completion
      /\ arrived[r] < Size[r] => x.ec = "ok"
  <2>1. {"ok", "eof"} \subseteq Error /\ r \in Requests \cup {NoRequest} /\ {0, 1} \subseteq Nat
    BY DEF Error
  <2> QED
    BY <2>1, ResultFacts
<1>3. arrived[r] = 0 /\ ~Ended(r) /\ ~(arrived[r] < Size[r]) => ~Fits(r)
  BY SizeAssumption DEF Fits, Ended, Arrivals
<1> HIDE DEF x
<1> QED
  BY <1>1, <1>2, <1>3, WakeKept

LEMMA AbortKept ==
  ASSUME HttpInv, Kept, NEW r \in Requests, Abort(r), UNCHANGED connVars
  PROVE  Kept'
<1>1. /\ Wake(r, Result("gone", r, 0)) /\ UNCHANGED arrived
      /\ request'[r] = "aborted" /\ \A q \in Requests : q # r => request'[q] = request[q]
      /\ \A c \in Connections, q \in Requests : Serves(c, q)' <=> Serves(c, q)
  BY AbortStep DEF Abort, HttpInv, TypeOK, HttpSysTypeOK
<1>2. Result("gone", r, 0) \in Completion
  <2>1. "gone" \in Error /\ r \in Requests \cup {NoRequest} /\ 0 \in Nat
    BY DEF Error
  <2> QED
    BY <2>1, ResultFacts
<1> QED
  BY <1>1, <1>2, WakeKept

LEMMA NextKept == HttpInv /\ Kept /\ [Next]_vars => Kept'
<1> SUFFICES ASSUME HttpInv, Kept, [Next]_vars PROVE Kept'
  OBVIOUS
<1>1. CASE OpenQueue \/ UNCHANGED vars
  <2>1. UNCHANGED <<request, arrived, waiting, packets, op, req>>
    BY <1>1 DEF OpenQueue, vars, httpSysVars, connVars
  <2>2. \A c \in Connections : SameConnection(c)
    BY <2>1 DEF SameConnection
  <2>3. \A c \in Connections : BodyKept(c)'
    BY <2>1, <2>2, FrameKept DEF Kept, Settles
  <2>4. NoneForgotten'
    BY <2>1, <2>2, FrameServes DEF Kept, NoneForgotten, Fits
  <2> QED
    BY <2>3, <2>4 DEF Kept
<1>2. CASE Start \/ \E c \in Connections : StartNext(c)
  <2>1. PICK c \in Free : NewConnectionAt(c)
    BY <1>2, TakesFree DEF Start, StartNext
  <2>2. spawning' \in SUBSET Connections /\ started' \in BOOLEAN
    BY <1>2 DEF Start, StartNext, HttpInv, TypeOK
  <2> QED
    BY <2>1, <2>2, NewConnectionKept
<1>3. CASE \E c \in Connections : ReceiveHandler(c) \/ BodyHandler(c) \/ SendHandler(c)
  BY <1>3, ReceiveHandlerKept, BodyHandlerKept, SendHandlerKept
<1>4. CASE \E r \in Requests : Client(r) /\ UNCHANGED connVars
  BY <1>4, ArriveKept, BodyArrivesKept, AbortKept DEF Client
<1>5. CASE Shutdown
  <2>1. /\ \A q \in Requests : request'[q] \notin {"queued", "held"}
        /\ \A c \in Connections : op'[c] = "none" /\ waiting'[c] = "nothing"
    BY <1>5 DEF Shutdown, CloseQueue
  <2> QED
    BY <2>1, WaitAssumption DEF Kept, NoneForgotten, BodyKept
<1> QED
  BY <1>1, <1>2, <1>3, <1>4, <1>5 DEF Next, Handler

-----------------------------------------------------------------------------
(* The theorems.                                                           *)

(* In every reachable state each connection has what its operation is      *)
(* about, each request has one connection and one answer at most, and the  *)
(* chain of connections has one end.                                       *)
THEOREM HttpInvariance == Spec => []HttpInv
  BY InitHttpInv, NextHttpInv, PTL DEF Spec

(* The variables keep their types, and a connection that reads a body or   *)
(* answers knows its request.                                              *)
THEOREM HttpTypeCorrect == Spec => []TypeOK
<1>1. HttpInv => TypeOK
  BY DEF HttpInv
<1> QED
  BY <1>1, HttpInvariance, PTL

(* Each OVERLAPPED is completed once, by the kernel or by the program, and *)
(* only while its connection lives.                                        *)
THEOREM HttpCompletesOnce == Spec => []CompletesOnce
<1>1. ASSUME HttpInv, NEW c \in Connections
      PROVE  Len(packets[c]) + (IF waiting[c] = "nothing" THEN 0 ELSE 1)
               = (IF op[c] = "none" THEN 0 ELSE 1)
  <2>1. OpInv(c) /\ op[c] \in Operation /\ "request" # "nothing"
    BY <1>1 DEF HttpInv, TypeOK
  <2>2. \A r \in Requests : r # "nothing"
    BY WaitAssumption
  <2>3. Expecting(c, "nothing") => Len(packets[c]) = 0 /\ waiting[c] = "nothing"
    BY DEF Expecting
  <2>4. ASSUME NEW x \in Completion, Holding(c, x)
        PROVE  Len(packets[c]) = 1 /\ waiting[c] = "nothing"
    BY <2>4, OneResult DEF Holding
  <2>5. ASSUME NEW w, Expecting(c, w), w # "nothing"
        PROVE  Len(packets[c]) = 0 /\ waiting[c] # "nothing"
    BY <2>5 DEF Expecting
  <2> DEFINE n == Len(packets[c])
  <2>6. /\ op[c] = "none" => n = 0 /\ waiting[c] = "nothing"
        /\ op[c] # "none" =>
             \/ n = 1 /\ waiting[c] = "nothing"
             \/ n = 0 /\ waiting[c] # "nothing"
    <3>1. op[c] = "none" => Expecting(c, "nothing")
      BY <2>1 DEF OpInv
    <3>2. op[c] # "none" =>
            \/ Expecting(c, "request")
            \/ \E r \in Requests : Expecting(c, r)
            \/ \E x \in Completion : Holding(c, x)
      BY <2>1 DEF OpInv, Receiving, Reading, Sending, Operation
    <3> QED
      BY <2>1, <2>2, <2>3, <2>4, <2>5, <3>1, <3>2
  <2> HIDE DEF n
  <2>7. n + (IF waiting[c] = "nothing" THEN 0 ELSE 1) = (IF op[c] = "none" THEN 0 ELSE 1)
    BY <2>6
  <2> QED
    BY <2>7 DEF n
<1>2. HttpInv => CompletesOnce
  BY <1>1 DEF CompletesOnce
<1> QED
  BY <1>2, HttpInvariance, PTL

(* While the server runs exactly one connection receives or is about to be *)
(* started, unless a request too big for its buffer has come.              *)
THEOREM OneReceiverOnly == Spec => []OneReceiver
<1>1. Cardinality({}) = 0 /\ \A c : Cardinality({c}) = 1
  BY FS_EmptySet, FS_Singleton
<1>2. (\A r \in Big : request[r] \in {"absent", "queued"}) => ~TooBigCame
  BY DEF TooBigCame, Known
<1>3. ASSUME ChainInv PROVE OneReceiver
  <2>1. CASE Receivers = {} /\ spawning = {}
    <3>1. Cardinality(Receivers) = 0 /\ Cardinality(spawning) = 0
      BY <1>1, <2>1
    <3> QED
      BY <1>2, <1>3, <2>1, <3>1 DEF ChainInv, OneReceiver
  <2>2. CASE Receivers = {} /\ \E c \in Connections : spawning = {c}
    <3>1. Cardinality(Receivers) = 0 /\ Cardinality(spawning) = 1
      BY <1>1, <2>2
    <3> QED
      BY <3>1 DEF OneReceiver
  <2>3. CASE spawning = {} /\ \E c \in Connections : Receivers = {c}
    <3>1. Cardinality(Receivers) = 1 /\ Cardinality(spawning) = 0
      BY <1>1, <2>3
    <3> QED
      BY <3>1 DEF OneReceiver
  <2> QED
    BY <1>3, <2>1, <2>2, <2>3 DEF ChainInv
<1>4. HttpInv => OneReceiver
  BY <1>3 DEF HttpInv
<1> QED
  BY <1>4, HttpInvariance, PTL

(* A client is answered once at most, from its own request and from no     *)
(* more of its body than had arrived.                                      *)
THEOREM HttpAnswers == Spec => []AnsweredFromOwnRequest
<1>1. ASSUME HttpInv, NEW r \in Requests
      PROVE  /\ Len(answers[r]) <= 1
             /\ \A i \in DOMAIN answers[r] :
                  answers[r][i].req = r /\ answers[r][i].len <= arrived[r]
  <2>1. AnswerInv(r)
    BY <1>1 DEF HttpInv
  <2>2. CASE answers[r] = << >>
    BY <2>2
  <2>3. CASE \E a \in Answer : answers[r] = << a >> /\ a.req = r /\ a.len <= arrived[r]
    BY <2>3
  <2> QED
    BY <2>1, <2>2, <2>3 DEF AnswerInv
<1>2. HttpInv => AnsweredFromOwnRequest
  BY <1>1 DEF AnsweredFromOwnRequest
<1> QED
  BY <1>2, HttpInvariance, PTL

(* No request is forgotten: none is queued while a connection waits, and   *)
(* none whose headers fit and whose body can be ended loses its connection *)
(* before it is answered or its client leaves.                             *)
THEOREM HttpForgetsNone == Spec => []NoneForgotten
<1>1. Kept => NoneForgotten
  BY DEF Kept
<1> QED
  BY <1>1, InitKept, NextKept, HttpInvariance, PTL DEF Spec
=============================================================================
